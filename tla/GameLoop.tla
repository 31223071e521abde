------------------------------ MODULE GameLoop ------------------------------
(***************************************************************************)
(* The passes of comm.cpp's game_loop over the descriptor list.  Each turn *)
(* of the loop accepts connections, closes those with exceptions, reads    *)
(* input, lets every descriptor's input be processed, writes output and    *)
(* does the work of the clock.  Every pass remembers the next descriptor   *)
(* before it works on the current one; while input is processed a handler  *)
(* may close any descriptor, the next one included, so that pass keeps its *)
(* next descriptor in the global next_to_process, which close_socket moves *)
(* on.                                                                     *)
(***************************************************************************)
EXTENDS Integers, Sequences

CONSTANTS Desc,             \* addresses of descriptors
          Null              \* the null pointer

ASSUME NullAssumption == Null \notin Desc

VARIABLES
    list,           \* descriptor_list, head first
    pass,           \* which loop of game_loop runs
    point,          \* its current descriptor
    stage,          \* where the body of the loop is for it: "fetch" the next
                    \* one, in the middle, or in a handler
    next            \* next_point, or next_to_process while processing

vars == <<list, pass, point, stage, next>>

Pass == {"accept", "exceptions", "input", "process", "output", "clock"}
Stage == {"fetch", "work", "wait", "handler"}

\* The passes in which only the current descriptor can be closed.
Transfer == {"exceptions", "input", "output"}

After(p) == CASE p = "accept" -> "exceptions"
              [] p = "exceptions" -> "input"
              [] p = "input" -> "process"
              [] p = "process" -> "output"
              [] p = "output" -> "clock"
              [] p = "clock" -> "accept"

Members(s) == {s[i] : i \in DOMAIN s}
Position(s, d) == CHOOSE i \in DOMAIN s : s[i] = d
HeadOf(s) == IF s = << >> THEN Null ELSE s[1]

\* d->next; what freed memory answers is taken to be null.
NextOf(s, d) ==
    IF d \in Members(s) /\ Position(s, d) < Len(s) THEN s[Position(s, d) + 1]
    ELSE Null

\* The list with d unlinked.
Without(s, d) ==
    IF d \notin Members(s) THEN s
    ELSE [i \in 1 .. Len(s) - 1 |-> IF i < Position(s, d) THEN s[i] ELSE s[i + 1]]

\* The lists that are s without some of its members.
Increasing(f, n) == \A i, j \in 1 .. n : i < j => f[i] < f[j]
Thinned(s) ==
    UNION {{[i \in 1 .. n |-> s[f[i]]] :
                f \in {g \in [1 .. n -> 1 .. Len(s)] : Increasing(g, n)}} :
           n \in 0 .. Len(s)}

Prepend(s, d) == [i \in 1 .. Len(s) + 1 |-> IF i = 1 THEN d ELSE s[i - 1]]
-----------------------------------------------------------------------------
Init ==
    /\ list = << >>
    /\ pass = "accept"
    /\ point = Null
    /\ stage = "fetch"
    /\ next = Null

\* new_descriptor, once in a turn: near MAX_CONNECTS it drops descriptors that
\* have no character yet, at the limit it turns the newcomer away, else it
\* prepends it.
NewDescriptor(d) ==
    /\ pass = "accept"
    /\ d \notin Members(list)
    /\ \E stay \in Thinned(list) : list' = stay \/ list' = Prepend(stay, d)
    /\ pass' = After(pass)
    /\ point' = HeadOf(list')
    /\ UNCHANGED <<stage, next>>

\* close_socket: next_to_process leaves the closed descriptor, then it is
\* unlinked and deleted.
CloseSocketOnly(d) == list' = Without(list, d) /\ UNCHANGED next    \* fault
CloseSocket(d) ==
    /\ list' = Without(list, d)
    /\ next' = IF pass = "process" /\ next = d THEN NextOf(list, d) ELSE next

\* A pass ends, or one without a list begins: on to the next one.
NextPass ==
    /\ stage = "fetch" /\ point = Null
    /\ pass' = After(pass)
    /\ point' = IF pass' \in Transfer \cup {"process"} THEN HeadOf(list) ELSE Null
    /\ UNCHANGED <<list, stage, next>>

\* next_point = point->next (next_to_process in the processing pass).
Fetch ==
    /\ stage = "fetch" /\ point # Null
    /\ next' = NextOf(list, point)
    /\ stage' = "work"
    /\ UNCHANGED <<list, pass, point>>

\* point = next_point.
AdvanceFromHead ==                         \* fault: a handler restarts the pass
    /\ point' = IF stage = "handler" THEN HeadOf(list) ELSE next
    /\ stage' = "fetch"
Advance == point' = next /\ stage' = "fetch"

\* Reading, writing or clearing an exception of one descriptor; a failure
\* closes it.
TransferOne ==
    /\ pass \in Transfer /\ stage = "work"
    /\ list' = list \/ list' = Without(list, point)
    /\ Advance
    /\ UNCHANGED <<pass, next>>

\* The idle test of the processing pass: a connection that has waited too
\* long in the login states is closed, and the body of the loop goes on.
CheckIdleEverywhere ==                     \* fault: in every pass
    /\ stage = "work"
    /\ CloseSocket(point) \/ UNCHANGED <<list, next>>
    /\ stage' = "wait"
    /\ UNCHANGED <<pass, point>>
CheckIdle ==
    /\ pass = "process" /\ stage = "work"
    /\ CloseSocket(point) \/ UNCHANGED <<list, next>>
    /\ stage' = "wait"
    /\ UNCHANGED <<pass, point>>

\* point->wait-- and get_from_q: no input, or a handler is called.  A closed
\* descriptor has had its queue flushed.
NoInput ==
    /\ stage = "wait"
    /\ Advance
    /\ UNCHANGED <<list, pass, next>>

TakeInput ==
    /\ stage = "wait"
    /\ point \in Members(list)
    /\ stage' = "handler"
    /\ UNCHANGED <<list, pass, point, next>>

\* A handler closes a socket: its own (quit, a wrong password), or another
\* (con_pwdok for the same player, disconnect, purge, forcerent).
HandlerCloses(d) ==
    /\ stage = "handler"
    /\ d \in Members(list)
    /\ CloseSocket(d)
    /\ UNCHANGED <<pass, point, stage>>

HandlerReturns ==
    /\ stage = "handler"
    /\ Advance
    /\ UNCHANGED <<list, pass, next>>

\* check_idling closes the link of a character it rents.
ClockCloses(d) ==
    /\ pass = "clock"
    /\ d \in Members(list)
    /\ CloseSocket(d)
    /\ UNCHANGED <<pass, point, stage>>

Loop == \/ NextPass \/ Fetch \/ TransferOne \/ CheckIdle
        \/ NoInput \/ TakeInput \/ HandlerReturns

Next == \/ Loop
        \/ \E d \in Desc : NewDescriptor(d) \/ HandlerCloses(d) \/ ClockCloses(d)

Spec == Init /\ [][Next]_vars

\* The loop never waits for the network (select polls), and handlers return.
FairSpec == Spec /\ WF_vars(Loop)
-----------------------------------------------------------------------------
TypeOK ==
    /\ list \in Seq(Desc)
    /\ pass \in Pass
    /\ point \in Desc \cup {Null}
    /\ stage \in Stage
    /\ next \in Desc \cup {Null}
    /\ stage \in {"wait", "handler"} => pass = "process"

\* What a pass goes on to is in the list, whatever was closed since it was
\* remembered: "to avoid crashing the process loop" (close_socket).
NextIsLive ==
    /\ stage = "fetch" => point \in Members(list) \cup {Null}
    /\ stage # "fetch" => next \in Members(list) \cup {Null}

\* The rest of a list, from d on.
From(s, d) == IF d \notin Members(s) THEN {}
              ELSE {s[i] : i \in Position(s, d) .. Len(s)}

\* The loop implements rounds of service: nobody is skipped and nobody is
\* served twice in a pass.
Waiting == IF pass # "process" THEN {}
           ELSE From(list, IF stage = "fetch" THEN point ELSE next)
Rounds == INSTANCE ServiceRounds WITH open <- Members(list), waiting <- Waiting
ImplementsRounds == Rounds!SSpec

\* Everybody's turn comes, or they are closed before it.
EveryoneIsServed == \A d \in Desc : d \in Waiting ~> d \notin Waiting

\* The descriptor whose wait and input the loop is about to read exists.
PointIsLive == stage = "wait" => point \in Members(list)
\* What makes NextIsLive inductive: the list has no repetitions, the current
\* descriptor is still there when the work on it begins, and what was fetched
\* with it is its neighbour.
Distinct(s) == \A i, j \in DOMAIN s : s[i] = s[j] => i = j

FetchedIsNeighbour ==
    stage = "work" => point \in Members(list) /\ next = NextOf(list, point)

IdleBetweenWalks ==
    pass \in {"accept", "clock"} => stage = "fetch" /\ point = Null

IndInv ==
    /\ TypeOK
    /\ Distinct(list)
    /\ NextIsLive
    /\ FetchedIsNeighbour
    /\ IdleBetweenWalks
=============================================================================
