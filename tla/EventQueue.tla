----------------------------- MODULE EventQueue -----------------------------
(***************************************************************************)
(* queue.cpp and events.cpp: the timers of the game loop.  A priority      *)
(* queue is spread over NQ doubly linked lists ("buckets"); an element     *)
(* with key k lives in bucket k % NQ, each bucket is kept sorted by a scan *)
(* from its tail, and event_process() looks only at the bucket of the      *)
(* current pulse.  The game loop increments pulse and then calls           *)
(* event_process(), which runs callbacks until the head of that bucket is  *)
(* no longer due; a callback, and any command run between two pulses, may  *)
(* create and cancel events.                                               *)
(***************************************************************************)
EXTENDS Integers, Sequences

CONSTANTS
    NQ,         \* NUM_EVENT_QUEUES (10 in the code)
    Event,      \* addresses malloc can return for a struct event
    NoEvent,    \* no event is being processed
    Delay,      \* the values callers pass as the "when" of event_create
    MaxPulse    \* bound: pulse never exceeds it and nothing is armed beyond it

ASSUME NQAssumption == NQ \in Nat \ {0}
ASSUME EventAssumption == NoEvent \notin Event
ASSUME DelayAssumption == Delay \subseteq Int
ASSUME BoundAssumption == MaxPulse \in Nat

VARIABLES
    pulse,      \* comm.cpp's pulse
    bucket,     \* event_q: bucket number -> sequence of elements, head first
    control,    \* "game": outside event_process; "loop": at its while test;
                \* "callback": inside (the_event->func)()
    running     \* the event whose callback runs, still allocated

vars == <<pulse, bucket, control, running>>

Bucket == 0 .. NQ - 1
Element == [data : Event, key : Nat]

\* The elements of the whole queue and the events they carry.
Elements == UNION {{bucket[b][i] : i \in DOMAIN bucket[b]} : b \in Bucket}
Queued == {x.data : x \in Elements}
-----------------------------------------------------------------------------
(* queue.cpp *)

\* The scan of queue_enq: the last position whose key is smaller than k,
\* 0 when the new element goes to the front.
InsertPointAtTail(s, k) == Len(s)     \* fault: no scan, always append
InsertPoint(s, k) ==
    CHOOSE p \in 0 .. Len(s) :
        /\ p = 0 \/ s[p].key < k
        /\ \A i \in 1 .. Len(s) : i > p => ~(s[i].key < k)

\* The list s with x linked in after position p.
LinkAfter(s, p, x) ==
    [i \in 1 .. Len(s) + 1 |->
        IF i <= p THEN s[i] ELSE IF i = p + 1 THEN x ELSE s[i - 1]]

\* The list s with its i-th element unlinked and freed.
Unlink(s, i) ==
    [j \in 1 .. Len(s) - 1 |-> IF j < i THEN s[j] ELSE s[j + 1]]

QueueEnq(e, k) ==
    LET b == k % NQ
    IN  bucket' = [bucket EXCEPT ![b] =
            LinkAfter(@, InsertPoint(@, k), [data |-> e, key |-> k])]

QueueDeq(b, i) == bucket' = [bucket EXCEPT ![b] = Unlink(@, i)]

\* pulse >= queue_key(event_q): the head of the current bucket is due; an
\* empty bucket answers LONG_MAX.
Current == pulse % NQ
HeadExists == bucket[Current] # << >>  \* fault: the key is not compared
HeadIsDue ==
    /\ bucket[Current] # << >>
    /\ bucket[Current][1].key <= pulse
-----------------------------------------------------------------------------
(* events.cpp and the loop that calls it *)

Init ==
    /\ pulse = 0
    /\ bucket = [b \in Bucket |-> << >>]
    /\ control = "game"
    /\ running = NoEvent

\* "make sure its in the future"
FutureUnclamped(when) == when          \* fault: no clamp
Future(when) == IF when < 1 THEN 1 ELSE when

\* event_create: from a command between two pulses, or from a callback.
EventCreate(e, when) ==
    /\ control # "loop"
    /\ e \notin Queued \cup {running}       \* CREATE returns unused memory
    /\ pulse + Future(when) <= MaxPulse
    /\ QueueEnq(e, pulse + Future(when))
    /\ UNCHANGED <<pulse, control, running>>

\* event_cancel: the caller owns a pointer to a queued event.
EventCancel(e) ==
    /\ control # "loop"
    /\ \E b \in Bucket : \E i \in DOMAIN bucket[b] :
            /\ bucket[b][i].data = e
            /\ QueueDeq(b, i)
    /\ UNCHANGED <<pulse, control, running>>

\* The heartbeat: pulse++ and the call of event_process.
Heartbeat ==
    /\ control = "game"
    /\ pulse < MaxPulse
    /\ pulse' = pulse + 1
    /\ control' = "loop"
    /\ UNCHANGED <<bucket, running>>

\* fault: the head is read but not removed
EventProcessPeek ==
    /\ control = "loop"
    /\ HeadIsDue
    /\ running' = bucket[Current][1].data
    /\ control' = "callback"
    /\ UNCHANGED <<pulse, bucket>>

\* One iteration of event_process: queue_head takes the head off the bucket
\* and its callback is entered.
EventProcess ==
    /\ control = "loop"
    /\ HeadIsDue
    /\ running' = bucket[Current][1].data
    /\ QueueDeq(Current, 1)
    /\ control' = "callback"
    /\ UNCHANGED pulse

\* The callback returns and its event is freed.
CallbackReturns ==
    /\ control = "callback"
    /\ control' = "loop"
    /\ running' = NoEvent
    /\ UNCHANGED <<pulse, bucket>>

EventProcessReturns ==
    /\ control = "loop"
    /\ ~HeadIsDue
    /\ control' = "game"
    /\ UNCHANGED <<pulse, bucket, running>>

Loop == Heartbeat \/ EventProcess \/ CallbackReturns \/ EventProcessReturns

Next ==
    \/ \E e \in Event : EventCancel(e) \/ \E when \in Delay : EventCreate(e, when)
    \/ Loop

\* The game loop is a single thread that never waits for a player: each of
\* its control steps is eventually taken.
Fairness == WF_vars(Loop)

Spec == Init /\ [][Next]_vars
FairSpec == Spec /\ Fairness
-----------------------------------------------------------------------------
(* Properties *)

TypeOK ==
    /\ pulse \in 0 .. MaxPulse
    /\ bucket \in [Bucket -> Seq(Element)]
    /\ control \in {"game", "loop", "callback"}
    /\ running \in Event \cup {NoEvent}

\* event_process leaves nothing behind that was due: between two pulses every
\* queued key lies in the future, although only one bucket in NQ was looked
\* at (queue_key, queue_head).
NothingOverdue == control = "game" => \A x \in Elements : x.key > pulse

\* A callback is entered in the pulse its event was armed for, neither before
\* nor after (event_process takes heads with key <= pulse).
FiresOnTime ==
    [][control' = "callback" /\ control = "loop"
          => \E x \in Elements : x.data = running' /\ x.key = pulse]_vars

\* The event whose callback runs has left the queue: its callback cannot cancel
\* it, and the free() after the callback (event_process) is the only one.
RunningIsNotQueued ==
    \A b \in Bucket : \A i \in DOMAIN bucket[b] : bucket[b][i].data # running

\* Every armed event is eventually run or cancelled, whatever else is armed
\* in the meantime.
EveryEventLeaves == \A e \in Event : e \in Queued ~> e \notin Queued

\* The queue implements the abstract timer service.
KeyOf(e) == (CHOOSE x \in Elements : x.data = e).key
Timers == INSTANCE TimerService WITH Time <- 0 .. MaxPulse,
                                     now <- pulse,
                                     due <- [e \in Queued |-> KeyOf(e)]
ImplementsTimers == Timers!TSpec

\* What makes NothingOverdue inductive.  An element sits in the bucket of its
\* key, so the elements due now share one bucket; that bucket is sorted, so
\* its head answers for all of them; and no key is in the past.
KeysInTheirBucket ==
    \A b \in Bucket : \A i \in DOMAIN bucket[b] : bucket[b][i].key % NQ = b

BucketsSorted ==
    \A b \in Bucket : \A i, j \in DOMAIN bucket[b] :
        i < j => bucket[b][i].key <= bucket[b][j].key

NoKeyInThePast ==
    \A b \in Bucket : \A i \in DOMAIN bucket[b] :
        /\ bucket[b][i].key >= pulse
        /\ control = "game" => bucket[b][i].key > pulse

\* An event is in the queue at most once.
QueuedOnce ==
    \A b, c \in Bucket : \A i \in DOMAIN bucket[b], j \in DOMAIN bucket[c] :
        bucket[b][i].data = bucket[c][j].data => b = c /\ i = j

IndInv ==
    /\ TypeOK
    /\ KeysInTheirBucket
    /\ BucketsSorted
    /\ NoKeyInThePast
    /\ RunningIsNotQueued
    /\ QueuedOnce
=============================================================================
