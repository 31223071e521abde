--------------------------- MODULE GameLoopProofs ---------------------------
(***************************************************************************)
(* GameLoop for every set of descriptors: no pass goes on to a descriptor  *)
(* that was closed, and the passes implement rounds of service.            *)
(***************************************************************************)
EXTENDS GameLoop, TLAPS

\* A member of the list stands at its position.
LEMMA PositionProps ==
    ASSUME NEW s \in Seq(Desc), NEW d \in Members(s)
    PROVE  /\ Position(s, d) \in 1 .. Len(s)
           /\ s[Position(s, d)] = d
<1>1. \E i \in DOMAIN s : s[i] = d
  BY DEF Members
<1> QED
  BY <1>1 DEF Position

\* In a list without repetitions it stands nowhere else.
LEMMA PositionUnique ==
    ASSUME NEW s \in Seq(Desc), Distinct(s), NEW i \in 1 .. Len(s)
    PROVE  s[i] \in Members(s) /\ Position(s, s[i]) = i
<1>1. s[i] \in Members(s)
  BY DEF Members
<1>2. Position(s, s[i]) \in 1 .. Len(s) /\ s[Position(s, s[i])] = s[i]
  BY <1>1, PositionProps
<1> QED
  BY <1>1, <1>2 DEF Distinct

\* A list of descriptors holds descriptors, and its head is one or null.
LEMMA MembersProps ==
    ASSUME NEW s \in Seq(Desc)
    PROVE  /\ Members(s) \subseteq Desc
           /\ Null \notin Members(s)
           /\ HeadOf(s) \in Members(s) \cup {Null}
<1>1. \A i \in DOMAIN s : s[i] \in Desc
  OBVIOUS
<1>2. s # << >> => 1 \in DOMAIN s
  OBVIOUS
<1> QED
  BY <1>1, <1>2, NullAssumption DEF Members, HeadOf

\* Unlinking a descriptor.
LEMMA WithoutAt ==
    ASSUME NEW s \in Seq(Desc), NEW d \in Members(s)
    PROVE  /\ Without(s, d) \in Seq(Desc)
           /\ Len(Without(s, d)) = Len(s) - 1
           /\ \A i \in 1 .. Len(s) - 1 :
                 Without(s, d)[i] = IF i < Position(s, d) THEN s[i] ELSE s[i + 1]
<1> DEFINE p == Position(s, d)
           t == Without(s, d)
<1>1. p \in 1 .. Len(s) /\ Len(s) \in Nat /\ \A i \in 1 .. Len(s) : s[i] \in Desc
  BY PositionProps
<1>2. t = [i \in 1 .. Len(s) - 1 |-> IF i < p THEN s[i] ELSE s[i + 1]]
  BY DEF Without
<1> HIDE DEF p, t
<1>3. \A i \in 1 .. Len(s) - 1 : t[i] \in Desc
  BY <1>1, <1>2
<1>4. t \in Seq(Desc) /\ Len(t) = Len(s) - 1
  <2>1. t \in [1 .. Len(s) - 1 -> Desc]
    BY <1>2, <1>3
  <2>2. Len(s) - 1 \in Nat
    BY <1>1
  <2> QED
    BY <2>1, <2>2
<1> QED
  BY <1>2, <1>4 DEF p, t

\* Unlinking takes one descriptor off the list, and only that one.
LEMMA WithoutProps ==
    ASSUME NEW s \in Seq(Desc), Distinct(s), NEW d
    PROVE  /\ Without(s, d) \in Seq(Desc)
           /\ Distinct(Without(s, d))
           /\ Members(Without(s, d)) = Members(s) \ {d}
<1>1. CASE d \notin Members(s)
  BY <1>1 DEF Without
<1>2. CASE d \in Members(s)
  <2> DEFINE p == Position(s, d)
             t == Without(s, d)
  <2>1. /\ p \in 1 .. Len(s) /\ s[p] = d
        /\ t \in Seq(Desc) /\ Len(t) = Len(s) - 1 /\ Len(s) \in Nat
        /\ \A i \in 1 .. Len(s) - 1 : t[i] = IF i < p THEN s[i] ELSE s[i + 1]
    BY <1>2, PositionProps, WithoutAt
  <2>2. \A i, j \in 1 .. Len(s) : s[i] = s[j] => i = j
    BY DEF Distinct
  <2> HIDE DEF p, t
  <2>3. \A i, j \in 1 .. Len(t) : t[i] = t[j] => i = j
    <3> TAKE i \in 1 .. Len(t), j \in 1 .. Len(t)
    <3> DEFINE I == IF i < p THEN i ELSE i + 1
               J == IF j < p THEN j ELSE j + 1
    <3>1. I \in 1 .. Len(s) /\ J \in 1 .. Len(s) /\ t[i] = s[I] /\ t[j] = s[J]
      BY <2>1
    <3>2. t[i] = t[j] => I = J
      BY <3>1, <2>2
    <3> QED
      BY <3>2, <2>1
  <2>4. Members(t) \subseteq Members(s) \ {d}
    <3> SUFFICES ASSUME NEW i \in 1 .. Len(t) PROVE t[i] \in Members(s) \ {d}
      BY <2>1 DEF Members
    <3> DEFINE I == IF i < p THEN i ELSE i + 1
    <3>1. I \in 1 .. Len(s) /\ I # p /\ t[i] = s[I]
      BY <2>1
    <3> QED
      BY <3>1, <2>1, <2>2 DEF Members
  <2>5. Members(s) \ {d} \subseteq Members(t)
    <3> SUFFICES ASSUME NEW i \in 1 .. Len(s), s[i] # d PROVE s[i] \in Members(t)
      BY DEF Members
    <3>1. i # p
      BY <2>1
    <3> DEFINE k == IF i < p THEN i ELSE i - 1
    <3>2. k \in 1 .. Len(t) /\ t[k] = s[i]
      BY <3>1, <2>1
    <3> QED
      BY <3>2, <2>1 DEF Members
  <2> QED
    BY <2>1, <2>3, <2>4, <2>5 DEF Distinct, t
<1> QED
  BY <1>1, <1>2

\* The next of a descriptor is another one of the list, or null.
LEMMA NextOfProps ==
    ASSUME NEW s \in Seq(Desc), Distinct(s), NEW d \in Desc
    PROVE  /\ NextOf(s, d) \in Members(s) \cup {Null}
           /\ NextOf(s, d) # d
<1>1. CASE d \in Members(s) /\ Position(s, d) < Len(s)
  <2> DEFINE p == Position(s, d)
  <2>1. p \in 1 .. Len(s) /\ s[p] = d /\ p + 1 \in 1 .. Len(s)
    BY <1>1, PositionProps
  <2> QED
    BY <1>1, <2>1 DEF NextOf, Members, Distinct
<1>2. CASE ~(d \in Members(s) /\ Position(s, d) < Len(s))
  BY <1>2, NullAssumption DEF NextOf
<1> QED
  BY <1>1, <1>2

\* Making room for a newcomer, and prepending it.
LEMMA ThinnedProps ==
    ASSUME NEW s \in Seq(Desc), Distinct(s), NEW t \in Thinned(s)
    PROVE  t \in Seq(Desc) /\ Distinct(t) /\ Members(t) \subseteq Members(s)
<1>1. PICK n \in 0 .. Len(s) :
         \E f \in {g \in [1 .. n -> 1 .. Len(s)] : Increasing(g, n)} :
             t = [i \in 1 .. n |-> s[f[i]]]
  BY DEF Thinned
<1>2. PICK f \in [1 .. n -> 1 .. Len(s)] :
         Increasing(f, n) /\ t = [i \in 1 .. n |-> s[f[i]]]
  BY <1>1
<1>3. n \in Nat /\ Len(s) \in Nat /\ \A i \in 1 .. Len(s) : s[i] \in Desc
  OBVIOUS
<1>4. \A i \in 1 .. n : f[i] \in 1 .. Len(s) /\ t[i] = s[f[i]] /\ t[i] \in Desc
  BY <1>2, <1>3
<1>5. t \in Seq(Desc) /\ Len(t) = n /\ DOMAIN t = 1 .. n
  <2>1. t \in [1 .. n -> Desc]
    BY <1>2, <1>4
  <2> QED
    BY <2>1, <1>3
<1>6. Members(t) \subseteq Members(s)
  BY <1>4, <1>5 DEF Members
<1>7. Distinct(t)
  <2> SUFFICES ASSUME NEW i \in 1 .. n, NEW j \in 1 .. n, t[i] = t[j] PROVE i = j
    BY <1>5 DEF Distinct
  <2>1. f[i] = f[j]
    BY <1>4 DEF Distinct
  <2>2. ~(i < j) /\ ~(j < i)
    BY <1>2, <1>4, <2>1 DEF Increasing
  <2> QED
    BY <2>2
<1> QED
  BY <1>5, <1>6, <1>7

\* A new descriptor at the head is added to the list.
LEMMA PrependProps ==
    ASSUME NEW s \in Seq(Desc), Distinct(s), NEW d \in Desc, d \notin Members(s)
    PROVE  /\ Prepend(s, d) \in Seq(Desc)
           /\ Distinct(Prepend(s, d))
           /\ Members(Prepend(s, d)) = Members(s) \cup {d}
<1> DEFINE t == Prepend(s, d)
<1>1. Len(s) \in Nat /\ \A i \in 1 .. Len(s) : s[i] \in Desc /\ s[i] # d
  BY DEF Members
<1>2. t = [i \in 1 .. Len(s) + 1 |-> IF i = 1 THEN d ELSE s[i - 1]]
  BY DEF Prepend
<1> HIDE DEF t
<1>3. \A i \in 1 .. Len(s) + 1 : t[i] \in Desc
  BY <1>1, <1>2
<1>4. t \in Seq(Desc) /\ DOMAIN t = 1 .. Len(s) + 1
  <2>1. t \in [1 .. Len(s) + 1 -> Desc]
    BY <1>2, <1>3
  <2> QED
    BY <2>1, <1>1
<1>5. t[1] = d /\ \A i \in 1 .. Len(s) : t[i + 1] = s[i]
  BY <1>1, <1>2
<1>6. \A i \in 1 .. Len(s) + 1 : i # 1 => i - 1 \in 1 .. Len(s) /\ t[i] = s[i - 1]
  BY <1>1, <1>2
<1>7. Distinct(t)
  <2> SUFFICES ASSUME NEW i \in 1 .. Len(s) + 1, NEW j \in 1 .. Len(s) + 1, t[i] = t[j]
               PROVE  i = j
    BY <1>4 DEF Distinct
  <2>1. CASE i = 1 \/ j = 1
    BY <2>1, <1>1, <1>5, <1>6
  <2>2. CASE i # 1 /\ j # 1
    <3>1. i - 1 = j - 1
      BY <2>2, <1>6 DEF Distinct
    <3> QED
      BY <3>1
  <2> QED
    BY <2>1, <2>2
<1>8. Members(t) = Members(s) \cup {d}
  <2>1. Members(t) \subseteq Members(s) \cup {d}
    BY <1>4, <1>5, <1>6 DEF Members
  <2>2. d \in Members(t)
    BY <1>1, <1>4, <1>5 DEF Members
  <2>3. \A i \in 1 .. Len(s) : s[i] \in Members(t)
    <3> TAKE i \in 1 .. Len(s)
    <3>1. i + 1 \in DOMAIN t /\ t[i + 1] = s[i]
      BY <1>1, <1>4, <1>5
    <3> QED
      BY <3>1 DEF Members
  <2> QED
    BY <2>1, <2>2, <2>3 DEF Members
<1> QED
  BY <1>4, <1>7, <1>8 DEF t
-----------------------------------------------------------------------------
(* What is closed is left behind by the walk *)

\* close_socket keeps the list sound and the remembered descriptor in it.
LEMMA CloseProps ==
    ASSUME IndInv, NEW d \in Desc, CloseSocket(d)
    PROVE  /\ list' \in Seq(Desc) /\ Distinct(list')
           /\ Members(list') = Members(list) \ {d}
           /\ next' \in Desc \cup {Null}
           /\ pass = "process" /\ next \in Members(list) \cup {Null}
                => next' \in Members(list') \cup {Null}
<1>1. list \in Seq(Desc) /\ Distinct(list) /\ next \in Desc \cup {Null}
  BY DEF IndInv, TypeOK
<1>2. list' = Without(list, d)
  BY DEF CloseSocket
<1>3. /\ list' \in Seq(Desc) /\ Distinct(list')
      /\ Members(list') = Members(list) \ {d}
  BY <1>1, <1>2, WithoutProps
<1>4. /\ NextOf(list, d) \in Members(list) \cup {Null}
      /\ NextOf(list, d) # d
      /\ Members(list) \subseteq Desc
  BY <1>1, NextOfProps, MembersProps
<1>5. next' = IF pass = "process" /\ next = d THEN NextOf(list, d) ELSE next
  BY DEF CloseSocket
<1> HIDE DEF CloseSocket
<1>6. CASE pass = "process" /\ next = d
  BY <1>3, <1>4, <1>5, <1>6
<1>7. CASE ~(pass = "process" /\ next = d)
  BY <1>1, <1>3, <1>5, <1>7
<1> QED
  BY <1>3, <1>6, <1>7

\* At the start the list is empty and no pass is under way.
LEMMA InitIndInv == Init => IndInv
<1> SUFFICES ASSUME Init PROVE IndInv
  OBVIOUS
<1> QED
  BY DEF Init, IndInv, TypeOK, Pass, Stage, Distinct, NextIsLive,
         FetchedIsNeighbour, IdleBetweenWalks

\* Every step of the loop keeps the invariant.
LEMMA NextIndInv == IndInv /\ [Next]_vars => IndInv'
<1> SUFFICES ASSUME IndInv, [Next]_vars PROVE IndInv'
  OBVIOUS
<1>t. /\ list \in Seq(Desc) /\ Distinct(list)
      /\ pass \in Pass /\ stage \in Stage
      /\ point \in Desc \cup {Null} /\ next \in Desc \cup {Null}
      /\ stage \in {"wait", "handler"} => pass = "process"
  BY DEF IndInv, TypeOK
<1>n. /\ stage = "fetch" => point \in Members(list) \cup {Null}
      /\ stage # "fetch" => next \in Members(list) \cup {Null}
  BY DEF IndInv, NextIsLive
<1>f. stage = "work" => point \in Members(list) /\ next = NextOf(list, point)
  BY DEF IndInv, FetchedIsNeighbour
<1>i. pass \in {"accept", "clock"} => stage = "fetch" /\ point = Null
  BY DEF IndInv, IdleBetweenWalks
<1>m. /\ Members(list) \subseteq Desc /\ Null \notin Members(list)
      /\ HeadOf(list) \in Members(list) \cup {Null}
  BY <1>t, MembersProps
<1>a. /\ After(pass) \in Pass
      /\ pass = "clock" <=> After(pass) = "accept"
      /\ pass = "output" <=> After(pass) = "clock"
  BY <1>t DEF After, Pass
<1> USE DEF Stage
<1>1. ASSUME NEW d \in Desc, NewDescriptor(d) PROVE IndInv'
  <2>1. PICK stay \in Thinned(list) : list' = stay \/ list' = Prepend(stay, d)
    BY <1>1 DEF NewDescriptor
  <2>2. stay \in Seq(Desc) /\ Distinct(stay) /\ Members(stay) \subseteq Members(list)
    BY <1>t, ThinnedProps
  <2>3. d \notin Members(stay)
    BY <1>1, <2>2 DEF NewDescriptor
  <2>4. list' \in Seq(Desc) /\ Distinct(list')
    BY <2>1, <2>2, <2>3, PrependProps
  <2>5. HeadOf(list') \in Members(list') \cup {Null} /\ Members(list') \subseteq Desc
    BY <2>4, MembersProps
  <2>6. /\ stage = "fetch" /\ stage' = stage /\ next' = next
        /\ point' = HeadOf(list') /\ pass' = "exceptions"
    BY <1>1, <1>i DEF NewDescriptor, After
  <2> QED
    BY <2>4, <2>5, <2>6, <1>t
       DEF IndInv, TypeOK, Pass, NextIsLive, FetchedIsNeighbour, IdleBetweenWalks
<1>2. CASE NextPass
  <2>1. /\ stage = "fetch" /\ stage' = "fetch" /\ list' = list /\ next' = next
        /\ pass' \in Pass
        /\ point' = IF pass' \in Transfer \cup {"process"} THEN HeadOf(list) ELSE Null
    BY <1>2, <1>a DEF NextPass
  <2>2. pass' \in {"accept", "clock"} => point' = Null
    BY <2>1 DEF Transfer
  <2> QED
    BY <2>1, <2>2, <1>t, <1>m
       DEF IndInv, TypeOK, NextIsLive, FetchedIsNeighbour, IdleBetweenWalks
<1>3. CASE Fetch
  <2>1. /\ stage = "fetch" /\ point \in Members(list) /\ stage' = "work"
        /\ next' = NextOf(list, point)
        /\ list' = list /\ pass' = pass /\ point' = point
    BY <1>3, <1>n DEF Fetch
  <2>2. pass \notin {"accept", "clock"}
    BY <1>i, <1>3 DEF Fetch
  <2>3. next' \in Members(list) \cup {Null}
    BY <2>1, <1>t, <1>m, NextOfProps
  <2> QED
    BY <2>1, <2>2, <2>3, <1>t, <1>m
       DEF IndInv, TypeOK, NextIsLive, FetchedIsNeighbour, IdleBetweenWalks
<1>4. CASE TransferOne
  <2>1. /\ stage = "work" /\ stage' = "fetch" /\ point' = next /\ next' = next
        /\ pass' = pass /\ pass \notin {"accept", "clock"}
        /\ list' = list \/ list' = Without(list, point)
    BY <1>4 DEF TransferOne, Transfer, Advance
  <2>2. /\ list' \in Seq(Desc) /\ Distinct(list')
        /\ Members(list') = Members(list) \/ Members(list') = Members(list) \ {point}
    BY <2>1, <1>t, WithoutProps
  <2>3. next # point /\ next \in Members(list) \cup {Null}
    BY <2>1, <1>t, <1>f, <1>m, NextOfProps
  <2> QED
    BY <2>1, <2>2, <2>3, <1>t, <1>m
       DEF IndInv, TypeOK, NextIsLive, FetchedIsNeighbour, IdleBetweenWalks
<1>5. CASE CheckIdle
  <2>1. /\ pass = "process" /\ stage = "work" /\ stage' = "wait"
        /\ pass' = pass /\ point' = point /\ point \in Desc
        /\ CloseSocket(point) \/ (list' = list /\ next' = next)
    BY <1>5, <1>f, <1>m DEF CheckIdle
  <2>2. /\ list' \in Seq(Desc) /\ Distinct(list')
        /\ next' \in Desc \cup {Null} /\ next' \in Members(list') \cup {Null}
    BY <2>1, <1>t, <1>n, CloseProps
  <2> QED
    BY <2>1, <2>2, <1>t
       DEF IndInv, TypeOK, NextIsLive, FetchedIsNeighbour, IdleBetweenWalks
<1>6. CASE NoInput \/ HandlerReturns
  <2>1. /\ pass = "process" /\ stage # "fetch" /\ stage' = "fetch"
        /\ point' = next /\ next' = next /\ pass' = pass /\ list' = list
    BY <1>6, <1>t DEF NoInput, HandlerReturns, Advance
  <2> QED
    BY <2>1, <1>t, <1>n
       DEF IndInv, TypeOK, NextIsLive, FetchedIsNeighbour, IdleBetweenWalks
<1>7. CASE TakeInput
  <2>1. /\ pass = "process" /\ stage = "wait" /\ stage' = "handler"
        /\ UNCHANGED <<list, pass, point, next>>
    BY <1>7, <1>t DEF TakeInput
  <2> QED
    BY <2>1, <1>t, <1>n
       DEF IndInv, TypeOK, NextIsLive, FetchedIsNeighbour, IdleBetweenWalks
<1>8. ASSUME NEW d \in Desc, HandlerCloses(d) PROVE IndInv'
  <2>1. /\ pass = "process" /\ stage = "handler" /\ CloseSocket(d)
        /\ pass' = pass /\ point' = point /\ stage' = stage
    BY <1>8, <1>t DEF HandlerCloses
  <2>2. /\ list' \in Seq(Desc) /\ Distinct(list')
        /\ next' \in Desc \cup {Null} /\ next' \in Members(list') \cup {Null}
    BY <2>1, <1>n, CloseProps
  <2> QED
    BY <2>1, <2>2, <1>t
       DEF IndInv, TypeOK, NextIsLive, FetchedIsNeighbour, IdleBetweenWalks
<1>9. ASSUME NEW d \in Desc, ClockCloses(d) PROVE IndInv'
  <2>1. /\ pass = "clock" /\ stage = "fetch" /\ point = Null /\ CloseSocket(d)
        /\ pass' = pass /\ point' = point /\ stage' = stage
    BY <1>9, <1>i DEF ClockCloses
  <2>2. list' \in Seq(Desc) /\ Distinct(list') /\ next' \in Desc \cup {Null}
    BY <2>1, CloseProps
  <2> QED
    BY <2>1, <2>2, <1>t
       DEF IndInv, TypeOK, NextIsLive, FetchedIsNeighbour, IdleBetweenWalks
<1>10. CASE UNCHANGED vars
  BY <1>10 DEF vars, IndInv, TypeOK, NextIsLive, FetchedIsNeighbour,
               IdleBetweenWalks, Distinct
<1> QED
  BY <1>1, <1>2, <1>3, <1>4, <1>5, <1>6, <1>7, <1>8, <1>9, <1>10 DEF Next, Loop

(* The inductive invariant.                                                *)
THEOREM Invariance == Spec => []IndInv
  BY InitIndInv, NextIndInv, PTL DEF Spec

(* The state of the walk stays well typed.                                 *)
THEOREM TypeCorrect == Spec => []TypeOK
<1>1. IndInv => TypeOK
  BY DEF IndInv
<1> QED
  BY <1>1, Invariance, PTL

(* What a pass goes on to has not been closed, whatever its handlers       *)
(* closed: next_to_process is never left on freed memory.                  *)
THEOREM NextAlwaysLive == Spec => []NextIsLive
<1>1. IndInv => NextIsLive
  BY DEF IndInv
<1> QED
  BY <1>1, Invariance, PTL
-----------------------------------------------------------------------------
(* Rounds of service *)

\* The rest of the list from d on is what stands at its position or later.
LEMMA FromMember ==
    ASSUME NEW s \in Seq(Desc), Distinct(s), NEW d \in Members(s), NEW i \in 1 .. Len(s)
    PROVE  s[i] \in From(s, d) <=> i >= Position(s, d)
<1>1. Position(s, d) \in 1 .. Len(s) /\ Len(s) \in Nat
  BY PositionProps
<1>2. From(s, d) = {s[j] : j \in Position(s, d) .. Len(s)}
  BY DEF From
<1>3. \A j \in 1 .. Len(s) : s[i] = s[j] => i = j
  BY DEF Distinct
<1> QED
  BY <1>1, <1>2, <1>3

\* The rest of a list is in the list, and from its head it is all of it.
LEMMA FromProps ==
    ASSUME NEW s \in Seq(Desc), Distinct(s)
    PROVE  /\ \A d : From(s, d) \subseteq Members(s)
           /\ From(s, Null) = {}
           /\ From(s, HeadOf(s)) = Members(s)
<1>1. \A d : From(s, d) \subseteq Members(s)
  <2> TAKE d
  <2>1. CASE d \notin Members(s)
    BY <2>1 DEF From
  <2>2. CASE d \in Members(s)
    <3>1. Position(s, d) \in 1 .. Len(s) /\ Len(s) \in Nat
      BY <2>2, PositionProps
    <3> QED
      BY <2>2, <3>1 DEF From, Members
  <2> QED
    BY <2>1, <2>2
<1>2. From(s, Null) = {}
  BY MembersProps DEF From
<1>3. From(s, HeadOf(s)) = Members(s)
  <2>1. CASE s = << >>
    BY <2>1, <1>2 DEF HeadOf, Members
  <2>2. CASE s # << >>
    <3>1. 1 \in 1 .. Len(s) /\ HeadOf(s) = s[1]
      BY <2>2 DEF HeadOf
    <3>2. s[1] \in Members(s) /\ Position(s, s[1]) = 1
      BY <3>1, PositionUnique
    <3>3. From(s, s[1]) = {s[i] : i \in 1 .. Len(s)}
      BY <3>2 DEF From
    <3> QED
      BY <3>1, <3>3 DEF Members
  <2> QED
    BY <2>1, <2>2
<1> QED
  BY <1>1, <1>2, <1>3

\* Going on to the neighbour takes one descriptor off the rest.
LEMMA FromNext ==
    ASSUME NEW s \in Seq(Desc), Distinct(s), NEW d \in Members(s)
    PROVE  From(s, NextOf(s, d)) = From(s, d) \ {d}
<1> DEFINE p == Position(s, d)
<1>1. p \in 1 .. Len(s) /\ s[p] = d /\ Len(s) \in Nat
  BY PositionProps
<1>2. \A i \in 1 .. Len(s) : s[i] \in From(s, d) <=> i >= p
  BY FromMember
<1>3. \A e : From(s, e) \subseteq Members(s)
  BY FromProps
<1>4. \A i \in 1 .. Len(s) : s[i] = d => i = p
  BY <1>1 DEF Distinct
<1>5. CASE p < Len(s)
  <2>1. p + 1 \in 1 .. Len(s) /\ NextOf(s, d) = s[p + 1]
    BY <1>1, <1>5 DEF NextOf
  <2>2. s[p + 1] \in Members(s) /\ Position(s, s[p + 1]) = p + 1
    BY <2>1, PositionUnique
  <2>3. \A i \in 1 .. Len(s) : s[i] \in From(s, s[p + 1]) <=> i >= p + 1
    BY <2>2, FromMember
  <2> HIDE DEF p
  <2>4. \A i \in 1 .. Len(s) : s[i] \in From(s, s[p + 1]) <=> s[i] \in From(s, d) \ {d}
    BY <1>1, <1>2, <1>4, <2>3
  <2> QED
    BY <2>1, <2>4, <1>3 DEF Members
<1>6. CASE ~(p < Len(s))
  <2>1. NextOf(s, d) = Null
    BY <1>6 DEF NextOf
  <2>2. From(s, Null) = {}
    BY FromProps
  <2> HIDE DEF p
  <2>3. \A i \in 1 .. Len(s) : s[i] \in From(s, d) => s[i] = d
    BY <1>1, <1>2, <1>6
  <2> QED
    BY <2>1, <2>2, <2>3, <1>3 DEF Members
<1> QED
  BY <1>5, <1>6

\* Unlinking d takes d, and nothing else, off the rest from any other one.
LEMMA FromWithout ==
    ASSUME NEW s \in Seq(Desc), Distinct(s), NEW d \in Members(s), NEW e, e # d
    PROVE  From(Without(s, d), e) = From(s, e) \ {d}
<1> DEFINE p == Position(s, d)
           t == Without(s, d)
<1>1. /\ p \in 1 .. Len(s) /\ s[p] = d /\ Len(s) \in Nat
      /\ t \in Seq(Desc) /\ Len(t) = Len(s) - 1
      /\ \A i \in 1 .. Len(s) - 1 : t[i] = IF i < p THEN s[i] ELSE s[i + 1]
  BY PositionProps, WithoutAt
<1>2. Distinct(t) /\ Members(t) = Members(s) \ {d}
  BY WithoutProps
<1>3. CASE e \notin Members(s)
  BY <1>2, <1>3 DEF From
<1>4. CASE e \in Members(s)
  <2> DEFINE q == Position(s, e)
             r == Position(t, e)
  <2>1. q \in 1 .. Len(s) /\ s[q] = e
    BY <1>4, PositionProps
  <2>2. e \in Members(t)
    BY <1>2, <1>4
  <2>3. r \in 1 .. Len(t) /\ t[r] = e
    BY <1>1, <2>2, PositionProps
  <2>4. \A i \in 1 .. Len(s) : s[i] \in From(s, e) <=> i >= q
    BY <1>4, FromMember
  <2>5. \A i \in 1 .. Len(t) : t[i] \in From(t, e) <=> i >= r
    BY <1>1, <1>2, <2>2, FromMember
  <2>6. \A i, j \in 1 .. Len(s) : s[i] = s[j] => i = j
    BY DEF Distinct
  <2>7. From(t, e) \subseteq Members(t) /\ From(s, e) \subseteq Members(s)
    BY <1>1, <1>2, FromProps
  <2> HIDE DEF p, t, q, r
  <2>8. q = IF r < p THEN r ELSE r + 1
    <3> DEFINE R == IF r < p THEN r ELSE r + 1
    <3>1. R \in 1 .. Len(s) /\ t[r] = s[R]
      BY <1>1, <2>3
    <3>2. s[R] = s[q]
      BY <3>1, <2>1, <2>3
    <3> HIDE DEF R
    <3>3. R = q
      BY <3>1, <3>2, <2>1, <2>6
    <3> QED
      BY <3>3 DEF R
  <2>9. \A i \in 1 .. Len(t) : t[i] \in From(t, e) <=> t[i] \in From(s, e)
    <3> TAKE i \in 1 .. Len(t)
    <3> DEFINE I == IF i < p THEN i ELSE i + 1
    <3>1. I \in 1 .. Len(s) /\ t[i] = s[I]
      BY <1>1
    <3>2. t[i] \in From(s, e) <=> I >= q
      BY <3>1, <2>4
    <3>3. I >= q <=> i >= r
      BY <1>1, <2>3, <2>8
    <3> QED
      BY <3>2, <3>3, <2>5
  <2>10. \A x \in Members(t) : x \in From(t, e) <=> x \in From(s, e)
    BY <2>9, <1>1 DEF Members
  <2> QED
    BY <2>7, <2>10, <1>2 DEF t
<1> QED
  BY <1>3, <1>4

\* While input is processed, close_socket takes the closed descriptor, and
\* nobody else, off the rest of the round.
LEMMA CloseTakesOne ==
    ASSUME IndInv, NEW d \in Members(list), CloseSocket(d), pass = "process"
    PROVE  From(list', next') = From(list, next) \ {d}
<1>1. list \in Seq(Desc) /\ Distinct(list) /\ d \in Desc
  BY MembersProps DEF IndInv, TypeOK
<1>2. list' = Without(list, d)
  BY DEF CloseSocket
<1>3. CASE next = d
  <2>1. next' = NextOf(list, d) /\ NextOf(list, d) # d
    BY <1>1, <1>3, NextOfProps DEF CloseSocket
  <2>2. From(list', next') = From(list, NextOf(list, d)) \ {d}
    BY <1>1, <1>2, <2>1, FromWithout
  <2>3. From(list, NextOf(list, d)) = From(list, d) \ {d}
    BY <1>1, FromNext
  <2> QED
    BY <1>3, <2>2, <2>3
<1>4. CASE next # d
  <2>1. next' = next
    BY <1>4 DEF CloseSocket
  <2> QED
    BY <1>1, <1>2, <1>4, <2>1, FromWithout
<1> QED
  BY <1>3, <1>4

\* Every step of the loop is a step of the rounds or leaves them unchanged.
LEMMA RefinementStep ==
    ASSUME IndInv, [Next]_vars
    PROVE  [Rounds!SNext]_<<Members(list), Waiting>>
<1>t. /\ list \in Seq(Desc) /\ Distinct(list)
      /\ pass \in Pass /\ stage \in Stage
      /\ point \in Desc \cup {Null} /\ next \in Desc \cup {Null}
      /\ stage \in {"wait", "handler"} => pass = "process"
  BY DEF IndInv, TypeOK
<1>i. pass \in {"accept", "clock"} => stage = "fetch" /\ point = Null
  BY DEF IndInv, IdleBetweenWalks
<1>f. stage = "work" => point \in Members(list) /\ next = NextOf(list, point)
  BY DEF IndInv, FetchedIsNeighbour
<1>n. stage = "fetch" => point \in Members(list) \cup {Null}
  BY DEF IndInv, NextIsLive
<1>m. Members(list) \subseteq Desc /\ Null \notin Members(list)
  BY <1>t, MembersProps
<1>r. From(list, Null) = {} /\ From(list, HeadOf(list)) = Members(list)
  BY <1>t, FromProps
<1> USE DEF Stage
<1>1. ASSUME NEW d \in Desc, NewDescriptor(d) PROVE Rounds!Accept(d)
  <2>1. PICK stay \in Thinned(list) : list' = stay \/ list' = Prepend(stay, d)
    BY <1>1 DEF NewDescriptor
  <2>2. /\ stay \in Seq(Desc) /\ Distinct(stay)
        /\ Members(stay) \subseteq Members(list) /\ d \notin Members(list)
    BY <1>1, <1>t, ThinnedProps DEF NewDescriptor
  <2>3. Members(list') = Members(stay) \/ Members(list') = Members(stay) \cup {d}
    BY <2>1, <2>2, PrependProps
  <2>4. Waiting = {} /\ Waiting' = {}
    BY <1>1 DEF NewDescriptor, After, Waiting
  <2> QED
    BY <2>2, <2>3, <2>4 DEF Rounds!Accept
<1>2. CASE NextPass
  <2>1. /\ stage = "fetch" /\ point = Null /\ stage' = "fetch" /\ list' = list
        /\ pass' = After(pass)
        /\ point' = IF pass' \in Transfer \cup {"process"} THEN HeadOf(list) ELSE Null
    BY <1>2 DEF NextPass
  <2>2. Waiting = {}
    BY <2>1, <1>r DEF Waiting
  <2>3. CASE pass' = "process"
    <3>1. Waiting' = Members(list)
      BY <2>1, <2>3, <1>r DEF Waiting
    <3> QED
      BY <2>1, <2>2, <3>1 DEF Rounds!SNext, Rounds!BeginRound
  <2>4. CASE pass' # "process"
    <3>1. Waiting' = {}
      BY <2>4 DEF Waiting
    <3> QED
      BY <2>1, <2>2, <3>1
  <2> QED
    BY <2>3, <2>4
<1>3. CASE Fetch
  <2>1. /\ stage = "fetch" /\ point \in Members(list) /\ stage' = "work"
        /\ next' = NextOf(list, point) /\ list' = list /\ pass' = pass
    BY <1>3, <1>n DEF Fetch
  <2>2. CASE pass = "process"
    <3>1. Waiting = From(list, point) /\ Waiting' = From(list, NextOf(list, point))
      BY <2>1, <2>2 DEF Waiting
    <3>2. From(list, NextOf(list, point)) = From(list, point) \ {point}
      BY <2>1, <1>t, FromNext
    <3>3. point \in From(list, point)
      <4>1. Position(list, point) \in 1 .. Len(list) /\ list[Position(list, point)] = point
        BY <2>1, <1>t, PositionProps
      <4> QED
        BY <4>1, <2>1, <1>t, FromMember
    <3>4. Rounds!Serve(point)
      BY <2>1, <3>1, <3>2, <3>3 DEF Rounds!Serve
    <3> QED
      BY <3>4, <2>1, <1>m DEF Rounds!SNext
  <2>3. CASE pass # "process"
    BY <2>1, <2>3 DEF Waiting
  <2> QED
    BY <2>2, <2>3
<1>4. CASE TransferOne
  <2>1. /\ stage = "work" /\ pass # "process" /\ pass' = pass
        /\ list' = list \/ list' = Without(list, point)
    BY <1>4 DEF TransferOne, Transfer
  <2>2. Waiting = {} /\ Waiting' = {}
    BY <2>1 DEF Waiting
  <2>3. CASE list' = list
    BY <2>2, <2>3
  <2>4. CASE list' = Without(list, point)
    <3>1. Members(list') = Members(list) \ {point} /\ point \in Members(list)
      BY <2>1, <2>4, <1>t, <1>f, WithoutProps
    <3>2. Rounds!Close(point)
      BY <2>2, <3>1 DEF Rounds!Close
    <3> QED
      BY <3>1, <3>2, <1>m DEF Rounds!SNext
  <2> QED
    BY <2>1, <2>3, <2>4
<1>5. ASSUME NEW d \in Members(list), CloseSocket(d), pass = "process", pass' = pass,
             stage # "fetch", stage' # "fetch"
      PROVE  Rounds!SNext
  <2>1. Waiting = From(list, next) /\ Waiting' = From(list', next')
    BY <1>5 DEF Waiting
  <2>2. Waiting' = Waiting \ {d}
    BY <1>5, <2>1, CloseTakesOne
  <2>3. Members(list') = Members(list) \ {d}
    BY <1>5, <1>m, CloseProps
  <2>4. Rounds!Close(d)
    BY <2>2, <2>3 DEF Rounds!Close
  <2> QED
    BY <2>4, <1>m DEF Rounds!SNext
<1>6. CASE CheckIdle
  <2>1. /\ pass = "process" /\ stage = "work" /\ stage' = "wait" /\ pass' = pass
        /\ CloseSocket(point) \/ (list' = list /\ next' = next)
    BY <1>6 DEF CheckIdle
  <2>2. CASE CloseSocket(point)
    BY <2>1, <2>2, <1>5, <1>f
  <2>3. CASE list' = list /\ next' = next
    BY <2>1, <2>3 DEF Waiting
  <2> QED
    BY <2>1, <2>2, <2>3
<1>7. CASE NoInput \/ HandlerReturns
  <2>1. /\ stage # "fetch" /\ stage' = "fetch" /\ point' = next /\ pass' = pass
        /\ list' = list
    BY <1>7 DEF NoInput, HandlerReturns, Advance
  <2> QED
    BY <2>1 DEF Waiting
<1>8. CASE TakeInput
  <2>1. stage # "fetch" /\ stage' # "fetch" /\ UNCHANGED <<list, pass, next>>
    BY <1>8 DEF TakeInput
  <2> QED
    BY <2>1 DEF Waiting
<1>9. ASSUME NEW d \in Desc, HandlerCloses(d) PROVE Rounds!SNext
  <2>1. /\ d \in Members(list) /\ CloseSocket(d) /\ pass = "process"
        /\ pass' = pass /\ stage # "fetch" /\ stage' # "fetch"
    BY <1>9, <1>t DEF HandlerCloses
  <2> QED
    BY <2>1, <1>5
<1>10. ASSUME NEW d \in Desc, ClockCloses(d) PROVE Rounds!SNext
  <2>1. d \in Members(list) /\ CloseSocket(d) /\ pass = "clock" /\ pass' = pass
    BY <1>10 DEF ClockCloses
  <2>2. Waiting = {} /\ Waiting' = {}
    BY <2>1 DEF Waiting
  <2>3. Members(list') = Members(list) \ {d}
    BY <2>1, CloseProps
  <2>4. Rounds!Close(d)
    BY <2>1, <2>2, <2>3 DEF Rounds!Close
  <2> QED
    BY <2>4, <1>m DEF Rounds!SNext
<1>11. CASE UNCHANGED vars
  BY <1>11 DEF vars, Waiting
<1> QED
  <2>1. ASSUME NEW d \in Desc, NewDescriptor(d) PROVE Rounds!SNext
    BY <1>1, <2>1 DEF Rounds!SNext
  <2> QED
    BY <2>1, <1>2, <1>3, <1>4, <1>6, <1>7, <1>8, <1>9, <1>10, <1>11 DEF Next, Loop

(* The passes implement rounds of service: a connection that is open when   *)
(* input is processed gets its turn exactly once or is closed before it,    *)
(* however many others the handlers close.                                  *)
THEOREM LoopRefinesRounds == Spec => ImplementsRounds
<1>1. Init => Rounds!SInit
  BY DEF Init, Rounds!SInit, Members, Waiting
<1>2. IndInv /\ [Next]_vars => [Rounds!SNext]_<<Members(list), Waiting>>
  BY RefinementStep
<1> QED
  BY <1>1, <1>2, Invariance, PTL DEF Spec, ImplementsRounds, Rounds!SSpec, Rounds!svars
=============================================================================
