------------------------------ MODULE RentProofs ------------------------------
(***************************************************************************)
(* A crash does not duplicate objects, for every number of players and     *)
(* objects, every size of a record and every nesting of bags.  First what  *)
(* the operators of RentStore do to what a heap holds, then the commands.  *)
(***************************************************************************)
EXTENDS Rent, ListProofs, SequenceTheorems

USE StoreAssumption, RentAssumption
-----------------------------------------------------------------------------
(* Folds, a step at a time *)

\* What a fold over n positions may compute, from every set of them, with step.
Step(n, states, step, base) ==
    {f \in [SUBSET (1 .. n) -> states] :
        \A T \in SUBSET (1 .. n) :
            f[T] = IF T = {} THEN base ELSE step[<<f[T \ {Max(T)}], Max(T)>>]}

(* There is such a computation: one for n positions goes on to n + 1. *)
LEMMA Folding ==
    ASSUME NEW n \in Nat, NEW states, NEW base \in states,
           NEW step \in [states \X (1 .. n) -> states]
    PROVE  Step(n, states, step, base) # {}
<1> DEFINE C == {k \in 0 .. n : Step(k, states, step, base) # {}}
<1>1. 0 \in C
  <2>1. 1 .. 0 = {} /\ SUBSET {} = {{}}
    OBVIOUS
  <2>2. [T \in SUBSET (1 .. 0) |-> base] \in Step(0, states, step, base)
    BY <2>1 DEF Step
  <2> QED
    BY <2>2
<1>2. ASSUME NEW k \in 0 .. n - 1, k \in C PROVE k + 1 \in C
  <2>1. PICK f \in [SUBSET (1 .. k) -> states] :
          \A T \in SUBSET (1 .. k) :
            f[T] = IF T = {} THEN base ELSE step[<<f[T \ {Max(T)}], Max(T)>>]
    BY <1>2 DEF Step
  <2> DEFINE m == k + 1
             g == [T \in SUBSET (1 .. m) |->
                     IF m \in T THEN step[<<f[T \ {m}], m>>] ELSE f[T]]
  <2>2. \A T \in SUBSET (1 .. m) : (m \in T => T \ {m} \in SUBSET (1 .. k))
                                    /\ (m \notin T => T \in SUBSET (1 .. k))
    OBVIOUS
  <2>3. g \in [SUBSET (1 .. m) -> states]
    <3>1. m \in 1 .. n
      OBVIOUS
    <3> QED
      BY <2>1, <2>2, <3>1
  <2>4. ASSUME NEW T \in SUBSET (1 .. m)
        PROVE  g[T] = IF T = {} THEN base ELSE step[<<g[T \ {Max(T)}], Max(T)>>]
    <3>1. CASE m \in T
      <4>1. Max(T) = m
        <5>1. Max(T) \in T /\ \A i \in T : i <= Max(T)
          <6>1. m \in Nat /\ T # {}
            BY <3>1
          <6> HIDE DEF m
          <6> QED
            BY <6>1, FirstAndLast
        <5>2. Max(T) \in 1 .. m /\ m <= Max(T)
          BY <3>1, <5>1
        <5> QED
          BY <1>2, <5>2
      <4>2. g[T \ {m}] = f[T \ {m}]
        BY <2>2, <3>1
      <4> QED
        BY <3>1, <4>1, <4>2
    <3>2. CASE m \notin T
      <4>1. T \in SUBSET (1 .. k) /\ g[T] = f[T]
        BY <2>2, <3>2
      <4>2. CASE T = {}
        BY <2>1, <4>1, <4>2
      <4>3. CASE T # {}
        <5>1. T \ {Max(T)} \in SUBSET (1 .. m) /\ m \notin T \ {Max(T)}
          BY <3>2
        <5>2. g[T \ {Max(T)}] = f[T \ {Max(T)}]
          BY <5>1
        <5> QED
          BY <2>1, <4>1, <4>3, <5>2
      <4> QED
        BY <4>2, <4>3
    <3> QED
      BY <3>1, <3>2
  <2>5. g \in Step(m, states, step, base)
    <3> HIDE DEF g
    <3> QED
      BY <2>3, <2>4 DEF Step
  <2> QED
    BY <2>5
<1> HIDE DEF C
<1>3. \A k \in 0 .. n : k \in C
  BY <1>1, <1>2, Counting
<1> QED
  BY <1>3 DEF C

(* What a fold from the left takes next. *)
LEMMA Prefix ==
    ASSUME NEW n \in Nat, NEW k \in 1 .. n
    PROVE  /\ 1 .. k \in SUBSET (1 .. n) /\ 1 .. k # {}
           /\ Max(1 .. k) = k
           /\ (1 .. k) \ {k} = 1 .. k - 1
<1>1. k \in Nat /\ k \in 1 .. k /\ 1 .. k # {}
  OBVIOUS
<1>2. Max(1 .. k) \in 1 .. k /\ k <= Max(1 .. k)
  BY <1>1, FirstAndLast
<1>3. ASSUME NEW i \in 1 .. k PROVE i \in 1 .. n
  OBVIOUS
<1>4. (1 .. k) \ {k} = 1 .. k - 1
  OBVIOUS
<1> QED
  BY <1>1, <1>2, <1>3, <1>4

\* The record before the first object, and what it may be after some.
Unsaved == [st |-> << >>, noted |-> 0]
SavedSet == [st : Seq(Entry), noted : 0 .. Slots]
(* save_obj, one object after the other. *)
LEMMA SavingSteps ==
    ASSUME NEW h \in Seq(Entry),
           Unsaved \in SavedSet,
           \A s \in SavedSet, k \in DOMAIN h : PutObjInStore(s, h[k]) \in SavedSet
    PROVE  \E r : /\ r[0] = Unsaved
                  /\ \A k \in 1 .. Len(h) : r[k] = PutObjInStore(r[k - 1], h[k])
                  /\ SaveObj(h) = r[Len(h)].st
<1> DEFINE n == Len(h)
           step == [x \in SavedSet \X (1 .. n) |-> PutObjInStore(x[1], h[x[2]])]
           iter == CHOOSE iter : iter = [T \in SUBSET (1 .. n) |->
                     IF T = {} THEN Unsaved
                     ELSE PutObjInStore(iter[T \ {Max(T)}], h[Max(T)])]
<1>1. n \in Nat /\ DOMAIN h = 1 .. n
  OBVIOUS
<1>2. SaveObj(h) = iter[1 .. n].st
  BY <1>1 DEF SaveObj, FoldLeft, MapThenFoldSet, Unsaved
<1>3. step \in [SavedSet \X (1 .. n) -> SavedSet]
  BY <1>1
<1>4. PICK f \in Step(n, SavedSet, step, Unsaved) : TRUE
  <2> HIDE DEF n, step
  <2>1. Step(n, SavedSet, step, Unsaved) # {}
    BY <1>1, <1>3, Folding
  <2> QED
    BY <2>1
<1>5. f = [T \in SUBSET (1 .. n) |->
             IF T = {} THEN Unsaved ELSE PutObjInStore(f[T \ {Max(T)}], h[Max(T)])]
  <2>1. ASSUME NEW T \in SUBSET (1 .. n)
        PROVE  f[T] = IF T = {} THEN Unsaved ELSE PutObjInStore(f[T \ {Max(T)}], h[Max(T)])
    <3>1. f[T] = IF T = {} THEN Unsaved ELSE step[<<f[T \ {Max(T)}], Max(T)>>]
      BY <1>4 DEF Step
    <3>2. T # {} => Max(T) \in 1 .. n /\ f[T \ {Max(T)}] \in SavedSet
      <4>1. T # {} => Max(T) \in T
        BY <1>1, FirstAndLast
      <4>2. T \ {Max(T)} \in SUBSET (1 .. n)
        OBVIOUS
      <4> QED
        BY <1>4, <4>1, <4>2 DEF Step
    <3> QED
      BY <3>1, <3>2
  <2>2. f \in [SUBSET (1 .. n) -> SavedSet]
    BY <1>4 DEF Step
  <2> QED
    BY <2>1, <2>2
<1>6. \A T \in SUBSET (1 .. n) :
        iter[T] = IF T = {} THEN Unsaved ELSE PutObjInStore(iter[T \ {Max(T)}], h[Max(T)])
  <2> HIDE DEF step
  <2>1. iter = [T \in SUBSET (1 .. n) |->
                  IF T = {} THEN Unsaved ELSE PutObjInStore(iter[T \ {Max(T)}], h[Max(T)])]
    BY <1>5
  <2> QED
    BY <2>1
<1> HIDE DEF iter, step
<1> DEFINE r == [k \in 0 .. n |-> iter[1 .. k]]
<1>7. ASSUME NEW k \in 1 .. n PROVE r[k] = PutObjInStore(r[k - 1], h[k])
  <2>1. r[k] = iter[1 .. k] /\ r[k - 1] = iter[1 .. k - 1]
    BY <1>1
  <2>2. iter[1 .. k] = PutObjInStore(iter[1 .. k - 1], h[k])
    BY <1>1, <1>6, Prefix
  <2> QED
    BY <2>1, <2>2
<1>8. r[0] = Unsaved
  <2>1. 1 .. 0 = {} /\ {} \in SUBSET (1 .. n)
    OBVIOUS
  <2>2. r[0] = iter[1 .. 0]
    BY <1>1
  <2> QED
    BY <1>6, <2>1, <2>2
<1>9. r[n] = iter[1 .. n]
  BY <1>1
<1> HIDE DEF r
<1> QED
  BY <1>2, <1>7, <1>8, <1>9

\* The lists before the first entry of a record, and what they may be after some.
Unloaded == [in |-> << >>, last |-> None, heap |-> << >>]
LoadedSet == [in : Seq(Item \cup {None}), last : Item \cup {None}, heap : Seq(Entry)]
(* obj_store_to_char, one entry of the record after the other. *)
LEMMA LoadingSteps ==
    ASSUME NEW h \in Seq(Entry),
           Unloaded \in LoadedSet,
           \A s \in LoadedSet, k \in DOMAIN h : StoreToChar(s, h[k]) \in LoadedSet
    PROVE  \E r : /\ r[0] = Unloaded
                  /\ \A k \in 1 .. Len(h) : r[k] = StoreToChar(r[k - 1], h[k])
                  /\ ObjStoreToChar(h) = r[Len(h)].heap
<1> DEFINE n == Len(h)
           step == [x \in LoadedSet \X (1 .. n) |-> StoreToChar(x[1], h[x[2]])]
           iter == CHOOSE iter : iter = [T \in SUBSET (1 .. n) |->
                     IF T = {} THEN Unloaded
                     ELSE StoreToChar(iter[T \ {Max(T)}], h[Max(T)])]
<1>1. n \in Nat /\ DOMAIN h = 1 .. n
  OBVIOUS
<1>2. ObjStoreToChar(h) = iter[1 .. n].heap
  BY <1>1 DEF ObjStoreToChar, FoldLeft, MapThenFoldSet, Unloaded
<1>3. step \in [LoadedSet \X (1 .. n) -> LoadedSet]
  BY <1>1
<1>4. PICK f \in Step(n, LoadedSet, step, Unloaded) : TRUE
  <2> HIDE DEF n, step
  <2>1. Step(n, LoadedSet, step, Unloaded) # {}
    BY <1>1, <1>3, Folding
  <2> QED
    BY <2>1
<1>5. f = [T \in SUBSET (1 .. n) |->
             IF T = {} THEN Unloaded ELSE StoreToChar(f[T \ {Max(T)}], h[Max(T)])]
  <2>1. ASSUME NEW T \in SUBSET (1 .. n)
        PROVE  f[T] = IF T = {} THEN Unloaded ELSE StoreToChar(f[T \ {Max(T)}], h[Max(T)])
    <3>1. f[T] = IF T = {} THEN Unloaded ELSE step[<<f[T \ {Max(T)}], Max(T)>>]
      BY <1>4 DEF Step
    <3>2. T # {} => Max(T) \in 1 .. n /\ f[T \ {Max(T)}] \in LoadedSet
      <4>1. T # {} => Max(T) \in T
        BY <1>1, FirstAndLast
      <4>2. T \ {Max(T)} \in SUBSET (1 .. n)
        OBVIOUS
      <4> QED
        BY <1>4, <4>1, <4>2 DEF Step
    <3> QED
      BY <3>1, <3>2
  <2>2. f \in [SUBSET (1 .. n) -> LoadedSet]
    BY <1>4 DEF Step
  <2> QED
    BY <2>1, <2>2
<1>6. \A T \in SUBSET (1 .. n) :
        iter[T] = IF T = {} THEN Unloaded ELSE StoreToChar(iter[T \ {Max(T)}], h[Max(T)])
  <2> HIDE DEF step
  <2>1. iter = [T \in SUBSET (1 .. n) |->
                  IF T = {} THEN Unloaded ELSE StoreToChar(iter[T \ {Max(T)}], h[Max(T)])]
    BY <1>5
  <2> QED
    BY <2>1
<1> HIDE DEF iter, step
<1> DEFINE r == [k \in 0 .. n |-> iter[1 .. k]]
<1>7. ASSUME NEW k \in 1 .. n PROVE r[k] = StoreToChar(r[k - 1], h[k])
  <2>1. r[k] = iter[1 .. k] /\ r[k - 1] = iter[1 .. k - 1]
    BY <1>1
  <2>2. iter[1 .. k] = StoreToChar(iter[1 .. k - 1], h[k])
    BY <1>1, <1>6, Prefix
  <2> QED
    BY <2>1, <2>2
<1>8. r[0] = Unloaded
  <2>1. 1 .. 0 = {} /\ {} \in SUBSET (1 .. n)
    OBVIOUS
  <2>2. r[0] = iter[1 .. 0]
    BY <1>1
  <2> QED
    BY <1>6, <2>1, <2>2
<1>9. r[n] = iter[1 .. n]
  BY <1>1
<1> HIDE DEF r
<1> QED
  BY <1>2, <1>7, <1>8, <1>9

\* The next position of h, in the heap r of the room so far.
Indices(h) == [k \in DOMAIN h |-> k]
Left(h, r, k) == IF k \in Top(h) THEN ObjToChar(r, Whole(h, k)) ELSE r
(* What is left in a room, one object after the other. *)
LEMMA LeavingSteps ==
    ASSUME NEW h \in Seq(Entry), NEW room,
           room \in Seq(Entry),
           \A s \in Seq(Entry), k \in DOMAIN h : Left(h, s, Indices(h)[k]) \in Seq(Entry)
    PROVE  \E r : /\ r[0] = room
                  /\ \A k \in 1 .. Len(h) : r[k] = Left(h, r[k - 1], Indices(h)[k])
                  /\ ToRoom(room, h) = r[Len(h)]
<1> DEFINE n == Len(h)
           step == [x \in Seq(Entry) \X (1 .. n) |-> Left(h, x[1], Indices(h)[x[2]])]
           iter == CHOOSE iter : iter = [T \in SUBSET (1 .. n) |->
                     IF T = {} THEN room
                     ELSE Left(h, iter[T \ {Max(T)}], Indices(h)[Max(T)])]
<1>1. n \in Nat /\ DOMAIN h = 1 .. n
  OBVIOUS
<1>2. ToRoom(room, h) = iter[1 .. n]
  BY <1>1 DEF ToRoom, FoldLeftDomain, FoldLeft, MapThenFoldSet, Left, Indices
<1>3. step \in [Seq(Entry) \X (1 .. n) -> Seq(Entry)]
  BY <1>1
<1>4. PICK f \in Step(n, Seq(Entry), step, room) : TRUE
  <2> HIDE DEF n, step
  <2>1. Step(n, Seq(Entry), step, room) # {}
    BY <1>1, <1>3, Folding
  <2> QED
    BY <2>1
<1>5. f = [T \in SUBSET (1 .. n) |->
             IF T = {} THEN room ELSE Left(h, f[T \ {Max(T)}], Indices(h)[Max(T)])]
  <2>1. ASSUME NEW T \in SUBSET (1 .. n)
        PROVE  f[T] = IF T = {} THEN room ELSE Left(h, f[T \ {Max(T)}], Indices(h)[Max(T)])
    <3>1. f[T] = IF T = {} THEN room ELSE step[<<f[T \ {Max(T)}], Max(T)>>]
      BY <1>4 DEF Step
    <3>2. T # {} => Max(T) \in 1 .. n /\ f[T \ {Max(T)}] \in Seq(Entry)
      <4>1. T # {} => Max(T) \in T
        BY <1>1, FirstAndLast
      <4>2. T \ {Max(T)} \in SUBSET (1 .. n)
        OBVIOUS
      <4> QED
        BY <1>4, <4>1, <4>2 DEF Step
    <3> QED
      BY <3>1, <3>2
  <2>2. f \in [SUBSET (1 .. n) -> Seq(Entry)]
    BY <1>4 DEF Step
  <2> QED
    BY <2>1, <2>2
<1>6. \A T \in SUBSET (1 .. n) :
        iter[T] = IF T = {} THEN room ELSE Left(h, iter[T \ {Max(T)}], Indices(h)[Max(T)])
  <2> HIDE DEF step
  <2>1. iter = [T \in SUBSET (1 .. n) |->
                  IF T = {} THEN room ELSE Left(h, iter[T \ {Max(T)}], Indices(h)[Max(T)])]
    BY <1>5
  <2> QED
    BY <2>1
<1> HIDE DEF iter, step
<1> DEFINE r == [k \in 0 .. n |-> iter[1 .. k]]
<1>7. ASSUME NEW k \in 1 .. n PROVE r[k] = Left(h, r[k - 1], Indices(h)[k])
  <2>1. r[k] = iter[1 .. k] /\ r[k - 1] = iter[1 .. k - 1]
    BY <1>1
  <2>2. iter[1 .. k] = Left(h, iter[1 .. k - 1], Indices(h)[k])
    BY <1>1, <1>6, Prefix
  <2> QED
    BY <2>1, <2>2
<1>8. r[0] = room
  <2>1. 1 .. 0 = {} /\ {} \in SUBSET (1 .. n)
    OBVIOUS
  <2>2. r[0] = iter[1 .. 0]
    BY <1>1
  <2> QED
    BY <1>6, <2>1, <2>2
<1>9. r[n] = iter[1 .. n]
  BY <1>1
<1> HIDE DEF r
<1> QED
  BY <1>2, <1>7, <1>8, <1>9

-----------------------------------------------------------------------------
(* What the moves do to what a heap holds *)

\* Nothing is in the heap twice, but what is in C.
Once(h, C) == \A i, j \in DOMAIN h : h[i].item = h[j].item /\ h[i].item \notin C => i = j
Held(h, C) == h \in Seq(Entry) /\ Once(h, C)
Apart(h, g, C) == Items(h) \cap Items(g) \subseteq C
\* An object with what it contains.
Rooted(s) == s # << >> /\ \A k \in DOMAIN s : s[k].depth >= s[1].depth

(* An object and its contents end somewhere behind it, and all of them are
   deeper than it. *)
LEMMA EndsProps ==
    ASSUME NEW h \in Seq(Entry), NEW k \in DOMAIN h
    PROVE  /\ Max(Ends(h, k)) \in k .. Len(h)
           /\ \A j \in k + 1 .. Max(Ends(h, k)) : h[j].depth > h[k].depth
<1>1. Len(h) \in Nat /\ DOMAIN h = 1 .. Len(h)
  OBVIOUS
<1>2. k \in Ends(h, k)
  BY <1>1 DEF Ends
<1>3. Ends(h, k) \in SUBSET (1 .. Len(h))
  BY <1>1 DEF Ends
<1>4. Max(Ends(h, k)) \in Ends(h, k)
  BY <1>1, <1>2, <1>3, FirstAndLast
<1> QED
  BY <1>4 DEF Ends

(* An object taken out of a heap, and the heap it leaves. *)
LEMMA Parting ==
    ASSUME NEW C, NEW h, Held(h, C), NEW k \in DOMAIN h
    PROVE  /\ Held(Whole(h, k), C) /\ Rooted(Whole(h, k))
           /\ Held(Without(h, k), C)
           /\ Apart(Whole(h, k), Without(h, k), C)
           /\ Items(Whole(h, k)) \subseteq Items(h)
           /\ Items(Without(h, k)) \subseteq Items(h)
<1> DEFINE e == Max(Ends(h, k))
           s == Whole(h, k)
           t == Without(h, k)
<1>1. /\ h \in Seq(Entry) /\ Len(h) \in Nat /\ DOMAIN h = 1 .. Len(h)
      /\ k \in 1 .. Len(h)
      /\ \A i \in 1 .. Len(h) : h[i] \in Entry /\ h[i].depth \in Nat
      /\ \A i, j \in 1 .. Len(h) : h[i].item = h[j].item /\ h[i].item \notin C => i = j
  <2>1. h \in Seq(Entry) /\ \A i \in DOMAIN h : h[i] \in Entry
    BY DEF Held
  <2>2. Len(h) \in Nat /\ DOMAIN h = 1 .. Len(h)
    BY <2>1
  <2>3. \A i, j \in DOMAIN h : h[i].item = h[j].item /\ h[i].item \notin C => i = j
    BY DEF Held, Once
  <2>4. \A i \in DOMAIN h : h[i].depth \in Nat
    BY <2>1 DEF Entry
  <2> QED
    BY <2>1, <2>2, <2>3, <2>4
<1>2. e \in k .. Len(h) /\ \A j \in k + 1 .. e : h[j].depth > h[k].depth
  BY <1>1, EndsProps
<1> HIDE DEF e
<1>3. /\ s \in Seq(Entry) /\ Len(s) = e - k + 1
      /\ \A i \in 1 .. Len(s) : k + i - 1 \in k .. e /\ s[i] = h[k + i - 1]
  BY <1>1, <1>2 DEF Whole, e
<1>4. /\ t \in Seq(Entry) /\ Len(t) = Len(h) - (e - k + 1)
      /\ \A i \in 1 .. Len(t) : i < k => t[i] = h[i]
      /\ \A i \in 1 .. Len(t) : i >= k => t[i] = h[i + (e - k + 1)]
  <2> DEFINE a == SubSeq(h, 1, k - 1)
             b == SubSeq(h, e + 1, Len(h))
  <2>1. /\ a \in Seq(Entry) /\ Len(a) = k - 1
        /\ \A i \in 1 .. k - 1 : a[i] = h[i]
    BY <1>1
  <2>2. /\ b \in Seq(Entry) /\ Len(b) = Len(h) - e
        /\ \A i \in 1 .. Len(h) - e : b[i] = h[e + i]
    BY <1>1, <1>2
  <2>3. t = a \o b
    BY DEF Without, e
  <2> HIDE DEF a, b, t
  <2>4. /\ t \in Seq(Entry) /\ Len(t) = Len(a) + Len(b)
        /\ \A i \in 1 .. Len(t) : t[i] = IF i <= Len(a) THEN a[i] ELSE b[i - Len(a)]
    <3>1. a \in Seq(Entry) /\ b \in Seq(Entry)
      BY <2>1, <2>2
    <3>2. /\ a \o b \in Seq(Entry) /\ Len(a \o b) = Len(a) + Len(b)
          /\ \A i \in 1 .. Len(a) + Len(b) :
                (a \o b)[i] = IF i <= Len(a) THEN a[i] ELSE b[i - Len(a)]
      BY <3>1, ConcatProperties
    <3> QED
      BY <2>3, <3>2
  <2>5. ASSUME NEW i \in 1 .. Len(t), i >= k PROVE t[i] = h[i + (e - k + 1)]
    <3>1. /\ k \in Nat /\ e \in Nat /\ Len(h) \in Nat /\ k >= 1 /\ e >= k /\ e <= Len(h)
          /\ Len(t) = (k - 1) + (Len(h) - e)
      BY <1>1, <1>2, <2>1, <2>2, <2>4
    <3>2. i \in Nat /\ i <= Len(t) /\ i >= k
      BY <2>5, <3>1
    <3>3. i - (k - 1) \in 1 .. Len(h) - e /\ e + (i - (k - 1)) = i + (e - k + 1)
      BY <3>1, <3>2
    <3>4. t[i] = b[i - (k - 1)]
      <4>1. i \in 1 .. Len(t) /\ Len(a) = k - 1 /\ ~(i <= Len(a))
        BY <2>1, <2>5, <3>1, <3>2
      <4>2. t[i] = b[i - Len(a)]
        BY <2>4, <4>1
      <4> QED
        BY <4>1, <4>2
    <3>5. b[i - (k - 1)] = h[e + (i - (k - 1))]
      BY <2>2, <3>3
    <3> QED
      BY <3>3, <3>4, <3>5
  <2> QED
    BY <1>1, <1>2, <2>1, <2>2, <2>4, <2>5
<1> HIDE DEF s, t
<1>5. ASSUME NEW i \in 1 .. Len(t)
      PROVE  \E j \in 1 .. Len(h) :
               t[i] = h[j] /\ (IF i < k THEN j = i ELSE j = i + (e - k + 1) /\ j > e)
  <2>1. CASE i < k
    BY <1>1, <1>2, <1>4, <2>1
  <2>2. CASE i >= k
    <3>1. i + (e - k + 1) \in 1 .. Len(h) /\ i + (e - k + 1) > e
      BY <1>1, <1>2, <1>4, <2>2
    <3> QED
      BY <1>1, <1>2, <1>4, <2>2, <3>1
  <2> QED
    BY <1>1, <1>4, <2>1, <2>2
<1>6. Once(s, C)
  <2>1. DOMAIN s = 1 .. Len(s) /\ \A i \in 1 .. Len(s) : k + i - 1 \in 1 .. Len(h)
    BY <1>1, <1>2, <1>3
  <2> SUFFICES ASSUME NEW i \in 1 .. Len(s), NEW j \in 1 .. Len(s),
                      s[i].item = s[j].item, s[i].item \notin C
               PROVE  i = j
    BY <2>1 DEF Once
  <2>2. s[i] = h[k + i - 1] /\ s[j] = h[k + j - 1]
    BY <1>3
  <2>3. k + i - 1 = k + j - 1
    BY <1>1, <2>1, <2>2
  <2>4. k \in Nat /\ i \in Int /\ j \in Int
    BY <1>1
  <2> QED
    BY <2>3, <2>4
<1>7. Once(t, C)
  <2> SUFFICES ASSUME NEW i \in 1 .. Len(t), NEW j \in 1 .. Len(t),
                      t[i].item = t[j].item, t[i].item \notin C
               PROVE  i = j
    BY <1>4 DEF Once
  <2>1. PICK a \in 1 .. Len(h) :
          t[i] = h[a] /\ (IF i < k THEN a = i ELSE a = i + (e - k + 1) /\ a > e)
    BY <1>5
  <2>2. PICK b \in 1 .. Len(h) :
          t[j] = h[b] /\ (IF j < k THEN b = j ELSE b = j + (e - k + 1) /\ b > e)
    BY <1>5
  <2>3. a = b
    BY <1>1, <2>1, <2>2
  <2> QED
    BY <1>1, <1>2, <1>4, <2>1, <2>2, <2>3
<1>8. Rooted(s)
  <2>1. s # << >> /\ s[1] = h[k] /\ DOMAIN s = 1 .. Len(s)
    BY <1>1, <1>2, <1>3
  <2>2. ASSUME NEW i \in 1 .. Len(s) PROVE s[i].depth >= s[1].depth
    <3>1. k + i - 1 \in k .. e /\ s[i] = h[k + i - 1] /\ k + i - 1 \in 1 .. Len(h)
      BY <1>1, <1>2, <1>3
    <3>2. k + i - 1 = k \/ k + i - 1 \in k + 1 .. e
      BY <1>1, <1>2, <3>1
    <3> HIDE DEF e
    <3> QED
      BY <1>1, <1>2, <2>1, <3>1, <3>2
  <2> QED
    BY <2>1, <2>2 DEF Rooted
<1>9. Apart(s, t, C)
  <2> SUFFICES ASSUME NEW i \in 1 .. Len(s), NEW m \in 1 .. Len(t),
                      s[i].item = t[m].item, s[i].item \notin C
               PROVE  FALSE
    BY <1>3, <1>4 DEF Apart, Items
  <2>1. PICK j \in 1 .. Len(h) :
          t[m] = h[j] /\ (IF m < k THEN j = m ELSE j = m + (e - k + 1) /\ j > e)
    BY <1>5
  <2>2. j \notin k .. e
    BY <1>1, <1>2, <2>1
  <2>3. k + i - 1 \in k .. e /\ s[i] = h[k + i - 1] /\ k + i - 1 \in 1 .. Len(h)
    BY <1>1, <1>2, <1>3
  <2> QED
    BY <1>1, <2>1, <2>2, <2>3
<1>10. Items(s) \subseteq Items(h)
  <2>1. \A i \in 1 .. Len(s) : k + i - 1 \in 1 .. Len(h)
    BY <1>1, <1>2, <1>3
  <2> QED
    BY <1>1, <1>3, <2>1 DEF Items
<1>11. Items(t) \subseteq Items(h)
  BY <1>1, <1>4, <1>5 DEF Items
<1> QED
  BY <1>3, <1>4, <1>6, <1>7, <1>8, <1>9, <1>10, <1>11 DEF s, t, Held

(* Entries put into a heap somewhere. *)
LEMMA Inserting ==
    ASSUME NEW C, NEW h, Held(h, C), NEW s, Held(s, C), Apart(s, h, C), NEW n \in 0 .. Len(h)
    PROVE  /\ Held(Insert(h, n, s), C)
           /\ Items(Insert(h, n, s)) = Items(h) \cup Items(s)
<1> DEFINE t == Insert(h, n, s)
           l == Len(s)
<1>1. /\ h \in Seq(Entry) /\ Len(h) \in Nat /\ DOMAIN h = 1 .. Len(h)
      /\ s \in Seq(Entry) /\ l \in Nat /\ DOMAIN s = 1 .. l
      /\ n \in Nat /\ n <= Len(h)
  BY DEF Held
<1> HIDE DEF l
<1>2. /\ t \in Seq(Entry) /\ Len(t) = Len(h) + l
      /\ \A i \in 1 .. Len(t) : t[i] = IF i <= n THEN h[i]
                                       ELSE IF i <= n + l THEN s[i - n] ELSE h[i - l]
  <2> DEFINE a == SubSeq(h, 1, n)
             b == SubSeq(h, n + 1, Len(h))
             u == a \o s
  <2>1. /\ a \in Seq(Entry) /\ Len(a) = n
        /\ \A i \in 1 .. n : a[i] = h[i]
    BY <1>1
  <2>2. /\ b \in Seq(Entry) /\ Len(b) = Len(h) - n
        /\ \A i \in 1 .. Len(h) - n : b[i] = h[n + i]
    <3>1. n + 1 \in 1 .. Len(h) + 1
      BY <1>1
    <3>2. \A i \in n + 1 .. Len(h) : h[i] \in Entry
      BY <1>1, <3>1
    <3> QED
      BY <1>1, <3>1, <3>2
  <2>3. t = u \o b
    BY DEF Insert
  <2> HIDE DEF a, b
  <2>4. /\ u \in Seq(Entry) /\ Len(u) = n + l
        /\ \A i \in 1 .. n + l : u[i] = IF i <= n THEN a[i] ELSE s[i - n]
    BY <1>1, <2>1 DEF l
  <2> HIDE DEF u, t
  <2>5. /\ t \in Seq(Entry) /\ Len(t) = n + l + (Len(h) - n)
        /\ \A i \in 1 .. Len(t) : t[i] = IF i <= n + l THEN u[i] ELSE b[i - (n + l)]
    <3>1. /\ u \o b \in Seq(Entry) /\ Len(u \o b) = Len(u) + Len(b)
          /\ \A i \in 1 .. Len(u) + Len(b) :
                (u \o b)[i] = IF i <= Len(u) THEN u[i] ELSE b[i - Len(u)]
      BY <2>2, <2>4, ConcatProperties
    <3> QED
      BY <1>1, <2>2, <2>3, <2>4, <3>1
  <2>6. ASSUME NEW i \in 1 .. Len(t), i > n + l PROVE t[i] = h[i - l]
    <3>1. i - (n + l) \in 1 .. Len(h) - n /\ n + (i - (n + l)) = i - l
      BY <1>1, <2>5, <2>6
    <3> QED
      BY <1>1, <2>2, <2>5, <2>6, <3>1
  <2> QED
    BY <1>1, <2>1, <2>4, <2>5, <2>6
<1> HIDE DEF t
<1>3. Items(t) \subseteq Items(h) \cup Items(s)
  <2> SUFFICES ASSUME NEW i \in 1 .. Len(t) PROVE t[i].item \in Items(h) \cup Items(s)
    BY <1>2 DEF Items
  <2>1. CASE i <= n
    <3>1. i \in 1 .. Len(h) /\ t[i] = h[i]
      BY <1>1, <1>2, <2>1
    <3> QED
      BY <1>1, <3>1 DEF Items
  <2>2. CASE i > n /\ i <= n + l
    <3>1. i - n \in 1 .. l /\ t[i] = s[i - n]
      BY <1>1, <1>2, <2>2
    <3> QED
      BY <1>1, <3>1 DEF Items
  <2>3. CASE i > n + l
    <3>1. i - l \in 1 .. Len(h) /\ t[i] = h[i - l]
      BY <1>1, <1>2, <2>3
    <3> QED
      BY <1>1, <3>1 DEF Items
  <2> QED
    BY <1>1, <2>1, <2>2, <2>3
<1>4. Items(h) \cup Items(s) \subseteq Items(t)
  <2>1. ASSUME NEW i \in 1 .. Len(h) PROVE h[i].item \in Items(t)
    <3>1. CASE i <= n
      <4>1. i \in DOMAIN t /\ t[i] = h[i]
        BY <1>1, <1>2, <3>1
      <4> QED
        BY <4>1 DEF Items
    <3>2. CASE i > n
      <4>1. i + l \in 1 .. Len(t) /\ i + l > n + l /\ (i + l) - l = i
        BY <1>1, <1>2, <3>2
      <4>2. i + l \in DOMAIN t /\ t[i + l] = h[i]
        BY <1>1, <1>2, <4>1
      <4> QED
        BY <4>2 DEF Items
    <3> QED
      BY <1>1, <3>1, <3>2
  <2>2. ASSUME NEW i \in 1 .. l PROVE s[i].item \in Items(t)
    <3>1. i + n \in 1 .. Len(t) /\ ~(i + n <= n) /\ i + n <= n + l /\ (i + n) - n = i
      BY <1>1, <1>2
    <3>2. i + n \in DOMAIN t /\ t[i + n] = s[i]
      BY <1>1, <1>2, <3>1
    <3> QED
      BY <3>2 DEF Items
  <2> QED
    BY <1>1, <2>1, <2>2 DEF Items
<1>5. Once(t, C)
  <2> SUFFICES ASSUME NEW i \in 1 .. Len(t), NEW j \in 1 .. Len(t), i < j,
                      t[i].item = t[j].item, t[i].item \notin C
               PROVE  FALSE
    <3>1. DOMAIN t = 1 .. Len(t) /\ Len(t) \in Nat
      BY <1>1, <1>2
    <3> QED
      BY <3>1 DEF Once
  <2>1. \A a \in 1 .. Len(h), b \in 1 .. Len(h) :
          h[a].item = h[b].item /\ h[a].item \notin C => a = b
    BY <1>1 DEF Held, Once
  <2>2. \A a \in 1 .. l, b \in 1 .. l : s[a].item = s[b].item /\ s[a].item \notin C => a = b
    BY <1>1 DEF Held, Once
  <2>3. \A a \in 1 .. l, b \in 1 .. Len(h) : s[a].item = h[b].item => s[a].item \in C
    BY <1>1 DEF Apart, Items
  <2> DEFINE Old(a) == IF a <= n THEN a ELSE a - l
  <2>4. \A a \in 1 .. Len(t) : a <= n \/ a > n + l => Old(a) \in 1 .. Len(h) /\ t[a] = h[Old(a)]
    BY <1>1, <1>2
  <2>5. \A a \in 1 .. Len(t) : ~(a <= n \/ a > n + l) => a - n \in 1 .. l /\ t[a] = s[a - n]
    <3> SUFFICES ASSUME NEW a \in 1 .. Len(t), ~(a <= n \/ a > n + l)
                 PROVE  a - n \in 1 .. l /\ t[a] = s[a - n]
      OBVIOUS
    <3>1. a \in Int /\ ~(a <= n) /\ a <= n + l
      BY <1>1, <1>2
    <3> QED
      BY <1>1, <1>2, <3>1
  <2>6. CASE (i <= n \/ i > n + l) /\ (j <= n \/ j > n + l)
    <3>1. Old(i) = Old(j)
      BY <2>1, <2>4, <2>6
    <3> QED
      BY <1>1, <2>6, <3>1
  <2>7. CASE ~(i <= n \/ i > n + l) /\ ~(j <= n \/ j > n + l)
    <3>1. i - n = j - n
      BY <2>2, <2>5, <2>7
    <3> QED
      BY <1>1, <3>1
  <2> HIDE DEF Old
  <2>8. CASE (i <= n \/ i > n + l) /\ ~(j <= n \/ j > n + l)
    BY <2>3, <2>4, <2>5, <2>8
  <2>9. CASE ~(i <= n \/ i > n + l) /\ (j <= n \/ j > n + l)
    BY <2>3, <2>4, <2>5, <2>9
  <2> QED
    BY <2>6, <2>7, <2>8, <2>9
<1> QED
  BY <1>2, <1>3, <1>4, <1>5 DEF t, Held

(* An object put at another depth or slot is the same object. *)
LEMMA Placing ==
    ASSUME NEW C, NEW s, Held(s, C), Rooted(s), NEW d \in Nat, NEW pos \in 0 .. Slots
    PROVE  /\ Held(Placed(s, d, pos), C)
           /\ Items(Placed(s, d, pos)) = Items(s)
<1> DEFINE t == Placed(s, d, pos)
<1>1. /\ s \in Seq(Entry) /\ DOMAIN s = 1 .. Len(s) /\ Len(s) \in Nat
      /\ 1 \in DOMAIN s /\ s[1].depth \in Nat
  <2>1. s \in Seq(Entry) /\ s # << >>
    BY DEF Held, Rooted
  <2>2. DOMAIN s = 1 .. Len(s) /\ Len(s) \in Nat /\ 1 \in DOMAIN s
    BY <2>1
  <2>3. s[1] \in Entry
    BY <2>1, <2>2
  <2> QED
    BY <2>1, <2>2, <2>3 DEF Entry
<1>2. ASSUME NEW k \in DOMAIN s PROVE t[k] \in Entry /\ t[k].item = s[k].item
  <2>1. s[k] \in Entry /\ s[k].depth >= s[1].depth
    BY <1>1 DEF Rooted
  <2>2. s[k].depth \in Nat /\ s[k].depth - s[1].depth + d \in Nat
    BY <1>1, <2>1 DEF Entry
  <2>3. t[k] = [s[k] EXCEPT !.depth = s[k].depth - s[1].depth + d,
                            !.worn = IF k = 1 THEN pos ELSE 0]
    BY DEF Placed
  <2> HIDE DEF t
  <2>4. (IF k = 1 THEN pos ELSE 0) \in 0 .. Slots
    OBVIOUS
  <2> QED
    BY <2>1, <2>2, <2>3, <2>4 DEF Entry
<1>3. DOMAIN t = DOMAIN s /\ t \in Seq(Entry)
  <2>1. t = [k \in 1 .. Len(s) |-> t[k]]
    BY <1>1 DEF Placed
  <2> HIDE DEF t
  <2> QED
    BY <1>1, <1>2, <2>1
<1> HIDE DEF t
<1>4. Once(t, C)
  BY <1>2, <1>3 DEF Once, Held
<1>5. Items(t) = Items(s)
  BY <1>2, <1>3 DEF Items
<1> QED
  BY <1>3, <1>4, <1>5 DEF t, Held

(* Where a list of its own begins is a place in the heap. *)
LEMMA BeforeIn ==
    ASSUME NEW h \in Seq(Entry), NEW pos
    PROVE  Before(h, pos) \in 0 .. Len(h)
<1> DEFINE at == {k \in DOMAIN h : \A t \in Top(h) : t <= k => h[t].worn \in 1 .. pos - 1}
<1>1. Len(h) \in Nat /\ DOMAIN h = 1 .. Len(h)
  OBVIOUS
<1>2. IsFiniteSet(1 .. Len(h)) /\ Cardinality(1 .. Len(h)) = Len(h)
  BY <1>1, FS_Interval
<1>3. at \in SUBSET (1 .. Len(h))
  BY <1>1
<1>4. Before(h, pos) = Cardinality(at)
  BY DEF Before
<1> HIDE DEF at
<1>5. IsFiniteSet(at) /\ Cardinality(at) <= Len(h)
  BY <1>2, <1>3, FS_Subset
<1>6. Cardinality(at) \in Nat
  BY <1>5, FS_CardinalityType
<1> QED
  BY <1>1, <1>4, <1>5, <1>6

(* obj_to_char: an object at the head of the inventory; nothing is lost or
   doubled. *)
LEMMA ObjToCharHeld ==
    ASSUME NEW C, NEW h, Held(h, C), NEW s, Held(s, C), Rooted(s), Apart(s, h, C)
    PROVE  /\ Held(ObjToChar(h, s), C)
           /\ Items(ObjToChar(h, s)) = Items(h) \cup Items(s)
<1> DEFINE t == Placed(s, 0, 0)
<1>1. Held(t, C) /\ Items(t) = Items(s)
  BY Placing
<1>2. Before(h, Slots + 1) \in 0 .. Len(h)
  BY BeforeIn DEF Held
<1>3. Apart(t, h, C)
  BY <1>1 DEF Apart
<1> HIDE DEF t
<1>4. /\ Held(Insert(h, Before(h, Slots + 1), t), C)
      /\ Items(Insert(h, Before(h, Slots + 1), t)) = Items(h) \cup Items(t)
  BY <1>1, <1>2, <1>3, Inserting
<1> QED
  BY <1>1, <1>4 DEF ObjToChar, t

(* obj_to_obj: an object at the head of what a container contains. *)
LEMMA ObjToObjHeld ==
    ASSUME NEW C, NEW h, Held(h, C), NEW s, Held(s, C), Rooted(s), Apart(s, h, C),
           NEW c \in Items(h)
    PROVE  /\ Held(ObjToObj(h, s, c), C)
           /\ Items(ObjToObj(h, s, c)) = Items(h) \cup Items(s)
<1> DEFINE n == At(h, c)
           t == Placed(s, h[n].depth + 1, 0)
<1>1. n \in DOMAIN h
  BY DEF Items, At
<1>2. n \in 0 .. Len(h) /\ h[n].depth + 1 \in Nat
  <2>1. h \in Seq(Entry)
    BY DEF Held
  <2>2. n \in 1 .. Len(h) /\ h[n] \in Entry
    BY <1>1, <2>1
  <2> QED
    BY <2>1, <2>2 DEF Entry
<1> HIDE DEF n
<1>3. Held(t, C) /\ Items(t) = Items(s)
  BY <1>2, Placing
<1>4. Apart(t, h, C)
  BY <1>3 DEF Apart
<1> HIDE DEF t
<1>5. Held(Insert(h, n, t), C) /\ Items(Insert(h, n, t)) = Items(h) \cup Items(t)
  BY <1>2, <1>3, <1>4, Inserting
<1> QED
  BY <1>3, <1>5 DEF ObjToObj, n, t

(* equip_char: an object in a slot, or lost when the slot is taken. *)
LEMMA EquipCharHeld ==
    ASSUME NEW C, NEW h, Held(h, C), NEW s, Held(s, C), Rooted(s), Apart(s, h, C),
           NEW pos \in 1 .. Slots
    PROVE  /\ Held(EquipChar(h, s, pos), C)
           /\ Items(EquipChar(h, s, pos)) \subseteq Items(h) \cup Items(s)
<1> DEFINE t == Placed(s, 0, pos)
<1>1. Held(t, C) /\ Items(t) = Items(s)
  BY Placing
<1>2. Before(h, pos) \in 0 .. Len(h)
  BY BeforeIn DEF Held
<1>3. Apart(t, h, C)
  BY <1>1 DEF Apart
<1> HIDE DEF t
<1>4. /\ Held(Insert(h, Before(h, pos), t), C)
      /\ Items(Insert(h, Before(h, pos), t)) = Items(h) \cup Items(t)
  BY <1>1, <1>2, <1>3, Inserting
<1> QED
  BY <1>1, <1>4 DEF EquipChar, t

(* What is smaller is still held, and still apart. *)
LEMMA ApartPart ==
    ASSUME NEW C, NEW f, NEW g, Apart(f, g, C), NEW a, Items(a) \subseteq Items(f)
    PROVE  Apart(a, g, C) /\ Apart(g, a, C)
BY DEF Apart

(* A single object without contents. *)
LEMMA LooseHeld ==
    ASSUME NEW C, NEW i \in Item
    PROVE  Held(Loose(i), C) /\ Rooted(Loose(i)) /\ Items(Loose(i)) = {i}
<1> DEFINE e == [item |-> i, kept |-> TRUE, depth |-> 0, worn |-> 0]
<1>1. e \in Entry
  BY DEF Entry
<1>2. Loose(i) = << e >>
  BY DEF Loose
<1>3. /\ << e >> \in Seq(Entry) /\ DOMAIN << e >> = {1} /\ << e >>[1] = e
      /\ << e >> # << >>
  BY <1>1
<1>4. e.item = i /\ e.depth = 0
  OBVIOUS
<1> HIDE DEF e
<1> QED
  BY <1>2, <1>3, <1>4 DEF Held, Once, Rooted, Items

-----------------------------------------------------------------------------
(* What the records do to what a heap holds *)

\* The objects among the first k entries.
Firsts(h, k) == {h[j].item : j \in 1 .. k}

(* The next object is not among the first, but if it is in C. *)
LEMMA NextOne ==
    ASSUME NEW C, NEW h, Held(h, C), NEW k \in 0 .. Len(h) - 1
    PROVE  /\ k + 1 \in DOMAIN h /\ h[k + 1] \in Entry
           /\ Firsts(h, k + 1) = Firsts(h, k) \cup {h[k + 1].item}
           /\ (h[k + 1].item \in Firsts(h, k) => h[k + 1].item \in C)
<1> DEFINE n == Len(h)
<1>1. h \in Seq(Entry) /\ n \in Nat /\ DOMAIN h = 1 .. n
  BY DEF Held
<1> HIDE DEF n
<1>2. \A i, j \in 1 .. n : h[i].item = h[j].item /\ h[i].item \notin C => i = j
  BY <1>1 DEF Held, Once
<1>3. k + 1 \in 1 .. n /\ \A j \in 1 .. k : j \in 1 .. n /\ j # k + 1
  BY <1>1 DEF n
<1>4. h[k + 1] \in Entry
  BY <1>1, <1>3
<1>5. 1 .. k + 1 = (1 .. k) \cup {k + 1}
  BY <1>1 DEF n
<1>6. h[k + 1].item \in Firsts(h, k) => h[k + 1].item \in C
  BY <1>2, <1>3 DEF Firsts
<1>7. Firsts(h, k + 1) = Firsts(h, k) \cup {h[k + 1].item}
  BY <1>5 DEF Firsts
<1> QED
  BY <1>1, <1>3, <1>4, <1>6, <1>7

(* An entry behind the others. *)
LEMMA Appending ==
    ASSUME NEW C, NEW h, Held(h, C), NEW e \in Entry, e.item \in Items(h) => e.item \in C
    PROVE  /\ Held(Append(h, e), C)
           /\ Items(Append(h, e)) = Items(h) \cup {e.item}
           /\ Len(Append(h, e)) = Len(h) + 1
<1> DEFINE t == Append(h, e)
           n == Len(h)
<1>1. h \in Seq(Entry) /\ n \in Nat /\ DOMAIN h = 1 .. n
  BY DEF Held
<1>2. /\ t \in Seq(Entry) /\ Len(t) = n + 1 /\ DOMAIN t = 1 .. n + 1
      /\ \A i \in 1 .. n : t[i] = h[i]
      /\ t[n + 1] = e
  BY <1>1
<1> HIDE DEF t, n
<1>3. 1 .. n + 1 = (1 .. n) \cup {n + 1}
  BY <1>1
<1>4. Items(t) = Items(h) \cup {e.item}
  BY <1>1, <1>2, <1>3 DEF Items
<1>5. Once(t, C)
  <2>1. \A i, j \in 1 .. n : h[i].item = h[j].item /\ h[i].item \notin C => i = j
    BY <1>1 DEF Held, Once
  <2>2. \A i \in 1 .. n : h[i].item = e.item => e.item \in C
    BY <1>1 DEF Items
  <2> QED
    BY <1>2, <1>3, <2>1, <2>2 DEF Once
<1> QED
  BY <1>2, <1>4, <1>5 DEF Held, t, n

(* The objects of a heap are one by one in Item. *)
LEMMA ItemsIn ==
    ASSUME NEW h \in Seq(Entry)
    PROVE  Items(h) \subseteq Item /\ Held(h, Item)
<1>1. \A k \in DOMAIN h : h[k] \in Entry
  OBVIOUS
<1>2. \A k \in DOMAIN h : h[k].item \in Item
  BY <1>1 DEF Entry
<1> QED
  BY <1>2 DEF Items, Held, Once

(* obj_to_store passes an object over, or writes it behind the others. *)
LEMMA PutsOne ==
    ASSUME NEW s \in SavedSet, NEW e \in Entry
    PROVE  /\ PutObjInStore(s, e) \in SavedSet
           /\ \/ PutObjInStore(s, e).st = s.st
              \/ \E f \in Entry : /\ f.item = e.item /\ Len(s.st) < MaxObjSave
                                  /\ PutObjInStore(s, e).st = Append(s.st, f)
<1> DEFINE noted == IF e.worn > 0 THEN e.worn ELSE s.noted
<1>1. /\ s.st \in Seq(Entry) /\ s.noted \in 0 .. Slots /\ DOMAIN s = {"st", "noted"}
      /\ Len(s.st) \in Nat
  BY DEF SavedSet
<1>2. e.worn \in 0 .. Slots
  BY DEF Entry
<1>3. noted \in 0 .. Slots /\ 0 \in 0 .. Slots
  BY <1>1, <1>2
<1>4. PutObjInStore(s, e) = IF ~ e.kept \/ Len(s.st) >= MaxObjSave
                            THEN [s EXCEPT !.noted = noted]
                            ELSE [st |-> Append(s.st, [e EXCEPT !.worn = noted]), noted |-> 0]
  BY DEF PutObjInStore
<1> HIDE DEF noted
<1>5. CASE ~ e.kept \/ Len(s.st) >= MaxObjSave
  <2>1. [s EXCEPT !.noted = noted] \in SavedSet /\ [s EXCEPT !.noted = noted].st = s.st
    BY <1>1, <1>3 DEF SavedSet
  <2> QED
    BY <1>4, <1>5, <2>1
<1>6. CASE ~(~ e.kept \/ Len(s.st) >= MaxObjSave)
  <2> DEFINE f == [e EXCEPT !.worn = noted]
  <2>1. f \in Entry /\ f.item = e.item
    BY <1>3 DEF Entry
  <2> HIDE DEF f
  <2>2. Append(s.st, f) \in Seq(Entry)
    BY <1>1, <2>1
  <2>3. PutObjInStore(s, e) = [st |-> Append(s.st, f), noted |-> 0]
    BY <1>4, <1>6 DEF f
  <2>4. PutObjInStore(s, e) \in SavedSet /\ PutObjInStore(s, e).st = Append(s.st, f)
    BY <1>3, <2>2, <2>3 DEF SavedSet
  <2>5. Len(s.st) < MaxObjSave
    BY <1>1, <1>6
  <2> QED
    BY <2>1, <2>4, <2>5
<1> QED
  BY <1>5, <1>6

(* A record lists nothing the heap does not hold, and nothing twice; it is no
   longer than MAX_OBJ_SAVE. *)
LEMMA SaveObjHeld ==
    ASSUME NEW C, NEW h, Held(h, C)
    PROVE  /\ Held(SaveObj(h), C) /\ Items(SaveObj(h)) \subseteq Items(h)
           /\ Len(SaveObj(h)) <= MaxObjSave
<1> DEFINE n == Len(h)
<1>1. h \in Seq(Entry) /\ n \in Nat /\ DOMAIN h = 1 .. n /\ n = Len(h)
  BY DEF Held
<1>2. Unsaved \in SavedSet /\ Unsaved.st = << >>
  BY DEF Unsaved, SavedSet
<1>3. \A s \in SavedSet, k \in DOMAIN h : PutObjInStore(s, h[k]) \in SavedSet
  BY <1>1, PutsOne
<1>4. PICK r : /\ r[0] = Unsaved
               /\ \A k \in 1 .. n : r[k] = PutObjInStore(r[k - 1], h[k])
               /\ SaveObj(h) = r[n].st
  BY <1>1, <1>2, <1>3, SavingSteps
<1> HIDE DEF n
<1> DEFINE good == {k \in 0 .. n : /\ r[k] \in SavedSet
                                   /\ Held(r[k].st, C) /\ Items(r[k].st) \subseteq Firsts(h, k)
                                   /\ Len(r[k].st) <= MaxObjSave}
<1>5. 0 \in good
  <2>1. Held(<< >>, C) /\ Items(<< >>) = {} /\ Len(<< >>) <= MaxObjSave
    BY DEF Held, Once, Items
  <2> QED
    BY <1>1, <1>2, <1>4, <2>1
<1>6. ASSUME NEW k \in 0 .. n - 1, k \in good PROVE k + 1 \in good
  <2> DEFINE s == r[k]
             u == r[k + 1]
             e == h[k + 1]
  <2>1. k + 1 \in 1 .. n /\ (k + 1) - 1 = k
    BY <1>1
  <2>2. u = PutObjInStore(s, e)
    BY <1>4, <2>1
  <2>3. /\ e \in Entry /\ Firsts(h, k + 1) = Firsts(h, k) \cup {e.item}
        /\ e.item \in Firsts(h, k) => e.item \in C
    <3> HIDE DEF good, s, u, e
    <3>1. k \in 0 .. Len(h) - 1
      BY <1>1
    <3> QED
      BY <3>1, NextOne DEF e
  <2>4. /\ s \in SavedSet /\ Held(s.st, C) /\ Items(s.st) \subseteq Firsts(h, k)
        /\ Len(s.st) <= MaxObjSave /\ Len(s.st) \in Nat
    BY <1>6 DEF SavedSet
  <2> HIDE DEF s, u, e
  <2>5. CASE u.st = s.st
    <3>1. u \in SavedSet
      BY <2>2, <2>3, <2>4, PutsOne
    <3> QED
      BY <2>1, <2>3, <2>4, <2>5, <3>1 DEF u
  <2>6. ASSUME NEW f \in Entry, f.item = e.item, Len(s.st) < MaxObjSave, u.st = Append(s.st, f)
        PROVE  k + 1 \in good
    <3>1. u \in SavedSet
      BY <2>2, <2>3, <2>4, PutsOne
    <3>2. /\ Held(Append(s.st, f), C)
          /\ Items(Append(s.st, f)) = Items(s.st) \cup {f.item}
          /\ Len(Append(s.st, f)) = Len(s.st) + 1
      BY <2>3, <2>4, <2>6, Appending
    <3>3. Held(u.st, C) /\ Items(u.st) \subseteq Firsts(h, k + 1) /\ Len(u.st) <= MaxObjSave
      BY <2>3, <2>4, <2>6, <3>2
    <3> QED
      BY <2>1, <3>1, <3>3 DEF u
  <2> QED
    BY <2>2, <2>3, <2>4, <2>5, <2>6, PutsOne
<1> HIDE DEF good
<1>7. \A k \in 0 .. n : k \in good
  BY <1>1, <1>5, <1>6, Counting
<1>8. /\ Held(r[n].st, C) /\ Items(r[n].st) \subseteq Firsts(h, n)
      /\ Len(r[n].st) <= MaxObjSave
  BY <1>1, <1>7 DEF good
<1>9. Firsts(h, n) = Items(h)
  BY <1>1 DEF Firsts, Items
<1> QED
  BY <1>4, <1>8, <1>9

(* Where an object read from a record goes. *)
LEMMA LoadsOne ==
    ASSUME NEW C, NEW s \in LoadedSet, NEW e \in Entry, Held(s.heap, C),
           e.item \in Items(s.heap) => e.item \in C
    PROVE  /\ StoreToChar(s, e) \in LoadedSet
           /\ Held(StoreToChar(s, e).heap, C)
           /\ Items(StoreToChar(s, e).heap) \subseteq Items(s.heap) \cup {e.item}
<1> DEFINE worn == IF e.depth > 0 THEN 0 ELSE e.worn
           depth == IF e.worn > 0 THEN 0 ELSE e.depth
           in == IF depth > Len(s.in) THEN Append(s.in, s.last)
                 ELSE IF depth < Len(s.in) THEN Front(s.in) ELSE s.in
           obj == Loose(e.item)
           g == IF worn > 0 THEN EquipChar(s.heap, obj, worn)
                ELSE IF in = << >> THEN ObjToChar(s.heap, obj)
                ELSE IF Last(in) \in Items(s.heap) THEN ObjToObj(s.heap, obj, Last(in))
                ELSE s.heap
<1>1. /\ s.in \in Seq(Item \cup {None}) /\ s.last \in Item \cup {None}
      /\ s.heap \in Seq(Entry)
  BY DEF LoadedSet
<1>2. e.item \in Item /\ e.worn \in 0 .. Slots /\ e.depth \in Nat
  BY DEF Entry
<1>3. StoreToChar(s, e) = [in |-> in, last |-> e.item, heap |-> g]
  BY DEF StoreToChar
<1>4. in \in Seq(Item \cup {None})
  <2>1. Append(s.in, s.last) \in Seq(Item \cup {None})
    BY <1>1
  <2>2. ASSUME depth < Len(s.in) PROVE Front(s.in) \in Seq(Item \cup {None})
    <3>1. depth \in Nat /\ Len(s.in) \in Nat
      BY <1>1, <1>2
    <3>2. Len(s.in) - 1 \in 0 .. Len(s.in)
      BY <2>2, <3>1
    <3> QED
      BY <1>1, <3>2 DEF Front
  <2> HIDE DEF depth
  <2> QED
    BY <1>1, <2>1, <2>2
<1>5. Held(obj, C) /\ Rooted(obj) /\ Items(obj) = {e.item}
  BY <1>2, LooseHeld
<1>6. Apart(obj, s.heap, C)
  BY <1>5 DEF Apart
<1>7. worn \in 0 .. Slots
  BY <1>2
<1> HIDE DEF worn, in, obj
<1>8. Held(g, C) /\ Items(g) \subseteq Items(s.heap) \cup {e.item}
  <2>1. CASE worn > 0
    <3>1. worn \in 1 .. Slots
      BY <1>7, <2>1
    <3> QED
      BY <1>5, <1>6, <2>1, <3>1, EquipCharHeld
  <2>2. CASE ~(worn > 0) /\ in = << >>
    BY <1>5, <1>6, <2>2, ObjToCharHeld
  <2>3. CASE ~(worn > 0) /\ in # << >> /\ Last(in) \in Items(s.heap)
    BY <1>5, <1>6, <2>3, ObjToObjHeld
  <2>4. CASE ~(worn > 0) /\ in # << >> /\ Last(in) \notin Items(s.heap)
    BY <2>4
  <2> QED
    BY <2>1, <2>2, <2>3, <2>4
<1> HIDE DEF g
<1>9. g \in Seq(Entry)
  BY <1>8 DEF Held
<1> QED
  BY <1>2, <1>3, <1>4, <1>8, <1>9 DEF LoadedSet

(* What comes back from a record was in it. *)
LEMMA ObjStoreHeld ==
    ASSUME NEW C, NEW h, Held(h, C)
    PROVE  /\ Held(ObjStoreToChar(h), C)
           /\ Items(ObjStoreToChar(h)) \subseteq Items(h)
<1> DEFINE n == Len(h)
<1>1. h \in Seq(Entry) /\ n \in Nat /\ DOMAIN h = 1 .. n /\ n = Len(h)
  BY DEF Held
<1>2. Unloaded \in LoadedSet /\ Unloaded.heap = << >>
  BY DEF Unloaded, LoadedSet
<1>3. \A s \in LoadedSet, k \in DOMAIN h : StoreToChar(s, h[k]) \in LoadedSet
  <2> SUFFICES ASSUME NEW s \in LoadedSet, NEW k \in DOMAIN h
               PROVE  StoreToChar(s, h[k]) \in LoadedSet
    OBVIOUS
  <2>1. h[k] \in Entry
    BY <1>1
  <2>2. s.heap \in Seq(Entry)
    BY DEF LoadedSet
  <2>3. Held(s.heap, Item) /\ Items(s.heap) \subseteq Item
    BY <2>2, ItemsIn
  <2>4. h[k].item \in Items(s.heap) => h[k].item \in Item
    BY <2>3
  <2> QED
    BY <2>1, <2>3, <2>4, LoadsOne
<1>4. PICK r : /\ r[0] = Unloaded
               /\ \A k \in 1 .. n : r[k] = StoreToChar(r[k - 1], h[k])
               /\ ObjStoreToChar(h) = r[n].heap
  BY <1>1, <1>2, <1>3, LoadingSteps
<1> HIDE DEF n
<1> DEFINE good == {k \in 0 .. n : /\ r[k] \in LoadedSet /\ Held(r[k].heap, C)
                                   /\ Items(r[k].heap) \subseteq Firsts(h, k)}
<1>5. 0 \in good
  <2>1. Held(<< >>, C) /\ Items(<< >>) = {}
    BY DEF Held, Once, Items
  <2> QED
    BY <1>1, <1>2, <1>4, <2>1
<1>6. ASSUME NEW k \in 0 .. n - 1, k \in good PROVE k + 1 \in good
  <2> DEFINE s == r[k]
             u == r[k + 1]
             e == h[k + 1]
  <2>1. k + 1 \in 1 .. n /\ (k + 1) - 1 = k
    BY <1>1
  <2>2. u = StoreToChar(s, e)
    BY <1>4, <2>1
  <2>3. /\ e \in Entry /\ Firsts(h, k + 1) = Firsts(h, k) \cup {e.item}
        /\ e.item \in Firsts(h, k) => e.item \in C
    <3> HIDE DEF good, s, u, e
    <3>1. k \in 0 .. Len(h) - 1
      BY <1>1
    <3> QED
      BY <3>1, NextOne DEF e
  <2>4. s \in LoadedSet /\ Held(s.heap, C) /\ Items(s.heap) \subseteq Firsts(h, k)
    BY <1>6
  <2> HIDE DEF s, u, e
  <2>5. /\ u \in LoadedSet /\ Held(u.heap, C)
        /\ Items(u.heap) \subseteq Items(s.heap) \cup {e.item}
    BY <2>2, <2>3, <2>4, LoadsOne
  <2>6. Items(u.heap) \subseteq Firsts(h, k + 1)
    BY <2>3, <2>4, <2>5
  <2> QED
    BY <2>1, <2>5, <2>6 DEF u
<1> HIDE DEF good
<1>7. \A k \in 0 .. n : k \in good
  BY <1>1, <1>5, <1>6, Counting
<1>8. Held(r[n].heap, C) /\ Items(r[n].heap) \subseteq Firsts(h, n)
  BY <1>1, <1>7 DEF good
<1>9. Firsts(h, n) = Items(h)
  BY <1>1 DEF Firsts, Items
<1> QED
  BY <1>4, <1>8, <1>9

(* What an object in the heap contains lies before the next that is in nothing. *)
LEMMA WholeItems ==
    ASSUME NEW h \in Seq(Entry), NEW k \in Top(h)
    PROVE  \A x \in Items(Whole(h, k)) :
             \E j \in k .. Len(h) : h[j].item = x /\ \A m \in k + 1 .. j : m \notin Top(h)
<1> DEFINE e == Max(Ends(h, k))
           s == Whole(h, k)
<1>1. /\ Len(h) \in Nat /\ DOMAIN h = 1 .. Len(h) /\ k \in 1 .. Len(h) /\ h[k].depth = 0
      /\ \A i \in 1 .. Len(h) : h[i] \in Entry
  BY DEF Top
<1>2. e \in k .. Len(h) /\ \A j \in k + 1 .. e : h[j].depth > 0
  BY <1>1, EndsProps
<1> HIDE DEF e
<1>3. /\ s \in Seq(Entry) /\ Len(s) = e - k + 1
      /\ \A i \in 1 .. Len(s) : k + i - 1 \in k .. e /\ s[i] = h[k + i - 1]
  BY <1>1, <1>2 DEF Whole, e
<1> HIDE DEF s
<1>4. \A m \in k + 1 .. e : m \notin Top(h)
  BY <1>1, <1>2 DEF Top
<1> SUFFICES ASSUME NEW i \in 1 .. Len(s)
             PROVE  \E j \in k .. Len(h) : /\ h[j].item = s[i].item
                                           /\ \A m \in k + 1 .. j : m \notin Top(h)
  <2>1. Items(s) = {s[i].item : i \in 1 .. Len(s)}
    <3>1. s \in Seq(Entry)
      BY <1>3
    <3>2. DOMAIN s = 1 .. Len(s)
      BY <3>1
    <3> QED
      BY <3>2 DEF Items
  <2>2. \A x \in Items(s) : \E i \in 1 .. Len(s) : x = s[i].item
    BY <2>1
  <2> QED
    BY <2>2 DEF s
<1>5. k + i - 1 \in k .. e /\ s[i] = h[k + i - 1]
  BY <1>3
<1>6. k + i - 1 \in k .. Len(h) /\ \A m \in k + 1 .. k + i - 1 : m \in k + 1 .. e
  BY <1>1, <1>2, <1>5
<1> QED
  BY <1>4, <1>5, <1>6

(* Whatever falls to the ground was there or in the heap. *)
LEMMA ToRoomHeld ==
    ASSUME NEW C, NEW h, Held(h, C), NEW room, Held(room, C), Apart(h, room, C)
    PROVE  Held(ToRoom(room, h), C) /\ Items(ToRoom(room, h)) \subseteq Items(room) \cup Items(h)
<1> DEFINE n == Len(h)
           Behind(k) == {h[j].item : j \in {i \in 1 .. n : \A m \in k + 1 .. i : m \notin Top(h)}}
<1>1. /\ h \in Seq(Entry) /\ n \in Nat /\ DOMAIN h = 1 .. n /\ n = Len(h)
      /\ room \in Seq(Entry)
  BY DEF Held
<1>2. \A s \in Seq(Entry), k \in DOMAIN h : Left(h, s, Indices(h)[k]) \in Seq(Entry)
  <2> SUFFICES ASSUME NEW s \in Seq(Entry), NEW k \in DOMAIN h, k \in Top(h)
               PROVE  ObjToChar(s, Whole(h, k)) \in Seq(Entry)
    BY DEF Left, Indices
  <2>1. Held(s, Item)
    BY ItemsIn
  <2>2. Held(h, Item)
    BY <1>1, ItemsIn
  <2>3. Held(Whole(h, k), Item) /\ Rooted(Whole(h, k))
    BY <2>2, Parting
  <2>4. Items(Whole(h, k)) \subseteq Item
    BY <2>3, ItemsIn DEF Held
  <2>5. Apart(Whole(h, k), s, Item)
    BY <2>4 DEF Apart
  <2>6. Held(ObjToChar(s, Whole(h, k)), Item)
    BY <2>1, <2>3, <2>5, ObjToCharHeld
  <2> QED
    BY <2>6 DEF Held
<1>3. PICK r : /\ r[0] = room
               /\ \A k \in 1 .. n : r[k] = Left(h, r[k - 1], Indices(h)[k])
               /\ ToRoom(room, h) = r[n]
  BY <1>1, <1>2, LeavingSteps
<1> HIDE DEF n
<1>4. \A k \in 0 .. n : Behind(k) \subseteq Items(h)
  BY <1>1 DEF Items
<1> DEFINE good == {k \in 0 .. n : /\ Held(r[k], C)
                                   /\ Items(r[k]) \subseteq Items(room) \cup Behind(k)}
<1>5. 0 \in good
  BY <1>1, <1>3
<1>6. ASSUME NEW k \in 0 .. n - 1, k \in good PROVE k + 1 \in good
  <2> DEFINE t == k + 1
             s == Whole(h, t)
  <2>1. t \in 1 .. n /\ t - 1 = k /\ t \in 0 .. n
    BY <1>1
  <2>2. r[t] = Left(h, r[t - 1], Indices(h)[t]) /\ Indices(h)[t] = t
    <3>1. Indices(h)[t] = t
      BY <1>1, <2>1 DEF Indices
    <3> HIDE DEF t
    <3> QED
      BY <1>3, <2>1, <3>1
  <2>3. r[t] = IF t \in Top(h) THEN ObjToChar(r[k], s) ELSE r[k]
    <3>1. r[t - 1] = r[k]
      BY <2>1
    <3> HIDE DEF t
    <3> QED
      BY <2>2, <3>1 DEF Left
  <2>4. Held(r[k], C) /\ Items(r[k]) \subseteq Items(room) \cup Behind(k)
    BY <1>6
  <2>5. Behind(k) \subseteq Behind(t)
    <3>1. \A i \in 1 .. n : \A m \in t + 1 .. i : m \in k + 1 .. i
      BY <1>1
    <3> QED
      BY <3>1
  <2>6. CASE t \notin Top(h)
    BY <2>1, <2>3, <2>4, <2>5, <2>6
  <2>7. CASE t \in Top(h)
    <3>1. \A x \in Items(s) :
            \E j \in t .. n : h[j].item = x /\ \A m \in t + 1 .. j : m \notin Top(h)
      <4> HIDE DEF t
      <4> QED
        BY <1>1, <2>7, WholeItems
    <3>2. Held(s, C) /\ Rooted(s) /\ Items(s) \subseteq Items(h)
      <4> HIDE DEF t
      <4> QED
        BY <1>1, <2>1, Parting
    <3>3. Items(s) \subseteq Behind(t)
      <4>1. t .. n \subseteq 1 .. n
        BY <1>1
      <4> HIDE DEF s, t
      <4> QED
        BY <3>1, <4>1
    <3>4. Apart(s, r[k], C)
      <4> SUFFICES ASSUME NEW x \in Items(s), x \in Items(r[k]), x \notin C
                   PROVE  FALSE
        BY DEF Apart
      <4>1. x \notin Items(room)
        BY <3>2 DEF Apart
      <4>2. x \in Behind(k)
        BY <2>4, <4>1
      <4>3. PICK i \in 1 .. n : h[i].item = x /\ \A m \in k + 1 .. i : m \notin Top(h)
        BY <4>2
      <4>4. PICK j \in t .. n : h[j].item = x
        BY <3>1
      <4>5. \A a, b \in 1 .. n : h[a].item = h[b].item /\ h[a].item \notin C => a = b
        BY <1>1 DEF Held, Once
      <4>6. j \in 1 .. n
        BY <1>1
      <4>7. i = j
        BY <4>3, <4>4, <4>5, <4>6
      <4>8. t \in k + 1 .. i
        BY <1>1, <4>7
      <4> QED
        BY <2>7, <4>3, <4>8
    <3> HIDE DEF s, Behind
    <3>5. Held(ObjToChar(r[k], s), C) /\ Items(ObjToChar(r[k], s)) = Items(r[k]) \cup Items(s)
      BY <2>4, <3>2, <3>4, ObjToCharHeld
    <3>6. Held(r[t], C) /\ Items(r[t]) \subseteq Items(room) \cup Behind(t)
      BY <2>3, <2>4, <2>5, <2>7, <3>3, <3>5
    <3> QED
      BY <2>1, <3>6
  <2> QED
    BY <2>6, <2>7
<1> HIDE DEF good
<1>7. \A k \in 0 .. n : k \in good
  BY <1>1, <1>5, <1>6, Counting
<1>8. Held(r[n], C) /\ Items(r[n]) \subseteq Items(room) \cup Behind(n)
  BY <1>1, <1>7 DEF good
<1> HIDE DEF Behind
<1> QED
  BY <1>1, <1>3, <1>4, <1>8

-----------------------------------------------------------------------------
(* The owners and the records together.  hp, fl and bh stand for heap, file
   and behind before or after a step, C for copied, and due for the player
   the command in progress saves next; Ground is nobody. *)

\* No object is owned twice, or by two, but what is in C.
Distinct(hp, C) == /\ \A o \in Owner : Held(hp[o], C)
                   /\ \A o1, o2 \in Owner : o1 # o2 => Apart(hp[o1], hp[o2], C)

\* What a record lists no other record lists, and nobody else owns, unless its
\* player is the next to be saved.
RecordKept(hp, fl, bh, C, due) ==
    \A p \in Player \ bh : \A x \in Items(fl[p]) \ C :
        /\ \A q \in Player \ (bh \cup {p}) : x \notin Items(fl[q])
        /\ p # due => \A o \in Owner \ {p} : x \notin Items(hp[o])

Due == IF saves = << >> THEN Ground ELSE Head(saves)

\* Before the giver is saved its record may list what another owns by now:
\* RecordsSound excepts every player in saves, this only the first of them.
IndInv == /\ TypeOK
          /\ Distinct(heap, copied)
          /\ \A p \in Player : Once(file[p], copied)
          /\ RecordKept(heap, file, behind, copied, Due)

\* Nothing is added to what the owners have, but that r may have what g had.
Regroups(hp, hp2, g, r, C) ==
    /\ \A o \in Owner : Held(hp2[o], C)
    /\ \A o \in Owner \ {r} : Items(hp2[o]) \subseteq Items(hp[o])
    /\ Items(hp2[r]) \subseteq Items(hp[r]) \cup Items(hp[g])
    /\ g = r \/ Apart(hp2[g], hp2[r], C)

(* Objects may leave an owner g for r if there is no record of g that is not
   out of date, or it is the next to be made; g = r is an owner who loses or
   rearranges. *)
LEMMA Regrouped ==
    ASSUME NEW C, NEW hp, NEW hp2, NEW fl, NEW bh, NEW bh2, NEW due, NEW due2,
           NEW g \in Owner, NEW r \in Owner,
           Distinct(hp, C), RecordKept(hp, fl, bh, C, due), bh \subseteq bh2,
           Regroups(hp, hp2, g, r, C),
           due = Ground \/ due = due2,
           g = r \/ (due = Ground /\ (g \in bh2 \/ g = Ground \/ g = due2))
    PROVE  Distinct(hp2, C) /\ RecordKept(hp2, fl, bh2, C, due2)
<1> USE DEF Regroups
<1>1. \A o \in Owner : \A x :
        x \in Items(hp2[o]) => x \in Items(hp[o]) \/ (o = r /\ x \in Items(hp[g]))
  OBVIOUS
<1>2. \A o1, o2 \in Owner : \A x : o1 # o2 /\ x \in Items(hp[o1]) /\ x \in Items(hp[o2]) => x \in C
  BY DEF Distinct, Apart
<1>3. \A o \in Owner \ {r} : Apart(hp2[r], hp2[o], C) /\ Apart(hp2[o], hp2[r], C)
  <2> SUFFICES ASSUME NEW o \in Owner \ {r}, NEW x, x \in Items(hp2[r]), x \in Items(hp2[o])
               PROVE  x \in C
    BY DEF Apart
  <2>1. x \in Items(hp[o]) /\ (x \in Items(hp[r]) \/ x \in Items(hp[g]))
    BY <1>1
  <2>2. CASE o = g
    BY <2>2 DEF Apart
  <2>3. CASE o # g
    BY <1>2, <2>1, <2>3
  <2> QED
    BY <2>2, <2>3
<1>4. \A o1, o2 \in Owner : o1 # o2 => Apart(hp2[o1], hp2[o2], C)
  <2> SUFFICES ASSUME NEW o1 \in Owner, NEW o2 \in Owner, o1 # o2, o1 # r, o2 # r
               PROVE  Apart(hp2[o1], hp2[o2], C)
    BY <1>3
  <2> QED
    BY <1>1, <1>2 DEF Apart
<1>5. ASSUME NEW p \in Player \ bh2, NEW x \in Items(fl[p]) \ C
      PROVE  /\ \A q \in Player \ (bh2 \cup {p}) : x \notin Items(fl[q])
             /\ p # due2 => \A o \in Owner \ {p} : x \notin Items(hp2[o])
  <2>1. /\ \A q \in Player \ (bh \cup {p}) : x \notin Items(fl[q])
        /\ p # due => \A o \in Owner \ {p} : x \notin Items(hp[o])
    <3>1. p \in Player \ bh
      OBVIOUS
    <3> QED
      BY <3>1 DEF RecordKept
  <2>2. p # Ground
    OBVIOUS
  <2>3. ASSUME p # due2, NEW o \in Owner \ {p}, x \in Items(hp2[o]) PROVE FALSE
    <3>1. \A a \in Owner \ {p} : x \notin Items(hp[a])
      BY <2>1, <2>2, <2>3
    <3>2. o = r /\ x \in Items(hp[g]) /\ g # r
      BY <1>1, <2>3, <3>1
    <3>3. g # p
      BY <2>2, <2>3, <3>2
    <3> QED
      BY <3>1, <3>2, <3>3
  <2> QED
    BY <2>1, <2>3
<1>6. Distinct(hp2, C)
  BY <1>4 DEF Distinct
<1> QED
  BY <1>5, <1>6 DEF RecordKept

(* A record is made, or the database fails and it is out of date; the
   command that is under way saves nobody else before. *)
LEMMA Recording ==
    ASSUME NEW C, NEW hp, NEW fl, NEW fl2, NEW bh, NEW bh2, NEW due, NEW due2,
           NEW p \in Player, Distinct(hp, C), RecordKept(hp, fl, bh, C, due),
           due = Ground \/ due = p,
           \A q \in Player \ {p} : fl2[q] = fl[q],
           \/ fl2[p] = SaveObj(hp[p]) /\ bh2 = bh \ {p}
           \/ fl2[p] = fl[p] /\ bh2 = bh \cup {p}
    PROVE  RecordKept(hp, fl2, bh2, C, due2)
<1>1. Items(SaveObj(hp[p])) \subseteq Items(hp[p])
  <2>1. Held(hp[p], C)
    BY DEF Distinct, Owner
  <2> QED
    BY <2>1, SaveObjHeld
<1>2. \A o \in Owner \ {p} : \A x : x \in Items(hp[o]) /\ x \in Items(hp[p]) => x \in C
  BY DEF Distinct, Apart, Owner
<1>3. \A q \in Player \ bh : \A x \in Items(fl[q]) \ C :
        /\ \A a \in Player \ (bh \cup {q}) : x \notin Items(fl[a])
        /\ q # p => \A o \in Owner \ {q} : x \notin Items(hp[o])
  BY DEF RecordKept
<1> SUFFICES ASSUME NEW a \in Player \ bh2, NEW x \in Items(fl2[a]) \ C
             PROVE  /\ \A q \in Player \ (bh2 \cup {a}) : x \notin Items(fl2[q])
                    /\ \A o \in Owner \ {a} : x \notin Items(hp[o])
  BY DEF RecordKept
<1>4. CASE fl2[p] = SaveObj(hp[p]) /\ bh2 = bh \ {p}
  <2>1. CASE a = p
    BY <1>1, <1>2, <1>3, <1>4, <2>1 DEF Owner
  <2>2. CASE a # p
    <3>1. a \in Player \ bh /\ fl2[a] = fl[a] /\ x \in Items(fl[a]) \ C
      BY <1>4, <2>2
    <3>2. \A o \in Owner \ {a} : x \notin Items(hp[o])
      BY <1>3, <2>2, <3>1
    <3>3. x \notin Items(fl2[p])
      BY <1>1, <1>4, <2>2, <3>2 DEF Owner
    <3> QED
      BY <1>3, <1>4, <3>1, <3>2, <3>3
  <2> QED
    BY <2>1, <2>2
<1>5. CASE fl2[p] = fl[p] /\ bh2 = bh \cup {p}
  <2>1. a # p /\ a \in Player \ bh /\ x \in Items(fl[a]) \ C
    BY <1>5
  <2>2. \A q \in Player : fl2[q] = fl[q]
    BY <1>5
  <2> QED
    BY <1>3, <1>5, <2>1, <2>2
<1> QED
  BY <1>4, <1>5

(* A record that lists nothing is never wrong. *)
LEMMA Clearing ==
    ASSUME NEW C, NEW hp, NEW fl, NEW fl2, NEW bh, NEW due, NEW p \in Player,
           RecordKept(hp, fl, bh, C, due),
           fl2[p] = << >>, \A q \in Player \ {p} : fl2[q] = fl[q]
    PROVE  RecordKept(hp, fl2, bh \ {p}, C, due)
<1>1. Items(<< >>) = {}
  BY DEF Items
<1> SUFFICES ASSUME NEW a \in Player \ (bh \ {p}), NEW x \in Items(fl2[a]) \ C
             PROVE  /\ \A q \in Player \ ((bh \ {p}) \cup {a}) : x \notin Items(fl2[q])
                    /\ a # due => \A o \in Owner \ {a} : x \notin Items(hp[o])
  BY DEF RecordKept
<1>2. a # p /\ a \in Player \ bh /\ x \in Items(fl[a]) \ C
  BY <1>1
<1>3. /\ \A q \in Player \ (bh \cup {a}) : x \notin Items(fl[q])
      /\ a # due => \A o \in Owner \ {a} : x \notin Items(hp[o])
  BY <1>2 DEF RecordKept
<1> QED
  BY <1>1, <1>3

(* More players whose record is out of date, more copies, or another next. *)
LEMMA RecordKeptMore ==
    ASSUME NEW C, NEW hp, NEW fl, NEW bh, NEW bh2, NEW due, NEW due2,
           RecordKept(hp, fl, bh, C, due), bh \subseteq bh2, due = Ground \/ due = due2
    PROVE  RecordKept(hp, fl, bh2, C, due2)
<1> SUFFICES ASSUME NEW a \in Player \ bh2, NEW x \in Items(fl[a]) \ C
             PROVE  /\ \A q \in Player \ (bh2 \cup {a}) : x \notin Items(fl[q])
                    /\ a # due2 => \A o \in Owner \ {a} : x \notin Items(hp[o])
  BY DEF RecordKept
<1>1. a \in Player \ bh /\ a # Ground
  OBVIOUS
<1>2. /\ \A q \in Player \ (bh \cup {a}) : x \notin Items(fl[q])
      /\ a # due => \A o \in Owner \ {a} : x \notin Items(hp[o])
  BY <1>1 DEF RecordKept
<1> QED
  BY <1>1, <1>2

(* A player enters with what its record lists: what another has, which only
   the record of a player left behind can list, is doubled. *)
LEMMA Entering ==
    ASSUME NEW p \in Player, NEW hp2, NEW C2, NEW due2,
           Distinct(heap, copied), \A q \in Player : file[q] \in Seq(Entry),
           \A q \in Player : Once(file[q], copied),
           RecordKept(heap, file, behind, copied, Ground),
           hp2[p] = ObjStoreToChar(file[p]), \A o \in Owner \ {p} : hp2[o] = heap[o],
           C2 = copied \cup (IF p \in behind THEN Elsewhere(p) ELSE {})
    PROVE  Distinct(hp2, C2) /\ RecordKept(hp2, file, behind \ {p}, C2, due2)
<1>1. copied \subseteq C2
  OBVIOUS
<1>2. \A h : Held(h, copied) => Held(h, C2)
  BY <1>1 DEF Held, Once
<1>3. Held(file[p], copied)
  BY DEF Held
<1>4. Held(hp2[p], C2) /\ Items(hp2[p]) \subseteq Items(file[p])
  BY <1>2, <1>3, ObjStoreHeld
<1>5. \A q \in Player \ behind : \A x \in Items(file[q]) \ copied :
        /\ \A a \in Player \ (behind \cup {q}) : x \notin Items(file[a])
        /\ \A o \in Owner \ {q} : x \notin Items(heap[o])
  BY DEF RecordKept
<1>6. ASSUME NEW x \in Items(file[p]) \ C2
      PROVE  /\ \A o \in Owner \ {p} : x \notin Items(heap[o])
             /\ \A q \in Player \ (behind \cup {p}) : x \notin Items(file[q])
  <2>1. CASE p \in behind
    <3>1. x \notin Elsewhere(p)
      BY <2>1
    <3>2. \A q \in Player : q \in Owner
      BY DEF Owner
    <3> QED
      BY <3>1, <3>2 DEF Elsewhere
  <2>2. CASE p \notin behind
    BY <1>1, <1>5, <2>2
  <2> QED
    BY <2>1, <2>2
<1>7. Distinct(hp2, C2)
  <2>1. \A o \in Owner : Held(hp2[o], C2)
    BY <1>2, <1>4 DEF Distinct
  <2>2. \A o \in Owner \ {p} : Apart(hp2[p], hp2[o], C2) /\ Apart(hp2[o], hp2[p], C2)
    BY <1>4, <1>6 DEF Apart
  <2>3. \A o1, o2 \in Owner \ {p} : o1 # o2 => Apart(hp2[o1], hp2[o2], C2)
    BY <1>1 DEF Distinct, Apart
  <2> QED
    BY <2>1, <2>2, <2>3 DEF Distinct
<1>8. ASSUME NEW a \in Player \ (behind \ {p}), NEW x \in Items(file[a]) \ C2
      PROVE  /\ \A q \in Player \ ((behind \ {p}) \cup {a}) : x \notin Items(file[q])
             /\ \A o \in Owner \ {a} : x \notin Items(hp2[o])
  <2>1. CASE a = p
    BY <1>6, <2>1
  <2>2. CASE a # p
    <3>1. a \in Player \ behind /\ x \in Items(file[a]) \ copied
      BY <1>1, <2>2
    <3>2. x \notin Items(file[p])
      BY <1>6, <2>2, <3>1
    <3> QED
      BY <1>4, <1>5, <2>2, <3>1, <3>2
  <2> QED
    BY <2>1, <2>2
<1> QED
  BY <1>7, <1>8 DEF RecordKept

-----------------------------------------------------------------------------
(* The steps *)

(* What the invariant says of the owners. *)
LEMMA Facts ==
    ASSUME IndInv
    PROVE  /\ heap \in [Owner -> Seq(Entry)] /\ file \in [Player -> Seq(Entry)]
           /\ playing \subseteq Player /\ \A p \in Player \ playing : heap[p] = << >>
           /\ saves \in Seq(playing) /\ behind \subseteq Player /\ copied \subseteq Item
           /\ \A p \in Player : Len(file[p]) <= MaxObjSave
           /\ \A o \in Owner : Held(heap[o], copied)
           /\ \A o1, o2 \in Owner : o1 # o2 => Apart(heap[o1], heap[o2], copied)
           /\ \A p \in Player : Held(file[p], copied)
           /\ Player \subseteq Owner /\ Ground \in Owner
<1>1. /\ heap \in [Owner -> Seq(Entry)] /\ file \in [Player -> Seq(Entry)]
      /\ playing \subseteq Player /\ \A p \in Player \ playing : heap[p] = << >>
      /\ saves \in Seq(playing) /\ behind \subseteq Player /\ copied \subseteq Item
      /\ \A p \in Player : Len(file[p]) <= MaxObjSave
  BY DEF IndInv, TypeOK
<1>2. /\ \A o \in Owner : Held(heap[o], copied)
      /\ \A o1, o2 \in Owner : o1 # o2 => Apart(heap[o1], heap[o2], copied)
  BY DEF IndInv, Distinct
<1>3. \A p \in Player : Held(file[p], copied)
  <2>1. \A p \in Player : Once(file[p], copied)
    BY DEF IndInv
  <2> QED
    BY <1>1, <2>1 DEF Held
<1> QED
  BY <1>1, <1>2, <1>3 DEF Owner

(* A command that is over saves nobody, and one that moved objects saves
   whoever lost them first, or leaves that record out of date. *)
LEMMA Moved ==
    ASSUME IndInv, Calm, NEW g \in Owner, NEW r \in Owner,
           heap' \in [Owner -> Seq(Entry)],
           Regroups(heap, heap', g, r, copied),
           \A p \in Player \ playing : heap'[p] = << >>,
           file' = file, playing' = playing, copied' = copied,
           saves' \in Seq(playing), behind \subseteq behind', behind' \subseteq Player,
           g = r \/ g = Ground \/ g \in behind' \/ (saves' # << >> /\ Head(saves') = g)
    PROVE  IndInv'
<1>1. Distinct(heap, copied) /\ RecordKept(heap, file, behind, copied, Ground)
  BY DEF IndInv, Calm, Due
<1>2. g = r \/ (g \in behind' \/ g = Ground \/ g = Due')
  BY DEF Due
<1>3. Distinct(heap', copied) /\ RecordKept(heap', file, behind', copied, Due')
  <2> DEFINE hp2 == heap'
             bh2 == behind'
             due2 == Due'
  <2>1. Regroups(heap, hp2, g, r, copied) /\ behind \subseteq bh2
    OBVIOUS
  <2>2. g = r \/ (Ground = Ground /\ (g \in bh2 \/ g = Ground \/ g = due2))
    BY <1>2
  <2> HIDE DEF hp2, bh2, due2
  <2>3. Distinct(hp2, copied) /\ RecordKept(hp2, file, bh2, copied, due2)
    BY <1>1, <2>1, <2>2, Regrouped
  <2> QED
    BY <2>3 DEF hp2, bh2, due2
<1>4. TypeOK'
  BY Facts DEF TypeOK
<1>5. \A p \in Player : Once(file'[p], copied')
  BY Facts DEF Held
<1> QED
  BY <1>3, <1>4, <1>5 DEF IndInv

(* get, drop, put, give and steal: an object of g goes to r. *)
LEMMA MoveKeeps ==
    ASSUME IndInv, Calm, NEW g \in Owner, NEW r \in Owner \ {g}, NEW k \in DOMAIN heap[g], NEW t,
           \/ t = ObjToChar(heap[r], Whole(heap[g], k))
           \/ \E c \in Items(heap[r]) : t = ObjToObj(heap[r], Whole(heap[g], k), c),
           heap' = [heap EXCEPT ![g] = Without(heap[g], k), ![r] = t],
           g \in playing \cup {Ground}, r \in playing \cup {Ground},
           file' = file, playing' = playing, copied' = copied,
           saves' \in Seq(playing), behind \subseteq behind', behind' \subseteq Player,
           g = Ground \/ g \in behind' \/ (saves' # << >> /\ Head(saves') = g)
    PROVE  IndInv'
<1> DEFINE s == Whole(heap[g], k)
<1>1. /\ heap \in [Owner -> Seq(Entry)]
      /\ Held(heap[g], copied) /\ Held(heap[r], copied) /\ Apart(heap[g], heap[r], copied)
  BY Facts
<1>2. Held(s, copied) /\ Rooted(s) /\ Items(s) \subseteq Items(heap[g])
  BY <1>1, Parting
<1>3. Apart(s, heap[r], copied)
  BY <1>1, <1>2, ApartPart
<1>4. Held(t, copied) /\ Items(t) = Items(heap[r]) \cup Items(s)
  <2> HIDE DEF s
  <2>1. CASE t = ObjToChar(heap[r], s)
    BY <1>1, <1>2, <1>3, <2>1, ObjToCharHeld
  <2>2. ASSUME NEW c \in Items(heap[r]), t = ObjToObj(heap[r], s, c)
        PROVE  Held(t, copied) /\ Items(t) = Items(heap[r]) \cup Items(s)
    BY <1>1, <1>2, <1>3, <2>2, ObjToObjHeld
  <2> QED
    BY <2>1, <2>2 DEF s
<1> DEFINE u == Without(heap[g], k)
<1>5. /\ Held(u, copied) /\ Apart(s, u, copied) /\ Items(u) \subseteq Items(heap[g])
  BY <1>1, Parting
<1>6. /\ heap'[g] = u /\ heap'[r] = t
      /\ \A o \in Owner \ {g, r} : heap'[o] = heap[o]
  BY <1>1
<1>7. heap' \in [Owner -> Seq(Entry)]
  <2>1. u \in Seq(Entry) /\ t \in Seq(Entry)
    BY <1>4, <1>5 DEF Held
  <2> HIDE DEF u
  <2> QED
    BY <1>1, <2>1 DEF u
<1> HIDE DEF s, u
<1>8. Regroups(heap, heap', g, r, copied)
  <2>1. Apart(u, t, copied)
    BY <1>1, <1>4, <1>5 DEF Apart
  <2>2. \A o \in Owner \ {r} : Items(heap'[o]) \subseteq Items(heap[o])
    BY <1>5, <1>6
  <2>3. \A o \in Owner : Held(heap'[o], copied)
    BY <1>4, <1>5, <1>6, Facts
  <2> QED
    BY <1>2, <1>4, <1>6, <2>1, <2>2, <2>3 DEF Regroups
<1>9. \A p \in Player \ playing : heap'[p] = << >>
  <2> SUFFICES ASSUME NEW p \in Player \ playing PROVE heap'[p] = << >>
    OBVIOUS
  <2>1. heap[p] = << >> /\ p \in Owner
    BY Facts
  <2>2. p # g /\ p # r
    OBVIOUS
  <2>3. heap'[p] = heap[p]
    BY <1>6, <2>1, <2>2
  <2> QED
    BY <2>1, <2>3
<1> QED
  BY <1>7, <1>8, <1>9, Moved

(* get from a bag, put into one, wear and remove: p loses or rearranges. *)
LEMMA WithinKeeps ==
    ASSUME IndInv, Calm, NEW p \in playing,
           NEW t, Held(t, copied), Items(t) \subseteq Items(heap[p]),
           heap' = [heap EXCEPT ![p] = t],
           file' = file, playing' = playing, copied' = copied,
           saves' \in Seq(playing), behind' = behind
    PROVE  IndInv'
<1>1. p \in Owner /\ heap \in [Owner -> Seq(Entry)] /\ behind \subseteq Player
  BY Facts
<1>2. t \in Seq(Entry)
  BY DEF Held
<1>3. heap' \in [Owner -> Seq(Entry)] /\ heap'[p] = t /\ \A o \in Owner \ {p} : heap'[o] = heap[o]
  BY <1>1, <1>2
<1>4. \A o \in Owner : Held(heap'[o], copied)
  BY <1>3, Facts
<1>5. \A q \in Player \ playing : heap'[q] = << >>
  BY <1>3, Facts
<1>6. Regroups(heap, heap', p, p, copied)
  BY <1>3, <1>4 DEF Regroups
<1> QED
  BY <1>1, <1>3, <1>5, <1>6, Moved

(* What a player loses while it rearranges is put back. *)
LEMMA Rearranged ==
    ASSUME IndInv, NEW p \in playing, NEW k \in DOMAIN heap[p]
    PROVE  LET u == Without(heap[p], k)
               s == Whole(heap[p], k)
           IN  /\ Held(u, copied) /\ Held(s, copied) /\ Rooted(s) /\ Apart(s, u, copied)
               /\ Items(u) \subseteq Items(heap[p]) /\ Items(s) \subseteq Items(heap[p])
<1>1. Held(heap[p], copied)
  BY Facts
<1> QED
  BY <1>1, Parting

(* A container that an object does not lie in stays when the object goes. *)
LEMMA TopStays ==
    ASSUME NEW h \in Seq(Entry), NEW j \in Top(h), NEW k \in Top(h), h[j].item # h[k].item
    PROVE  h[j].item \in Items(Without(h, k))
<1> DEFINE e == Max(Ends(h, k))
           a == SubSeq(h, 1, k - 1)
           b == SubSeq(h, e + 1, Len(h))
           t == Without(h, k)
<1>1. /\ Len(h) \in Nat /\ DOMAIN h = 1 .. Len(h) /\ k \in 1 .. Len(h) /\ j \in 1 .. Len(h)
      /\ h[k].depth = 0 /\ h[j].depth = 0 /\ j # k
  BY DEF Top
<1>2. e \in k .. Len(h) /\ \A i \in k + 1 .. e : h[i].depth > 0
  BY <1>1, EndsProps
<1> HIDE DEF e
<1>3. j < k \/ j > e
  <2>1. j \notin k + 1 .. e
    BY <1>1, <1>2
  <2> QED
    BY <1>1, <1>2, <2>1
<1>4. a \in Seq(Entry) /\ Len(a) = k - 1 /\ \A i \in 1 .. k - 1 : a[i] = h[i]
  BY <1>1
<1>5. b \in Seq(Entry) /\ Len(b) = Len(h) - e /\ \A i \in 1 .. Len(h) - e : b[i] = h[e + i]
  <2>1. e \in Nat /\ e <= Len(h) /\ e + 1 \in 1 .. Len(h) + 1
    BY <1>1, <1>2
  <2>2. \A i \in e + 1 .. Len(h) : h[i] \in Entry
    BY <1>1, <2>1
  <2>3. /\ b \in Seq(Entry)
        /\ Len(b) = IF e + 1 <= Len(h) THEN Len(h) - (e + 1) + 1 ELSE 0
        /\ \A i \in 1 .. Len(h) - (e + 1) + 1 : b[i] = h[(e + 1) + i - 1]
    BY <1>1, <2>1, <2>2, SubSeqProperties
  <2>4. ASSUME NEW i \in 1 .. Len(h) - e PROVE b[i] = h[e + i]
    <3>1. i \in 1 .. Len(h) - (e + 1) + 1 /\ (e + 1) + i - 1 = e + i
      BY <1>1, <2>1
    <3> HIDE DEF b
    <3> QED
      BY <2>3, <3>1
  <2>5. Len(b) = Len(h) - e
    <3> DEFINE l == Len(h)
    <3>1. l \in Nat /\ e \in Nat /\ e <= l /\ Len(b) = IF e + 1 <= l THEN l - (e + 1) + 1 ELSE 0
      BY <1>1, <2>1, <2>3
    <3> HIDE DEF b, l
    <3>2. CASE e = l
      BY <3>1, <3>2 DEF l
    <3>3. CASE e < l
      BY <3>1, <3>3 DEF l
    <3> QED
      BY <3>1, <3>2, <3>3
  <2> QED
    BY <2>3, <2>4, <2>5
<1>6. t = a \o b
  BY DEF Without, e
<1> HIDE DEF a, b, t
<1>7. /\ t \in Seq(Entry) /\ Len(t) = Len(a) + Len(b) /\ DOMAIN t = 1 .. Len(t)
      /\ \A i \in 1 .. Len(t) : t[i] = IF i <= Len(a) THEN a[i] ELSE b[i - Len(a)]
  <2>1. a \in Seq(Entry) /\ b \in Seq(Entry)
    BY <1>4, <1>5
  <2>2. /\ a \o b \in Seq(Entry) /\ Len(a \o b) = Len(a) + Len(b)
        /\ \A i \in 1 .. Len(a) + Len(b) :
              (a \o b)[i] = IF i <= Len(a) THEN a[i] ELSE b[i - Len(a)]
    BY <2>1, ConcatProperties
  <2>3. t \in Seq(Entry) /\ DOMAIN t = 1 .. Len(t)
    BY <1>6, <2>2
  <2> QED
    BY <1>6, <2>2, <2>3
<1>8. CASE j < k
  <2>1. j \in 1 .. Len(t) /\ j <= Len(a) /\ j \in 1 .. k - 1
    BY <1>1, <1>2, <1>4, <1>5, <1>7, <1>8
  <2>2. t[j] = h[j] /\ j \in DOMAIN t
    BY <1>4, <1>7, <2>1
  <2> QED
    BY <2>2 DEF Items, t
<1>9. CASE j > e
  <2> DEFINE i == j - e + (k - 1)
  <2>1. i \in 1 .. Len(t) /\ ~(i <= Len(a)) /\ i - Len(a) = j - e /\ j - e \in 1 .. Len(h) - e
        /\ e + (j - e) = j
    BY <1>1, <1>2, <1>4, <1>5, <1>7, <1>9
  <2> HIDE DEF i
  <2>2. t[i] = h[j] /\ i \in DOMAIN t
    BY <1>5, <1>7, <2>1
  <2> QED
    BY <2>2 DEF Items, t
<1> QED
  BY <1>3, <1>8, <1>9

(* Who is saved plays. *)
LEMMA Savers ==
    ASSUME NEW p \in playing, NEW q \in playing
    PROVE  /\ << p >> \in Seq(playing) /\ << p, q >> \in Seq(playing) /\ << >> \in Seq(playing)
           /\ << p >> # << >> /\ Head(<< p >>) = p
           /\ << p, q >> # << >> /\ Head(<< p, q >>) = p
OBVIOUS

(* get from the room, or from what lies in it. *)
LEMMA GetsKeeps ==
    ASSUME IndInv, NEW p \in Player, Gets(p)
    PROVE  IndInv'
<1>1. p \in playing /\ Calm /\ saves' = << p >>
      /\ file' = file /\ playing' = playing /\ behind' = behind /\ copied' = copied
  BY DEF Gets, Mind
<1>2. PICK k \in DOMAIN heap[Ground] : Move(Ground, k, p)
  BY DEF Gets, Top, In
<1>3. heap' = [heap EXCEPT ![Ground] = Without(heap[Ground], k),
                           ![p] = ObjToChar(heap[p], Whole(heap[Ground], k))]
  <2>1. p # Ground /\ heap \in [Owner -> Seq(Entry)] /\ p \in Owner /\ Ground \in Owner
    BY Facts
  <2> QED
    BY <1>2, <2>1 DEF Move
<1>4. p \in Owner \ {Ground} /\ Ground \in Owner /\ behind \subseteq Player
  BY Facts
<1>5. saves' \in Seq(playing)
  BY <1>1, Savers
<1> QED
  BY <1>1, <1>2, <1>3, <1>4, <1>5, MoveKeeps

(* get from a bag of one's own. *)
LEMMA UnpacksKeeps ==
    ASSUME IndInv, NEW p \in Player, Unpacks(p)
    PROVE  IndInv'
<1>1. p \in playing /\ Calm /\ saves' = << p >>
      /\ file' = file /\ playing' = playing /\ behind' = behind /\ copied' = copied
  BY DEF Unpacks, Mind
<1>2. PICK k \in DOMAIN heap[p] :
        heap' = [heap EXCEPT ![p] = ObjToChar(Without(@, k), Whole(@, k))]
  BY DEF Unpacks, In
<1> DEFINE t == ObjToChar(Without(heap[p], k), Whole(heap[p], k))
<1>3. heap' = [heap EXCEPT ![p] = t]
  BY <1>2
<1>4. Held(t, copied) /\ Items(t) \subseteq Items(heap[p])
  <2> DEFINE u == Without(heap[p], k)
             s == Whole(heap[p], k)
  <2>1. /\ Held(u, copied) /\ Held(s, copied) /\ Rooted(s) /\ Apart(s, u, copied)
        /\ Items(u) \subseteq Items(heap[p]) /\ Items(s) \subseteq Items(heap[p])
    BY <1>1, Rearranged
  <2> HIDE DEF u, s
  <2>2. Held(ObjToChar(u, s), copied) /\ Items(ObjToChar(u, s)) = Items(u) \cup Items(s)
    BY <2>1, ObjToCharHeld
  <2> QED
    BY <2>1, <2>2 DEF u, s
<1>5. saves' \in Seq(playing)
  BY <1>1, Savers
<1> HIDE DEF t
<1> QED
  BY <1>1, <1>3, <1>4, <1>5, WithinKeeps

(* wear. *)
LEMMA WearsKeeps ==
    ASSUME IndInv, NEW p \in Player, NEW pos \in 1 .. Slots, Wears(p, pos)
    PROVE  IndInv'
<1>1. p \in playing /\ Calm /\ saves' = saves
      /\ file' = file /\ playing' = playing /\ behind' = behind /\ copied' = copied
  BY DEF Wears, Mind
<1>2. PICK k \in DOMAIN heap[p] :
        heap' = [heap EXCEPT ![p] = EquipChar(Without(@, k), Whole(@, k), pos)]
  BY DEF Wears, Carried, Top
<1> DEFINE t == EquipChar(Without(heap[p], k), Whole(heap[p], k), pos)
<1>3. heap' = [heap EXCEPT ![p] = t]
  BY <1>2
<1>4. Held(t, copied) /\ Items(t) \subseteq Items(heap[p])
  <2> DEFINE u == Without(heap[p], k)
             s == Whole(heap[p], k)
  <2>1. /\ Held(u, copied) /\ Held(s, copied) /\ Rooted(s) /\ Apart(s, u, copied)
        /\ Items(u) \subseteq Items(heap[p]) /\ Items(s) \subseteq Items(heap[p])
    BY <1>1, Rearranged
  <2> HIDE DEF u, s
  <2>2. /\ Held(EquipChar(u, s, pos), copied)
        /\ Items(EquipChar(u, s, pos)) \subseteq Items(u) \cup Items(s)
    BY <2>1, EquipCharHeld
  <2> QED
    BY <2>1, <2>2 DEF u, s
<1>5. saves' \in Seq(playing)
  BY <1>1, Facts
<1> HIDE DEF t
<1> QED
  BY <1>1, <1>3, <1>4, <1>5, WithinKeeps

(* remove. *)
LEMMA RemovesKeeps ==
    ASSUME IndInv, NEW p \in Player, Removes(p)
    PROVE  IndInv'
<1>1. p \in playing /\ Calm /\ saves' = saves
      /\ file' = file /\ playing' = playing /\ behind' = behind /\ copied' = copied
  BY DEF Removes, Mind
<1>2. PICK k \in DOMAIN heap[p] :
        heap' = [heap EXCEPT ![p] = ObjToChar(Without(@, k), Whole(@, k))]
  BY DEF Removes, Worn, Top
<1> DEFINE t == ObjToChar(Without(heap[p], k), Whole(heap[p], k))
<1>3. heap' = [heap EXCEPT ![p] = t]
  BY <1>2
<1>4. Held(t, copied) /\ Items(t) \subseteq Items(heap[p])
  <2> DEFINE u == Without(heap[p], k)
             s == Whole(heap[p], k)
  <2>1. /\ Held(u, copied) /\ Held(s, copied) /\ Rooted(s) /\ Apart(s, u, copied)
        /\ Items(u) \subseteq Items(heap[p]) /\ Items(s) \subseteq Items(heap[p])
    BY <1>1, Rearranged
  <2> HIDE DEF u, s
  <2>2. Held(ObjToChar(u, s), copied) /\ Items(ObjToChar(u, s)) = Items(u) \cup Items(s)
    BY <2>1, ObjToCharHeld
  <2> QED
    BY <2>1, <2>2 DEF u, s
<1>5. saves' \in Seq(playing)
  BY <1>1, Facts
<1> HIDE DEF t
<1> QED
  BY <1>1, <1>3, <1>4, <1>5, WithinKeeps

(* A command that gives: done, it saves the giver first; cut short, it leaves
   the giver's record out of date. *)
LEMMA EndsWithProps ==
    ASSUME IndInv, NEW p \in playing, NEW q \in playing, NEW end, NEW who, NEW giver,
           who = << p >> \/ who = << p, q >>, giver \in {{}, {p}}, EndsWith(end, who, giver)
    PROVE  /\ saves' \in Seq(playing) /\ behind \subseteq behind' /\ behind' \subseteq Player
           /\ file' = file /\ playing' = playing /\ copied' = copied
           /\ giver = {p} => p \in behind' \/ (saves' # << >> /\ Head(saves') = p)
           /\ giver = {} => behind' = behind
<1>1. playing \subseteq Player /\ behind \subseteq Player
  BY Facts
<1>2. who \in Seq(playing) /\ << >> \in Seq(playing) /\ who # << >> /\ Head(who) = p
  BY Savers
<1> QED
  BY <1>1, <1>2 DEF EndsWith

(* drop. *)
LEMMA DropsKeeps ==
    ASSUME IndInv, NEW p \in Player, NEW end, Drops(p, end)
    PROVE  IndInv'
<1>1. p \in playing /\ Calm /\ EndsWith(end, << p >>, {p})
  BY DEF Drops, Mind
<1>2. PICK k \in DOMAIN heap[p] : Move(p, k, Ground)
  BY DEF Drops, Carried, Top
<1>3. p \in Owner /\ Ground \in Owner \ {p} /\ heap \in [Owner -> Seq(Entry)]
  BY Facts
<1>4. heap' = [heap EXCEPT ![p] = Without(heap[p], k),
                           ![Ground] = ObjToChar(heap[Ground], Whole(heap[p], k))]
  BY <1>2, <1>3 DEF Move
<1>5. /\ saves' \in Seq(playing) /\ behind \subseteq behind' /\ behind' \subseteq Player
      /\ file' = file /\ playing' = playing /\ copied' = copied
      /\ p \in behind' \/ (saves' # << >> /\ Head(saves') = p)
  BY <1>1, EndsWithProps
<1> QED
  BY <1>1, <1>3, <1>4, <1>5, MoveKeeps

(* give. *)
LEMMA GivesKeeps ==
    ASSUME IndInv, NEW p \in Player, NEW q \in Player, NEW end, Gives(p, q, end)
    PROVE  IndInv'
<1>1. p \in playing /\ q \in playing \ {p} /\ Calm /\ EndsWith(end, << p, q >>, {p})
  BY DEF Gives, Mind
<1>2. PICK k \in DOMAIN heap[p] : Move(p, k, q)
  BY DEF Gives, Carried, Top
<1>3. p \in Owner /\ q \in Owner \ {p} /\ heap \in [Owner -> Seq(Entry)]
  BY <1>1, Facts
<1>4. heap' = [heap EXCEPT ![p] = Without(heap[p], k),
                           ![q] = ObjToChar(heap[q], Whole(heap[p], k))]
  BY <1>2, <1>3 DEF Move
<1>5. /\ saves' \in Seq(playing) /\ behind \subseteq behind' /\ behind' \subseteq Player
      /\ file' = file /\ playing' = playing /\ copied' = copied
      /\ p \in behind' \/ (saves' # << >> /\ Head(saves') = p)
  BY <1>1, EndsWithProps
<1> QED
  BY <1>1, <1>3, <1>4, <1>5, MoveKeeps

(* steal: the victim, who loses, is saved last, and is out of date till then. *)
LEMMA StealsKeeps ==
    ASSUME IndInv, NEW p \in Player, NEW q \in Player, Steals(p, q)
    PROVE  IndInv'
<1>1. /\ p \in playing /\ q \in playing \ {p} /\ Calm
      /\ saves' = << p, q >> /\ behind' = behind \cup {q}
      /\ file' = file /\ playing' = playing /\ copied' = copied
  BY DEF Steals, Mind
<1>2. PICK k \in DOMAIN heap[q] : Move(q, k, p)
  BY DEF Steals, Carried, Worn, Top
<1>3. q \in Owner /\ p \in Owner \ {q} /\ heap \in [Owner -> Seq(Entry)] /\ behind \subseteq Player
  BY <1>1, Facts
<1>4. heap' = [heap EXCEPT ![q] = Without(heap[q], k),
                           ![p] = ObjToChar(heap[p], Whole(heap[q], k))]
  BY <1>2, <1>3 DEF Move
<1>5. saves' \in Seq(playing)
  BY <1>1, Savers
<1>6. behind \subseteq behind' /\ behind' \subseteq Player /\ q \in behind'
  BY <1>1, <1>3
<1> QED
  BY <1>1, <1>3, <1>4, <1>5, <1>6, MoveKeeps

(* put, into a bag of one's own or one in the room. *)
LEMMA PutsKeeps ==
    ASSUME IndInv, NEW p \in Player, NEW end, Puts(p, end)
    PROVE  IndInv'
<1>1. p \in playing /\ Calm
  BY DEF Puts, Mind
<1> DEFINE Own(k, c) == /\ Open(p, c)
                        /\ heap' = [heap EXCEPT ![p] = ObjToObj(Without(@, k), Whole(@, k), c)]
                        /\ EndsWith(end, << p >>, {})
           Room(k, c) == /\ InRoom(c) /\ ~ Open(p, c)
                         /\ heap' = [heap EXCEPT ![p] = Without(@, k),
                                        ![Ground] = ObjToObj(@, Whole(heap[p], k), c)]
                         /\ EndsWith(end, << p >>, {p})
<1>2. PICK k \in Carried(p) : \E c \in Bag \ {heap[p][k].item} : Own(k, c) \/ Room(k, c)
  BY DEF Puts
<1>3. PICK c \in Bag \ {heap[p][k].item} : Own(k, c) \/ Room(k, c)
  BY <1>2
<1>4. p \in Owner /\ Ground \in Owner \ {p} /\ heap \in [Owner -> Seq(Entry)]
  BY Facts
<1>5. k \in Top(heap[p]) /\ k \in DOMAIN heap[p] /\ heap[p] \in Seq(Entry)
  BY <1>4 DEF Carried, Top
<1>6. CASE Own(k, c)
  <2> DEFINE t == ObjToObj(Without(heap[p], k), Whole(heap[p], k), c)
  <2>1. heap' = [heap EXCEPT ![p] = t]
    BY <1>6
  <2>2. Held(t, copied) /\ Items(t) \subseteq Items(heap[p])
    <3> DEFINE u == Without(heap[p], k)
               s == Whole(heap[p], k)
    <3>1. /\ Held(u, copied) /\ Held(s, copied) /\ Rooted(s) /\ Apart(s, u, copied)
          /\ Items(u) \subseteq Items(heap[p]) /\ Items(s) \subseteq Items(heap[p])
      BY <1>1, <1>5, Rearranged
    <3>2. c \in Items(u)
      <4>1. PICK j \in Top(heap[p]) : heap[p][j].item = c
        BY <1>6 DEF Open, Carried
      <4> QED
        BY <1>5, <4>1, TopStays
    <3> HIDE DEF u, s
    <3>3. Held(ObjToObj(u, s, c), copied) /\ Items(ObjToObj(u, s, c)) = Items(u) \cup Items(s)
      BY <3>1, <3>2, ObjToObjHeld
    <3> QED
      BY <3>1, <3>3 DEF u, s
  <2>3. /\ saves' \in Seq(playing) /\ file' = file /\ playing' = playing /\ copied' = copied
        /\ behind' = behind
    BY <1>1, <1>6, EndsWithProps
  <2> HIDE DEF t
  <2> QED
    BY <1>1, <2>1, <2>2, <2>3, WithinKeeps
<1>7. CASE Room(k, c)
  <2> DEFINE t == ObjToObj(heap[Ground], Whole(heap[p], k), c)
  <2>1. c \in Items(heap[Ground])
    BY <1>7 DEF InRoom, Top, Items
  <2>2. heap' = [heap EXCEPT ![p] = Without(heap[p], k), ![Ground] = t]
    BY <1>4, <1>7
  <2>3. /\ saves' \in Seq(playing) /\ behind \subseteq behind' /\ behind' \subseteq Player
        /\ file' = file /\ playing' = playing /\ copied' = copied
        /\ p \in behind' \/ (saves' # << >> /\ Head(saves') = p)
    BY <1>1, <1>7, EndsWithProps
  <2>4. \E d \in Items(heap[Ground]) : t = ObjToObj(heap[Ground], Whole(heap[p], k), d)
    BY <2>1
  <2> HIDE DEF t
  <2> QED
    BY <1>1, <1>4, <1>5, <2>2, <2>3, <2>4, MoveKeeps
<1> QED
  BY <1>6, <1>7, <1>3

(* The next save of a command, or one that no command waits for. *)
LEMMA DoSaveKeeps ==
    ASSUME IndInv, NEW p \in Player, DoSave(p)
    PROVE  IndInv'
<1>1. /\ p \in playing /\ Recorded(p)
      /\ heap' = heap /\ playing' = playing /\ copied' = copied
      /\ \/ saves = << >> /\ saves' = << >>
         \/ saves # << >> /\ p = Head(saves) /\ saves' = Tail(saves)
  BY DEF DoSave, Calm
<1>2. /\ Distinct(heap, copied) /\ RecordKept(heap, file, behind, copied, Due)
      /\ Due = Ground \/ Due = p
  BY <1>1 DEF IndInv, Due
<1>3. /\ file \in [Player -> Seq(Entry)] /\ behind \subseteq Player /\ saves \in Seq(playing)
      /\ Held(heap[p], copied)
  BY Facts
<1>4. /\ \A q \in Player \ {p} : file'[q] = file[q]
      /\ \/ file'[p] = SaveObj(heap[p]) /\ behind' = behind \ {p}
         \/ file'[p] = file[p] /\ behind' = behind \cup {p}
  BY <1>1, <1>3 DEF Recorded
<1>5. RecordKept(heap, file', behind', copied, Due')
  <2> DEFINE fl2 == file'
             bh2 == behind'
             due2 == Due'
  <2>1. /\ \A q \in Player \ {p} : fl2[q] = file[q]
        /\ \/ fl2[p] = SaveObj(heap[p]) /\ bh2 = behind \ {p}
           \/ fl2[p] = file[p] /\ bh2 = behind \cup {p}
    BY <1>4
  <2> HIDE DEF fl2, bh2, due2
  <2>2. RecordKept(heap, fl2, bh2, copied, due2)
    BY <1>2, <2>1, Recording
  <2> QED
    BY <2>2 DEF fl2, bh2, due2
<1>6. Held(SaveObj(heap[p]), copied) /\ Len(SaveObj(heap[p])) <= MaxObjSave
  BY <1>3, SaveObjHeld
<1>7. file' \in [Player -> Seq(Entry)]
  <2>1. SaveObj(heap[p]) \in Seq(Entry)
    BY <1>6 DEF Held
  <2> QED
    BY <1>1, <1>3, <2>1 DEF Recorded
<1>8. /\ \A q \in Player : Once(file'[q], copied)
      /\ \A q \in Player : Len(file'[q]) <= MaxObjSave
  <2>1. \A q \in Player : Once(file[q], copied) /\ Len(file[q]) <= MaxObjSave
    BY DEF IndInv, TypeOK
  <2>2. Once(SaveObj(heap[p]), copied)
    BY <1>6 DEF Held
  <2> QED
    BY <1>4, <1>6, <2>1, <2>2
<1>9. saves' \in Seq(playing) /\ behind' \subseteq Player
  <2>1. saves # << >> => Tail(saves) \in Seq(playing)
    BY <1>3, HeadTailProperties
  <2>2. p \in Player /\ << >> \in Seq(playing)
    OBVIOUS
  <2> QED
    BY <1>1, <1>3, <1>4, <2>1, <2>2
<1>10. TypeOK'
  BY <1>1, <1>7, <1>8, <1>9, Facts DEF TypeOK
<1> QED
  BY <1>1, <1>2, <1>5, <1>8, <1>10 DEF IndInv

(* What the objects and the records are when a player has left them on the ground. *)
LEMMA LeavesProps ==
    ASSUME IndInv, NEW p \in Player, Mind(p), Leaves(p)
    PROVE  /\ heap' \in [Owner -> Seq(Entry)] /\ Distinct(heap', copied)
           /\ playing' \subseteq Player /\ \A q \in Player \ playing' : heap'[q] = << >>
           /\ RecordKept(heap', file, behind \cup {p}, copied, Ground)
<1>1. /\ heap' = [heap EXCEPT ![p] = << >>, ![Ground] = ToRoom(@, heap[p])]
      /\ playing' = playing \ {p}
  BY DEF Leaves
<1>2. /\ heap \in [Owner -> Seq(Entry)] /\ p \in Owner /\ Ground \in Owner /\ p # Ground
      /\ Held(heap[p], copied) /\ Held(heap[Ground], copied)
      /\ Apart(heap[p], heap[Ground], copied)
  BY Facts
<1> DEFINE room == ToRoom(heap[Ground], heap[p])
<1>3. Held(room, copied) /\ Items(room) \subseteq Items(heap[Ground]) \cup Items(heap[p])
  BY <1>2, ToRoomHeld
<1>4. /\ heap'[p] = << >> /\ heap'[Ground] = room
      /\ \A o \in Owner \ {p, Ground} : heap'[o] = heap[o]
  BY <1>1, <1>2
<1>5. heap' \in [Owner -> Seq(Entry)]
  <2>1. room \in Seq(Entry) /\ << >> \in Seq(Entry)
    BY <1>3 DEF Held
  <2> HIDE DEF room
  <2> QED
    BY <1>1, <1>2, <2>1 DEF room
<1> HIDE DEF room
<1>6. Held(<< >>, copied) /\ Items(<< >>) = {}
  BY DEF Held, Once, Items
<1>7. Regroups(heap, heap', p, Ground, copied)
  <2>1. \A o \in Owner : Held(heap'[o], copied)
    BY <1>3, <1>4, <1>6, Facts
  <2>2. \A o \in Owner \ {Ground} : Items(heap'[o]) \subseteq Items(heap[o])
    BY <1>4, <1>6
  <2>3. Apart(heap'[p], heap'[Ground], copied)
    BY <1>4, <1>6 DEF Apart
  <2> QED
    BY <1>3, <1>4, <2>1, <2>2, <2>3 DEF Regroups
<1>8. Distinct(heap, copied) /\ RecordKept(heap, file, behind, copied, Ground)
  BY DEF IndInv, Mind, Calm, Due
<1>9. Distinct(heap', copied) /\ RecordKept(heap', file, behind \cup {p}, copied, Ground)
  <2> DEFINE hp2 == heap'
             bh2 == behind \cup {p}
  <2>1. Regroups(heap, hp2, p, Ground, copied) /\ behind \subseteq bh2 /\ p \in bh2
    BY <1>7
  <2> HIDE DEF hp2, bh2
  <2>2. Distinct(hp2, copied) /\ RecordKept(hp2, file, bh2, copied, Ground)
    BY <1>2, <1>8, <2>1, Regrouped
  <2> QED
    BY <2>2 DEF hp2, bh2
<1>10. playing' \subseteq Player /\ \A q \in Player \ playing' : heap'[q] = << >>
  <2>1. \A q \in Player \ playing : heap[q] = << >> /\ q \in Owner /\ q # Ground
    BY Facts
  <2>2. playing \subseteq Player
    BY Facts
  <2> QED
    BY <1>1, <1>4, <2>1, <2>2
<1> QED
  BY <1>5, <1>9, <1>10

(* quit, and death. *)
LEMMA QuitsKeeps ==
    ASSUME IndInv, NEW p \in Player, Quits(p)
    PROVE  IndInv'
<1>1. /\ Mind(p) /\ Leaves(p)
      /\ file' = [file EXCEPT ![p] = << >>] /\ behind' = behind \ {p}
      /\ saves' = << >> /\ copied' = copied
  BY DEF Quits, Mind, Calm
<1>2. /\ heap' \in [Owner -> Seq(Entry)] /\ Distinct(heap', copied)
      /\ playing' \subseteq Player /\ \A q \in Player \ playing' : heap'[q] = << >>
      /\ RecordKept(heap', file, behind \cup {p}, copied, Ground)
  BY <1>1, LeavesProps
<1>3. file \in [Player -> Seq(Entry)] /\ behind \subseteq Player /\ copied \subseteq Item
  BY Facts
<1>4. /\ file' \in [Player -> Seq(Entry)] /\ file'[p] = << >>
      /\ \A q \in Player \ {p} : file'[q] = file[q]
  BY <1>1, <1>3
<1>5. RecordKept(heap', file', behind', copied, Due')
  <2> DEFINE fl2 == file'
             bh == behind \cup {p}
  <2>1. fl2[p] = << >> /\ \A q \in Player \ {p} : fl2[q] = file[q]
    BY <1>4
  <2>2. RecordKept(heap', file, bh, copied, Ground)
    BY <1>2
  <2> HIDE DEF fl2, bh
  <2>3. RecordKept(heap', fl2, bh \ {p}, copied, Ground)
    BY <2>1, <2>2, Clearing
  <2>4. bh \ {p} = behind' /\ Due' = Ground
    BY <1>1 DEF bh, Due
  <2> QED
    BY <2>3, <2>4 DEF fl2
<1>6. \A q \in Player : Once(file'[q], copied) /\ Len(file'[q]) <= MaxObjSave
  <2>1. Once(<< >>, copied) /\ Len(<< >>) <= MaxObjSave
    BY DEF Once
  <2>2. \A q \in Player : Once(file[q], copied) /\ Len(file[q]) <= MaxObjSave
    BY DEF IndInv, TypeOK
  <2> QED
    BY <1>4, <2>1, <2>2
<1>7. TypeOK'
  <2>1. saves' \in Seq(playing') /\ behind' \subseteq Player
    BY <1>1, <1>3
  <2> QED
    BY <1>1, <1>2, <1>3, <1>4, <1>6, <2>1 DEF TypeOK
<1> QED
  BY <1>1, <1>2, <1>5, <1>6, <1>7 DEF IndInv

(* Force rent that is refused: only a record that lists nothing stays right. *)
LEMMA IdlesOutKeeps ==
    ASSUME IndInv, NEW p \in Player, IdlesOut(p)
    PROVE  IndInv'
<1>1. /\ Mind(p) /\ Leaves(p) /\ file' = file
      /\ behind' = IF file[p] = << >> THEN behind ELSE behind \cup {p}
      /\ saves' = << >> /\ copied' = copied
  BY DEF IdlesOut, Mind, Calm
<1>2. /\ heap' \in [Owner -> Seq(Entry)] /\ Distinct(heap', copied)
      /\ playing' \subseteq Player /\ \A q \in Player \ playing' : heap'[q] = << >>
      /\ RecordKept(heap', file, behind \cup {p}, copied, Ground)
  BY <1>1, LeavesProps
<1>3. file \in [Player -> Seq(Entry)] /\ behind \subseteq Player /\ copied \subseteq Item
  BY Facts
<1>4. Due' = Ground
  BY <1>1 DEF Due
<1>5. RecordKept(heap', file, behind', copied, Ground)
  <2>1. CASE file[p] # << >>
    BY <1>1, <1>2, <2>1
  <2>2. CASE file[p] = << >>
    <3> DEFINE hp2 == heap'
               bh == behind \cup {p}
    <3>1. RecordKept(hp2, file, bh, copied, Ground)
      BY <1>2
    <3> HIDE DEF hp2, bh
    <3>2. RecordKept(hp2, file, bh \ {p}, copied, Ground)
      BY <2>2, <3>1, Clearing
    <3>3. bh \ {p} \subseteq behind
      BY DEF bh
    <3>4. RecordKept(hp2, file, behind, copied, Ground)
      BY <3>2, <3>3, RecordKeptMore
    <3> QED
      BY <1>1, <2>2, <3>4 DEF hp2
  <2> QED
    BY <2>1, <2>2
<1>6. TypeOK'
  <2>1. saves' \in Seq(playing') /\ behind' \subseteq Player
    BY <1>1, <1>3
  <2>2. \A q \in Player : Len(file[q]) <= MaxObjSave
    BY Facts
  <2> QED
    BY <1>1, <1>2, <1>3, <2>1, <2>2 DEF TypeOK
<1>7. \A q \in Player : Once(file[q], copied)
  BY DEF IndInv
<1> QED
  BY <1>1, <1>2, <1>4, <1>5, <1>6, <1>7 DEF IndInv

(* rent: the record is made, then the objects are destroyed. *)
LEMMA RentsKeeps ==
    ASSUME IndInv, NEW p \in Player, Rents(p)
    PROVE  IndInv'
<1>1. /\ Mind(p) /\ Recorded(p) /\ saves = << >> /\ saves' = << >> /\ copied' = copied
      /\ heap' = [heap EXCEPT ![p] = << >>] /\ playing' = playing \ {p}
  BY DEF Rents, Mind, Calm
<1>2. Distinct(heap, copied) /\ RecordKept(heap, file, behind, copied, Ground) /\ Due' = Ground
  BY <1>1 DEF IndInv, Due
<1>3. /\ file \in [Player -> Seq(Entry)] /\ behind \subseteq Player /\ copied \subseteq Item
      /\ heap \in [Owner -> Seq(Entry)] /\ p \in Owner /\ playing \subseteq Player
      /\ Held(heap[p], copied)
  BY Facts
<1>4. /\ \A q \in Player \ {p} : file'[q] = file[q]
      /\ \/ file'[p] = SaveObj(heap[p]) /\ behind' = behind \ {p}
         \/ file'[p] = file[p] /\ behind' = behind \cup {p}
  BY <1>1, <1>3 DEF Recorded
<1>5. /\ heap' \in [Owner -> Seq(Entry)] /\ heap'[p] = << >>
      /\ \A o \in Owner \ {p} : heap'[o] = heap[o]
  BY <1>1, <1>3
<1>6. Held(<< >>, copied) /\ Items(<< >>) = {}
  BY DEF Held, Once, Items
<1>7. Distinct(heap', copied) /\ RecordKept(heap', file', behind', copied, Ground)
  <2> DEFINE hp2 == heap'
             fl2 == file'
             bh2 == behind'
  <2>1. /\ \A q \in Player \ {p} : fl2[q] = file[q]
        /\ \/ fl2[p] = SaveObj(heap[p]) /\ bh2 = behind \ {p}
           \/ fl2[p] = file[p] /\ bh2 = behind \cup {p}
    BY <1>4
  <2>2. Regroups(heap, hp2, p, p, copied)
    <3>1. \A o \in Owner : Held(hp2[o], copied)
      BY <1>5, <1>6, Facts
    <3> QED
      BY <1>5, <1>6, <3>1 DEF Regroups
  <2> HIDE DEF fl2, bh2, hp2
  <2>3. RecordKept(heap, fl2, bh2, copied, Ground)
    BY <1>2, <2>1, Recording
  <2>4. Distinct(hp2, copied) /\ RecordKept(hp2, fl2, bh2, copied, Ground)
    BY <1>2, <1>3, <2>2, <2>3, Regrouped
  <2> QED
    BY <2>4 DEF fl2, bh2, hp2
<1>8. Held(SaveObj(heap[p]), copied) /\ Len(SaveObj(heap[p])) <= MaxObjSave
  BY <1>3, SaveObjHeld
<1>9. file' \in [Player -> Seq(Entry)]
  <2>1. SaveObj(heap[p]) \in Seq(Entry)
    BY <1>8 DEF Held
  <2> QED
    BY <1>1, <1>3, <2>1 DEF Recorded
<1>10. \A q \in Player : Once(file'[q], copied) /\ Len(file'[q]) <= MaxObjSave
  <2>1. \A q \in Player : Once(file[q], copied) /\ Len(file[q]) <= MaxObjSave
    BY DEF IndInv, TypeOK
  <2>2. Once(SaveObj(heap[p]), copied)
    BY <1>8 DEF Held
  <2> QED
    BY <1>4, <1>8, <2>1, <2>2
<1>11. TypeOK'
  <2>1. saves' \in Seq(playing') /\ behind' \subseteq Player
    BY <1>1, <1>3, <1>4
  <2>2. \A q \in Player \ playing' : heap'[q] = << >>
    BY <1>1, <1>5, Facts
  <2> QED
    BY <1>1, <1>3, <1>5, <1>9, <1>10, <2>1, <2>2 DEF TypeOK
<1> QED
  BY <1>1, <1>2, <1>7, <1>10, <1>11 DEF IndInv

(* A player comes back, with the objects of the record or, where they do not
   pay the rent, without them. *)
LEMMA EntersKeeps ==
    ASSUME IndInv, NEW p \in Player, Enters(p)
    PROVE  IndInv'
<1>1. p \notin playing /\ saves = << >> /\ playing' = playing \cup {p}
  BY DEF Enters, Calm
<1>2. Distinct(heap, copied) /\ RecordKept(heap, file, behind, copied, Ground)
  BY <1>1 DEF IndInv, Due
<1>3. /\ file \in [Player -> Seq(Entry)] /\ behind \subseteq Player /\ copied \subseteq Item
      /\ heap \in [Owner -> Seq(Entry)] /\ p \in Owner /\ playing \subseteq Player
      /\ Held(file[p], copied)
      /\ \A q \in Player \ playing : heap[q] = << >>
  BY Facts
<1>4. \A q \in Player : Once(file[q], copied) /\ Len(file[q]) <= MaxObjSave
  BY DEF IndInv, TypeOK
<1>5. CASE /\ heap' = [heap EXCEPT ![p] = ObjStoreToChar(file[p])]
           /\ copied' = copied \cup (IF p \in behind THEN Elsewhere(p) ELSE {})
           /\ behind' = behind \ {p}
           /\ saves' \in {<< >>, << p >>}
           /\ file' = file
  <2>1. heap'[p] = ObjStoreToChar(file[p]) /\ \A o \in Owner \ {p} : heap'[o] = heap[o]
    BY <1>3, <1>5
  <2>2. Distinct(heap', copied') /\ RecordKept(heap', file, behind', copied', Due')
    <3> DEFINE hp2 == heap'
               C2 == copied'
               due2 == Due'
    <3>1. /\ hp2[p] = ObjStoreToChar(file[p]) /\ \A o \in Owner \ {p} : hp2[o] = heap[o]
          /\ C2 = copied \cup (IF p \in behind THEN Elsewhere(p) ELSE {})
      BY <1>5, <2>1
    <3>2. (\A q \in Player : file[q] \in Seq(Entry)) /\ \A q \in Player : Once(file[q], copied)
      BY <1>3, <1>4
    <3> HIDE DEF hp2, C2, due2
    <3>3. Distinct(hp2, C2) /\ RecordKept(hp2, file, behind \ {p}, C2, due2)
      BY <1>2, <3>1, <3>2, Entering
    <3> QED
      BY <1>5, <3>3 DEF hp2, C2, due2
  <2>3. Held(ObjStoreToChar(file[p]), copied)
    BY <1>3, ObjStoreHeld
  <2>4. heap' \in [Owner -> Seq(Entry)]
    BY <1>3, <1>5, <2>3 DEF Held
  <2>5. copied' \subseteq Item
    <3>1. Items(file[p]) \subseteq Item
      BY <1>3, ItemsIn
    <3> QED
      BY <1>3, <1>5, <3>1 DEF Elsewhere
  <2>6. \A q \in Player : Once(file'[q], copied')
    <3>1. copied \subseteq copied'
      BY <1>5
    <3> QED
      BY <1>4, <1>5, <3>1 DEF Once
  <2>7. TypeOK'
    <3>1. saves' \in Seq(playing') /\ behind' \subseteq Player /\ playing' \subseteq Player
      <4>1. p \in playing' /\ playing' \subseteq Player
        BY <1>1, <1>3
      <4>2. << p >> \in Seq(playing') /\ << >> \in Seq(playing')
        BY <4>1
      <4> QED
        BY <1>3, <1>5, <4>1, <4>2
    <3>2. \A q \in Player \ playing' : heap'[q] = << >>
      <4>1. \A q \in Player \ playing' : q \in Owner \ {p} /\ q \in Player \ playing
        BY <1>1 DEF Owner
      <4> QED
        BY <1>3, <2>1, <4>1
    <3> QED
      BY <1>3, <1>4, <1>5, <2>4, <2>5, <3>1, <3>2 DEF TypeOK
  <2> QED
    BY <1>5, <2>2, <2>6, <2>7 DEF IndInv
<1>6. CASE /\ file' = [file EXCEPT ![p] = << >>]
           /\ behind' = behind \ {p}
           /\ heap' = heap /\ saves' = saves /\ copied' = copied
  <2>1. /\ file' \in [Player -> Seq(Entry)] /\ file'[p] = << >>
        /\ \A q \in Player \ {p} : file'[q] = file[q]
    BY <1>3, <1>6
  <2>2. RecordKept(heap', file', behind', copied', Due')
    <3> DEFINE fl2 == file'
    <3>1. fl2[p] = << >> /\ \A q \in Player \ {p} : fl2[q] = file[q]
      BY <2>1
    <3> HIDE DEF fl2
    <3>2. RecordKept(heap, fl2, behind \ {p}, copied, Ground)
      BY <1>2, <3>1, Clearing
    <3>3. Due' = Ground
      BY <1>1, <1>6 DEF Due
    <3> QED
      BY <1>6, <3>2, <3>3 DEF fl2
  <2>3. \A q \in Player : Once(file'[q], copied') /\ Len(file'[q]) <= MaxObjSave
    <3>1. Once(<< >>, copied) /\ Len(<< >>) <= MaxObjSave
      BY DEF Once
    <3> QED
      BY <1>4, <1>6, <2>1, <3>1
  <2>4. TypeOK'
    <3>1. saves' \in Seq(playing') /\ behind' \subseteq Player /\ playing' \subseteq Player
      BY <1>1, <1>3, <1>6
    <3>2. \A q \in Player \ playing' : heap'[q] = << >>
      BY <1>1, <1>3, <1>6
    <3> QED
      BY <1>3, <1>6, <2>1, <2>3, <3>1, <3>2 DEF TypeOK
  <2> QED
    BY <1>2, <1>6, <2>2, <2>3, <2>4 DEF IndInv
<1> QED
  BY <1>5, <1>6 DEF Enters

(* The process ends: the objects in memory are gone, and the records stay. *)
LEMMA CrashKeeps ==
    ASSUME IndInv, Crash
    PROVE  IndInv'
<1>1. /\ heap' = [o \in Owner |-> << >>] /\ playing' = {} /\ saves' = << >>
      /\ file' = file /\ behind' = behind /\ copied' = copied
  BY DEF Crash
<1>2. Held(<< >>, copied) /\ Items(<< >>) = {}
  BY DEF Held, Once, Items
<1>3. Distinct(heap', copied)
  BY <1>1, <1>2 DEF Distinct, Apart
<1>4. RecordKept(heap', file, behind, copied, Ground)
  <2>1. \A o \in Owner : Items(heap'[o]) = {}
    BY <1>1, <1>2
  <2>2. \A p \in Player \ behind : \A x \in Items(file[p]) \ copied :
          \A q \in Player \ (behind \cup {p}) : x \notin Items(file[q])
    BY DEF IndInv, RecordKept
  <2> QED
    BY <2>1, <2>2 DEF RecordKept
<1>5. TypeOK'
  <2>1. /\ heap' \in [Owner -> Seq(Entry)] /\ \A p \in Player : heap'[p] = << >>
    BY <1>1 DEF Owner
  <2> QED
    BY <1>1, <2>1, Facts DEF TypeOK
<1>6. Due' = Ground
  BY <1>1 DEF Due
<1>7. \A q \in Player : Once(file[q], copied)
  BY DEF IndInv
<1> QED
  BY <1>1, <1>3, <1>4, <1>5, <1>6, <1>7 DEF IndInv

(* At the start every object lies on the ground. *)
LEMMA InitHolds ==
    ASSUME Init
    PROVE  IndInv
<1>1. PICK s \in SetToSeqs(Item), junk \in SUBSET Junk :
        heap = [o \in Owner |->
                 IF o = Ground
                 THEN [k \in DOMAIN s |-> [Loose(s[k])[1] EXCEPT !.kept = s[k] \notin junk]]
                 ELSE << >>]
  BY DEF Init
<1>2. /\ file = [p \in Player |-> << >>]
      /\ playing = Player /\ saves = << >> /\ behind = {} /\ copied = {}
  BY DEF Init
<1> DEFINE n == Cardinality(Item)
           g == [k \in DOMAIN s |-> [Loose(s[k])[1] EXCEPT !.kept = s[k] \notin junk]]
<1>3. n \in Nat
  BY FS_CardinalityType
<1> HIDE DEF n
<1>4. s \in [1 .. n -> Item] /\ \A i, j \in 1 .. n : i # j => s[i] # s[j]
  BY DEF SetToSeqs, n
<1>5. ASSUME NEW k \in 1 .. n PROVE g[k] \in Entry /\ g[k].item = s[k]
  <2>1. Loose(s[k])[1] = [item |-> s[k], kept |-> TRUE, depth |-> 0, worn |-> 0]
    BY DEF Loose
  <2>2. s[k] \in Item /\ (s[k] \notin junk) \in BOOLEAN /\ 0 \in 0 .. Slots
    BY <1>4
  <2>3. g[k] = [item |-> s[k], kept |-> (s[k] \notin junk), depth |-> 0, worn |-> 0]
    BY <1>4, <2>1
  <2> HIDE DEF g
  <2> QED
    BY <2>2, <2>3 DEF Entry
<1>6. g \in Seq(Entry) /\ DOMAIN g = 1 .. n
  <2>1. g = [k \in 1 .. n |-> g[k]] /\ DOMAIN g = 1 .. n
    BY <1>4
  <2> HIDE DEF g
  <2> QED
    BY <1>3, <1>5, <2>1
<1>7. heap = [o \in Owner |-> IF o = Ground THEN g ELSE << >>]
  BY <1>1
<1> HIDE DEF g
<1>8. Held(g, {}) /\ Held(<< >>, {}) /\ Items(<< >>) = {}
  <2>1. \A i, j \in DOMAIN g : g[i].item = g[j].item => i = j
    BY <1>4, <1>5, <1>6
  <2> QED
    BY <1>6, <2>1 DEF Held, Once, Items
<1>9. Distinct(heap, copied)
  BY <1>2, <1>7, <1>8 DEF Distinct, Apart
<1>10. TypeOK
  <2>1. heap \in [Owner -> Seq(Entry)]
    BY <1>6, <1>7
  <2>2. Len(<< >>) <= MaxObjSave
    OBVIOUS
  <2> QED
    BY <1>2, <2>1, <2>2 DEF TypeOK
<1>11. RecordKept(heap, file, behind, copied, Due) /\ \A p \in Player : Once(file[p], copied)
  BY <1>2, <1>8 DEF RecordKept, Held
<1> QED
  BY <1>9, <1>10, <1>11 DEF IndInv

(* No step breaks the invariant. *)
LEMMA Keeps ==
    ASSUME IndInv, [Next]_vars
    PROVE  IndInv'
<1>1. CASE UNCHANGED vars
  BY <1>1 DEF vars, IndInv, TypeOK, Due
<1>2. CASE Crash
  BY <1>2, CrashKeeps
<1>3. ASSUME NEW p \in Player,
             \/ Gets(p) \/ Unpacks(p) \/ Removes(p) \/ DoSave(p)
             \/ Rents(p) \/ Quits(p) \/ IdlesOut(p) \/ Enters(p)
      PROVE  IndInv'
  BY <1>3, GetsKeeps, UnpacksKeeps, RemovesKeeps, DoSaveKeeps, RentsKeeps, QuitsKeeps,
     IdlesOutKeeps, EntersKeeps
<1>4. ASSUME NEW p \in Player, NEW end \in Ends2, Drops(p, end) \/ Puts(p, end)
      PROVE  IndInv'
  BY <1>4, DropsKeeps, PutsKeeps
<1>5. ASSUME NEW p \in Player, NEW q \in Player, Steals(p, q) \/ \E end \in Ends2 : Gives(p, q, end)
      PROVE  IndInv'
  BY <1>5, StealsKeeps, GivesKeeps
<1>6. ASSUME NEW p \in Player, NEW pos \in 1 .. Slots, Wears(p, pos)
      PROVE  IndInv'
  BY <1>6, WearsKeeps
<1> QED
  BY <1>1, <1>2, <1>3, <1>4, <1>5, <1>6 DEF Next

(* Heaps and records are made of entries, no record is longer than MAX_OBJ_SAVE,
   and who does not play owns nothing in memory, in every reachable state. *)
THEOREM TypeCorrect == Spec => []TypeOK
<1>1. IndInv => TypeOK
  BY DEF IndInv
<1> QED
  BY InitHolds, Keeps, <1>1, PTL DEF Spec

(* What a record lists is not in the hands of another, on the ground or in
   another's record, whenever the process ends and however the saves of the
   commands interleave with it, but where a command returned before its saves,
   the database failed, or force rent was refused. *)
THEOREM CrashDoesNotDuplicate == Spec => []RecordsSound
<1>1. IndInv => RecordsSound
  <2> SUFFICES ASSUME IndInv, NEW p \in Player \ behind, NEW x \in Items(file[p]) \ copied
               PROVE  /\ \A q \in Player \ (behind \cup {p}) : x \notin Items(file[q])
                      /\ (\A n \in DOMAIN saves : saves[n] # p)
                            => \A o \in Owner \ {p} : x \notin Items(heap[o])
    BY DEF RecordsSound
  <2>1. /\ \A q \in Player \ (behind \cup {p}) : x \notin Items(file[q])
        /\ p # Due => \A o \in Owner \ {p} : x \notin Items(heap[o])
    BY DEF IndInv, RecordKept
  <2>2. (\A n \in DOMAIN saves : saves[n] # p) => p # Due
    <3>1. saves # << >> => 1 \in DOMAIN saves /\ Head(saves) = saves[1]
      BY Facts
    <3>2. p # Ground
      OBVIOUS
    <3> QED
      BY <3>1, <3>2 DEF Due
  <2> QED
    BY <2>1, <2>2
<1> QED
  BY InitHolds, Keeps, <1>1, PTL DEF Spec

(* No object is owned twice, or by two, in memory: but what came back from a
   record that was out of date. *)
THEOREM OwnedOnce == Spec => []Distinct(heap, copied)
<1>1. IndInv => Distinct(heap, copied)
  BY DEF IndInv
<1> QED
  BY InitHolds, Keeps, <1>1, PTL DEF Spec

-----------------------------------------------------------------------------
(* The shape of a heap *)

\* No entry is more than one level deeper than the one before.
Steady(h) == \A k \in 2 .. Len(h) : h[k].depth <= h[k - 1].depth + 1
\* What is worn is in nothing, and no slot is taken twice.
WornOnce(h) == /\ \A k \in DOMAIN h : h[k].worn > 0 => h[k].depth = 0
               /\ \A i, j \in DOMAIN h : h[i].worn = h[j].worn /\ h[i].worn > 0 => i = j
Shaped(h) == (h # << >> => h[1].depth = 0) /\ Steady(h) /\ WornOnce(h)

\* An object of depth d can go behind the first n entries.
Fits(h, n, d) == /\ n \in 0 .. Len(h) /\ (n = 0 => d = 0)
                 /\ (n > 0 => d <= h[n].depth + 1)
                 /\ (n < Len(h) => h[n + 1].depth <= d)

\* t is h with s put behind its first n entries, entry by entry.
Inserted(h, n, s, t) ==
    /\ t \in Seq(Entry) /\ Len(t) = Len(h) + Len(s)
    /\ \A i \in 1 .. Len(t) : t[i] = IF i <= n THEN h[i]
                                     ELSE IF i <= n + Len(s) THEN s[i - n]
                                     ELSE h[i - Len(s)]

(* What Insert does. *)
LEMMA InsertEntries ==
    ASSUME NEW h \in Seq(Entry), NEW s \in Seq(Entry), NEW n \in 0 .. Len(h),
           NEW t, t = Insert(h, n, s)
    PROVE  Inserted(h, n, s, t)
<1> DEFINE l == Len(s)
<1>1. /\ h \in Seq(Entry) /\ Len(h) \in Nat /\ DOMAIN h = 1 .. Len(h)
      /\ s \in Seq(Entry) /\ l \in Nat /\ DOMAIN s = 1 .. l
      /\ n \in Nat /\ n <= Len(h)
  OBVIOUS
<1> HIDE DEF l
<1> DEFINE a == SubSeq(h, 1, n)
           b == SubSeq(h, n + 1, Len(h))
           u == a \o s
<1>2. /\ a \in Seq(Entry) /\ Len(a) = n
      /\ \A i \in 1 .. n : a[i] = h[i]
  BY <1>1
<1>3. /\ b \in Seq(Entry) /\ Len(b) = Len(h) - n
      /\ \A i \in 1 .. Len(h) - n : b[i] = h[n + i]
  <2>1. n + 1 \in 1 .. Len(h) + 1
    BY <1>1
  <2>2. \A i \in n + 1 .. Len(h) : h[i] \in Entry
    BY <1>1, <2>1
  <2> QED
    BY <1>1, <2>1, <2>2
<1>4. t = u \o b
  BY DEF Insert
<1> HIDE DEF a, b
<1>5. /\ u \in Seq(Entry) /\ Len(u) = n + l
      /\ \A i \in 1 .. n + l : u[i] = IF i <= n THEN a[i] ELSE s[i - n]
  BY <1>1, <1>2 DEF l
<1> HIDE DEF u
<1>6. /\ t \in Seq(Entry) /\ Len(t) = n + l + (Len(h) - n)
      /\ \A i \in 1 .. Len(t) : t[i] = IF i <= n + l THEN u[i] ELSE b[i - (n + l)]
  <2>1. /\ u \in Seq(Entry) /\ Len(u) = n + l /\ b \in Seq(Entry) /\ Len(b) = Len(h) - n
    BY <1>3, <1>5
  <2>2. /\ u \o b \in Seq(Entry) /\ Len(u \o b) = Len(u) + Len(b)
        /\ \A i \in 1 .. Len(u) + Len(b) :
              (u \o b)[i] = IF i <= Len(u) THEN u[i] ELSE b[i - Len(u)]
    BY <2>1, ConcatProperties
  <2> QED
    BY <1>4, <2>1, <2>2
<1>7. ASSUME NEW i \in 1 .. Len(t), i > n + l PROVE t[i] = h[i - l]
  <2>1. i - (n + l) \in 1 .. Len(h) - n /\ n + (i - (n + l)) = i - l
    BY <1>1, <1>6, <1>7
  <2>2. b[i - (n + l)] = h[n + (i - (n + l))]
    BY <1>3, <2>1
  <2>3. t[i] = b[i - (n + l)]
    <3>1. Len(t) \in Nat /\ i \in Nat /\ ~(i <= n + l)
      BY <1>1, <1>6, <1>7
    <3> QED
      BY <1>6, <3>1
  <2> QED
    BY <2>1, <2>2, <2>3
<1>8. Len(t) = Len(h) + l
  BY <1>1, <1>6
<1>9. ASSUME NEW i \in 1 .. Len(t), i <= n + l
      PROVE  t[i] = IF i <= n THEN h[i] ELSE s[i - n]
  <2>1. i \in 1 .. n + l /\ t[i] = u[i] /\ n \in Nat /\ l \in Nat
    BY <1>1, <1>6, <1>9
  <2>2. i <= n => i \in 1 .. n
    BY <2>1
  <2>3. i <= n => a[i] = h[i]
    BY <1>2, <2>2
  <2> QED
    BY <1>5, <2>1, <2>3
<1>10. ASSUME NEW i \in 1 .. Len(t)
       PROVE  t[i] = IF i <= n THEN h[i] ELSE IF i <= n + l THEN s[i - n] ELSE h[i - l]
  BY <1>1, <1>6, <1>7, <1>9
<1>11. \A i \in 1 .. Len(t) :
         t[i] = IF i <= n THEN h[i] ELSE IF i <= n + l THEN s[i - n] ELSE h[i - l]
  BY <1>10
<1>12. t \in Seq(Entry)
  BY <1>6
<1> QED
  BY <1>8, <1>11, <1>12 DEF l, Inserted

(* An object taken out of a heap, and the heap it leaves, entry by entry. *)
LEMMA PartingEntries ==
    ASSUME NEW h \in Seq(Entry), NEW k \in DOMAIN h, NEW e, e = Max(Ends(h, k)),
           NEW s, s = Whole(h, k), NEW t, t = Without(h, k)
    PROVE  /\ e \in k .. Len(h) /\ \A j \in k + 1 .. e : h[j].depth > h[k].depth
           /\ e < Len(h) => h[e + 1].depth <= h[k].depth
           /\ s \in Seq(Entry) /\ Len(s) = e - k + 1
           /\ \A i \in 1 .. Len(s) : s[i] = h[k + i - 1]
           /\ t \in Seq(Entry) /\ Len(t) = Len(h) - (e - k + 1)
           /\ \A i \in 1 .. Len(t) : t[i] = IF i < k THEN h[i] ELSE h[i + (e - k + 1)]
<1>1. /\ Len(h) \in Nat /\ DOMAIN h = 1 .. Len(h) /\ k \in 1 .. Len(h)
      /\ \A i \in 1 .. Len(h) : h[i] \in Entry /\ h[i].depth \in Nat
  <2>1. \A i \in DOMAIN h : h[i] \in Entry
    OBVIOUS
  <2> QED
    BY <2>1 DEF Entry
<1>2. e \in k .. Len(h) /\ \A j \in k + 1 .. e : h[j].depth > h[k].depth
  BY EndsProps
<1>3. \A m \in Ends(h, k) : m <= e
  <2>1. k \in Ends(h, k) /\ Ends(h, k) \in SUBSET (1 .. Len(h))
    BY <1>1 DEF Ends
  <2> QED
    BY <1>1, <2>1, FirstAndLast
<1>4. ASSUME e < Len(h), ~(h[e + 1].depth <= h[k].depth) PROVE FALSE
  <2>1. e + 1 \in k .. Len(h)
    BY <1>1, <1>2, <1>4
  <2>2. \A j \in k + 1 .. e + 1 : j = e + 1 \/ j \in k + 1 .. e
    BY <1>1, <1>2
  <2>3. h[e + 1].depth > h[k].depth
    BY <1>1, <1>4, <2>1
  <2>4. e + 1 \in Ends(h, k)
    BY <1>2, <2>1, <2>2, <2>3 DEF Ends
  <2> QED
    BY <1>2, <1>3, <2>4
<1>5. /\ s \in Seq(Entry) /\ Len(s) = e - k + 1
      /\ \A i \in 1 .. Len(s) : s[i] = h[k + i - 1]
  BY <1>1, <1>2 DEF Whole
<1> DEFINE a == SubSeq(h, 1, k - 1)
           b == SubSeq(h, e + 1, Len(h))
<1>6. /\ a \in Seq(Entry) /\ Len(a) = k - 1
      /\ \A i \in 1 .. k - 1 : a[i] = h[i]
  BY <1>1
<1>7. /\ b \in Seq(Entry) /\ Len(b) = Len(h) - e
      /\ \A i \in 1 .. Len(h) - e : b[i] = h[e + i]
  <2>1. e \in Nat /\ e <= Len(h) /\ e + 1 \in 1 .. Len(h) + 1
    BY <1>1, <1>2
  <2>2. \A i \in e + 1 .. Len(h) : h[i] \in Entry
    BY <1>1, <2>1
  <2>3. /\ b \in Seq(Entry)
        /\ Len(b) = IF e + 1 <= Len(h) THEN Len(h) - (e + 1) + 1 ELSE 0
        /\ \A i \in 1 .. Len(h) - (e + 1) + 1 : b[i] = h[(e + 1) + i - 1]
    BY <1>1, <2>1, <2>2, SubSeqProperties
  <2> HIDE DEF b
  <2>4. ASSUME NEW i \in 1 .. Len(h) - e PROVE b[i] = h[e + i]
    <3>1. i \in Int /\ e \in Int /\ Len(h) \in Int
      BY <1>1, <2>1
    <3>2. i \in 1 .. Len(h) - (e + 1) + 1 /\ (e + 1) + i - 1 = e + i
      BY <3>1
    <3> QED
      BY <2>3, <3>2
  <2>5. Len(b) = Len(h) - e
    BY <1>1, <2>1, <2>3
  <2> QED
    BY <2>3, <2>4, <2>5
<1>8. t = a \o b
  BY DEF Without
<1> HIDE DEF a, b
<1>9. /\ t \in Seq(Entry) /\ Len(t) = Len(a) + Len(b)
      /\ \A i \in 1 .. Len(t) : t[i] = IF i <= Len(a) THEN a[i] ELSE b[i - Len(a)]
  <2>1. a \o b \in Seq(Entry) /\ Len(a \o b) = Len(a) + Len(b)
    BY <1>6, <1>7, ConcatProperties
  <2>2. \A i \in 1 .. Len(a) + Len(b) :
          (a \o b)[i] = IF i <= Len(a) THEN a[i] ELSE b[i - Len(a)]
    BY <1>6, <1>7, ConcatProperties
  <2> QED
    BY <1>8, <2>1, <2>2
<1>10. ASSUME NEW i \in 1 .. Len(t), ~(i < k) PROVE t[i] = h[i + (e - k + 1)]
  <2>1. i - (k - 1) \in 1 .. Len(h) - e /\ e + (i - (k - 1)) = i + (e - k + 1)
    <3>1. /\ i \in Int /\ k \in Int /\ e \in Int /\ Len(h) \in Int /\ e <= Len(h)
          /\ i <= (k - 1) + (Len(h) - e) /\ i >= k
      BY <1>1, <1>2, <1>6, <1>7, <1>9, <1>10
    <3>2. \A m \in Int : i <= (k - 1) + (m - e) => i - (k - 1) <= m - e
      BY <3>1
    <3>3. i - (k - 1) >= 1
      BY <3>1
    <3>4. e + (i - (k - 1)) = i + (e - k + 1)
      BY <3>1
    <3>5. i - (k - 1) \in Int /\ Len(h) - e \in Int
      BY <3>1
    <3>6. i - (k - 1) <= Len(h) - e
      BY <3>1, <3>2
    <3> QED
      BY <3>3, <3>4, <3>5, <3>6
  <2>2. b[i - (k - 1)] = h[e + (i - (k - 1))]
    BY <1>7, <2>1
  <2>3. t[i] = b[i - (k - 1)]
    BY <1>1, <1>6, <1>9, <1>10
  <2> QED
    BY <2>1, <2>2, <2>3
<1>11. ASSUME NEW i \in 1 .. Len(t), i < k PROVE t[i] = h[i]
  BY <1>1, <1>2, <1>6, <1>9, <1>11
<1>12. Len(t) = Len(h) - (e - k + 1)
  BY <1>1, <1>2, <1>6, <1>7, <1>9
<1> QED
  BY <1>2, <1>4, <1>5, <1>9, <1>10, <1>11, <1>12

(* The numbers of an entry. *)
LEMMA EntryNumbers ==
    ASSUME NEW h \in Seq(Entry)
    PROVE  /\ Len(h) \in Nat /\ DOMAIN h = 1 .. Len(h)
           /\ \A k \in 1 .. Len(h) : /\ h[k] \in Entry /\ h[k].item \in Item /\ h[k].depth \in Nat
                                     /\ h[k].worn \in 0 .. Slots /\ h[k].worn \in Nat
<1>1. \A k \in DOMAIN h : h[k] \in Entry
  OBVIOUS
<1>2. ASSUME NEW e \in Entry
      PROVE  e.item \in Item /\ e.depth \in Nat /\ e.worn \in 0 .. Slots /\ e.worn \in Nat
  BY DEF Entry
<1> QED
  BY <1>1, <1>2

(* An object put where it fits leaves the shape: nothing is too deep for the
   entry before, and only its first entry may be worn, in a free slot. *)
LEMMA InsertShaped ==
    ASSUME NEW h \in Seq(Entry), Shaped(h), NEW s \in Seq(Entry), Rooted(s), Steady(s),
           \A k \in 2 .. Len(s) : s[k].worn = 0,
           s[1].worn > 0 => s[1].depth = 0 /\ \A k \in DOMAIN h : h[k].worn # s[1].worn,
           NEW n, Fits(h, n, s[1].depth)
    PROVE  Shaped(Insert(h, n, s))
<1> DEFINE t == Insert(h, n, s)
           l == Len(s)
           m == Len(h)
<1>1. /\ m \in Nat /\ l \in Nat /\ l > 0 /\ n \in 0 .. m /\ n \in Nat /\ n <= m
      /\ DOMAIN h = 1 .. m /\ DOMAIN s = 1 .. l
  BY EntryNumbers DEF Fits, Rooted
<1>2. /\ t \in Seq(Entry) /\ Len(t) = m + l
      /\ \A i \in 1 .. m + l : t[i] = IF i <= n THEN h[i] ELSE IF i <= n + l THEN s[i - n]
                                      ELSE h[i - l]
  <2>1. n \in 0 .. Len(h)
    BY DEF Fits
  <2>2. Inserted(h, n, s, t)
    BY <2>1, InsertEntries
  <2> HIDE DEF t
  <2> QED
    BY <2>2 DEF Inserted
<1>3. /\ \A k \in 1 .. m : h[k].depth \in Nat /\ h[k].worn \in Nat
      /\ \A k \in 1 .. l : s[k].depth \in Nat /\ s[k].worn \in Nat /\ s[k].depth >= s[1].depth
  BY <1>1, EntryNumbers DEF Rooted
<1>4. /\ n = 0 => s[1].depth = 0
      /\ n > 0 => s[1].depth <= h[n].depth + 1
      /\ n < m => h[n + 1].depth <= s[1].depth
  BY DEF Fits
<1>5. /\ m > 0 => h[1].depth = 0
      /\ \A k \in 2 .. m : h[k].depth <= h[k - 1].depth + 1
      /\ \A k \in 2 .. l : s[k].depth <= s[k - 1].depth + 1
      /\ \A k \in 1 .. m : h[k].worn > 0 => h[k].depth = 0
      /\ \A i, j \in 1 .. m : h[i].worn = h[j].worn /\ h[i].worn > 0 => i = j
  <2>1. m > 0 => h # << >>
    BY <1>1
  <2> QED
    BY <1>1, <2>1 DEF Shaped, Steady, WornOnce
<1> DEFINE Old(i) == i <= n \/ i > n + l
           From(i) == IF i <= n THEN i ELSE i - l
<1>6. ASSUME NEW i \in 1 .. m + l, Old(i)
      PROVE  From(i) \in 1 .. m /\ t[i] = h[From(i)]
  BY <1>1, <1>2, <1>6
<1>7. ASSUME NEW i \in 1 .. m + l, ~ Old(i)
      PROVE  i - n \in 1 .. l /\ t[i] = s[i - n]
  BY <1>1, <1>2, <1>7
<1> HIDE DEF t, l, m
<1>8. t # << >> /\ t[1].depth = 0
  <2>1. 1 \in 1 .. m + l
    BY <1>1
  <2>2. t # << >>
    BY <1>1, <1>2
  <2>3. CASE n = 0
    <3>1. ~ Old(1) /\ 1 - n = 1
      BY <1>1, <2>3
    <3> HIDE DEF Old, From
    <3> QED
      BY <1>4, <1>7, <2>1, <2>2, <2>3, <3>1
  <2>4. CASE n > 0
    <3>1. Old(1) /\ From(1) = 1 /\ m > 0
      BY <1>1, <2>4
    <3> HIDE DEF Old, From
    <3> QED
      BY <1>5, <1>6, <2>1, <2>2, <3>1
  <2> QED
    BY <1>1, <2>3, <2>4
<1>9. ASSUME NEW i \in 2 .. m + l PROVE t[i].depth <= t[i - 1].depth + 1
  <2>1. i \in 1 .. m + l /\ i - 1 \in 1 .. m + l
    BY <1>1
  <2>2. CASE i <= n
    <3>1. Old(i) /\ From(i) = i /\ Old(i - 1) /\ From(i - 1) = i - 1 /\ i \in 2 .. m
      BY <1>1, <2>1, <2>2
    <3> HIDE DEF Old, From
    <3> QED
      BY <1>5, <1>6, <2>1, <3>1
  <2>3. CASE i = n + 1
    <3>1. ~ Old(i) /\ i - n = 1 /\ Old(i - 1) /\ From(i - 1) = n /\ n > 0
      BY <1>1, <2>1, <2>3
    <3> HIDE DEF Old, From
    <3> QED
      BY <1>4, <1>6, <1>7, <2>1, <3>1
  <2>4. CASE i > n + 1 /\ i <= n + l
    <3>1. ~ Old(i) /\ ~ Old(i - 1) /\ i - n \in 2 .. l /\ (i - 1) - n = (i - n) - 1
      BY <1>1, <2>1, <2>4
    <3> HIDE DEF Old, From
    <3> QED
      BY <1>5, <1>7, <2>1, <3>1
  <2>5. CASE i = n + l + 1
    <3>1. Old(i) /\ From(i) = n + 1 /\ ~ Old(i - 1) /\ (i - 1) - n = l /\ n < m /\ n + 1 \in 1 .. m
      BY <1>1, <2>1, <2>5
    <3> HIDE DEF Old, From
    <3>2. t[i] = h[n + 1] /\ t[i - 1] = s[l] /\ l \in 1 .. l
      BY <1>1, <1>6, <1>7, <2>1, <3>1
    <3>3. /\ h[n + 1].depth <= s[1].depth /\ s[l].depth >= s[1].depth
          /\ h[n + 1].depth \in Nat /\ s[1].depth \in Nat /\ s[l].depth \in Nat
      BY <1>1, <1>3, <1>4, <3>1, <3>2
    <3> QED
      BY <3>2, <3>3
  <2>6. CASE i > n + l + 1
    <3>1. /\ Old(i) /\ Old(i - 1) /\ From(i) = i - l /\ From(i - 1) = (i - l) - 1
          /\ i - l \in 2 .. m
      BY <1>1, <2>1, <2>6
    <3> HIDE DEF Old, From
    <3> QED
      BY <1>5, <1>6, <2>1, <3>1
  <2> QED
    BY <1>1, <2>1, <2>2, <2>3, <2>4, <2>5, <2>6
<1>10. ASSUME NEW i \in 1 .. m + l, t[i].worn > 0
       PROVE  t[i].depth = 0 /\ (~ Old(i) => i = n + 1)
  <2>1. CASE Old(i)
    <3> HIDE DEF Old, From
    <3> QED
      BY <1>5, <1>6, <1>10, <2>1
  <2>2. CASE ~ Old(i)
    <3>1. i - n \in 1 .. l /\ t[i] = s[i - n]
      BY <1>7, <2>2
    <3>2. i - n = 1
      <4>1. i - n \notin 2 .. l
        BY <1>10, <3>1 DEF l
      <4> QED
        BY <1>1, <3>1, <4>1
    <3> HIDE DEF Old, From
    <3> QED
      BY <1>1, <1>10, <2>2, <3>1, <3>2
  <2> QED
    BY <2>1, <2>2
<1>11. ASSUME NEW i \in 1 .. m + l, NEW j \in 1 .. m + l, t[i].worn = t[j].worn, t[i].worn > 0,
              ~ Old(i), Old(j)
       PROVE  FALSE
  <2>1. i = n + 1 /\ i - n = 1
    BY <1>1, <1>10, <1>11
  <2> HIDE DEF Old
  <2>2. t[i] = s[1] /\ From(j) \in 1 .. m /\ t[j] = h[From(j)]
    BY <1>6, <1>7, <1>11, <2>1
  <2> QED
    BY <1>1, <1>11, <2>2
<1>12. ASSUME NEW i \in 1 .. m + l, NEW j \in 1 .. m + l, t[i].worn = t[j].worn, t[i].worn > 0
       PROVE  i = j
  <2>1. CASE Old(i) /\ Old(j)
    <3>1. From(i) = From(j)
      <4> HIDE DEF Old, From
      <4> QED
        BY <1>5, <1>6, <1>12, <2>1
    <3> QED
      BY <1>1, <2>1, <3>1
  <2>2. CASE ~ Old(i) /\ ~ Old(j)
    <3> HIDE DEF Old
    <3> QED
      BY <1>10, <1>12, <2>2
  <2> HIDE DEF Old
  <2> QED
    BY <1>11, <1>12, <2>1, <2>2
<1> HIDE DEF Old, From
<1>13. DOMAIN t = 1 .. m + l
  BY <1>2
<1> QED
  BY <1>2, <1>8, <1>9, <1>10, <1>12, <1>13 DEF Shaped, Steady, WornOnce, t

(* An object at another depth and slot: its contents keep their depth below it. *)
LEMMA PlacedSteady ==
    ASSUME NEW s \in Seq(Entry), Rooted(s), Steady(s), NEW d \in Nat, NEW pos \in 0 .. Slots,
           NEW t, t = Placed(s, d, pos)
    PROVE  /\ t \in Seq(Entry) /\ Len(t) = Len(s) /\ Rooted(t) /\ Steady(t)
           /\ t[1].depth = d /\ t[1].worn = pos /\ t[1].item = s[1].item
           /\ \A k \in 2 .. Len(t) : t[k].worn = 0
<1> DEFINE l == Len(s)
           d1 == s[1].depth
<1>1. /\ l \in Nat /\ l > 0 /\ DOMAIN s = 1 .. l
      /\ \A k \in 1 .. l : s[k] \in Entry /\ s[k].depth \in Nat /\ s[k].depth >= d1
      /\ 1 \in 1 .. l /\ d1 \in Nat
  BY EntryNumbers DEF Rooted
<1>2. /\ t = [k \in 1 .. l |-> t[k]]
      /\ \A k \in 1 .. l : t[k] = [s[k] EXCEPT !.depth = s[k].depth - d1 + d,
                                               !.worn = IF k = 1 THEN pos ELSE 0]
  BY <1>1 DEF Placed
<1> HIDE DEF d1, l
<1>3. ASSUME NEW k \in 1 .. l
      PROVE  /\ t[k] \in Entry /\ t[k].item = s[k].item
             /\ t[k].depth = s[k].depth - d1 + d /\ t[k].depth >= d
             /\ t[k].worn = IF k = 1 THEN pos ELSE 0
  <2>1. s[k].depth - d1 + d \in Nat /\ s[k].depth - d1 + d >= d
    BY <1>1
  <2>2. (IF k = 1 THEN pos ELSE 0) \in 0 .. Slots
    OBVIOUS
  <2>3. s[k] \in Entry /\ t[k] = [s[k] EXCEPT !.depth = s[k].depth - d1 + d,
                                              !.worn = IF k = 1 THEN pos ELSE 0]
    BY <1>1, <1>2
  <2> QED
    BY <2>1, <2>2, <2>3 DEF Entry
<1>4. t \in Seq(Entry) /\ Len(t) = l /\ DOMAIN t = 1 .. l /\ t # << >>
  <2>1. t \in [1 .. l -> Entry] /\ DOMAIN t = 1 .. l
    BY <1>2, <1>3
  <2>2. t \in Seq(Entry) /\ Len(t) = l
    BY <1>1, <2>1
  <2> QED
    BY <1>1, <2>1, <2>2
<1>5. t[1].depth = d /\ t[1].worn = pos /\ t[1].item = s[1].item
  <2>1. s[1].depth - d1 + d = d
    BY <1>1 DEF d1
  <2> QED
    BY <1>1, <1>3, <2>1
<1>6. Rooted(t)
  BY <1>3, <1>4, <1>5 DEF Rooted
<1>7. ASSUME NEW k \in 2 .. l PROVE t[k].depth <= t[k - 1].depth + 1
  <2>1. k \in 1 .. l /\ k - 1 \in 1 .. l
    BY <1>1
  <2>2. s[k].depth <= s[k - 1].depth + 1
    BY DEF Steady, l
  <2> QED
    BY <1>1, <1>3, <2>1, <2>2
<1>8. \A k \in 2 .. l : t[k].worn = 0
  BY <1>1, <1>3
<1> QED
  BY <1>4, <1>5, <1>6, <1>7, <1>8 DEF Steady, l

(* An object taken out, with its contents, and what is left. *)
LEMMA PartsShaped ==
    ASSUME NEW h \in Seq(Entry), Shaped(h), NEW k \in DOMAIN h
    PROVE  /\ Whole(h, k) \in Seq(Entry) /\ Rooted(Whole(h, k)) /\ Steady(Whole(h, k))
           /\ Without(h, k) \in Seq(Entry) /\ Shaped(Without(h, k))
<1> DEFINE e == Max(Ends(h, k))
           s == Whole(h, k)
           t == Without(h, k)
           m == Len(h)
           g == e - k + 1
<1>1. /\ m \in Nat /\ DOMAIN h = 1 .. m /\ k \in 1 .. m
      /\ \A i \in 1 .. m : h[i].depth \in Nat /\ h[i].worn \in Nat
  BY EntryNumbers
<1>2. /\ e \in k .. m /\ \A j \in k + 1 .. e : h[j].depth > h[k].depth
      /\ e < m => h[e + 1].depth <= h[k].depth
      /\ s \in Seq(Entry) /\ Len(s) = e - k + 1
      /\ \A i \in 1 .. Len(s) : s[i] = h[k + i - 1]
      /\ t \in Seq(Entry) /\ Len(t) = m - (e - k + 1)
      /\ \A i \in 1 .. Len(t) : t[i] = IF i < k THEN h[i] ELSE h[i + (e - k + 1)]
  <2>1. e = Max(Ends(h, k)) /\ s = Whole(h, k) /\ t = Without(h, k)
    OBVIOUS
  <2>2. m = Len(h)
    OBVIOUS
  <2> HIDE DEF e, s, t, m
  <2>3. /\ e \in k .. Len(h) /\ \A j \in k + 1 .. e : h[j].depth > h[k].depth
        /\ e < Len(h) => h[e + 1].depth <= h[k].depth
        /\ s \in Seq(Entry) /\ Len(s) = e - k + 1
        /\ \A i \in 1 .. Len(s) : s[i] = h[k + i - 1]
        /\ t \in Seq(Entry) /\ Len(t) = Len(h) - (e - k + 1)
        /\ \A i \in 1 .. Len(t) : t[i] = IF i < k THEN h[i] ELSE h[i + (e - k + 1)]
    <3>1. e \in k .. Len(h)
      BY <2>1, PartingEntries
    <3>2. \A j \in k + 1 .. e : h[j].depth > h[k].depth
      BY <2>1, PartingEntries
    <3>3. e < Len(h) => h[e + 1].depth <= h[k].depth
      BY <2>1, PartingEntries
    <3>4. s \in Seq(Entry) /\ Len(s) = e - k + 1
      BY <2>1, PartingEntries
    <3>5. \A i \in 1 .. Len(s) : s[i] = h[k + i - 1]
      BY <2>1, PartingEntries
    <3>6. t \in Seq(Entry) /\ Len(t) = Len(h) - (e - k + 1)
      BY <2>1, PartingEntries
    <3>7. \A i \in 1 .. Len(t) : t[i] = IF i < k THEN h[i] ELSE h[i + (e - k + 1)]
      BY <2>1, PartingEntries
    <3> QED
      BY <3>1, <3>2, <3>3, <3>4, <3>5, <3>6, <3>7
  <2> QED
    BY <2>2, <2>3
<1> HIDE DEF e, s, t
<1>3. /\ m > 0 => h[1].depth = 0
      /\ \A i \in 2 .. m : h[i].depth <= h[i - 1].depth + 1
      /\ \A i \in 1 .. m : h[i].worn > 0 => h[i].depth = 0
      /\ \A i, j \in 1 .. m : h[i].worn = h[j].worn /\ h[i].worn > 0 => i = j
  <2>1. m > 0 => h # << >>
    BY <1>1
  <2> QED
    BY <1>1, <2>1 DEF Shaped, Steady, WornOnce
<1> HIDE DEF m
<1>4. g \in Nat /\ g > 0 /\ e = k + g - 1 /\ k + g - 1 <= m /\ e \in Nat /\ k \in Nat
  BY <1>1, <1>2
<1> HIDE DEF g
<1>5. DOMAIN s = 1 .. g /\ DOMAIN t = 1 .. m - g /\ Len(s) = g /\ Len(t) = m - g
  BY <1>2 DEF g
<1>6. Rooted(s)
  <2>1. s[1] = h[k] /\ s # << >>
    <3>1. 1 \in 1 .. Len(s) /\ k + 1 - 1 = k
      BY <1>4, <1>5
    <3> QED
      BY <1>2, <3>1
  <2>2. ASSUME NEW i \in 1 .. g PROVE s[i].depth >= s[1].depth
    <3>1. s[i] = h[k + i - 1]
      BY <1>2, <1>5
    <3>2. (k + i - 1 = k \/ k + i - 1 \in k + 1 .. e) /\ k + i - 1 \in 1 .. m
      BY <1>1, <1>4
    <3>3. h[k + i - 1].depth \in Nat /\ h[k].depth \in Nat
      BY <1>1, <3>2
    <3>4. h[k + i - 1].depth >= h[k].depth
      <4>1. k + i - 1 \in k + 1 .. e => h[k + i - 1].depth > h[k].depth
        BY <1>2
      <4> QED
        BY <3>2, <3>3, <4>1
    <3> QED
      BY <2>1, <3>1, <3>4
  <2> QED
    BY <1>5, <2>1, <2>2 DEF Rooted
<1>7. ASSUME NEW i \in 2 .. g PROVE s[i].depth <= s[i - 1].depth + 1
  <2>1. i \in 1 .. Len(s) /\ i - 1 \in 1 .. Len(s) /\ k + i - 1 \in 2 .. m
        /\ k + (i - 1) - 1 = (k + i - 1) - 1
    BY <1>1, <1>4, <1>5
  <2>2. s[i] = h[k + i - 1] /\ s[i - 1] = h[(k + i - 1) - 1]
    BY <1>2, <2>1
  <2> QED
    BY <1>3, <2>1, <2>2
<1> DEFINE From(i) == IF i < k THEN i ELSE i + g
<1>8. ASSUME NEW i \in 1 .. m - g PROVE From(i) \in 1 .. m /\ t[i] = h[From(i)]
  <2>1. t[i] = IF i < k THEN h[i] ELSE h[i + g]
    BY <1>2, <1>5 DEF g
  <2> QED
    BY <1>1, <1>4, <2>1
<1>9. ASSUME NEW i \in 2 .. m - g PROVE t[i].depth <= t[i - 1].depth + 1
  <2>1. i \in 1 .. m - g /\ i - 1 \in 1 .. m - g
    BY <1>1, <1>4
  <2>2. CASE i = k
    <3>1. From(i) = e + 1 /\ From(i - 1) = k - 1 /\ e < m /\ k \in 2 .. m /\ e + 1 \in 1 .. m
      BY <1>1, <1>4, <2>1, <2>2
    <3> HIDE DEF From
    <3>2. t[i] = h[e + 1] /\ t[i - 1] = h[k - 1]
      BY <1>8, <2>1, <3>1
    <3>3. h[e + 1].depth <= h[k].depth /\ h[k].depth <= h[k - 1].depth + 1
      BY <1>2, <1>3, <3>1 DEF m
    <3>4. h[e + 1].depth \in Nat /\ h[k].depth \in Nat /\ h[k - 1].depth \in Nat
      <4>1. k - 1 \in 1 .. m /\ k \in 1 .. m
        BY <1>1, <3>1
      <4> QED
        BY <1>1, <3>1, <4>1
    <3> QED
      BY <3>2, <3>3, <3>4
  <2>3. CASE i # k
    <3>1. From(i - 1) = From(i) - 1 /\ From(i) \in 2 .. m
      BY <1>1, <1>4, <2>1, <2>3
    <3> HIDE DEF From
    <3> QED
      BY <1>3, <1>8, <2>1, <3>1
  <2> QED
    BY <2>2, <2>3
<1>10. t # << >> => t[1].depth = 0
  <2> SUFFICES ASSUME t # << >> PROVE t[1].depth = 0
    OBVIOUS
  <2>1. 1 \in 1 .. m - g /\ m > 0
    BY <1>1, <1>2, <1>4, <1>5
  <2>2. CASE k > 1
    <3>1. From(1) = 1
      BY <2>2
    <3> HIDE DEF From
    <3> QED
      BY <1>3, <1>8, <2>1, <3>1
  <2>3. CASE k = 1
    <3>1. From(1) = e + 1 /\ e < m /\ e + 1 \in 1 .. m
      BY <1>1, <1>4, <2>1, <2>3
    <3> HIDE DEF From
    <3>2. t[1] = h[e + 1] /\ h[e + 1].depth <= h[1].depth /\ h[1].depth = 0
      BY <1>2, <1>3, <1>8, <2>1, <2>3, <3>1 DEF m
    <3> QED
      BY <1>1, <3>1, <3>2
  <2> QED
    BY <1>4, <2>2, <2>3
<1>11. ASSUME NEW i \in 1 .. m - g, NEW j \in 1 .. m - g, t[i].worn = t[j].worn, t[i].worn > 0
       PROVE  i = j
  <2>1. From(i) = From(j)
    <3> HIDE DEF From
    <3> QED
      BY <1>3, <1>8, <1>11
  <2> QED
    BY <1>4, <2>1
<1> HIDE DEF From
<1>12. \A i \in 1 .. m - g : t[i].worn > 0 => t[i].depth = 0
  BY <1>3, <1>8
<1>13. Shaped(t)
  BY <1>5, <1>9, <1>10, <1>11, <1>12 DEF Shaped, Steady, WornOnce
<1>14. Steady(s)
  BY <1>5, <1>7 DEF Steady
<1> QED
  BY <1>2, <1>6, <1>13, <1>14 DEF s, t

(* A list of its own begins in front of an object that is in nothing. *)
LEMMA BeforeFits ==
    ASSUME NEW h \in Seq(Entry), Shaped(h), NEW pos
    PROVE  Fits(h, Before(h, pos), 0)
<1> DEFINE at == {k \in DOMAIN h : \A t \in Top(h) : t <= k => h[t].worn \in 1 .. pos - 1}
           m == Len(h)
           n == Before(h, pos)
<1>1. m \in Nat /\ DOMAIN h = 1 .. m /\ \A i \in 1 .. m : h[i].depth \in Nat
  BY EntryNumbers
<1>2. n \in 0 .. m
  BY BeforeIn
<1>3. n = Cardinality(at) /\ at \in SUBSET (1 .. m)
  BY <1>1 DEF Before
<1>4. \A i \in at, j \in 1 .. m : j <= i => j \in at
  BY <1>1 DEF Top
<1>5. \A k \in 1 .. m : k \notin at => \E t \in Top(h) : t <= k /\ h[t].worn \notin 1 .. pos - 1
  BY <1>1
<1>6. \A k \in at, t \in Top(h) : t <= k => h[t].worn \in 1 .. pos - 1
  OBVIOUS
<1> HIDE DEF at, m, n
<1>7. at = 1 .. n
  <2>1. CASE at = {}
    BY <1>3, <2>1, FS_EmptySet
  <2>2. CASE at # {}
    <3>1. Max(at) \in at /\ \A i \in at : i <= Max(at)
      BY <1>1, <1>3, <2>2, FirstAndLast
    <3>2. at = 1 .. Max(at) /\ Max(at) \in Nat
      <4>1. Max(at) \in 1 .. m /\ Max(at) \in Nat
        <5>1. Max(at) \in 1 .. m
          BY <1>3, <3>1
        <5> QED
          BY <1>1, <5>1
      <4>2. \A j \in 1 .. Max(at) : j \in 1 .. m /\ j <= Max(at)
        BY <1>1, <4>1
      <4>3. 1 .. Max(at) \subseteq at
        BY <1>4, <3>1, <4>2
      <4>4. \A i \in at : i \in 1 .. Max(at)
        BY <1>1, <1>3, <3>1, <4>1
      <4> QED
        BY <4>1, <4>3, <4>4
    <3>3. Cardinality(1 .. Max(at)) = Max(at)
      BY <3>2, FS_Interval
    <3> QED
      BY <1>3, <3>2, <3>3
  <2> QED
    BY <2>1, <2>2
<1>8. ASSUME n < m PROVE h[n + 1].depth = 0
  <2>1. n + 1 \in 1 .. m /\ n + 1 \notin at
    BY <1>1, <1>2, <1>7, <1>8
  <2>2. PICK t \in Top(h) : t <= n + 1 /\ h[t].worn \notin 1 .. pos - 1
    BY <1>5, <2>1
  <2>3. t \in 1 .. m /\ h[t].depth = 0
    BY <1>1, <2>2 DEF Top, m
  <2>4. t \notin 1 .. n
    BY <1>6, <1>7, <2>2
  <2>5. t = n + 1
    BY <1>1, <1>2, <2>2, <2>3, <2>4
  <2> QED
    BY <2>3, <2>5
<1>9. n > 0 => 0 <= h[n].depth + 1
  <2>1. n > 0 => n \in 1 .. m
    BY <1>1, <1>2
  <2>2. n > 0 => h[n].depth \in Nat
    BY <1>1, <2>1
  <2> QED
    BY <2>2
<1>10. n < m => h[n + 1].depth <= 0
  BY <1>8
<1> QED
  BY <1>2, <1>9, <1>10 DEF Fits, m, n

(* What a container contains begins right behind it. *)
LEMMA AtFits ==
    ASSUME NEW h \in Seq(Entry), Shaped(h), NEW c \in Items(h)
    PROVE  /\ At(h, c) \in DOMAIN h /\ h[At(h, c)].item = c
           /\ h[At(h, c)].depth + 1 \in Nat
           /\ Fits(h, At(h, c), h[At(h, c)].depth + 1)
<1> DEFINE n == At(h, c)
           m == Len(h)
<1>1. m \in Nat /\ DOMAIN h = 1 .. m /\ \A i \in 1 .. m : h[i].depth \in Nat
  BY EntryNumbers
<1>2. n \in 1 .. m /\ h[n].item = c
  BY <1>1 DEF At, Items
<1>3. ASSUME n < m PROVE h[n + 1].depth <= h[n].depth + 1
  <2>1. n + 1 \in 2 .. m /\ (n + 1) - 1 = n
    BY <1>1, <1>2, <1>3
  <2>2. \A k \in 2 .. m : h[k].depth <= h[k - 1].depth + 1
    BY DEF Shaped, Steady
  <2> HIDE DEF n, m
  <2> QED
    BY <2>1, <2>2
<1> HIDE DEF n
<1>4. h[n].depth \in Nat
  BY <1>1, <1>2
<1> QED
  BY <1>1, <1>2, <1>3, <1>4 DEF Fits, n

(* obj_to_char, obj_to_obj and equip_char keep the shape. *)
LEMMA ObjToCharShaped ==
    ASSUME NEW h \in Seq(Entry), Shaped(h), NEW s \in Seq(Entry), Rooted(s), Steady(s)
    PROVE  Shaped(ObjToChar(h, s))
<1> DEFINE t == Placed(s, 0, 0)
           n == Before(h, Slots + 1)
<1>1. Fits(h, n, 0)
  BY BeforeFits
<1>2. 0 \in Nat /\ 0 \in 0 .. Slots
  OBVIOUS
<1>3. /\ t \in Seq(Entry) /\ Rooted(t) /\ Steady(t) /\ t[1].depth = 0 /\ t[1].worn = 0
      /\ \A k \in 2 .. Len(t) : t[k].worn = 0
  <2> HIDE DEF t
  <2> QED
    BY <1>2, PlacedSteady DEF t
<1> HIDE DEF t, n
<1>4. Shaped(Insert(h, n, t))
  BY <1>1, <1>3, InsertShaped
<1> QED
  BY <1>4 DEF ObjToChar, t, n

LEMMA ObjToObjShaped ==
    ASSUME NEW h \in Seq(Entry), Shaped(h), NEW s \in Seq(Entry), Rooted(s), Steady(s),
           NEW c \in Items(h)
    PROVE  Shaped(ObjToObj(h, s, c))
<1> DEFINE n == At(h, c)
           d == h[n].depth + 1
           t == Placed(s, d, 0)
<1>1. Fits(h, n, d) /\ d \in Nat
  BY AtFits
<1> HIDE DEF n, d
<1>2. 0 \in 0 .. Slots
  OBVIOUS
<1>3. /\ t \in Seq(Entry) /\ Rooted(t) /\ Steady(t) /\ t[1].depth = d /\ t[1].worn = 0
      /\ \A k \in 2 .. Len(t) : t[k].worn = 0
  <2> HIDE DEF t
  <2> QED
    BY <1>1, <1>2, PlacedSteady DEF t
<1> HIDE DEF t
<1>4. Shaped(Insert(h, n, t))
  BY <1>1, <1>3, InsertShaped
<1> QED
  BY <1>4 DEF ObjToObj, t, n, d

LEMMA EquipCharShaped ==
    ASSUME NEW h \in Seq(Entry), Shaped(h), NEW s \in Seq(Entry), Rooted(s), Steady(s),
           NEW pos \in 1 .. Slots
    PROVE  Shaped(EquipChar(h, s, pos))
<1> DEFINE t == Placed(s, 0, pos)
           n == Before(h, pos)
<1>1. Fits(h, n, 0)
  BY BeforeFits
<1>2. 0 \in Nat /\ pos \in 0 .. Slots
  OBVIOUS
<1>3. /\ t \in Seq(Entry) /\ Rooted(t) /\ Steady(t) /\ t[1].depth = 0 /\ t[1].worn = pos
      /\ \A k \in 2 .. Len(t) : t[k].worn = 0
  <2> HIDE DEF t
  <2> QED
    BY <1>2, PlacedSteady DEF t
<1> HIDE DEF t, n
<1>4. ASSUME ~ \E k \in Top(h) : h[k].worn = pos
      PROVE  Shaped(Insert(h, n, t))
  <2>1. \A k \in DOMAIN h : h[k].worn # t[1].worn
    <3> SUFFICES ASSUME NEW k \in DOMAIN h, h[k].worn = pos PROVE FALSE
      BY <1>3
    <3>1. h[k].depth = 0
      BY DEF Shaped, WornOnce
    <3> QED
      BY <1>4, <3>1 DEF Top
  <2> QED
    BY <1>1, <1>3, <2>1, InsertShaped
<1> QED
  BY <1>4 DEF EquipChar, t, n

\* All that is owned, and what lies on the ground, has the shape of lists in lists.
HeapsShaped == \A o \in Owner : Shaped(heap[o])

(* A heap of nothing, and a single object. *)
LEMMA LeastShaped ==
    /\ Shaped(<< >>)
    /\ \A i \in Item : /\ Loose(i) \in Seq(Entry) /\ Len(Loose(i)) = 1
                       /\ Rooted(Loose(i)) /\ Steady(Loose(i)) /\ Loose(i)[1].item = i
<1>1. Shaped(<< >>)
  BY DEF Shaped, Steady, WornOnce
<1>2. ASSUME NEW i \in Item
      PROVE  /\ Loose(i) \in Seq(Entry) /\ Len(Loose(i)) = 1
             /\ Rooted(Loose(i)) /\ Steady(Loose(i)) /\ Loose(i)[1].item = i
  <2>1. Rooted(Loose(i)) /\ Loose(i) \in Seq(Entry)
    BY LooseHeld DEF Held
  <2>2. Len(Loose(i)) = 1 /\ Loose(i)[1].item = i
    BY DEF Loose
  <2> QED
    BY <2>1, <2>2 DEF Steady
<1> QED
  BY <1>1, <1>2

(* obj_store_to_char keeps the shape, whatever the record says. *)
LEMMA LoadsShaped ==
    ASSUME NEW s \in LoadedSet, NEW e \in Entry, Shaped(s.heap)
    PROVE  StoreToChar(s, e) \in LoadedSet /\ Shaped(StoreToChar(s, e).heap)
<1> DEFINE worn == IF e.depth > 0 THEN 0 ELSE e.worn
           depth == IF e.worn > 0 THEN 0 ELSE e.depth
           in == IF depth > Len(s.in) THEN Append(s.in, s.last)
                 ELSE IF depth < Len(s.in) THEN Front(s.in) ELSE s.in
           obj == Loose(e.item)
           g == IF worn > 0 THEN EquipChar(s.heap, obj, worn)
                ELSE IF in = << >> THEN ObjToChar(s.heap, obj)
                ELSE IF Last(in) \in Items(s.heap) THEN ObjToObj(s.heap, obj, Last(in))
                ELSE s.heap
<1>1. s.heap \in Seq(Entry) /\ Held(s.heap, Item)
  BY ItemsIn DEF LoadedSet
<1>2. e.item \in Item /\ e.worn \in 0 .. Slots
  BY DEF Entry
<1>3. StoreToChar(s, e) = [in |-> in, last |-> e.item, heap |-> g]
  BY DEF StoreToChar
<1>4. StoreToChar(s, e) \in LoadedSet
  BY <1>1, <1>2, LoadsOne
<1>5. obj \in Seq(Entry) /\ Rooted(obj) /\ Steady(obj)
  BY <1>2, LeastShaped
<1>6. worn \in 0 .. Slots
  BY <1>2
<1> HIDE DEF worn, in, obj
<1>7. Shaped(g)
  <2>1. CASE worn > 0
    <3>1. worn \in 1 .. Slots
      BY <1>6, <2>1
    <3> QED
      BY <1>1, <1>5, <2>1, <3>1, EquipCharShaped
  <2>2. CASE ~(worn > 0) /\ in = << >>
    BY <1>1, <1>5, <2>2, ObjToCharShaped
  <2>3. CASE ~(worn > 0) /\ in # << >> /\ Last(in) \in Items(s.heap)
    BY <1>1, <1>5, <2>3, ObjToObjShaped
  <2>4. CASE ~(worn > 0) /\ in # << >> /\ Last(in) \notin Items(s.heap)
    BY <2>4
  <2> QED
    BY <2>1, <2>2, <2>3, <2>4
<1> HIDE DEF g
<1> QED
  BY <1>3, <1>4, <1>7

LEMMA ObjStoreShaped ==
    ASSUME NEW st \in Seq(Entry)
    PROVE  Shaped(ObjStoreToChar(st)) /\ ObjStoreToChar(st) \in Seq(Entry)
<1> DEFINE n == Len(st)
<1>1. n \in Nat /\ DOMAIN st = 1 .. n /\ n = Len(st) /\ \A k \in 1 .. n : st[k] \in Entry
  BY EntryNumbers
<1>2. Unloaded \in LoadedSet /\ Unloaded.heap = << >>
  BY DEF Unloaded, LoadedSet
<1>3. \A s \in LoadedSet, k \in DOMAIN st : StoreToChar(s, st[k]) \in LoadedSet
  <2> SUFFICES ASSUME NEW s \in LoadedSet, NEW k \in DOMAIN st
               PROVE  StoreToChar(s, st[k]) \in LoadedSet
    OBVIOUS
  <2>1. Held(s.heap, Item) /\ st[k].item \in Item
    BY <1>1, ItemsIn, EntryNumbers DEF LoadedSet
  <2> QED
    BY <1>1, <2>1, LoadsOne
<1>4. PICK r : /\ r[0] = Unloaded
               /\ \A k \in 1 .. n : r[k] = StoreToChar(r[k - 1], st[k])
               /\ ObjStoreToChar(st) = r[n].heap
  BY <1>1, <1>2, <1>3, LoadingSteps
<1> HIDE DEF n
<1> DEFINE good == {k \in 0 .. n : r[k] \in LoadedSet /\ Shaped(r[k].heap)}
<1>5. 0 \in good
  BY <1>1, <1>2, <1>4, LeastShaped
<1>6. ASSUME NEW k \in 0 .. n - 1, k \in good PROVE k + 1 \in good
  <2>1. k + 1 \in 1 .. n /\ (k + 1) - 1 = k
    BY <1>1
  <2>2. r[k + 1] = StoreToChar(r[k], st[k + 1]) /\ st[k + 1] \in Entry
    BY <1>1, <1>4, <2>1
  <2> QED
    BY <1>6, <2>1, <2>2, LoadsShaped
<1> HIDE DEF good
<1>7. \A k \in 0 .. n : k \in good
  BY <1>1, <1>5, <1>6, Counting
<1>8. r[n] \in LoadedSet /\ Shaped(r[n].heap)
  BY <1>1, <1>7 DEF good
<1> QED
  BY <1>4, <1>8 DEF LoadedSet

(* What a player leaves in a room keeps its shape, and the room its own. *)
LEMMA ToRoomShaped ==
    ASSUME NEW h \in Seq(Entry), Shaped(h), NEW room \in Seq(Entry), Shaped(room)
    PROVE  Shaped(ToRoom(room, h))
<1> DEFINE n == Len(h)
<1>1. n \in Nat /\ DOMAIN h = 1 .. n /\ n = Len(h)
  OBVIOUS
<1>2. ASSUME NEW s \in Seq(Entry), NEW k \in DOMAIN h
      PROVE  /\ Left(h, s, k) \in Seq(Entry)
             /\ Shaped(s) => Shaped(Left(h, s, k))
             /\ Indices(h)[k] = k
  <2>1. CASE k \notin Top(h)
    BY <2>1 DEF Left, Indices
  <2>2. CASE k \in Top(h)
    <3>1. /\ Whole(h, k) \in Seq(Entry) /\ Rooted(Whole(h, k)) /\ Steady(Whole(h, k))
      BY PartsShaped
    <3>2. Held(s, Item) /\ Held(Whole(h, k), Item) /\ Items(Whole(h, k)) \subseteq Item
      BY <3>1, ItemsIn
    <3>3. Apart(Whole(h, k), s, Item)
      BY <3>2 DEF Apart
    <3>4. ObjToChar(s, Whole(h, k)) \in Seq(Entry)
      BY <3>1, <3>2, <3>3, ObjToCharHeld DEF Held
    <3>5. Shaped(s) => Shaped(ObjToChar(s, Whole(h, k)))
      BY <3>1, ObjToCharShaped
    <3> QED
      BY <2>2, <3>4, <3>5 DEF Left, Indices
  <2> QED
    BY <2>1, <2>2
<1>3. PICK r : /\ r[0] = room
               /\ \A k \in 1 .. n : r[k] = Left(h, r[k - 1], Indices(h)[k])
               /\ ToRoom(room, h) = r[n]
  <2>1. \A s \in Seq(Entry), k \in DOMAIN h : Left(h, s, Indices(h)[k]) \in Seq(Entry)
    BY <1>2
  <2> QED
    BY <1>1, <2>1, LeavingSteps
<1> HIDE DEF n
<1> DEFINE good == {k \in 0 .. n : r[k] \in Seq(Entry) /\ Shaped(r[k])}
<1>4. 0 \in good
  BY <1>1, <1>3
<1>5. ASSUME NEW k \in 0 .. n - 1, k \in good PROVE k + 1 \in good
  <2>1. k + 1 \in 1 .. n /\ (k + 1) - 1 = k /\ k + 1 \in DOMAIN h
    BY <1>1
  <2>2. r[k] \in Seq(Entry) /\ Shaped(r[k])
    BY <1>5
  <2>3. r[k + 1] = Left(h, r[k], k + 1)
    BY <1>2, <1>3, <2>1, <2>2
  <2> QED
    BY <1>2, <2>1, <2>2, <2>3
<1> HIDE DEF good
<1>6. \A k \in 0 .. n : k \in good
  BY <1>1, <1>4, <1>5, Counting
<1> QED
  BY <1>1, <1>3, <1>6 DEF good

(* An object goes from one owner to another. *)
LEMMA MoveShapes ==
    ASSUME TypeOK, HeapsShaped, NEW g \in Owner, NEW r \in Owner \ {g}, NEW k \in DOMAIN heap[g],
           NEW t,
           \/ t = ObjToChar(heap[r], Whole(heap[g], k))
           \/ \E c \in Items(heap[r]) : t = ObjToObj(heap[r], Whole(heap[g], k), c),
           heap' = [heap EXCEPT ![g] = Without(heap[g], k), ![r] = t]
    PROVE  HeapsShaped'
<1>1. /\ heap \in [Owner -> Seq(Entry)] /\ heap[g] \in Seq(Entry) /\ heap[r] \in Seq(Entry)
      /\ \A o \in Owner : Shaped(heap[o])
  BY DEF TypeOK, HeapsShaped
<1> DEFINE s == Whole(heap[g], k)
<1>2. s \in Seq(Entry) /\ Rooted(s) /\ Steady(s) /\ Shaped(Without(heap[g], k))
  BY <1>1, PartsShaped
<1> HIDE DEF s
<1>3. Shaped(t)
  <2>1. CASE t = ObjToChar(heap[r], s)
    BY <1>1, <1>2, <2>1, ObjToCharShaped
  <2>2. ASSUME NEW c \in Items(heap[r]), t = ObjToObj(heap[r], s, c)
        PROVE  Shaped(t)
    BY <1>1, <1>2, <2>2, ObjToObjShaped
  <2> QED
    BY <2>1, <2>2 DEF s
<1>4. \A o \in Owner : heap'[o] \in {heap[o], Without(heap[g], k), t}
                       /\ (heap'[o] = Without(heap[g], k) \/ heap'[o] = t \/ heap'[o] = heap[o])
  BY <1>1
<1> QED
  BY <1>1, <1>2, <1>3, <1>4 DEF HeapsShaped

(* An owner's objects are rearranged, or are others. *)
LEMMA WithinShapes ==
    ASSUME TypeOK, HeapsShaped, NEW p \in Owner, NEW t, Shaped(t), heap' = [heap EXCEPT ![p] = t]
    PROVE  HeapsShaped'
<1>1. heap \in [Owner -> Seq(Entry)] /\ \A o \in Owner : Shaped(heap[o])
  BY DEF TypeOK, HeapsShaped
<1>2. \A o \in Owner : heap'[o] = t \/ heap'[o] = heap[o]
  BY <1>1
<1> QED
  BY <1>1, <1>2 DEF HeapsShaped

(* No step leaves an object too deep, a contained one worn, or a slot taken twice. *)
LEMMA ShapeKeeps ==
    ASSUME TypeOK, HeapsShaped, [Next]_vars
    PROVE  HeapsShaped'
<1>1. /\ heap \in [Owner -> Seq(Entry)] /\ file \in [Player -> Seq(Entry)]
      /\ playing \subseteq Player /\ Ground \in Owner /\ Player \subseteq Owner
      /\ Ground \notin Player /\ \A o \in Owner : Shaped(heap[o])
  BY DEF TypeOK, HeapsShaped, Owner
<1>2. ASSUME NEW g \in Owner, NEW r \in Owner \ {g}, NEW k \in DOMAIN heap[g], Move(g, k, r)
      PROVE  HeapsShaped'
  <2>1. heap' = [heap EXCEPT ![g] = Without(heap[g], k),
                             ![r] = ObjToChar(heap[r], Whole(heap[g], k))]
    BY <1>1, <1>2 DEF Move
  <2> QED
    BY <2>1, MoveShapes
<1>3. ASSUME NEW p \in Owner, NEW k \in DOMAIN heap[p]
      PROVE  /\ Whole(heap[p], k) \in Seq(Entry) /\ Rooted(Whole(heap[p], k))
             /\ Steady(Whole(heap[p], k))
             /\ Without(heap[p], k) \in Seq(Entry) /\ Shaped(Without(heap[p], k))
  BY <1>1, PartsShaped
<1>4. CASE UNCHANGED heap
  BY <1>4 DEF HeapsShaped
<1>5. CASE Crash
  BY <1>5, LeastShaped DEF Crash, HeapsShaped
<1>6. ASSUME NEW p \in Player, Gets(p) PROVE HeapsShaped'
  <2>1. PICK k \in DOMAIN heap[Ground] : Move(Ground, k, p)
    BY <1>6 DEF Gets, Top, In
  <2> QED
    BY <1>1, <1>2, <2>1
<1>7. ASSUME NEW p \in Player, NEW k \in DOMAIN heap[p],
             heap' = [heap EXCEPT ![p] = ObjToChar(Without(@, k), Whole(@, k))]
      PROVE  HeapsShaped'
  <2>1. Shaped(ObjToChar(Without(heap[p], k), Whole(heap[p], k)))
    BY <1>1, <1>3, ObjToCharShaped
  <2> QED
    BY <1>1, <1>7, <2>1, WithinShapes
<1>8. ASSUME NEW p \in Player, Unpacks(p) PROVE HeapsShaped'
  <2>1. PICK k \in DOMAIN heap[p] :
          heap' = [heap EXCEPT ![p] = ObjToChar(Without(@, k), Whole(@, k))]
    BY <1>8 DEF Unpacks, In
  <2> QED
    BY <1>7, <2>1
<1>9. ASSUME NEW p \in Player, Removes(p) PROVE HeapsShaped'
  <2>1. PICK k \in DOMAIN heap[p] :
          heap' = [heap EXCEPT ![p] = ObjToChar(Without(@, k), Whole(@, k))]
    BY <1>9 DEF Removes, Worn, Top
  <2> QED
    BY <1>7, <2>1
<1>10. ASSUME NEW p \in Player, NEW pos \in 1 .. Slots, Wears(p, pos) PROVE HeapsShaped'
  <2>1. PICK k \in DOMAIN heap[p] :
          heap' = [heap EXCEPT ![p] = EquipChar(Without(@, k), Whole(@, k), pos)]
    BY <1>10 DEF Wears, Carried, Top
  <2>2. Shaped(EquipChar(Without(heap[p], k), Whole(heap[p], k), pos))
    BY <1>1, <1>3, EquipCharShaped
  <2> QED
    BY <1>1, <2>1, <2>2, WithinShapes
<1>11. ASSUME NEW p \in Player, NEW end, Drops(p, end) PROVE HeapsShaped'
  <2>1. PICK k \in DOMAIN heap[p] : Move(p, k, Ground)
    BY <1>11 DEF Drops, Carried, Top
  <2> QED
    BY <1>1, <1>2, <2>1
<1>12. ASSUME NEW p \in Player, NEW q \in Player, NEW end, Gives(p, q, end) PROVE HeapsShaped'
  <2>1. PICK k \in DOMAIN heap[p] : Move(p, k, q)
    BY <1>12 DEF Gives, Carried, Top
  <2>2. q # p
    BY <1>12 DEF Gives
  <2> QED
    BY <1>1, <1>2, <2>1, <2>2
<1>13. ASSUME NEW p \in Player, NEW q \in Player, Steals(p, q) PROVE HeapsShaped'
  <2>1. PICK k \in DOMAIN heap[q] : Move(q, k, p)
    BY <1>13 DEF Steals, Carried, Worn, Top
  <2>2. q # p
    BY <1>13 DEF Steals
  <2> QED
    BY <1>1, <1>2, <2>1, <2>2
<1>14. ASSUME NEW p \in Player, NEW end, Puts(p, end) PROVE HeapsShaped'
  <2>1. PICK k \in Carried(p) : \E c \in Bag \ {heap[p][k].item} :
          \/ /\ Open(p, c)
             /\ heap' = [heap EXCEPT ![p] = ObjToObj(Without(@, k), Whole(@, k), c)]
          \/ /\ InRoom(c)
             /\ heap' = [heap EXCEPT ![p] = Without(@, k),
                                     ![Ground] = ObjToObj(@, Whole(heap[p], k), c)]
    BY <1>14 DEF Puts
  <2>2. PICK c \in Bag \ {heap[p][k].item} :
          \/ /\ Open(p, c)
             /\ heap' = [heap EXCEPT ![p] = ObjToObj(Without(@, k), Whole(@, k), c)]
          \/ /\ InRoom(c)
             /\ heap' = [heap EXCEPT ![p] = Without(@, k),
                                     ![Ground] = ObjToObj(@, Whole(heap[p], k), c)]
    BY <2>1
  <2>3. k \in Top(heap[p]) /\ k \in DOMAIN heap[p] /\ heap[p] \in Seq(Entry)
    BY <1>1 DEF Carried, Top
  <2>4. CASE /\ Open(p, c)
             /\ heap' = [heap EXCEPT ![p] = ObjToObj(Without(@, k), Whole(@, k), c)]
    <3>1. c \in Items(Without(heap[p], k))
      <4>1. PICK j \in Top(heap[p]) : heap[p][j].item = c
        BY <2>4 DEF Open, Carried
      <4> QED
        BY <2>3, <4>1, TopStays
    <3>2. Shaped(ObjToObj(Without(heap[p], k), Whole(heap[p], k), c))
      BY <1>1, <1>3, <2>3, <3>1, ObjToObjShaped
    <3> QED
      BY <1>1, <2>4, <3>2, WithinShapes
  <2>5. CASE /\ InRoom(c)
             /\ heap' = [heap EXCEPT ![p] = Without(@, k),
                                     ![Ground] = ObjToObj(@, Whole(heap[p], k), c)]
    <3>1. c \in Items(heap[Ground])
      BY <2>5 DEF InRoom, Top, Items
    <3>2. heap' = [heap EXCEPT ![p] = Without(heap[p], k),
                               ![Ground] = ObjToObj(heap[Ground], Whole(heap[p], k), c)]
      BY <1>1, <2>5
    <3> QED
      BY <1>1, <2>3, <3>1, <3>2, MoveShapes
  <2> QED
    BY <2>2, <2>4, <2>5
<1>15. ASSUME NEW p \in Player, DoSave(p) PROVE HeapsShaped'
  BY <1>4, <1>15 DEF DoSave
<1>16. ASSUME NEW p \in Player, Rents(p) PROVE HeapsShaped'
  BY <1>1, <1>16, LeastShaped, WithinShapes DEF Rents
<1>17. ASSUME NEW p \in Player, Leaves(p) PROVE HeapsShaped'
  <2>1. Shaped(ToRoom(heap[Ground], heap[p]))
    BY <1>1, ToRoomShaped
  <2>2. \A o \in Owner : \/ heap'[o] = << >> \/ heap'[o] = heap[o]
                         \/ heap'[o] = ToRoom(heap[Ground], heap[p])
    BY <1>1, <1>17 DEF Leaves
  <2> QED
    BY <1>1, <2>1, <2>2, LeastShaped DEF HeapsShaped
<1>18. ASSUME NEW p \in Player, Enters(p) PROVE HeapsShaped'
  <2>1. Shaped(ObjStoreToChar(file[p]))
    BY <1>1, ObjStoreShaped
  <2>2. heap' = [heap EXCEPT ![p] = ObjStoreToChar(file[p])] \/ heap' = heap
    BY <1>18 DEF Enters
  <2> QED
    BY <1>1, <1>4, <2>1, <2>2, WithinShapes
<1>19. ASSUME NEW p \in Player, Quits(p) \/ IdlesOut(p) PROVE HeapsShaped'
  BY <1>17, <1>19 DEF Quits, IdlesOut
<1> QED
  BY <1>4, <1>5, <1>6, <1>8, <1>9, <1>10, <1>11, <1>12, <1>13, <1>14, <1>15, <1>16, <1>18,
     <1>19 DEF Next, vars

(* At the start every object lies on the ground, in nothing. *)
LEMMA InitShaped ==
    ASSUME Init
    PROVE  HeapsShaped
<1>1. PICK s \in SetToSeqs(Item), junk \in SUBSET Junk :
        heap = [o \in Owner |->
                 IF o = Ground
                 THEN [k \in DOMAIN s |-> [Loose(s[k])[1] EXCEPT !.kept = s[k] \notin junk]]
                 ELSE << >>]
  BY DEF Init
<1> DEFINE n == Cardinality(Item)
           g == [k \in DOMAIN s |-> [Loose(s[k])[1] EXCEPT !.kept = s[k] \notin junk]]
<1>2. n \in Nat
  BY FS_CardinalityType
<1>3. s \in [1 .. n -> Item]
  BY DEF SetToSeqs
<1> HIDE DEF n
<1>4. ASSUME NEW k \in 1 .. n PROVE g[k].depth = 0 /\ g[k].worn = 0
  <2>1. Loose(s[k])[1] = [item |-> s[k], kept |-> TRUE, depth |-> 0, worn |-> 0]
    BY DEF Loose
  <2>2. g[k] = [item |-> s[k], kept |-> (s[k] \notin junk), depth |-> 0, worn |-> 0]
    BY <1>3, <2>1
  <2> QED
    BY <2>2
<1>5. DOMAIN g = 1 .. n
  BY <1>3
<1>6. TypeOK
  BY InitHolds DEF IndInv
<1>7. Ground \in Owner /\ heap[Ground] = g
  BY <1>1 DEF Owner
<1> HIDE DEF g
<1>8. Len(g) = n
  <2>1. g \in Seq(Entry)
    BY <1>6, <1>7 DEF TypeOK
  <2> QED
    BY <1>2, <1>5, <2>1
<1>9. Shaped(g)
  <2>1. g # << >> => 1 \in 1 .. n
    <3>1. g \in Seq(Entry)
      BY <1>6, <1>7 DEF TypeOK
    <3> QED
      BY <1>2, <1>8, <3>1
  <2>2. \A k \in 2 .. n : k \in 1 .. n /\ k - 1 \in 1 .. n
    BY <1>2
  <2>3. Steady(g)
    BY <1>4, <1>8, <2>2 DEF Steady
  <2>4. WornOnce(g)
    BY <1>4, <1>5 DEF WornOnce
  <2> QED
    BY <1>4, <2>1, <2>3, <2>4 DEF Shaped
<1>10. \A o \in Owner : heap[o] = g \/ heap[o] = << >>
  BY <1>1, <1>7 DEF Owner
<1> QED
  BY <1>9, <1>10, LeastShaped DEF HeapsShaped

(* Always. *)
LEMMA AlwaysShaped == Spec => [](TypeOK /\ HeapsShaped)
<1>1. Init => HeapsShaped
  BY InitShaped
<1>2. TypeOK /\ HeapsShaped /\ [Next]_vars => HeapsShaped'
  BY ShapeKeeps
<1>3. Spec => []TypeOK
  BY TypeCorrect
<1> QED
  BY <1>1, <1>2, <1>3, PTL DEF Spec

-----------------------------------------------------------------------------
(* Where the objects are *)

(* The holder of an entry is the last one before it that is less deep. *)
LEMMA HolderIs ==
    ASSUME NEW h \in Seq(Entry), NEW k \in 1 .. Len(h), NEW a \in 1 .. k - 1,
           h[a].depth < h[k].depth, \A j \in a + 1 .. k - 1 : h[j].depth >= h[k].depth
    PROVE  Holder(h, k) = h[a].item
<1> DEFINE above == {j \in 1 .. k - 1 : h[j].depth < h[k].depth}
<1>1. /\ Len(h) \in Nat /\ k \in Nat /\ k - 1 \in Nat
      /\ \A i \in 1 .. Len(h) : h[i].depth \in Nat
  BY EntryNumbers
<1>2. a \in 1 .. Len(h) /\ h[k].depth # 0
  BY <1>1
<1>3. a \in above /\ above \in SUBSET (1 .. k - 1)
  OBVIOUS
<1>4. ASSUME NEW j \in above PROVE j <= a
  <2>1. j \in 1 .. k - 1 /\ j \in 1 .. Len(h) /\ h[j].depth < h[k].depth
    BY <1>1
  <2>2. ~ (h[j].depth >= h[k].depth)
    BY <1>1, <2>1
  <2>3. j \notin a + 1 .. k - 1
    BY <2>2
  <2> QED
    BY <1>1, <2>1, <2>3
<1>5. Holder(h, k) = h[Max(above)].item
  BY <1>2 DEF Holder
<1> HIDE DEF above
<1>6. Max(above) \in above /\ a <= Max(above)
  BY <1>1, <1>3, FirstAndLast
<1>7. Max(above) = a
  <2>1. Max(above) \in 1 .. k - 1 /\ Max(above) <= a
    BY <1>3, <1>4, <1>6
  <2> QED
    BY <1>1, <1>6, <2>1
<1> QED
  BY <1>5, <1>7

(* In a heap every entry that is deep has one. *)
LEMMA HolderAt ==
    ASSUME NEW h \in Seq(Entry), NEW k \in 1 .. Len(h), h[1].depth = 0, h[k].depth > 0
    PROVE  \E a \in 1 .. k - 1 : /\ h[a].depth < h[k].depth
                                 /\ \A j \in a + 1 .. k - 1 : h[j].depth >= h[k].depth
                                 /\ Holder(h, k) = h[a].item
<1> DEFINE above == {j \in 1 .. k - 1 : h[j].depth < h[k].depth}
<1>1. /\ Len(h) \in Nat /\ k \in Nat /\ k - 1 \in Nat
      /\ \A i \in 1 .. Len(h) : h[i].depth \in Nat
  BY EntryNumbers
<1>2. 1 \in above /\ above \in SUBSET (1 .. k - 1)
  <2>1. k # 1
    OBVIOUS
  <2> QED
    BY <1>1, <2>1
<1>3. Max(above) \in above /\ \A j \in above : j <= Max(above)
  <2> HIDE DEF above
  <2> QED
    BY <1>1, <1>2, FirstAndLast
<1>4. Holder(h, k) = h[Max(above)].item
  BY <1>1 DEF Holder
<1> DEFINE a == Max(above)
<1>5. a \in 1 .. k - 1 /\ h[a].depth < h[k].depth
  BY <1>3
<1>6. ASSUME NEW j \in a + 1 .. k - 1 PROVE h[j].depth >= h[k].depth
  <2> HIDE DEF a
  <2>1. a \in 1 .. k - 1 /\ \A i \in above : i <= a
    BY <1>3, <1>5 DEF a
  <2>2. j \in 1 .. k - 1 /\ j \in 1 .. Len(h) /\ ~(j <= a)
    BY <1>1, <2>1
  <2>3. j \notin above
    BY <2>1, <2>2
  <2>4. ~(h[j].depth < h[k].depth)
    BY <2>2, <2>3
  <2> QED
    BY <1>1, <2>2, <2>4
<1> QED
  BY <1>4, <1>5, <1>6

(* A single object put where it fits is where it was put, and the others are
   where they were. *)
LEMMA OneMore ==
    ASSUME NEW h \in Seq(Entry), Shaped(h), NEW s \in Seq(Entry), Len(s) = 1,
           NEW n, Fits(h, n, s[1].depth), NEW t, t = Insert(h, n, s)
    PROVE  /\ s[1].depth = 0
                => Places(t) = Places(h) \cup {<< s[1].item, None, s[1].worn >>}
           /\ n > 0 /\ s[1].depth = h[n].depth + 1
                => Places(t) = Places(h) \cup {<< s[1].item, h[n].item, s[1].worn >>}
<1> DEFINE m == Len(h)
           e == s[1]
<1>1. /\ m \in Nat /\ DOMAIN h = 1 .. m /\ \A i \in 1 .. m : h[i] \in Entry /\ h[i].depth \in Nat
      /\ e \in Entry /\ e.depth \in Nat /\ n \in 0 .. m /\ n \in Nat /\ n <= m
      /\ n < m => h[n + 1].depth <= e.depth
      /\ m > 0 => h[1].depth = 0
  <2>1. m > 0 => h # << >>
    OBVIOUS
  <2>2. 1 \in 1 .. Len(s)
    OBVIOUS
  <2> QED
    BY <2>1, <2>2, EntryNumbers DEF Fits, Shaped
<1>2. /\ t \in Seq(Entry) /\ Len(t) = m + 1
      /\ \A i \in 1 .. m + 1 : t[i] = IF i <= n THEN h[i] ELSE IF i = n + 1 THEN e ELSE h[i - 1]
  <2> HIDE DEF e
  <2>1. n \in 0 .. Len(h)
    BY DEF Fits
  <2>2. Inserted(h, n, s, t)
    BY <2>1, InsertEntries
  <2>3. /\ t \in Seq(Entry) /\ Len(t) = Len(h) + Len(s)
        /\ \A i \in 1 .. Len(t) : t[i] = IF i <= n THEN h[i]
                                         ELSE IF i <= n + Len(s) THEN s[i - n]
                                         ELSE h[i - Len(s)]
    BY <2>2 DEF Inserted
  <2>4. ASSUME NEW i \in 1 .. m + 1
        PROVE  t[i] = IF i <= n THEN h[i] ELSE IF i = n + 1 THEN e ELSE h[i - 1]
    <3>1. t[i] = IF i <= n THEN h[i] ELSE IF i <= n + 1 THEN s[i - n] ELSE h[i - 1]
      BY <2>3
    <3>2. i > n /\ i <= n + 1 => i = n + 1 /\ i - n = 1
      BY <1>1
    <3>3. i \in Int /\ (i = n + 1 => i <= n + 1 /\ ~(i <= n))
      BY <1>1
    <3>4. e = s[1]
      BY DEF e
    <3> QED
      BY <1>1, <3>1, <3>2, <3>3, <3>4
  <2> QED
    BY <2>3, <2>4
<1> HIDE DEF m
<1> HIDE DEF e
<1>3. DOMAIN t = 1 .. m + 1 /\ \A i \in 1 .. m + 1 : t[i].depth \in Nat
  BY <1>2, EntryNumbers
<1> DEFINE New(j) == IF j <= n THEN j ELSE j + 1
<1>4. ASSUME NEW j \in 1 .. m PROVE New(j) \in 1 .. m + 1 /\ t[New(j)] = h[j] /\ New(j) # n + 1
  <2>1. New(j) \in 1 .. m + 1 /\ New(j) # n + 1
    BY <1>1
  <2>2. CASE j <= n
    BY <1>1, <1>2, <2>1, <2>2
  <2>3. CASE ~(j <= n)
    <3>1. New(j) = j + 1 /\ ~(j + 1 <= n) /\ j + 1 # n + 1 /\ (j + 1) - 1 = j
      BY <1>1, <2>3
    <3> HIDE DEF New
    <3> QED
      BY <1>1, <1>2, <2>1, <3>1
  <2> QED
    BY <2>2, <2>3
<1>5. \A i \in 1 .. m + 1 : i = n + 1 \/ \E j \in 1 .. m : i = New(j)
  <2> SUFFICES ASSUME NEW i \in 1 .. m + 1, i # n + 1 PROVE \E j \in 1 .. m : i = New(j)
    OBVIOUS
  <2>1. CASE i <= n
    <3>1. i \in 1 .. m /\ i = New(i)
      BY <1>1, <2>1
    <3> QED
      BY <3>1
  <2>2. CASE ~(i <= n)
    <3>1. i - 1 \in 1 .. m /\ i = New(i - 1)
      BY <1>1, <2>2
    <3> QED
      BY <3>1
  <2> QED
    BY <2>1, <2>2
<1>6. ASSUME NEW j \in 1 .. m PROVE Holder(t, New(j)) = Holder(h, j)
  <2>1. New(j) \in 1 .. m + 1 /\ t[New(j)] = h[j] /\ h[j].depth \in Nat
    BY <1>1, <1>4
  <2>2. CASE h[j].depth = 0
    <3> HIDE DEF New
    <3> QED
      BY <2>1, <2>2 DEF Holder
  <2>3. CASE h[j].depth > 0
    <3>1. j \in 1 .. Len(h) /\ h[1].depth = 0
      BY <1>1 DEF m
    <3>2. PICK a \in 1 .. j - 1 : /\ h[a].depth < h[j].depth
                                  /\ \A i \in a + 1 .. j - 1 : h[i].depth >= h[j].depth
                                  /\ Holder(h, j) = h[a].item
      BY <2>3, <3>1, HolderAt
    <3>3. a \in 1 .. m /\ New(a) \in 1 .. New(j) - 1
      BY <1>1
    <3>4. t[New(a)] = h[a]
      BY <1>4, <3>3
    <3>5. ASSUME NEW i \in New(a) + 1 .. New(j) - 1 PROVE t[i].depth >= t[New(j)].depth
      <4>1. i \in 1 .. m + 1
        BY <1>1, <2>1, <3>3
      <4>2. CASE i = n + 1
        <5>1. a <= n /\ n < j /\ n < m
          BY <1>1, <3>3, <4>2
        <5>2. h[n + 1].depth <= e.depth /\ n + 1 \in 1 .. m /\ h[n + 1].depth \in Nat
          BY <1>1, <5>1
        <5>3. n + 1 = j \/ n + 1 \in a + 1 .. j - 1
          BY <1>1, <5>1
        <5>4. h[n + 1].depth >= h[j].depth
          BY <1>1, <3>2, <5>2, <5>3
        <5>5. t[n + 1] = e
          BY <1>1, <1>2
        <5> HIDE DEF New
        <5> QED
          BY <1>1, <2>1, <4>2, <5>2, <5>4, <5>5
      <4>3. CASE i # n + 1
        <5>1. PICK k \in 1 .. m : i = New(k)
          BY <1>5, <4>1, <4>3
        <5>2. k \in a + 1 .. j - 1
          BY <1>1, <5>1
        <5> HIDE DEF New
        <5> QED
          BY <1>4, <2>1, <3>2, <5>1, <5>2
      <4> QED
        BY <4>2, <4>3
    <3> HIDE DEF New
    <3>6. New(j) \in 1 .. Len(t) /\ t[New(a)].depth < t[New(j)].depth
      BY <1>2, <2>1, <3>2, <3>4
    <3>7. Holder(t, New(j)) = t[New(a)].item
      BY <1>2, <3>3, <3>5, <3>6, HolderIs
    <3> QED
      BY <3>2, <3>4, <3>7
  <2> QED
    BY <2>1, <2>2, <2>3
<1>7. n + 1 \in 1 .. m + 1 /\ t[n + 1] = e
  BY <1>1, <1>2
<1> HIDE DEF New
<1>8. Places(t) = Places(h) \cup {<< e.item, Holder(t, n + 1), e.worn >>}
  <2>1. ASSUME NEW i \in 1 .. m + 1
        PROVE  << t[i].item, Holder(t, i), t[i].worn >>
                 \in Places(h) \cup {<< e.item, Holder(t, n + 1), e.worn >>}
    <3>1. CASE i = n + 1
      BY <1>7, <3>1
    <3>2. ASSUME NEW j \in 1 .. m, i = New(j)
          PROVE  << t[i].item, Holder(t, i), t[i].worn >> \in Places(h)
      <4>1. << t[i].item, Holder(t, i), t[i].worn >> = << h[j].item, Holder(h, j), h[j].worn >>
        BY <1>4, <1>6, <3>2
      <4> QED
        BY <1>1, <4>1 DEF Places
    <3> QED
      BY <1>5, <3>1, <3>2
  <2>2. ASSUME NEW j \in 1 .. m
        PROVE  << h[j].item, Holder(h, j), h[j].worn >> \in Places(t)
    <3>1. /\ New(j) \in DOMAIN t
          /\ << t[New(j)].item, Holder(t, New(j)), t[New(j)].worn >>
               = << h[j].item, Holder(h, j), h[j].worn >>
      BY <1>3, <1>4, <1>6
    <3>2. << t[New(j)].item, Holder(t, New(j)), t[New(j)].worn >> \in Places(t)
      BY <3>1 DEF Places
    <3> QED
      BY <3>1, <3>2
  <2>3. << e.item, Holder(t, n + 1), e.worn >> \in Places(t)
    BY <1>3, <1>7 DEF Places
  <2>4. Places(t) \subseteq Places(h) \cup {<< e.item, Holder(t, n + 1), e.worn >>}
    BY <1>3, <2>1 DEF Places
  <2>5. Places(h) \subseteq Places(t)
    <3>1. \A x \in Places(h) : \E j \in 1 .. m : x = << h[j].item, Holder(h, j), h[j].worn >>
      BY <1>1 DEF Places
    <3> QED
      BY <2>2, <3>1
  <2> QED
    BY <2>3, <2>4, <2>5
<1>9. e.depth = 0 => Holder(t, n + 1) = None
  BY <1>7 DEF Holder
<1>10. ASSUME n > 0, e.depth = h[n].depth + 1 PROVE Holder(t, n + 1) = h[n].item
  <2>1. n \in 1 .. m /\ n \in 1 .. (n + 1) - 1 /\ n \in 1 .. m + 1 /\ n + 1 \in 1 .. Len(t)
    BY <1>1, <1>2, <1>7, <1>10
  <2>2. t[n] = h[n]
    BY <1>1, <1>2, <2>1
  <2>3. t[n].depth < t[n + 1].depth
    BY <1>1, <1>7, <1>10, <2>1, <2>2
  <2>4. \A j \in n + 1 .. (n + 1) - 1 : t[j].depth >= t[n + 1].depth
    BY <1>1
  <2>5. Holder(t, n + 1) = t[n].item
    BY <1>2, <2>1, <2>3, <2>4, HolderIs
  <2> QED
    BY <2>2, <2>5
<1> QED
  BY <1>8, <1>9, <1>10 DEF e

(* Where obj_to_char, obj_to_obj and equip_char put a single object. *)
LEMMA LoosePlaced ==
    ASSUME NEW h \in Seq(Entry), Shaped(h), NEW i \in Item
    PROVE  /\ Places(ObjToChar(h, Loose(i))) = Places(h) \cup {<< i, None, 0 >>}
           /\ \A c \in Items(h) :
                Places(ObjToObj(h, Loose(i), c)) = Places(h) \cup {<< i, c, 0 >>}
           /\ \A pos \in 1 .. Slots : (\A k \in DOMAIN h : h[k].worn # pos) =>
                Places(EquipChar(h, Loose(i), pos)) = Places(h) \cup {<< i, None, pos >>}
<1> DEFINE obj == Loose(i)
<1>1. /\ obj \in Seq(Entry) /\ Len(obj) = 1 /\ Rooted(obj) /\ Steady(obj) /\ obj[1].item = i
  BY LeastShaped
<1> HIDE DEF obj
<1>2. ASSUME NEW d \in Nat, NEW pos \in 0 .. Slots
      PROVE  /\ Placed(obj, d, pos) \in Seq(Entry) /\ Len(Placed(obj, d, pos)) = 1
             /\ Placed(obj, d, pos)[1].depth = d /\ Placed(obj, d, pos)[1].worn = pos
             /\ Placed(obj, d, pos)[1].item = i
  BY <1>1, PlacedSteady
<1>3. ASSUME NEW pos \in 0 .. Slots, NEW n, Fits(h, n, 0)
      PROVE  Places(Insert(h, n, Placed(obj, 0, pos))) = Places(h) \cup {<< i, None, pos >>}
  <2> DEFINE s == Placed(obj, 0, pos)
  <2>1. s \in Seq(Entry) /\ Len(s) = 1 /\ s[1].depth = 0 /\ s[1].worn = pos /\ s[1].item = i
    BY <1>2
  <2> HIDE DEF s
  <2> DEFINE t == Insert(h, n, s)
  <2>2. s[1].depth = 0
          => Places(t) = Places(h) \cup {<< s[1].item, None, s[1].worn >>}
    BY <1>3, <2>1, OneMore
  <2> QED
    BY <2>1, <2>2 DEF s
<1>4. Places(ObjToChar(h, obj)) = Places(h) \cup {<< i, None, 0 >>}
  <2>1. Fits(h, Before(h, Slots + 1), 0) /\ 0 \in 0 .. Slots
    BY BeforeFits
  <2> QED
    BY <1>3, <2>1 DEF ObjToChar
<1>5. ASSUME NEW c \in Items(h)
      PROVE  Places(ObjToObj(h, obj, c)) = Places(h) \cup {<< i, c, 0 >>}
  <2> DEFINE n == At(h, c)
             d == h[n].depth + 1
             s == Placed(obj, d, 0)
             t == Insert(h, n, s)
  <2>1. Fits(h, n, d) /\ d \in Nat /\ h[n].item = c /\ n > 0 /\ d = h[n].depth + 1
    BY AtFits
  <2> HIDE DEF n, d
  <2>2. s \in Seq(Entry) /\ Len(s) = 1 /\ s[1].depth = d /\ s[1].worn = 0 /\ s[1].item = i
    BY <1>2, <2>1
  <2> HIDE DEF s
  <2>3. n > 0 /\ s[1].depth = h[n].depth + 1
          => Places(t) = Places(h) \cup {<< s[1].item, h[n].item, s[1].worn >>}
    BY <2>1, <2>2, OneMore
  <2> QED
    BY <2>1, <2>2, <2>3 DEF ObjToObj, s, n, d
<1>6. ASSUME NEW pos \in 1 .. Slots, \A k \in DOMAIN h : h[k].worn # pos
      PROVE  Places(EquipChar(h, obj, pos)) = Places(h) \cup {<< i, None, pos >>}
  <2>1. Fits(h, Before(h, pos), 0) /\ pos \in 0 .. Slots
    BY BeforeFits
  <2>2. EquipChar(h, obj, pos) = Insert(h, Before(h, pos), Placed(obj, 0, pos))
    BY <1>6 DEF EquipChar, Top
  <2> QED
    BY <1>3, <2>1, <2>2
<1> QED
  BY <1>4, <1>5, <1>6 DEF obj

\* u is s with the object of the entry e in the slot worn, in the innermost of
\* the containers in, or in the inventory.
TookIn(s, e, worn, in, u) ==
    /\ u \in LoadedSet /\ Shaped(u.heap) /\ u.in = in /\ u.last = e.item
    /\ Places(u.heap) = Places(s.heap)
         \cup {<< e.item, IF worn > 0 \/ in = << >> THEN None ELSE Last(in), worn >>}

(* An entry read from a record is one more object, in the slot, the inventory or
   the container that obj_store_to_char finds for it. *)
LEMMA LoadsIn ==
    ASSUME NEW s \in LoadedSet, Shaped(s.heap), NEW e \in Entry,
           NEW worn, worn = (IF e.depth > 0 THEN 0 ELSE e.worn),
           NEW depth, depth = (IF e.worn > 0 THEN 0 ELSE e.depth),
           NEW in, in = (IF depth > Len(s.in) THEN Append(s.in, s.last)
                         ELSE IF depth < Len(s.in) THEN Front(s.in) ELSE s.in),
           worn > 0 => \A k \in DOMAIN s.heap : s.heap[k].worn # worn,
           worn = 0 /\ in # << >> => Last(in) \in Items(s.heap),
           NEW u, u = StoreToChar(s, e)
    PROVE  TookIn(s, e, worn, in, u)
<1> DEFINE obj == Loose(e.item)
           g == IF worn > 0 THEN EquipChar(s.heap, obj, worn)
                ELSE IF in = << >> THEN ObjToChar(s.heap, obj)
                ELSE IF Last(in) \in Items(s.heap) THEN ObjToObj(s.heap, obj, Last(in))
                ELSE s.heap
<1>1. u \in LoadedSet /\ Shaped(u.heap)
  BY LoadsShaped
<1>2. e.item \in Item /\ worn \in 0 .. Slots /\ s.heap \in Seq(Entry)
  BY DEF Entry, LoadedSet
<1>3. u = [in |-> in, last |-> e.item, heap |-> g]
  BY DEF StoreToChar
<1>4. Places(g) = Places(s.heap)
        \cup {<< e.item, IF worn > 0 \/ in = << >> THEN None ELSE Last(in), worn >>}
  <2>1. CASE worn > 0
    <3>1. worn \in 1 .. Slots
      BY <1>2, <2>1
    <3>2. Places(EquipChar(s.heap, obj, worn)) = Places(s.heap) \cup {<< e.item, None, worn >>}
      BY <1>2, <2>1, <3>1, LoosePlaced
    <3> QED
      BY <2>1, <3>2
  <2>2. CASE worn = 0 /\ in = << >>
    <3>1. Places(ObjToChar(s.heap, obj)) = Places(s.heap) \cup {<< e.item, None, 0 >>}
      BY <1>2, LoosePlaced
    <3> QED
      BY <2>2, <3>1
  <2>3. CASE worn = 0 /\ in # << >>
    <3>1. Places(ObjToObj(s.heap, obj, Last(in))) = Places(s.heap) \cup {<< e.item, Last(in), 0 >>}
      BY <1>2, <2>3, LoosePlaced
    <3> QED
      BY <2>3, <3>1
  <2> QED
    BY <1>2, <2>1, <2>2, <2>3
<1> HIDE DEF g
<1> QED
  BY <1>1, <1>3, <1>4 DEF TookIn

(* What Places says of the objects and the slots. *)
LEMMA PlacesSay ==
    ASSUME NEW h \in Seq(Entry)
    PROVE  /\ Items(h) = {x[1] : x \in Places(h)}
           /\ \A k \in DOMAIN h : \E x \in Places(h) : x[3] = h[k].worn
<1>1. \A k \in DOMAIN h : << h[k].item, Holder(h, k), h[k].worn >> \in Places(h)
  BY DEF Places
<1>2. \A x \in Places(h) : \E k \in DOMAIN h : x = << h[k].item, Holder(h, k), h[k].worn >>
  BY DEF Places
<1>3. \A k \in DOMAIN h : << h[k].item, Holder(h, k), h[k].worn >>[3] = h[k].worn
  OBVIOUS
<1>4. \A x \in Places(h) : \E k \in DOMAIN h : x[1] = h[k].item
  BY <1>2
<1>5. \A k \in DOMAIN h : \E x \in Places(h) : x[1] = h[k].item
  BY <1>1
<1>6. \A k \in DOMAIN h : \E x \in Places(h) : x[3] = h[k].worn
  BY <1>1
<1>7. Items(h) = {x[1] : x \in Places(h)}
  <2>1. Items(h) \subseteq {x[1] : x \in Places(h)}
    BY <1>5 DEF Items
  <2>2. {x[1] : x \in Places(h)} \subseteq Items(h)
    BY <1>4 DEF Items
  <2> QED
    BY <2>1, <2>2
<1> QED
  BY <1>6, <1>7

\* Where the first k entries are.
PlacesTo(h, k) == {<< h[j].item, Holder(h, j), h[j].worn >> : j \in 1 .. k}

LEMMA PlacesNext ==
    ASSUME NEW h \in Seq(Entry), NEW k \in 0 .. Len(h) - 1
    PROVE  PlacesTo(h, k + 1) = PlacesTo(h, k)
             \cup {<< h[k + 1].item, Holder(h, k + 1), h[k + 1].worn >>}
<1>1. 1 .. k + 1 = (1 .. k) \cup {k + 1}
  OBVIOUS
<1> QED
  BY <1>1 DEF PlacesTo

-----------------------------------------------------------------------------
(* What comes back from a record *)

\* No slot is noted twice.
SlotOnce(h) == \A i, j \in DOMAIN h : h[i].worn = h[j].worn /\ h[i].worn > 0 => i = j

(* The last of a list of containers, and the list without it. *)
LEMMA LastAndFront ==
    ASSUME NEW S, NEW in \in Seq(S), in # << >>
    PROVE  /\ Len(in) \in Nat /\ Len(in) > 0 /\ Last(in) = in[Len(in)]
           /\ Front(in) \in Seq(S) /\ Len(Front(in)) = Len(in) - 1
           /\ \A d \in 1 .. Len(in) - 1 : Front(in)[d] = in[d]
<1>1. Len(in) \in Nat /\ Len(in) > 0
  OBVIOUS
<1> DEFINE n == Len(in) - 1
           a == SubSeq(in, 1, n)
<1>2. n \in 0 .. Len(in) /\ n \in Nat
  BY <1>1
<1>3. Last(in) = in[Len(in)] /\ Front(in) = a
  BY DEF Last, Front
<1> HIDE DEF n
<1>4. a \in Seq(S) /\ Len(a) = n /\ \A i \in 1 .. n : a[i] = in[i]
  BY <1>1, <1>2
<1> HIDE DEF a
<1> QED
  BY <1>1, <1>3, <1>4 DEF n

(* From a record whose first object is in nothing every object comes back. *)
LEMMA HeadedLoads ==
    ASSUME NEW st \in Seq(Entry), SlotOnce(st), st # << >> => st[1].depth = 0
    PROVE  Items(ObjStoreToChar(st)) = Items(st)
<1> DEFINE n == Len(st)
<1>1. /\ n \in Nat /\ DOMAIN st = 1 .. n /\ n = Len(st) /\ (n > 0 => st # << >>)
      /\ \A k \in 1 .. n : /\ st[k] \in Entry /\ st[k].item \in Item /\ st[k].depth \in Nat
                           /\ st[k].worn \in 0 .. Slots /\ st[k].worn \in Nat
  BY EntryNumbers
<1>2. Unloaded \in LoadedSet /\ Unloaded.heap = << >> /\ Unloaded.in = << >>
  BY DEF Unloaded, LoadedSet
<1>3. \A s \in LoadedSet, k \in DOMAIN st : StoreToChar(s, st[k]) \in LoadedSet
  <2> SUFFICES ASSUME NEW s \in LoadedSet, NEW k \in DOMAIN st
               PROVE  StoreToChar(s, st[k]) \in LoadedSet
    OBVIOUS
  <2>1. Held(s.heap, Item) /\ st[k].item \in Item
    BY <1>1, ItemsIn DEF LoadedSet
  <2> QED
    BY <1>1, <2>1, LoadsOne
<1>4. PICK r : /\ r[0] = Unloaded
               /\ \A k \in 1 .. n : r[k] = StoreToChar(r[k - 1], st[k])
               /\ ObjStoreToChar(st) = r[n].heap
  BY <1>1, <1>2, <1>3, LoadingSteps
<1> HIDE DEF n
<1> DEFINE Slotted(k) == {0} \cup {st[j].worn : j \in 1 .. k}
           good == {k \in 0 .. n :
                      /\ r[k] \in LoadedSet /\ Shaped(r[k].heap)
                      /\ Items(r[k].heap) = Firsts(st, k)
                      /\ \A x \in Places(r[k].heap) : x[3] \in Slotted(k)
                      /\ \A d \in 1 .. Len(r[k].in) : r[k].in[d] \in Firsts(st, k)
                      /\ k = 0 => r[k].in = << >>
                      /\ k > 0 => r[k].last \in Firsts(st, k)}
<1>5. 0 \in good
  <2>1. Items(<< >>) = {} /\ Places(<< >>) = {}
    BY DEF Items, Places
  <2>2. Firsts(st, 0) = {}
    BY DEF Firsts
  <2>3. \A d \in 1 .. Len(<< >>) : FALSE
    OBVIOUS
  <2>4. Shaped(<< >>)
    BY LeastShaped
  <2>5. 0 \in 0 .. n /\ ~(0 > 0)
    BY <1>1
  <2>6. r[0] \in LoadedSet /\ r[0].heap = << >> /\ r[0].in = << >>
    BY <1>2, <1>4
  <2> HIDE DEF Slotted
  <2>7. /\ Shaped(r[0].heap) /\ Items(r[0].heap) = Firsts(st, 0)
        /\ \A x \in Places(r[0].heap) : x[3] \in Slotted(0)
    BY <2>1, <2>2, <2>4, <2>6
  <2>8. \A d \in 1 .. Len(r[0].in) : r[0].in[d] \in Firsts(st, 0)
    BY <2>3, <2>6
  <2> QED
    BY <2>5, <2>6, <2>7, <2>8
<1>6. ASSUME NEW k \in 0 .. n - 1, k \in good PROVE k + 1 \in good
  <2> DEFINE s == r[k]
             e == st[k + 1]
             u == r[k + 1]
             worn == IF e.depth > 0 THEN 0 ELSE e.worn
             depth == IF e.worn > 0 THEN 0 ELSE e.depth
             in == IF depth > Len(s.in) THEN Append(s.in, s.last)
                   ELSE IF depth < Len(s.in) THEN Front(s.in) ELSE s.in
  <2>1. k + 1 \in 1 .. n /\ (k + 1) - 1 = k /\ k \in Nat
    BY <1>1
  <2>2. u = StoreToChar(s, e) /\ e \in Entry /\ e.depth \in Nat /\ e.worn \in Nat
    BY <1>1, <1>4, <2>1
  <2>3. /\ s \in LoadedSet /\ Shaped(s.heap) /\ Items(s.heap) = Firsts(st, k)
        /\ \A x \in Places(s.heap) : x[3] \in Slotted(k)
        /\ \A d \in 1 .. Len(s.in) : s.in[d] \in Firsts(st, k)
        /\ k = 0 => s.in = << >>
        /\ k > 0 => s.last \in Firsts(st, k)
    BY <1>6
  <2>4. /\ s.in \in Seq(Item \cup {None}) /\ s.last \in Item \cup {None}
        /\ s.heap \in Seq(Entry) /\ Len(s.in) \in Nat
    BY <2>3 DEF LoadedSet
  <2>5. k = 0 => e.depth = 0
    BY <1>1, <2>1
  <2>6. 1 .. k + 1 = (1 .. k) \cup {k + 1}
    BY <2>1
  <2>7. /\ Firsts(st, k + 1) = Firsts(st, k) \cup {e.item}
        /\ Slotted(k + 1) = Slotted(k) \cup {e.worn}
    BY <2>6 DEF Firsts
  <2>8. worn > 0 => \A i \in DOMAIN s.heap : s.heap[i].worn # worn
    <3> SUFFICES ASSUME worn > 0, NEW i \in DOMAIN s.heap, s.heap[i].worn = worn PROVE FALSE
      OBVIOUS
    <3>1. worn = e.worn
      OBVIOUS
    <3>2. s.heap[i].worn \in Slotted(k)
      BY <2>3, <2>4, PlacesSay
    <3>3. PICK j \in 1 .. k : st[j].worn = e.worn
      BY <3>1, <3>2
    <3>4. j \in 1 .. n /\ j # k + 1
      BY <1>1, <2>1
    <3> QED
      BY <1>1, <2>1, <3>1, <3>3, <3>4 DEF SlotOnce
  <2>9. /\ in \in Seq(Item \cup {None}) /\ \A d \in 1 .. Len(in) : in[d] \in Firsts(st, k)
    <3>1. CASE depth > Len(s.in)
      <4>1. k > 0
        BY <2>1, <2>3, <2>4, <2>5, <3>1
      <4>2. /\ Append(s.in, s.last) \in Seq(Item \cup {None})
            /\ Len(Append(s.in, s.last)) = Len(s.in) + 1
            /\ \A d \in 1 .. Len(s.in) + 1 :
                 Append(s.in, s.last)[d] = IF d <= Len(s.in) THEN s.in[d] ELSE s.last
        BY <2>4
      <4>3. \A d \in 1 .. Len(s.in) + 1 : d <= Len(s.in) => d \in 1 .. Len(s.in)
        BY <2>4
      <4>4. in = Append(s.in, s.last)
        BY <3>1
      <4> HIDE DEF in, s
      <4> QED
        BY <2>3, <4>1, <4>2, <4>3, <4>4
    <3>2. CASE ~(depth > Len(s.in)) /\ depth < Len(s.in)
      <4>1. s.in # << >>
        BY <2>2, <3>2
      <4>2. in = Front(s.in)
        BY <3>2
      <4>3. \A d \in 1 .. Len(s.in) - 1 : d \in 1 .. Len(s.in)
        BY <2>4
      <4> HIDE DEF in, s
      <4> QED
        BY <2>3, <2>4, <4>1, <4>2, <4>3, LastAndFront
    <3>3. CASE ~(depth > Len(s.in)) /\ ~(depth < Len(s.in))
      <4>1. in = s.in
        BY <3>3
      <4> HIDE DEF in, s
      <4> QED
        BY <2>3, <2>4, <4>1
    <3> QED
      BY <3>1, <3>2, <3>3
  <2>10. in # << >> => Last(in) \in Items(s.heap)
    <3> HIDE DEF in
    <3> SUFFICES ASSUME in # << >> PROVE Last(in) \in Items(s.heap)
      OBVIOUS
    <3>1. Last(in) = in[Len(in)] /\ Len(in) \in Nat /\ Len(in) > 0
      BY <2>9, LastAndFront
    <3>2. Len(in) \in 1 .. Len(in)
      BY <3>1
    <3> HIDE DEF s
    <3> QED
      BY <2>3, <2>9, <3>1, <3>2
  <2> DEFINE holder == IF worn > 0 \/ in = << >> THEN None ELSE Last(in)
  <2>11. /\ u \in LoadedSet /\ Shaped(u.heap) /\ u.in = in /\ u.last = e.item
         /\ Places(u.heap) = Places(s.heap) \cup {<< e.item, holder, worn >>}
    <3>1. /\ worn = (IF e.depth > 0 THEN 0 ELSE e.worn)
          /\ depth = (IF e.worn > 0 THEN 0 ELSE e.depth)
          /\ in = (IF depth > Len(s.in) THEN Append(s.in, s.last)
                   ELSE IF depth < Len(s.in) THEN Front(s.in) ELSE s.in)
      OBVIOUS
    <3> HIDE DEF worn, depth, in, s, e, u
    <3>2. worn = 0 /\ in # << >> => Last(in) \in Items(s.heap)
      BY <2>10
    <3>3. /\ u \in LoadedSet /\ Shaped(u.heap) /\ u.in = in /\ u.last = e.item
          /\ Places(u.heap) = Places(s.heap)
               \cup {<< e.item, IF worn > 0 \/ in = << >> THEN None ELSE Last(in), worn >>}
      <4>1. TookIn(s, e, worn, in, u)
        BY <2>2, <2>3, <2>8, <3>1, <3>2, LoadsIn
      <4> QED
        BY <4>1 DEF TookIn
    <3> QED
      BY <3>3 DEF holder
  <2>12. u.heap \in Seq(Entry)
    BY <2>11 DEF LoadedSet
  <2>13. worn \in Slotted(k + 1)
    BY <2>7
  <2> HIDE DEF worn, depth, in, s, e, u, Slotted, holder
  <2>14. Items(u.heap) = Firsts(st, k + 1)
    <3>1. Items(u.heap) = {x[1] : x \in Places(u.heap)}
      BY <2>12, PlacesSay
    <3>2. Items(s.heap) = {x[1] : x \in Places(s.heap)}
      BY <2>4, PlacesSay
    <3>3. << e.item, holder, worn >>[1] = e.item
      OBVIOUS
    <3>4. Items(u.heap) = Items(s.heap) \cup {e.item}
      <4> DEFINE x0 == << e.item, holder, worn >>
      <4>1. Places(u.heap) = Places(s.heap) \cup {x0} /\ x0[1] = e.item
        BY <2>11, <3>3
      <4> HIDE DEF x0
      <4> QED
        BY <3>1, <3>2, <4>1
    <3> QED
      BY <2>3, <2>7, <3>4
  <2>15. \A x \in Places(u.heap) : x[3] \in Slotted(k + 1)
    BY <2>3, <2>7, <2>11, <2>13
  <2>16. /\ \A d \in 1 .. Len(u.in) : u.in[d] \in Firsts(st, k + 1)
         /\ u.last \in Firsts(st, k + 1)
    BY <2>7, <2>9, <2>11
  <2>17. k + 1 \in 0 .. n /\ k + 1 # 0
    BY <2>1
  <2>18. u = r[k + 1]
    BY DEF u
  <2> QED
    BY <2>11, <2>14, <2>15, <2>16, <2>17, <2>18
<1> HIDE DEF good
<1>7. \A k \in 0 .. n : k \in good
  BY <1>1, <1>5, <1>6, Counting
<1>8. Items(r[n].heap) = Firsts(st, n)
  BY <1>1, <1>7 DEF good
<1>9. Firsts(st, n) = Items(st)
  BY <1>1 DEF Firsts, Items
<1> QED
  BY <1>4, <1>8, <1>9

\* The containers that entry k is in, from the outermost to the innermost.
Chain(st, k, in) ==
    /\ in \in Seq(Item \cup {None}) /\ Len(in) = st[k].depth
    /\ \A d \in 1 .. st[k].depth :
         \E a \in 1 .. k - 1 : /\ in[d] = st[a].item /\ st[a].depth < d
                               /\ \A j \in a + 1 .. k - 1 : st[j].depth >= d

\* The entry after entry k is in the containers out, and the innermost holds it.
NextIn(st, k, out) ==
    /\ Chain(st, k + 1, out)
    /\ out # << >> <=> st[k + 1].depth > 0
    /\ out # << >> => Last(out) = Holder(st, k + 1) /\ Last(out) \in Firsts(st, k)

(* They are what in_obj of obj_store_to_char becomes, one entry later, and the
   innermost is the holder. *)
LEMMA ChainNext ==
    ASSUME NEW st \in Seq(Entry), NEW k \in 1 .. Len(st) - 1,
           st[k + 1].depth <= st[k].depth + 1, st[k + 1].depth >= st[k].depth - 1,
           NEW in, Chain(st, k, in), NEW out,
           out = (IF st[k + 1].depth > Len(in) THEN Append(in, st[k].item)
                  ELSE IF st[k + 1].depth < Len(in) THEN Front(in) ELSE in)
    PROVE  NextIn(st, k, out)
<1> DEFINE d0 == st[k].depth
           d1 == st[k + 1].depth
<1>1. /\ k \in Nat /\ k >= 1 /\ k + 1 \in 1 .. Len(st) /\ k \in 1 .. Len(st) /\ Len(st) \in Nat
      /\ d0 \in Nat /\ d1 \in Nat /\ d1 <= d0 + 1 /\ d1 >= d0 - 1 /\ (k + 1) - 1 = k
      /\ st[k].item \in Item
  <2>1. k + 1 \in 1 .. Len(st) /\ k \in 1 .. Len(st)
    BY EntryNumbers
  <2> QED
    BY <2>1, EntryNumbers
<1>2. in \in Seq(Item \cup {None}) /\ Len(in) = d0
  BY DEF Chain
<1>3. \A d \in 1 .. d0 :
         \E a \in 1 .. k - 1 : /\ in[d] = st[a].item /\ st[a].depth < d
                               /\ \A j \in a + 1 .. k - 1 : st[j].depth >= d
  BY DEF Chain
<1>4. out = IF d1 > d0 THEN Append(in, st[k].item) ELSE IF d1 < d0 THEN Front(in) ELSE in
  BY <1>2
<1> HIDE DEF d0, d1
<1>5. /\ out \in Seq(Item \cup {None}) /\ Len(out) = d1
      /\ \A d \in 1 .. d1 : d <= d0 => d \in 1 .. d0 /\ out[d] = in[d]
      /\ d1 > d0 => out[d1] = st[k].item
  <2>1. CASE d1 > d0
    <3>1. d1 = d0 + 1
      BY <1>1, <2>1
    <3>2. /\ Append(in, st[k].item) \in Seq(Item \cup {None})
          /\ Len(Append(in, st[k].item)) = d0 + 1
          /\ \A d \in 1 .. d0 : Append(in, st[k].item)[d] = in[d]
          /\ Append(in, st[k].item)[d0 + 1] = st[k].item
      BY <1>1, <1>2
    <3>3. \A d \in 1 .. d1 : d <= d0 => d \in 1 .. d0
      BY <1>1
    <3> QED
      BY <1>4, <2>1, <3>1, <3>2, <3>3
  <2>2. CASE d1 < d0
    <3>1. d1 = d0 - 1 /\ d0 > 0 /\ in # << >>
      BY <1>1, <1>2, <2>2
    <3>2. /\ Front(in) \in Seq(Item \cup {None}) /\ Len(Front(in)) = d0 - 1
          /\ \A d \in 1 .. d0 - 1 : Front(in)[d] = in[d]
      BY <1>2, <3>1, LastAndFront
    <3>3. out = Front(in) /\ ~(d1 > d0)
      BY <1>1, <1>4, <2>2
    <3>4. \A d \in 1 .. d1 : d \in 1 .. d0 /\ d \in 1 .. d0 - 1
      BY <1>1, <3>1
    <3> QED
      BY <3>1, <3>2, <3>3, <3>4
  <2>3. CASE d1 = d0
    <3>1. out = in /\ ~(d1 > d0)
      BY <1>1, <1>4, <2>3
    <3> QED
      BY <1>2, <2>3, <3>1
  <2> QED
    BY <1>1, <2>1, <2>2, <2>3
<1>6. ASSUME NEW d \in 1 .. d1
      PROVE  \E a \in 1 .. k : /\ out[d] = st[a].item /\ st[a].depth < d
                               /\ \A j \in a + 1 .. k : st[j].depth >= d
  <2>1. CASE d <= d0
    <3>1. d \in 1 .. d0 /\ out[d] = in[d]
      BY <1>5, <2>1
    <3>2. PICK a \in 1 .. k - 1 : /\ in[d] = st[a].item /\ st[a].depth < d
                                  /\ \A j \in a + 1 .. k - 1 : st[j].depth >= d
      BY <1>3, <3>1
    <3>3. \A j \in a + 1 .. k : j = k \/ j \in a + 1 .. k - 1
      BY <1>1
    <3>4. st[k].depth >= d
      BY <1>1, <2>1 DEF d0
    <3>5. a \in 1 .. k
      BY <1>1
    <3> QED
      BY <3>1, <3>2, <3>3, <3>4, <3>5
  <2>2. CASE ~(d <= d0)
    <3>1. d = d1 /\ d1 > d0
      BY <1>1, <2>2
    <3>2. out[d] = st[k].item /\ st[k].depth < d
      BY <1>1, <1>5, <3>1 DEF d0
    <3>3. k \in 1 .. k /\ \A j \in k + 1 .. k : FALSE
      BY <1>1
    <3> QED
      BY <3>2, <3>3
  <2> QED
    BY <2>1, <2>2
<1>7. Chain(st, k + 1, out)
  BY <1>1, <1>5, <1>6 DEF Chain, d1
<1>8. out # << >> <=> d1 > 0
  BY <1>1, <1>5
<1>9. ASSUME out # << >> PROVE Last(out) = Holder(st, k + 1) /\ Last(out) \in Firsts(st, k)
  <2>1. d1 \in 1 .. d1 /\ Last(out) = out[d1]
    <3>1. Last(out) = out[Len(out)]
      BY <1>5, <1>9, LastAndFront
    <3> QED
      BY <1>1, <1>5, <1>8, <1>9, <3>1
  <2>2. PICK a \in 1 .. k : /\ out[d1] = st[a].item /\ st[a].depth < d1
                            /\ \A j \in a + 1 .. k : st[j].depth >= d1
    BY <1>6, <2>1
  <2>3. Holder(st, k + 1) = st[a].item
    <3>1. a \in 1 .. (k + 1) - 1
      BY <1>1
    <3>2. st[a].depth < st[k + 1].depth /\ \A j \in a + 1 .. (k + 1) - 1 : st[j].depth >= st[k + 1].depth
      BY <1>1, <2>2 DEF d1
    <3> QED
      BY <1>1, <3>1, <3>2, HolderIs
  <2> QED
    BY <2>1, <2>2, <2>3 DEF Firsts
<1> QED
  BY <1>7, <1>8, <1>9 DEF d1, NextIn

(* From a tidy record of shaped lists every object comes back where it was. *)
LEMMA TidyLoads ==
    ASSUME NEW st \in Seq(Entry), Shaped(st),
           \A k \in 2 .. Len(st) : st[k].depth >= st[k - 1].depth - 1
    PROVE  Places(ObjStoreToChar(st)) = Places(st)
<1> DEFINE n == Len(st)
<1>1. /\ n \in Nat /\ DOMAIN st = 1 .. n /\ n = Len(st) /\ (n > 0 => st # << >>)
      /\ \A k \in 1 .. n : /\ st[k] \in Entry /\ st[k].item \in Item /\ st[k].depth \in Nat
                           /\ st[k].worn \in 0 .. Slots /\ st[k].worn \in Nat
  BY EntryNumbers
<1>2. Unloaded \in LoadedSet /\ Unloaded.heap = << >> /\ Unloaded.in = << >>
  BY DEF Unloaded, LoadedSet
<1>3. \A s \in LoadedSet, k \in DOMAIN st : StoreToChar(s, st[k]) \in LoadedSet
  <2> SUFFICES ASSUME NEW s \in LoadedSet, NEW k \in DOMAIN st
               PROVE  StoreToChar(s, st[k]) \in LoadedSet
    OBVIOUS
  <2>1. Held(s.heap, Item) /\ st[k].item \in Item
    BY <1>1, ItemsIn DEF LoadedSet
  <2> QED
    BY <1>1, <2>1, LoadsOne
<1>4. PICK r : /\ r[0] = Unloaded
               /\ \A k \in 1 .. n : r[k] = StoreToChar(r[k - 1], st[k])
               /\ ObjStoreToChar(st) = r[n].heap
  BY <1>1, <1>2, <1>3, LoadingSteps
<1> HIDE DEF n
<1> DEFINE good == {k \in 0 .. n :
                      /\ r[k] \in LoadedSet /\ Shaped(r[k].heap)
                      /\ Places(r[k].heap) = PlacesTo(st, k)
                      /\ k = 0 => r[k].in = << >>
                      /\ k > 0 => Chain(st, k, r[k].in) /\ r[k].last = st[k].item}
<1>5. 0 \in good
  <2>1. Places(<< >>) = {} /\ PlacesTo(st, 0) = {}
    BY DEF Places, PlacesTo
  <2>2. 0 \in 0 .. n /\ ~(0 > 0)
    BY <1>1
  <2>3. r[0] \in LoadedSet /\ r[0].heap = << >> /\ r[0].in = << >>
    BY <1>2, <1>4
  <2>4. Shaped(r[0].heap)
    BY <2>3, LeastShaped
  <2> QED
    BY <2>1, <2>2, <2>3, <2>4
<1>6. ASSUME NEW k \in 0 .. n - 1, k \in good PROVE k + 1 \in good
  <2> DEFINE s == r[k]
             e == st[k + 1]
             u == r[k + 1]
             worn == IF e.depth > 0 THEN 0 ELSE e.worn
             depth == IF e.worn > 0 THEN 0 ELSE e.depth
             in == IF depth > Len(s.in) THEN Append(s.in, s.last)
                   ELSE IF depth < Len(s.in) THEN Front(s.in) ELSE s.in
  <2>1. k + 1 \in 1 .. n /\ (k + 1) - 1 = k /\ k \in Nat
    BY <1>1
  <2>2. k + 1 \in 1 .. n /\ (k + 1) - 1 = k /\ k \in Nat /\ k + 1 \in 0 .. n /\ k + 1 > 0
    BY <1>1, <2>1
  <2>3. u = StoreToChar(s, e) /\ e \in Entry /\ e.depth \in Nat /\ e.worn \in Nat
    BY <1>1, <1>4, <2>2
  <2>4. /\ s \in LoadedSet /\ Shaped(s.heap) /\ Places(s.heap) = PlacesTo(st, k)
        /\ k = 0 => s.in = << >>
        /\ k > 0 => Chain(st, k, s.in) /\ s.last = st[k].item
    BY <1>6
  <2>5. s.heap \in Seq(Entry)
    BY <2>4 DEF LoadedSet
  <2>6. worn = e.worn /\ depth = e.depth /\ (e.worn > 0 => e.depth = 0)
    <3>1. e.worn > 0 => e.depth = 0
      BY <1>1, <2>2 DEF Shaped, WornOnce
    <3> QED
      BY <2>3, <3>1
  <2>7. /\ worn = (IF e.depth > 0 THEN 0 ELSE e.worn)
        /\ depth = (IF e.worn > 0 THEN 0 ELSE e.depth)
        /\ in = (IF depth > Len(s.in) THEN Append(s.in, s.last)
                 ELSE IF depth < Len(s.in) THEN Front(s.in) ELSE s.in)
    OBVIOUS
  <2>8. u = r[k + 1] /\ e = st[k + 1]
    OBVIOUS
  <2> HIDE DEF worn, depth, in, s, e, u
  <2>9. /\ Chain(st, k + 1, in) /\ (in # << >> <=> e.depth > 0)
        /\ in # << >> => Last(in) = Holder(st, k + 1) /\ Last(in) \in Firsts(st, k)
    <3>1. CASE k = 0
      <4>1. e.depth = 0
        BY <1>1, <2>2, <2>8, <3>1 DEF Shaped
      <4>2. s.in = << >> /\ Len(s.in) = 0
        BY <2>4, <3>1
      <4>3. in = << >>
        BY <2>6, <2>7, <4>1, <4>2
      <4>4. st[k + 1].depth = 0 /\ \A d \in 1 .. 0 : FALSE
        BY <2>8, <4>1
      <4>5. << >> \in Seq(Item \cup {None}) /\ Len(<< >>) = 0
        OBVIOUS
      <4>6. Chain(st, k + 1, in)
        BY <4>3, <4>4, <4>5 DEF Chain
      <4> QED
        BY <4>1, <4>3, <4>6
    <3>2. CASE k > 0
      <4>1. k \in 1 .. Len(st) - 1 /\ k + 1 \in 2 .. Len(st)
        BY <1>1, <2>2, <3>2
      <4>2. st[k + 1].depth <= st[k].depth + 1 /\ st[k + 1].depth >= st[k].depth - 1
        BY <2>2, <4>1 DEF Shaped, Steady
      <4>3. Chain(st, k, s.in) /\ s.last = st[k].item
        BY <2>4, <3>2
      <4>4. in = (IF st[k + 1].depth > Len(s.in) THEN Append(s.in, st[k].item)
                  ELSE IF st[k + 1].depth < Len(s.in) THEN Front(s.in) ELSE s.in)
        BY <2>6, <2>7, <2>8, <4>3
      <4>5. NextIn(st, k, in)
        BY <4>1, <4>2, <4>3, <4>4, ChainNext
      <4> QED
        BY <2>8, <4>5 DEF NextIn
    <3> QED
      BY <2>2, <3>1, <3>2
  <2>10. Items(s.heap) = Firsts(st, k)
    <3>1. Items(s.heap) = {x[1] : x \in PlacesTo(st, k)}
      BY <2>4, <2>5, PlacesSay
    <3>2. \A x \in PlacesTo(st, k) : \E j \in 1 .. k : x[1] = st[j].item
      BY DEF PlacesTo
    <3>3. \A j \in 1 .. k : \E x \in PlacesTo(st, k) : x[1] = st[j].item
      <4>1. \A j \in 1 .. k : << st[j].item, Holder(st, j), st[j].worn >> \in PlacesTo(st, k)
        BY DEF PlacesTo
      <4> QED
        BY <4>1
    <3> QED
      BY <3>1, <3>2, <3>3 DEF Firsts
  <2>11. worn > 0 => \A i \in DOMAIN s.heap : s.heap[i].worn # worn
    <3> SUFFICES ASSUME worn > 0, NEW i \in DOMAIN s.heap, s.heap[i].worn = worn PROVE FALSE
      OBVIOUS
    <3>1. PICK x \in PlacesTo(st, k) : x[3] = worn
      BY <2>4, <2>5, PlacesSay
    <3>2. \A y \in PlacesTo(st, k) : \E j \in 1 .. k : y[3] = st[j].worn
      BY DEF PlacesTo
    <3>3. PICK j \in 1 .. k : st[j].worn = e.worn
      BY <2>6, <3>1, <3>2
    <3>4. j \in 1 .. n /\ j # k + 1
      BY <1>1, <2>2
    <3> QED
      BY <1>1, <2>2, <2>6, <2>8, <3>3, <3>4 DEF Shaped, WornOnce
  <2>12. worn = 0 /\ in # << >> => Last(in) \in Items(s.heap)
    BY <2>9, <2>10
  <2>13. TookIn(s, e, worn, in, u)
    BY <2>3, <2>4, <2>7, <2>11, <2>12, LoadsIn
  <2>14. (IF worn > 0 \/ in = << >> THEN None ELSE Last(in)) = Holder(st, k + 1)
    <3>1. e.depth = 0 => Holder(st, k + 1) = None
      BY <2>8 DEF Holder
    <3>2. worn > 0 \/ in = << >> => e.depth = 0
      BY <2>3, <2>6, <2>9
    <3> QED
      BY <2>9, <3>1, <3>2
  <2>15. Places(u.heap) = PlacesTo(st, k + 1)
    <3>1. k \in 0 .. Len(st) - 1
      BY <1>1
    <3>2. PlacesTo(st, k + 1) = PlacesTo(st, k)
            \cup {<< st[k + 1].item, Holder(st, k + 1), st[k + 1].worn >>}
      BY <3>1, PlacesNext
    <3>3. Places(u.heap) = Places(s.heap) \cup {<< e.item, Holder(st, k + 1), worn >>}
      BY <2>13, <2>14 DEF TookIn
    <3> QED
      BY <2>4, <2>6, <2>8, <3>2, <3>3
  <2>16. u \in LoadedSet /\ Shaped(u.heap) /\ u.in = in /\ u.last = e.item
    BY <2>13 DEF TookIn
  <2> QED
    BY <2>2, <2>8, <2>9, <2>15, <2>16
<1> HIDE DEF good
<1>7. \A k \in 0 .. n : k \in good
  BY <1>1, <1>5, <1>6, Counting
<1>8. Places(r[n].heap) = PlacesTo(st, n)
  BY <1>1, <1>7 DEF good
<1>9. PlacesTo(st, n) = Places(st)
  BY <1>1 DEF PlacesTo, Places
<1> QED
  BY <1>4, <1>8, <1>9

(* The first m of a list. *)
LEMMA FirstOnes ==
    ASSUME NEW S, NEW s \in Seq(S), NEW m \in 0 .. Len(s)
    PROVE  /\ SubSeq(s, 1, m) \in Seq(S) /\ Len(SubSeq(s, 1, m)) = m
           /\ \A i \in 1 .. m : SubSeq(s, 1, m)[i] = s[i]
<1>1. m \in Nat /\ m <= Len(s) /\ Len(s) \in Nat
  OBVIOUS
<1> QED
  BY <1>1

(* Of objects that can all be stored the record lists the first, as they are. *)
LEMMA SaveTidy ==
    ASSUME NEW h \in Seq(Entry), \A k \in DOMAIN h : h[k].kept,
           NEW m, m = Min({Len(h), MaxObjSave})
    PROVE  /\ SaveObj(h) \in Seq(Entry) /\ m \in 0 .. Len(h) /\ Len(SaveObj(h)) = m
           /\ \A i \in 1 .. m : SaveObj(h)[i] = h[i]
           /\ SaveObj(h) = SubSeq(h, 1, m)
<1> DEFINE n == Len(h)
<1>1. /\ n \in Nat /\ DOMAIN h = 1 .. n /\ n = Len(h)
      /\ \A k \in 1 .. n : h[k] \in Entry /\ h[k].worn \in Nat
  BY EntryNumbers
<1>2. Unsaved \in SavedSet /\ Unsaved.st = << >> /\ Unsaved.noted = 0
  BY DEF Unsaved, SavedSet
<1>3. \A s \in SavedSet, k \in DOMAIN h : PutObjInStore(s, h[k]) \in SavedSet
  BY <1>1, PutsOne
<1>4. PICK r : /\ r[0] = Unsaved
               /\ \A k \in 1 .. n : r[k] = PutObjInStore(r[k - 1], h[k])
               /\ SaveObj(h) = r[n].st
  BY <1>1, <1>2, <1>3, SavingSteps
<1>5. m \in 0 .. n /\ m <= MaxObjSave /\ m \in Nat /\ (n <= MaxObjSave => m = n)
      /\ (n > MaxObjSave => m = MaxObjSave)
  <2>1. CASE n <= MaxObjSave
    <3>1. n \in {n, MaxObjSave} /\ \A y \in {n, MaxObjSave} : n <= y
      BY <1>1, <2>1
    <3>2. m \in {n, MaxObjSave} /\ \A y \in {n, MaxObjSave} : m <= y
      BY <3>1 DEF Min
    <3> QED
      BY <1>1, <2>1, <3>2
  <2>2. CASE n > MaxObjSave
    <3>1. MaxObjSave \in {n, MaxObjSave} /\ \A y \in {n, MaxObjSave} : MaxObjSave <= y
      BY <1>1, <2>2
    <3>2. m \in {n, MaxObjSave} /\ \A y \in {n, MaxObjSave} : m <= y
      BY <3>1 DEF Min
    <3> QED
      BY <1>1, <2>2, <3>2
  <2> QED
    BY <1>1, <2>1, <2>2
<1> HIDE DEF n
<1> DEFINE good == {k \in 0 .. n : /\ r[k] \in SavedSet
                                   /\ k <= MaxObjSave => r[k].noted = 0 /\ Len(r[k].st) = k
                                   /\ k > MaxObjSave => Len(r[k].st) = MaxObjSave
                                   /\ \A i \in 1 .. Len(r[k].st) : r[k].st[i] = h[i]}
<1>6. 0 \in good
  <2>1. Len(<< >>) = 0 /\ 0 \in 0 .. n /\ \A i \in 1 .. 0 : FALSE
    BY <1>1
  <2>2. r[0] \in SavedSet /\ r[0].st = << >> /\ r[0].noted = 0
    BY <1>2, <1>4
  <2> QED
    BY <2>1, <2>2
<1>7. ASSUME NEW k \in 0 .. n - 1, k \in good PROVE k + 1 \in good
  <2> DEFINE s == r[k]
             u == r[k + 1]
             e == h[k + 1]
             noted == IF e.worn > 0 THEN e.worn ELSE s.noted
  <2>1. k + 1 \in 1 .. n /\ (k + 1) - 1 = k /\ k \in Nat /\ k + 1 \in 0 .. n
    BY <1>1
  <2>2. u = PutObjInStore(s, e) /\ e \in Entry /\ e.worn \in Nat /\ e.kept
    BY <1>1, <1>4, <2>1
  <2>3. /\ s \in SavedSet /\ s.st \in Seq(Entry) /\ Len(s.st) \in Nat
        /\ k <= MaxObjSave => s.noted = 0 /\ Len(s.st) = k
        /\ k > MaxObjSave => Len(s.st) = MaxObjSave
        /\ \A i \in 1 .. Len(s.st) : s.st[i] = h[i]
    BY <1>7 DEF SavedSet
  <2>4. u = IF Len(s.st) >= MaxObjSave THEN [s EXCEPT !.noted = noted]
            ELSE [st |-> Append(s.st, [e EXCEPT !.worn = noted]), noted |-> 0]
    BY <2>2 DEF PutObjInStore
  <2>5. noted = IF e.worn > 0 THEN e.worn ELSE s.noted
    OBVIOUS
  <2>6. u = r[k + 1] /\ e = h[k + 1]
    OBVIOUS
  <2> HIDE DEF s, u, e, noted
  <2>7. u \in SavedSet
    BY <2>2, <2>3, PutsOne
  <2>8. CASE k < MaxObjSave
    <3>1. Len(s.st) = k /\ ~(Len(s.st) >= MaxObjSave) /\ s.noted = 0
      BY <2>1, <2>3, <2>8
    <3>2. noted = e.worn
      BY <2>2, <2>5, <3>1
    <3>3. [e EXCEPT !.worn = noted] = e
      BY <2>2, <3>2 DEF Entry
    <3>4. u.st = Append(s.st, e) /\ u.noted = 0
      BY <2>4, <3>1, <3>3
    <3>5. /\ Len(Append(s.st, e)) = k + 1 /\ Append(s.st, e)[k + 1] = e
          /\ \A i \in 1 .. k : Append(s.st, e)[i] = s.st[i]
      BY <2>2, <2>3, <3>1
    <3>6. \A i \in 1 .. k + 1 : i = k + 1 \/ i \in 1 .. k
      BY <2>1
    <3>7. \A i \in 1 .. k + 1 : u.st[i] = h[i]
      BY <2>3, <2>6, <3>1, <3>4, <3>5, <3>6
    <3>8. k + 1 <= MaxObjSave /\ Len(u.st) = k + 1 /\ ~(k + 1 > MaxObjSave)
      BY <1>1, <2>1, <2>8, <3>4, <3>5
    <3>9. \A i \in 1 .. Len(u.st) : u.st[i] = h[i]
      BY <3>7, <3>8
    <3>10. u.noted = 0
      BY <3>4
    <3> QED
      BY <2>1, <2>6, <2>7, <3>8, <3>9, <3>10
  <2>9. CASE k >= MaxObjSave
    <3>1. Len(s.st) = MaxObjSave /\ Len(s.st) >= MaxObjSave
      BY <2>1, <2>3, <2>9
    <3>2. u.st = s.st
      BY <2>3, <2>4, <3>1 DEF SavedSet
    <3>3. k + 1 > MaxObjSave /\ ~(k + 1 <= MaxObjSave)
      BY <2>1, <2>9
    <3> QED
      BY <2>1, <2>3, <2>6, <2>7, <3>1, <3>2, <3>3
  <2> QED
    BY <2>1, <2>8, <2>9
<1> HIDE DEF good
<1>8. \A k \in 0 .. n : k \in good
  BY <1>1, <1>6, <1>7, Counting
<1>9. /\ r[n] \in SavedSet /\ Len(r[n].st) = m /\ \A i \in 1 .. m : r[n].st[i] = h[i]
  <2>1. n \in good
    BY <1>1, <1>8
  <2>2. /\ r[n] \in SavedSet
        /\ n <= MaxObjSave => Len(r[n].st) = n
        /\ n > MaxObjSave => Len(r[n].st) = MaxObjSave
        /\ \A i \in 1 .. Len(r[n].st) : r[n].st[i] = h[i]
    BY <2>1 DEF good
  <2>3. Len(r[n].st) = m
    BY <1>1, <1>5, <2>2
  <2> QED
    BY <2>2, <2>3
<1> DEFINE st == SaveObj(h)
           a == SubSeq(h, 1, m)
<1>10. st \in Seq(Entry) /\ Len(st) = m /\ \A i \in 1 .. m : st[i] = h[i]
  BY <1>4, <1>9 DEF SavedSet
<1>11. a \in Seq(Entry) /\ Len(a) = m /\ \A i \in 1 .. m : a[i] = h[i]
  <2>1. h \in Seq(Entry) /\ m \in 0 .. Len(h)
    BY <1>1, <1>5
  <2> QED
    BY <2>1, FirstOnes
<1> HIDE DEF st, a
<1>12. st = a
  BY <1>5, <1>10, <1>11, SeqEqual
<1> QED
  BY <1>1, <1>5, <1>10, <1>12 DEF st, a

(* A record notes no slot twice, though what is not stored leaves its slot to
   the next object. *)
LEMMA SaveSlots ==
    ASSUME NEW h \in Seq(Entry), SlotOnce(h)
    PROVE  SaveObj(h) \in Seq(Entry) /\ SlotOnce(SaveObj(h))
<1> DEFINE n == Len(h)
<1>1. /\ n \in Nat /\ DOMAIN h = 1 .. n /\ n = Len(h)
      /\ \A k \in 1 .. n : h[k] \in Entry /\ h[k].worn \in 0 .. Slots /\ h[k].worn \in Nat
  BY EntryNumbers
<1>2. Unsaved \in SavedSet /\ Unsaved.st = << >> /\ Unsaved.noted = 0
  BY DEF Unsaved, SavedSet
<1>3. \A s \in SavedSet, k \in DOMAIN h : PutObjInStore(s, h[k]) \in SavedSet
  BY <1>1, PutsOne
<1>4. PICK r : /\ r[0] = Unsaved
               /\ \A k \in 1 .. n : r[k] = PutObjInStore(r[k - 1], h[k])
               /\ SaveObj(h) = r[n].st
  BY <1>1, <1>2, <1>3, SavingSteps
<1> HIDE DEF n
<1> DEFINE seen(k) == {0} \cup {h[j].worn : j \in 1 .. k}
           good == {k \in 0 .. n :
                      /\ r[k] \in SavedSet /\ SlotOnce(r[k].st) /\ r[k].noted \in seen(k)
                      /\ \A i \in DOMAIN r[k].st : r[k].st[i].worn \in seen(k)
                      /\ r[k].noted > 0 => \A i \in DOMAIN r[k].st : r[k].st[i].worn # r[k].noted}
<1>5. 0 \in good
  <2>1. DOMAIN << >> = {} /\ 0 \in 0 .. n /\ SlotOnce(<< >>) /\ 0 \in seen(0)
    BY <1>1 DEF SlotOnce
  <2>2. r[0] \in SavedSet /\ r[0].st = << >> /\ r[0].noted = 0
    BY <1>2, <1>4
  <2> HIDE DEF seen
  <2> QED
    BY <2>1, <2>2
<1>6. ASSUME NEW k \in 0 .. n - 1, k \in good PROVE k + 1 \in good
  <2> DEFINE s == r[k]
             u == r[k + 1]
             e == h[k + 1]
             noted == IF e.worn > 0 THEN e.worn ELSE s.noted
  <2>1. k + 1 \in 1 .. n /\ (k + 1) - 1 = k /\ k \in Nat /\ k + 1 \in 0 .. n
    BY <1>1
  <2>2. u = PutObjInStore(s, e) /\ e \in Entry /\ e.worn \in Nat /\ e.worn \in 0 .. Slots
    BY <1>1, <1>4, <2>1
  <2>3. /\ s \in SavedSet /\ s.st \in Seq(Entry) /\ Len(s.st) \in Nat /\ s.noted \in Nat
        /\ SlotOnce(s.st) /\ s.noted \in seen(k) /\ s.noted \in 0 .. Slots
        /\ \A i \in DOMAIN s.st : s.st[i].worn \in seen(k)
        /\ s.noted > 0 => \A i \in DOMAIN s.st : s.st[i].worn # s.noted
    BY <1>6 DEF SavedSet
  <2>4. u = IF ~ e.kept \/ Len(s.st) >= MaxObjSave THEN [s EXCEPT !.noted = noted]
            ELSE [st |-> Append(s.st, [e EXCEPT !.worn = noted]), noted |-> 0]
    BY <2>2 DEF PutObjInStore
  <2>5. noted = IF e.worn > 0 THEN e.worn ELSE s.noted
    OBVIOUS
  <2>6. u = r[k + 1] /\ e = h[k + 1]
    OBVIOUS
  <2>7. seen(k + 1) = seen(k) \cup {e.worn} /\ 0 \in seen(k + 1)
    <3>1. 1 .. k + 1 = (1 .. k) \cup {k + 1}
      BY <2>1
    <3> QED
      BY <3>1
  <2>8. e.worn > 0 => e.worn \notin seen(k)
    <3>1. \A j \in 1 .. k : j \in 1 .. n /\ j # k + 1
      BY <1>1, <2>1
    <3>2. e.worn > 0 => \A j \in 1 .. k : h[j].worn # e.worn
      BY <1>1, <2>1, <3>1 DEF SlotOnce
    <3> QED
      BY <3>2
  <2> HIDE DEF s, u, e, noted, seen
  <2>9. u \in SavedSet
    BY <2>2, <2>3, PutsOne
  <2>10. /\ noted \in seen(k + 1) /\ noted \in 0 .. Slots
         /\ noted > 0 => \A i \in DOMAIN s.st : s.st[i].worn # noted
    BY <2>2, <2>3, <2>5, <2>7, <2>8
  <2>11. CASE ~ e.kept \/ Len(s.st) >= MaxObjSave
    <3>1. u.st = s.st /\ u.noted = noted
      BY <2>3, <2>4, <2>11 DEF SavedSet
    <3>2. \A i \in DOMAIN s.st : s.st[i].worn \in seen(k + 1)
      BY <2>3, <2>7
    <3> QED
      BY <2>1, <2>3, <2>6, <2>9, <2>10, <3>1, <3>2
  <2>12. CASE ~(~ e.kept \/ Len(s.st) >= MaxObjSave)
    <3> DEFINE f == [e EXCEPT !.worn = noted]
               t == Append(s.st, f)
    <3>1. f \in Entry /\ f.worn = noted
      BY <2>2, <2>10 DEF Entry
    <3>2. u.st = t /\ u.noted = 0
      BY <2>4, <2>12
    <3> HIDE DEF f
    <3>3. /\ DOMAIN t = 1 .. Len(s.st) + 1 /\ DOMAIN s.st = 1 .. Len(s.st)
          /\ t[Len(s.st) + 1] = f /\ \A i \in 1 .. Len(s.st) : t[i] = s.st[i]
      BY <2>3, <3>1
    <3> HIDE DEF t
    <3>4. \A i \in DOMAIN t : i = Len(s.st) + 1 \/ i \in DOMAIN s.st
      BY <2>3, <3>3
    <3>5. \A i \in DOMAIN t : t[i].worn \in seen(k + 1)
      BY <2>3, <2>7, <2>10, <3>1, <3>3, <3>4
    <3>6. SlotOnce(t)
      BY <2>3, <2>10, <3>1, <3>3, <3>4 DEF SlotOnce
    <3> QED
      BY <2>1, <2>6, <2>7, <2>9, <3>2, <3>5, <3>6
  <2> QED
    BY <2>11, <2>12
<1> HIDE DEF good
<1>7. \A k \in 0 .. n : k \in good
  BY <1>1, <1>5, <1>6, Counting
<1>8. r[n] \in SavedSet /\ SlotOnce(r[n].st)
  BY <1>1, <1>7 DEF good
<1> QED
  BY <1>4, <1>8 DEF SavedSet

(* So what has the shape comes back. *)
LEMMA ShapedComesBack ==
    ASSUME NEW h \in Seq(Entry), Shaped(h)
    PROVE  ComesBack(h)
<1>1. ASSUME Tidy(h)
      PROVE  Places(ObjStoreToChar(SaveObj(h)))
               = Places(SubSeq(h, 1, Min({Len(h), MaxObjSave})))
  <2> DEFINE st == SaveObj(h)
             m == Min({Len(h), MaxObjSave})
  <2>1. /\ Len(h) \in Nat /\ DOMAIN h = 1 .. Len(h) /\ \A k \in DOMAIN h : h[k].kept
        /\ \A k \in 2 .. Len(h) : h[k].depth >= h[k - 1].depth - 1
    BY <1>1 DEF Tidy
  <2>2. /\ st \in Seq(Entry) /\ m \in 0 .. Len(h) /\ Len(st) = m
        /\ \A i \in 1 .. m : st[i] = h[i]
        /\ st = SubSeq(h, 1, m)
    BY <2>1, SaveTidy
  <2> HIDE DEF st, m
  <2>3. /\ DOMAIN st = 1 .. m /\ \A i \in 1 .. m : i \in DOMAIN h
        /\ \A k \in 2 .. m : k \in 2 .. Len(h) /\ k \in 1 .. m /\ k - 1 \in 1 .. m
    BY <2>1, <2>2
  <2>4. Steady(st) /\ \A k \in 2 .. Len(st) : st[k].depth >= st[k - 1].depth - 1
    BY <2>1, <2>2, <2>3 DEF Shaped, Steady
  <2>5. WornOnce(st)
    BY <2>2, <2>3 DEF Shaped, WornOnce
  <2>6. st # << >> => st[1].depth = 0
    <3> SUFFICES ASSUME st # << >> PROVE st[1].depth = 0
      OBVIOUS
    <3>1. 1 \in 1 .. m /\ h # << >>
      BY <2>1, <2>2
    <3> QED
      BY <2>2, <3>1 DEF Shaped
  <2>7. Places(ObjStoreToChar(st)) = Places(st)
    BY <2>2, <2>4, <2>5, <2>6, TidyLoads DEF Shaped
  <2> QED
    BY <2>2, <2>7 DEF st, m
<1>2. ASSUME Headed(h) PROVE Items(ObjStoreToChar(SaveObj(h))) = Items(SaveObj(h))
  <2>1. SaveObj(h) \in Seq(Entry) /\ SlotOnce(SaveObj(h))
    BY SaveSlots DEF Shaped, WornOnce, SlotOnce
  <2>2. SaveObj(h) # << >> => SaveObj(h)[1].depth = 0
    BY <1>2 DEF Headed
  <2> QED
    BY <2>1, <2>2, HeadedLoads
<1> QED
  BY <1>1, <1>2 DEF ComesBack

\* Whatever a player comes to own, a record of it gives back: all of it and each
\* object in its place where everything can be stored and no two containers end
\* at once, and every object it lists where the first is in nothing (save_obj,
\* obj_store_to_char).
THEOREM WhatIsOwnedComesBack == Spec => []RestoredInPlace
<1>1. TypeOK /\ HeapsShaped => RestoredInPlace
  <2> SUFFICES ASSUME TypeOK, HeapsShaped, NEW p \in playing PROVE ComesBack(heap[p])
    BY DEF RestoredInPlace
  <2>1. p \in Owner /\ heap[p] \in Seq(Entry)
    BY DEF TypeOK, Owner
  <2>2. Shaped(heap[p])
    BY <2>1 DEF HeapsShaped
  <2> QED
    BY <2>1, <2>2, ShapedComesBack
<1>2. Spec => [](TypeOK /\ HeapsShaped)
  BY AlwaysShaped
<1> QED
  BY <1>1, <1>2, PTL
=============================================================================
