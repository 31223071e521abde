-------------------------- MODULE EventQueueProofs --------------------------
(***************************************************************************)
(* Proofs about EventQueue for any number of buckets, events and delays.   *)
(***************************************************************************)
EXTENDS EventQueue, WellFoundedInduction, TLAPS

(* The scan of queue_enq stops at a position, and at one position only as  *)
(* far as its two conditions tell: everything behind it is not smaller.    *)
LEMMA InsertPointProps ==
    ASSUME NEW s \in Seq(Element), NEW k \in Nat
    PROVE  /\ InsertPoint(s, k) \in 0 .. Len(s)
           /\ InsertPoint(s, k) = 0 \/ s[InsertPoint(s, k)].key < k
           /\ \A i \in 1 .. Len(s) : i > InsertPoint(s, k) => ~(s[i].key < k)
<1> DEFINE Stop(p) == /\ p = 0 \/ s[p].key < k
                      /\ \A i \in 1 .. Len(s) : i > p => ~(s[i].key < k)
           Back == {d \in Nat : d <= Len(s) /\ (d = Len(s) \/ s[Len(s) - d].key < k)}
<1>1. Len(s) \in Nat
  OBVIOUS
<1>2. Back \subseteq Nat /\ Len(s) \in Back
  BY <1>1
<1>3. PICK d \in Back : \A c \in Back : ~(<<c, d>> \in OpToRel(<, Nat))
  BY <1>2, NatLessThanWellFounded, WFMin
<1>4. \A c \in Back : ~(c < d)
  BY <1>2, <1>3 DEF OpToRel
<1>5. Len(s) - d \in 0 .. Len(s) /\ (Len(s) - d = 0 \/ s[Len(s) - d].key < k)
  BY <1>1
<1>6. ASSUME NEW i \in 1 .. Len(s), i > Len(s) - d, s[i].key < k
      PROVE  FALSE
  <2>1. Len(s) - i \in Back
    <3>1. Len(s) - (Len(s) - i) = i
      BY <1>1
    <3> QED
      BY <1>1, <1>6, <3>1
  <2> QED
    BY <2>1, <1>1, <1>4, <1>6
<1>7. \E p \in 0 .. Len(s) : Stop(p)
  BY <1>5, <1>6
<1> QED
  BY <1>7 DEF InsertPoint

(* Linking an element in: the list grows by one, x stands behind position  *)
(* p and the others keep their order.                                      *)
LEMMA LinkAfterProps ==
    ASSUME NEW s \in Seq(Element), NEW p \in 0 .. Len(s), NEW x \in Element
    PROVE  /\ LinkAfter(s, p, x) \in Seq(Element)
           /\ DOMAIN LinkAfter(s, p, x) = 1 .. Len(s) + 1
           /\ \A i \in 1 .. Len(s) + 1 :
                 LinkAfter(s, p, x)[i] = IF i <= p THEN s[i]
                                         ELSE IF i = p + 1 THEN x ELSE s[i - 1]
<1> DEFINE t == LinkAfter(s, p, x)
<1>1. Len(s) \in Nat /\ \A i \in 1 .. Len(s) : s[i] \in Element
  OBVIOUS
<1>2. t = [i \in 1 .. Len(s) + 1 |->
             IF i <= p THEN s[i] ELSE IF i = p + 1 THEN x ELSE s[i - 1]]
  BY DEF LinkAfter
<1>3. \A i \in 1 .. Len(s) + 1 :
         (IF i <= p THEN s[i] ELSE IF i = p + 1 THEN x ELSE s[i - 1]) \in Element
  BY <1>1
<1>4. t \in [1 .. Len(s) + 1 -> Element]
  BY <1>2, <1>3
<1>5. t \in Seq(Element)
  BY <1>1, <1>4
<1> QED
  BY <1>2, <1>5

(* Unlinking the i-th element: the list shrinks by one and the others keep *)
(* their order.                                                            *)
LEMMA UnlinkProps ==
    ASSUME NEW s \in Seq(Element), NEW i \in 1 .. Len(s)
    PROVE  /\ Unlink(s, i) \in Seq(Element)
           /\ DOMAIN Unlink(s, i) = 1 .. Len(s) - 1
           /\ \A j \in 1 .. Len(s) - 1 :
                 Unlink(s, i)[j] = IF j < i THEN s[j] ELSE s[j + 1]
<1> DEFINE t == Unlink(s, i)
<1>1. Len(s) \in Nat /\ \A j \in 1 .. Len(s) : s[j] \in Element
  OBVIOUS
<1>2. t = [j \in 1 .. Len(s) - 1 |-> IF j < i THEN s[j] ELSE s[j + 1]]
  BY DEF Unlink
<1>3. t \in [1 .. Len(s) - 1 -> Element]
  BY <1>1, <1>2
<1>4. Len(s) - 1 \in Nat
  BY <1>1
<1>5. t \in Seq(Element)
  BY <1>3, <1>4
<1> QED
  BY <1>2, <1>5

-----------------------------------------------------------------------------
(* The inductive invariant holds initially.                                *)
LEMMA InitIndInv == Init => IndInv
<1> SUFFICES ASSUME Init PROVE IndInv
  OBVIOUS
<1> USE NQAssumption, BoundAssumption
<1>1. \A b \in Bucket : bucket[b] = << >>
  BY DEF Init
<1>2. TypeOK
  BY DEF Init, TypeOK
<1> QED
  BY <1>1, <1>2 DEF IndInv, KeysInTheirBucket, BucketsSorted, NoKeyInThePast,
                    RunningIsNotQueued, QueuedOnce

(* Linking x in at the position of the scan keeps the list sorted.         *)
LEMMA LinkKeepsOrder ==
    ASSUME NEW s \in Seq(Element), NEW x \in Element, NEW p \in 0 .. Len(s), NEW t,
           \A i, j \in DOMAIN s : i < j => s[i].key <= s[j].key,
           p = 0 \/ s[p].key < x.key,
           \A i \in 1 .. Len(s) : i > p => ~(s[i].key < x.key),
           DOMAIN t = 1 .. Len(s) + 1,
           \A i \in 1 .. Len(s) + 1 :
              t[i] = IF i <= p THEN s[i] ELSE IF i = p + 1 THEN x ELSE s[i - 1]
    PROVE  \A i, j \in DOMAIN t : i < j => t[i].key <= t[j].key
<1>1. Len(s) \in Nat /\ DOMAIN s = 1 .. Len(s) /\ x.key \in Nat
  BY DEF Element
<1>2. \A m \in 1 .. Len(s) : s[m].key \in Nat
  <2>1. \A m \in 1 .. Len(s) : s[m] \in Element
    OBVIOUS
  <2> QED
    BY <2>1 DEF Element
<1>3. \A m \in 1 .. Len(s) : m <= p => s[m].key <= x.key
  <2>1. \A m \in 1 .. Len(s) : m < p => s[m].key <= s[p].key
    BY <1>1
  <2> QED
    BY <1>1, <1>2, <2>1
<1>4. \A m \in 1 .. Len(s) : m > p => x.key <= s[m].key
  BY <1>1, <1>2
<1>5. \A m, n \in 1 .. Len(s) : m < n => s[m].key <= s[n].key
  BY <1>1
<1>6. \A i \in DOMAIN t :
         \/ i <= p /\ i \in 1 .. Len(s) /\ t[i] = s[i]
         \/ i = p + 1 /\ t[i] = x
         \/ i > p + 1 /\ i - 1 \in 1 .. Len(s) /\ t[i] = s[i - 1]
  BY <1>1
<1> SUFFICES ASSUME NEW i \in DOMAIN t, NEW j \in DOMAIN t, i < j
             PROVE  t[i].key <= t[j].key
  OBVIOUS
<1>7. i \in Nat /\ j \in Nat /\ p \in Nat
  BY <1>1
<1>8. CASE j <= p
  <2>1. /\ i \in 1 .. Len(s) /\ t[i] = s[i]
        /\ j \in 1 .. Len(s) /\ t[j] = s[j]
    BY <1>6, <1>7, <1>8
  <2> QED
    BY <1>5, <2>1
<1>9. CASE j = p + 1
  <2>1. i \in 1 .. Len(s) /\ t[i] = s[i] /\ i <= p /\ t[j] = x
    BY <1>6, <1>7, <1>9
  <2> QED
    BY <1>3, <2>1
<1>10. CASE j > p + 1
  <2>1. j - 1 \in 1 .. Len(s) /\ t[j] = s[j - 1]
    BY <1>6, <1>7, <1>10
  <2>2. CASE i <= p
    <3>1. i \in 1 .. Len(s) /\ t[i] = s[i] /\ i < j - 1
      BY <1>6, <1>7, <1>10, <2>2
    <3> QED
      BY <1>5, <2>1, <3>1
  <2>3. CASE i = p + 1
    <3>1. t[i] = x /\ j - 1 > p
      BY <1>6, <1>7, <1>10, <2>3
    <3> QED
      BY <1>4, <2>1, <3>1
  <2>4. CASE i > p + 1
    <3>1. i - 1 \in 1 .. Len(s) /\ t[i] = s[i - 1] /\ i - 1 < j - 1
      BY <1>6, <1>7, <2>4
    <3> QED
      BY <1>5, <2>1, <3>1
  <2> QED
    BY <1>7, <2>2, <2>3, <2>4
<1> QED
  BY <1>7, <1>8, <1>9, <1>10

Distinct(s) == \A i, j \in DOMAIN s : s[i].data = s[j].data => i = j

(* Linking in an element whose event is not in the list duplicates none.   *)
LEMMA LinkKeepsDistinct ==
    ASSUME NEW s \in Seq(Element), NEW x \in Element, NEW p \in 0 .. Len(s), NEW t,
           Distinct(s),
           \A i \in DOMAIN s : s[i].data # x.data,
           DOMAIN t = 1 .. Len(s) + 1,
           \A i \in 1 .. Len(s) + 1 :
              t[i] = IF i <= p THEN s[i] ELSE IF i = p + 1 THEN x ELSE s[i - 1]
    PROVE  Distinct(t)
<1> USE DEF Distinct
<1>1. Len(s) \in Nat /\ DOMAIN s = 1 .. Len(s) /\ p \in Nat
  OBVIOUS
<1>2. \A i \in DOMAIN t : i \in Nat /\
         (\/ i <= p /\ i \in DOMAIN s /\ t[i] = s[i]
          \/ i = p + 1 /\ t[i] = x
          \/ i > p + 1 /\ i - 1 \in DOMAIN s /\ t[i] = s[i - 1])
  BY <1>1
<1> SUFFICES ASSUME NEW i \in DOMAIN t, NEW j \in DOMAIN t, t[i].data = t[j].data
             PROVE  i = j
  OBVIOUS
<1>3. CASE i <= p
  <2>1. i \in DOMAIN s /\ t[i] = s[i]
    BY <1>1, <1>2, <1>3
  <2> QED
    BY <1>1, <1>2, <1>3, <2>1
<1>4. CASE i = p + 1
  <2>1. t[i] = x
    BY <1>1, <1>2, <1>4
  <2> QED
    BY <1>1, <1>2, <1>4, <2>1
<1>5. CASE i > p + 1
  <2>1. i - 1 \in DOMAIN s /\ t[i] = s[i - 1]
    BY <1>1, <1>2, <1>5
  <2> QED
    BY <1>1, <1>2, <1>5, <2>1
<1> QED
  BY <1>1, <1>2, <1>3, <1>4, <1>5

(* queue_enq keeps every bucket sorted, files the element under its key    *)
(* and adds it once.                                                       *)
LEMMA EnqPreserves ==
    ASSUME IndInv, NEW e \in Event, NEW k \in Nat, e \notin Queued, QueueEnq(e, k)
    PROVE  /\ bucket' \in [Bucket -> Seq(Element)]
           /\ \A b \in Bucket : \A i \in DOMAIN bucket'[b] :
                 /\ bucket'[b][i].key % NQ = b
                 /\ \/ bucket'[b][i] = [data |-> e, key |-> k]
                    \/ \E j \in DOMAIN bucket[b] : bucket'[b][i] = bucket[b][j]
           /\ \A b \in Bucket : \A i, j \in DOMAIN bucket'[b] :
                 i < j => bucket'[b][i].key <= bucket'[b][j].key
           /\ \A b, c \in Bucket : \A i \in DOMAIN bucket'[b], j \in DOMAIN bucket'[c] :
                 bucket'[b][i].data = bucket'[c][j].data => b = c /\ i = j
<1> DEFINE B == k % NQ
           s == bucket[B]
           x == [data |-> e, key |-> k]
           p == InsertPoint(s, k)
           t == LinkAfter(s, p, x)
<1>1. B \in Bucket
  BY NQAssumption DEF Bucket
<1>2. s \in Seq(Element) /\ x \in Element
  BY <1>1 DEF IndInv, TypeOK, Element
<1>3. /\ p \in 0 .. Len(s)
      /\ p = 0 \/ s[p].key < k
      /\ \A i \in 1 .. Len(s) : i > p => ~(s[i].key < k)
  BY <1>2, InsertPointProps
<1>4. /\ t \in Seq(Element)
      /\ DOMAIN t = 1 .. Len(s) + 1
      /\ \A i \in 1 .. Len(s) + 1 :
            t[i] = IF i <= p THEN s[i] ELSE IF i = p + 1 THEN x ELSE s[i - 1]
  BY <1>2, <1>3, LinkAfterProps
<1>5. bucket' = [bucket EXCEPT ![B] = t]
  BY DEF QueueEnq
<1>6. bucket \in [Bucket -> Seq(Element)]
  BY DEF IndInv, TypeOK
<1>7. /\ bucket'[B] = t
      /\ \A b \in Bucket : b # B => bucket'[b] = bucket[b]
  BY <1>1, <1>5, <1>6
<1>8. Len(s) \in Nat /\ DOMAIN s = 1 .. Len(s) /\ \A i \in 1 .. Len(s) : s[i] \in Element
  BY <1>2
<1>9. \A i \in DOMAIN s : s[i].data # e
  BY <1>1 DEF Queued, Elements
<1>10. \A i \in DOMAIN t : t[i] = x \/ \E j \in DOMAIN s : t[i] = s[j]
  <2> HIDE DEF s, x, p, t
  <2> SUFFICES ASSUME NEW i \in DOMAIN t
               PROVE  t[i] = x \/ \E j \in DOMAIN s : t[i] = s[j]
    OBVIOUS
  <2>1. \/ i \in DOMAIN s /\ t[i] = s[i]
        \/ t[i] = x
        \/ i - 1 \in DOMAIN s /\ t[i] = s[i - 1]
    BY <1>3, <1>4, <1>8
  <2> QED
    BY <2>1
<1>11. \A i, j \in DOMAIN t : i < j => t[i].key <= t[j].key
  <2>1. \A i, j \in DOMAIN s : i < j => s[i].key <= s[j].key
    BY <1>1 DEF IndInv, BucketsSorted
  <2>2. x.key = k
    OBVIOUS
  <2> HIDE DEF s, x, p, t
  <2> QED
    BY <1>2, <1>3, <1>4, <2>1, <2>2, LinkKeepsOrder
<1>12. Distinct(t)
  <2>1. Distinct(s)
    BY <1>1 DEF IndInv, QueuedOnce, Distinct
  <2>2. \A i \in DOMAIN s : s[i].data # x.data
    BY <1>9
  <2> HIDE DEF s, x, p, t
  <2> QED
    BY <1>2, <1>3, <1>4, <2>1, <2>2, LinkKeepsDistinct
<1>13. ASSUME NEW c \in Bucket, c # B, NEW i \in DOMAIN t, NEW j \in DOMAIN bucket[c]
       PROVE  t[i].data # bucket[c][j].data
  <2>1. bucket[c][j].data # e
    BY DEF Queued, Elements
  <2>2. \A m \in DOMAIN s : s[m].data # bucket[c][j].data
    BY <1>1, <1>13 DEF IndInv, QueuedOnce
  <2> QED
    BY <1>10, <2>1, <2>2
<1>14. bucket' \in [Bucket -> Seq(Element)]
  BY <1>4, <1>5, <1>6
<1>15. ASSUME NEW b \in Bucket, NEW i \in DOMAIN bucket'[b]
       PROVE  /\ bucket'[b][i].key % NQ = b
              /\ \/ bucket'[b][i] = x
                 \/ \E j \in DOMAIN bucket[b] : bucket'[b][i] = bucket[b][j]
  <2>1. \/ bucket'[b][i] = x /\ b = B
        \/ \E j \in DOMAIN bucket[b] : bucket'[b][i] = bucket[b][j]
    BY <1>7, <1>10
  <2>2. \A j \in DOMAIN bucket[b] : bucket[b][j].key % NQ = b
    BY DEF IndInv, KeysInTheirBucket
  <2> QED
    BY <2>1, <2>2
<1>16. ASSUME NEW b \in Bucket, NEW i \in DOMAIN bucket'[b], NEW j \in DOMAIN bucket'[b], i < j
       PROVE  bucket'[b][i].key <= bucket'[b][j].key
  BY <1>7, <1>11, <1>16 DEF IndInv, BucketsSorted
<1>17. ASSUME NEW b \in Bucket, NEW c \in Bucket,
              NEW i \in DOMAIN bucket'[b], NEW j \in DOMAIN bucket'[c],
              bucket'[b][i].data = bucket'[c][j].data
       PROVE  b = c /\ i = j
  <2>1. CASE b = B /\ c = B
    BY <1>7, <1>12, <1>17, <2>1 DEF Distinct
  <2>2. CASE b = B /\ c # B
    BY <1>7, <1>13, <1>17, <2>2
  <2>3. CASE b # B /\ c = B
    BY <1>7, <1>13, <1>17, <2>3
  <2>4. CASE b # B /\ c # B
    BY <1>7, <1>17, <2>4 DEF IndInv, QueuedOnce
  <2> QED
    BY <2>1, <2>2, <2>3, <2>4
<1> QED
  BY <1>14, <1>15, <1>16, <1>17

(* queue_deq takes out exactly the element it is given.                    *)
LEMMA DeqPreserves ==
    ASSUME IndInv, NEW B \in Bucket, NEW n \in DOMAIN bucket[B], QueueDeq(B, n)
    PROVE  /\ bucket' \in [Bucket -> Seq(Element)]
           /\ \A b \in Bucket : \A i \in DOMAIN bucket'[b] :
                 \E j \in DOMAIN bucket[b] :
                    /\ bucket'[b][i] = bucket[b][j]
                    /\ bucket[b][j].data # bucket[B][n].data
           /\ \A b \in Bucket : \A i, j \in DOMAIN bucket'[b] :
                 i < j => bucket'[b][i].key <= bucket'[b][j].key
           /\ \A b, c \in Bucket : \A i \in DOMAIN bucket'[b], j \in DOMAIN bucket'[c] :
                 bucket'[b][i].data = bucket'[c][j].data => b = c /\ i = j
<1> DEFINE s == bucket[B]
           t == Unlink(s, n)
           From(i) == IF i < n THEN i ELSE i + 1
<1>1. bucket \in [Bucket -> Seq(Element)] /\ s \in Seq(Element)
  BY DEF IndInv, TypeOK
<1>2. Len(s) \in Nat /\ DOMAIN s = 1 .. Len(s) /\ n \in 1 .. Len(s)
  BY <1>1
<1>3. /\ t \in Seq(Element)
      /\ DOMAIN t = 1 .. Len(s) - 1
      /\ \A j \in 1 .. Len(s) - 1 : t[j] = IF j < n THEN s[j] ELSE s[j + 1]
  BY <1>1, <1>2, UnlinkProps
<1>4. bucket' = [bucket EXCEPT ![B] = t]
  BY DEF QueueDeq
<1>5. /\ bucket'[B] = t
      /\ \A b \in Bucket : b # B => bucket'[b] = bucket[b]
      /\ bucket' \in [Bucket -> Seq(Element)]
  BY <1>1, <1>3, <1>4
<1>6. \A i \in DOMAIN t :
         From(i) \in DOMAIN s /\ From(i) # n /\ t[i] = s[From(i)] /\ i \in Nat
  <2> HIDE DEF s, t
  <2> QED
    BY <1>2, <1>3
<1>7. \A b, c \in Bucket : \A i \in DOMAIN bucket[b], j \in DOMAIN bucket[c] :
         bucket[b][i].data = bucket[c][j].data => b = c /\ i = j
  BY DEF IndInv, QueuedOnce
<1>8. ASSUME NEW b \in Bucket, NEW i \in DOMAIN bucket'[b]
      PROVE  \E j \in DOMAIN bucket[b] :
                /\ bucket'[b][i] = bucket[b][j]
                /\ bucket[b][j].data # bucket[B][n].data
  <2>1. CASE b = B
    <3>1. From(i) \in DOMAIN bucket[b] /\ From(i) # n /\ bucket'[b][i] = bucket[b][From(i)]
      BY <1>5, <1>6, <2>1
    <3> HIDE DEF From
    <3> QED
      BY <1>7, <2>1, <3>1
  <2>2. CASE b # B
    BY <1>5, <1>7, <2>2
  <2> QED
    BY <2>1, <2>2
<1>9. \A i, j \in DOMAIN t : i < j => From(i) < From(j)
  BY <1>2, <1>6
<1>10. \A i, j \in DOMAIN t : From(i) = From(j) => i = j
  BY <1>2, <1>6
<1>11. ASSUME NEW b \in Bucket, NEW i \in DOMAIN bucket'[b], NEW j \in DOMAIN bucket'[b], i < j
       PROVE  bucket'[b][i].key <= bucket'[b][j].key
  <2>1. \A p, q \in DOMAIN bucket[b] : p < q => bucket[b][p].key <= bucket[b][q].key
    BY DEF IndInv, BucketsSorted
  <2>2. CASE b = B
    <3>1. /\ From(i) \in DOMAIN bucket[b] /\ bucket'[b][i] = bucket[b][From(i)]
          /\ From(j) \in DOMAIN bucket[b] /\ bucket'[b][j] = bucket[b][From(j)]
          /\ From(i) < From(j)
      BY <1>5, <1>6, <1>9, <1>11, <2>2
    <3> HIDE DEF From
    <3> QED
      BY <2>1, <3>1
  <2>3. CASE b # B
    BY <1>5, <1>11, <2>1, <2>3
  <2> QED
    BY <2>2, <2>3
<1>12. ASSUME NEW b \in Bucket, NEW c \in Bucket,
              NEW i \in DOMAIN bucket'[b], NEW j \in DOMAIN bucket'[c],
              bucket'[b][i].data = bucket'[c][j].data
       PROVE  b = c /\ i = j
  <2>1. b = c
    BY <1>7, <1>8, <1>12
  <2>2. CASE b = B
    <3>1. /\ From(i) \in DOMAIN bucket[b] /\ bucket'[b][i] = bucket[b][From(i)]
          /\ From(j) \in DOMAIN bucket[b] /\ bucket'[b][j] = bucket[b][From(j)]
          /\ From(i) = From(j) => i = j
      BY <1>5, <1>6, <1>10, <2>1, <2>2
    <3> HIDE DEF From
    <3> QED
      BY <1>7, <1>12, <2>1, <3>1
  <2>3. CASE b # B
    BY <1>5, <1>7, <1>12, <2>1, <2>3
  <2> QED
    BY <2>1, <2>2, <2>3
<1> QED
  BY <1>5, <1>8, <1>11, <1>12

(* Every step keeps the inductive invariant.                               *)
LEMMA NextIndInv == IndInv /\ [Next]_vars => IndInv'
<1> SUFFICES ASSUME IndInv, [Next]_vars PROVE IndInv'
  OBVIOUS
<1> USE NQAssumption, EventAssumption, BoundAssumption
<1>t. /\ pulse \in 0 .. MaxPulse
      /\ bucket \in [Bucket -> Seq(Element)]
      /\ control \in {"game", "loop", "callback"}
      /\ running \in Event \cup {NoEvent}
  BY DEF IndInv, TypeOK
<1>k. \A b \in Bucket : \A i \in DOMAIN bucket[b] : bucket[b][i] \in Element
  BY <1>t
<1>1. ASSUME NEW e \in Event, NEW when \in Delay, EventCreate(e, when)
      PROVE  IndInv'
  <2> DEFINE k == pulse + Future(when)
  <2>1. k \in Nat /\ k > pulse
    BY <1>t, DelayAssumption DEF Future
  <2>2. e \notin Queued /\ e # running /\ QueueEnq(e, k)
        /\ control # "loop" /\ UNCHANGED <<pulse, control, running>>
    BY <1>1 DEF EventCreate
  <2> HIDE DEF k
  <2>3. /\ bucket' \in [Bucket -> Seq(Element)]
        /\ \A b \in Bucket : \A i \in DOMAIN bucket'[b] :
              /\ bucket'[b][i].key % NQ = b
              /\ \/ bucket'[b][i] = [data |-> e, key |-> k]
                 \/ \E j \in DOMAIN bucket[b] : bucket'[b][i] = bucket[b][j]
        /\ \A b \in Bucket : \A i, j \in DOMAIN bucket'[b] :
              i < j => bucket'[b][i].key <= bucket'[b][j].key
        /\ \A b, c \in Bucket : \A i \in DOMAIN bucket'[b], j \in DOMAIN bucket'[c] :
              bucket'[b][i].data = bucket'[c][j].data => b = c /\ i = j
    BY <2>1, <2>2, EnqPreserves
  <2>4. TypeOK'
    BY <1>t, <2>2, <2>3 DEF TypeOK
  <2>5. KeysInTheirBucket' /\ BucketsSorted' /\ QueuedOnce'
    BY <2>3 DEF KeysInTheirBucket, BucketsSorted, QueuedOnce
  <2>6. NoKeyInThePast'
    BY <1>t, <2>1, <2>2, <2>3 DEF IndInv, NoKeyInThePast
  <2>7. RunningIsNotQueued'
    BY <2>2, <2>3 DEF IndInv, RunningIsNotQueued
  <2> QED
    BY <2>4, <2>5, <2>6, <2>7 DEF IndInv
<1>d. ASSUME NEW B \in Bucket, NEW n \in DOMAIN bucket[B], QueueDeq(B, n), pulse' = pulse,
             control' \in {"game", "loop", "callback"}, control' = "game" => control = "game",
             running' = running \/ running' = bucket[B][n].data
      PROVE  IndInv'
  <2>1. /\ bucket' \in [Bucket -> Seq(Element)]
        /\ \A b \in Bucket : \A i \in DOMAIN bucket'[b] :
              \E j \in DOMAIN bucket[b] :
                 /\ bucket'[b][i] = bucket[b][j]
                 /\ bucket[b][j].data # bucket[B][n].data
        /\ \A b \in Bucket : \A i, j \in DOMAIN bucket'[b] :
              i < j => bucket'[b][i].key <= bucket'[b][j].key
        /\ \A b, c \in Bucket : \A i \in DOMAIN bucket'[b], j \in DOMAIN bucket'[c] :
              bucket'[b][i].data = bucket'[c][j].data => b = c /\ i = j
    BY <1>d, DeqPreserves
  <2>2. bucket[B][n].data \in Event
    BY <1>k DEF Element
  <2>3. TypeOK'
    BY <1>t, <1>d, <2>1, <2>2 DEF TypeOK
  <2>4. BucketsSorted' /\ QueuedOnce'
    BY <2>1 DEF BucketsSorted, QueuedOnce
  <2>5. KeysInTheirBucket'
    BY <2>1 DEF IndInv, KeysInTheirBucket
  <2>6. NoKeyInThePast'
    BY <1>d, <2>1 DEF IndInv, NoKeyInThePast
  <2>7. RunningIsNotQueued'
    BY <1>d, <2>1 DEF IndInv, RunningIsNotQueued
  <2> QED
    BY <2>3, <2>4, <2>5, <2>6, <2>7 DEF IndInv
<1>2. ASSUME NEW e \in Event, EventCancel(e)
      PROVE  IndInv'
  BY <1>2, <1>d, <1>t DEF EventCancel
<1>3. CASE Heartbeat
  <2>1. /\ control = "game" /\ control' = "loop" /\ pulse < MaxPulse
        /\ pulse' = pulse + 1 /\ UNCHANGED <<bucket, running>>
    BY <1>3 DEF Heartbeat
  <2>2. \A b \in Bucket : \A i \in DOMAIN bucket[b] :
           bucket[b][i].key \in Nat /\ bucket[b][i].key > pulse
    BY <1>k, <2>1 DEF Element, IndInv, NoKeyInThePast
  <2>3. TypeOK'
    BY <1>t, <2>1 DEF TypeOK
  <2>4. NoKeyInThePast'
    BY <1>t, <2>1, <2>2 DEF NoKeyInThePast
  <2> QED
    BY <2>1, <2>3, <2>4 DEF IndInv, KeysInTheirBucket, BucketsSorted, QueuedOnce,
                            RunningIsNotQueued
<1>4. CASE EventProcess
  <2>1. /\ Current \in Bucket
        /\ 1 \in DOMAIN bucket[Current]
    BY <1>4, <1>t DEF EventProcess, HeadIsDue, Current, Bucket
  <2> QED
    BY <1>4, <1>d, <1>t, <2>1 DEF EventProcess
<1>5. CASE CallbackReturns
  <2>1. control = "callback" /\ control' = "loop" /\ running' = NoEvent
        /\ UNCHANGED <<pulse, bucket>>
    BY <1>5 DEF CallbackReturns
  <2>2. RunningIsNotQueued'
    BY <1>k, <2>1 DEF RunningIsNotQueued, Element
  <2>3. TypeOK'
    BY <1>t, <2>1 DEF TypeOK
  <2> QED
    BY <2>1, <2>2, <2>3 DEF IndInv, KeysInTheirBucket, BucketsSorted, QueuedOnce,
                            NoKeyInThePast
<1>6. CASE EventProcessReturns
  <2>1. control = "loop" /\ ~HeadIsDue /\ control' = "game"
        /\ UNCHANGED <<pulse, bucket, running>>
    BY <1>6 DEF EventProcessReturns
  <2>2. ASSUME NEW b \in Bucket, NEW i \in DOMAIN bucket[b]
        PROVE  bucket[b][i].key > pulse
    (* were it due now, it would be in the current bucket, behind its head *)
    <3>1. bucket[b][i].key \in Nat /\ bucket[b][i].key >= pulse /\ bucket[b][i].key % NQ = b
      BY <1>k DEF Element, IndInv, NoKeyInThePast, KeysInTheirBucket
    <3>2. SUFFICES ASSUME bucket[b][i].key = pulse PROVE FALSE
      BY <1>t, <3>1
    <3>3. b = Current
      BY <3>1, <3>2 DEF Current
    <3>4. /\ bucket[b] \in Seq(Element)
          /\ 1 \in DOMAIN bucket[b] /\ i \in Nat /\ i >= 1 /\ bucket[b] # << >>
      BY <1>t
    <3>5. bucket[b][1].key <= bucket[b][i].key
      <4>1. CASE i = 1
        BY <3>1, <4>1
      <4>2. CASE i > 1
        BY <3>4, <4>2 DEF IndInv, BucketsSorted
      <4> QED
        BY <3>4, <4>1, <4>2
    <3> QED
      BY <2>1, <3>2, <3>3, <3>4, <3>5 DEF HeadIsDue
  <2>3. NoKeyInThePast'
    BY <2>1, <2>2 DEF IndInv, NoKeyInThePast
  <2>4. TypeOK'
    BY <1>t, <2>1 DEF TypeOK
  <2> QED
    BY <2>1, <2>3, <2>4 DEF IndInv, KeysInTheirBucket, BucketsSorted, QueuedOnce,
                            RunningIsNotQueued
<1>7. CASE UNCHANGED vars
  BY <1>7 DEF vars, IndInv, TypeOK, KeysInTheirBucket, BucketsSorted, QueuedOnce,
              NoKeyInThePast, RunningIsNotQueued
<1> QED
  BY <1>1, <1>2, <1>3, <1>4, <1>5, <1>6, <1>7 DEF Next, Loop
-----------------------------------------------------------------------------
(* The invariant holds in every reachable state.                           *)
THEOREM Invariance == Spec => []IndInv
  BY InitIndInv, NextIndInv, PTL DEF Spec

(* Between two pulses nothing in the queue is due, whatever was created    *)
(* and cancelled: event_process misses nothing.                            *)
THEOREM NeverOverdue == Spec => []NothingOverdue
<1>1. IndInv => NothingOverdue
  BY DEF IndInv, NoKeyInThePast, NothingOverdue, Elements
<1> QED
  BY <1>1, Invariance, PTL

(* The state stays well typed.                                             *)
THEOREM TypeCorrect == Spec => []TypeOK
<1>1. IndInv => TypeOK
  BY DEF IndInv
<1> QED
  BY <1>1, Invariance, PTL

(* An event is queued at most once, and not while its callback runs: what   *)
(* event_cancel and event_process free, they free once.                     *)
THEOREM FreedOnce == Spec => [](RunningIsNotQueued /\ QueuedOnce)
<1>1. IndInv => RunningIsNotQueued /\ QueuedOnce
  BY DEF IndInv
<1> QED
  BY <1>1, Invariance, PTL

(* A callback is entered exactly in the pulse its event was armed for.     *)
THEOREM RunsOnTime == Spec => FiresOnTime
<1>1. ASSUME IndInv, [Next]_vars, control' = "callback", control = "loop"
      PROVE  \E x \in Elements : x.data = running' /\ x.key = pulse
  <2>1. EventProcess
    BY <1>1 DEF Next, Loop, EventCreate, EventCancel, Heartbeat, CallbackReturns,
                EventProcessReturns, vars
  <2>2. /\ Current \in Bucket
        /\ 1 \in DOMAIN bucket[Current]
        /\ bucket[Current][1] \in Element
    BY <1>1, <2>1, NQAssumption
       DEF EventProcess, HeadIsDue, Current, Bucket, IndInv, TypeOK
  <2>3. bucket[Current][1] \in Elements
    BY <2>2 DEF Elements
  <2>4. bucket[Current][1].key >= pulse /\ bucket[Current][1].key <= pulse
    BY <1>1, <2>1, <2>2 DEF EventProcess, HeadIsDue, IndInv, NoKeyInThePast
  <2>5. bucket[Current][1].key = pulse
    BY <1>1, <2>2, <2>4, BoundAssumption DEF Element, IndInv, TypeOK
  <2> QED
    BY <2>1, <2>3, <2>5 DEF EventProcess
<1>2. IndInv /\ [Next]_vars =>
        [control' = "callback" /\ control = "loop"
            => \E x \in Elements : x.data = running' /\ x.key = pulse]_vars
  BY <1>1
<1> QED
  BY <1>2, Invariance, PTL DEF Spec, FiresOnTime
-----------------------------------------------------------------------------
(* Refinement: the queue is seen as the map from queued events to keys.    *)

\* An event is queued with one key.
LEMMA ElementsDistinct ==
    ASSUME IndInv
    PROVE  \A x, y \in Elements : y.data = x.data => y = x
<1> SUFFICES ASSUME NEW x \in Elements, NEW y \in Elements, y.data = x.data PROVE y = x
  OBVIOUS
<1>1a. PICK b \in Bucket : \E i \in DOMAIN bucket[b] : x = bucket[b][i]
  BY DEF Elements
<1>1. PICK i \in DOMAIN bucket[b] : x = bucket[b][i]
  BY <1>1a
<1>2a. PICK c \in Bucket : \E j \in DOMAIN bucket[c] : y = bucket[c][j]
  BY DEF Elements
<1>2. PICK j \in DOMAIN bucket[c] : y = bucket[c][j]
  BY <1>2a
<1> QED
  BY <1>1, <1>2 DEF IndInv, QueuedOnce

\* The key the refinement maps an event to is the one it is queued with.
LEMMA KeyOfElement ==
    ASSUME IndInv, NEW x \in Elements
    PROVE  KeyOf(x.data) = x.key
BY ElementsDistinct DEF KeyOf

\* queue_enq adds its element to those queued, and that is all.
LEMMA EnqElements ==
    ASSUME IndInv, NEW e \in Event, NEW k \in Nat, e \notin Queued, QueueEnq(e, k)
    PROVE  Elements' = Elements \cup {[data |-> e, key |-> k]}
<1> DEFINE B == k % NQ
           s == bucket[B]
           x == [data |-> e, key |-> k]
           p == InsertPoint(s, k)
           t == LinkAfter(s, p, x)
<1>1. B \in Bucket /\ bucket \in [Bucket -> Seq(Element)]
  BY NQAssumption DEF Bucket, IndInv, TypeOK
<1>2. s \in Seq(Element) /\ x \in Element
  BY <1>1 DEF Element
<1>3. p \in 0 .. Len(s)
  BY <1>2, InsertPointProps
<1>4. /\ DOMAIN t = 1 .. Len(s) + 1
      /\ \A i \in 1 .. Len(s) + 1 :
            t[i] = IF i <= p THEN s[i] ELSE IF i = p + 1 THEN x ELSE s[i - 1]
  <2> HIDE DEF s, x, p
  <2> QED
    BY <1>2, <1>3, LinkAfterProps
<1>5. /\ bucket'[B] = t
      /\ \A b \in Bucket : b # B => bucket'[b] = bucket[b]
  BY <1>1 DEF QueueEnq
<1>6. p + 1 \in DOMAIN t /\ t[p + 1] = x
  <2> HIDE DEF s, x, p, t
  <2> QED
    BY <1>2, <1>3, <1>4
<1>7. \A i \in DOMAIN s : \E j \in DOMAIN t : t[j] = s[i]
  <2> HIDE DEF s, x, p, t
  <2> SUFFICES ASSUME NEW i \in DOMAIN s PROVE \E j \in DOMAIN t : t[j] = s[i]
    OBVIOUS
  <2>1. i \in 1 .. Len(s) /\ Len(s) \in Nat
    BY <1>2
  <2>2. CASE i <= p
    <3>1. i \in DOMAIN t /\ t[i] = s[i]
      BY <1>3, <1>4, <2>1, <2>2
    <3> QED
      BY <3>1
  <2>3. CASE i > p
    <3>1. i + 1 \in DOMAIN t /\ t[i + 1] = s[i]
      BY <1>3, <1>4, <2>1, <2>3
    <3> QED
      BY <3>1
  <2> QED
    BY <1>3, <2>1, <2>2, <2>3
<1>8. \A b \in Bucket : \A i \in DOMAIN bucket'[b] :
         \/ bucket'[b][i] = x
         \/ \E j \in DOMAIN bucket[b] : bucket'[b][i] = bucket[b][j]
  BY EnqPreserves
<1>9. Elements' \subseteq Elements \cup {x}
  BY <1>8 DEF Elements
<1>10. x \in Elements'
  BY <1>1, <1>5, <1>6 DEF Elements
<1>11. ASSUME NEW y \in Elements PROVE y \in Elements'
  <2>1a. PICK b \in Bucket : \E i \in DOMAIN bucket[b] : y = bucket[b][i]
    BY DEF Elements
  <2>1. PICK i \in DOMAIN bucket[b] : y = bucket[b][i]
    BY <2>1a
  <2>2. \E j \in DOMAIN bucket'[b] : bucket'[b][j] = y
    BY <1>5, <1>7, <2>1
  <2> QED
    BY <2>2 DEF Elements
<1> QED
  BY <1>9, <1>10, <1>11

\* queue_deq takes its element from those queued, and that is all.
LEMMA DeqElements ==
    ASSUME IndInv, NEW B \in Bucket, NEW n \in DOMAIN bucket[B], QueueDeq(B, n)
    PROVE  /\ Elements' = Elements \ {bucket[B][n]}
           /\ Queued' = Queued \ {bucket[B][n].data}
           /\ bucket[B][n] \in Elements
<1> DEFINE s == bucket[B]
           t == Unlink(s, n)
<1>1. bucket \in [Bucket -> Seq(Element)] /\ s \in Seq(Element) /\ n \in 1 .. Len(s)
  BY DEF IndInv, TypeOK
<1>2. /\ DOMAIN t = 1 .. Len(s) - 1
      /\ \A j \in 1 .. Len(s) - 1 : t[j] = IF j < n THEN s[j] ELSE s[j + 1]
  BY <1>1, UnlinkProps
<1>3. /\ bucket'[B] = t
      /\ \A b \in Bucket : b # B => bucket'[b] = bucket[b]
  BY <1>1 DEF QueueDeq
<1>4. \A i \in DOMAIN s : i # n => \E j \in DOMAIN t : t[j] = s[i]
  <2> HIDE DEF s, t
  <2> SUFFICES ASSUME NEW i \in DOMAIN s, i # n PROVE \E j \in DOMAIN t : t[j] = s[i]
    OBVIOUS
  <2>1. i \in 1 .. Len(s) /\ Len(s) \in Nat
    BY <1>1
  <2>2. CASE i < n
    <3>1. i \in DOMAIN t /\ t[i] = s[i]
      BY <1>1, <1>2, <2>1, <2>2
    <3> QED
      BY <3>1
  <2>3. CASE i > n
    <3>1. i - 1 \in DOMAIN t /\ t[i - 1] = s[i]
      BY <1>1, <1>2, <2>1, <2>3
    <3> QED
      BY <3>1
  <2> QED
    BY <1>1, <2>1, <2>2, <2>3
<1>5. \A b \in Bucket : \A i \in DOMAIN bucket'[b] :
         \E j \in DOMAIN bucket[b] :
            /\ bucket'[b][i] = bucket[b][j]
            /\ bucket[b][j].data # bucket[B][n].data
  BY DeqPreserves
<1>6. \A y \in Elements' : y \in Elements /\ y.data # bucket[B][n].data
  BY <1>5 DEF Elements
<1>7. ASSUME NEW y \in Elements, y # bucket[B][n] PROVE y \in Elements'
  <2>1a. PICK b \in Bucket : \E i \in DOMAIN bucket[b] : y = bucket[b][i]
    BY DEF Elements
  <2>1. PICK i \in DOMAIN bucket[b] : y = bucket[b][i]
    BY <2>1a
  <2>2. \E j \in DOMAIN bucket'[b] : bucket'[b][j] = y
    BY <1>3, <1>4, <1>7, <2>1
  <2> QED
    BY <2>2 DEF Elements
<1>8. bucket[B][n] \in Elements
  BY DEF Elements
<1>9. Elements' = Elements \ {bucket[B][n]}
  BY <1>6, <1>7
<1>10. Queued' = Queued \ {bucket[B][n].data}
  BY <1>6, <1>8, <1>9 DEF Queued
<1> QED
  BY <1>8, <1>9, <1>10

(* Every step of the queue is a step of the timer service or leaves the    *)
(* map of armed timers as it is.                                           *)
DueMap == [e \in Queued |-> KeyOf(e)]

\* Every step of the queue is a step of the timers or leaves them unchanged.
LEMMA RefinementStep ==
    ASSUME IndInv, IndInv', [Next]_vars
    PROVE  [Timers!TNext]_<<pulse, DueMap>>
<1> USE DEF DueMap
<1>t. /\ pulse \in 0 .. MaxPulse /\ MaxPulse \in Nat
      /\ \A x \in Elements : x \in Element
  <2>1. pulse \in 0 .. MaxPulse /\ bucket \in [Bucket -> Seq(Element)]
    BY DEF IndInv, TypeOK
  <2> QED
    BY <2>1, BoundAssumption DEF Elements
<1>q. \A e \in Queued : \E x \in Elements : x.data = e /\ KeyOf(e) = x.key
  BY KeyOfElement DEF Queued
<1>d. ASSUME NEW B \in Bucket, NEW n \in DOMAIN bucket[B], QueueDeq(B, n)
      PROVE  LET e == bucket[B][n].data
             IN  /\ e \in Queued /\ e \in Event /\ DueMap[e] = bucket[B][n].key
                 /\ DueMap' = [x \in Queued \ {e} |-> DueMap[x]]
  <2> DEFINE e == bucket[B][n].data
  <2>1. /\ Elements' = Elements \ {bucket[B][n]}
        /\ Queued' = Queued \ {e}
        /\ bucket[B][n] \in Elements
    BY <1>d, DeqElements
  <2>2. KeyOf(e) = bucket[B][n].key /\ e \in Queued /\ e \in Event
    BY <1>t, <2>1, KeyOfElement DEF Queued, Element
  <2>3. \A y \in Queued' : KeyOf(y)' = KeyOf(y)
    <3> SUFFICES ASSUME NEW y \in Queued' PROVE KeyOf(y)' = KeyOf(y)
      OBVIOUS
    <3>1. PICK x \in Elements' : x.data = y
      BY DEF Queued
    <3>2. KeyOf(x.data) = x.key
      BY <2>1, <3>1, KeyOfElement
    <3>3. KeyOf(x.data)' = x.key
      <4>1. \A z \in Elements' : z.data = x.data => z = x
        <5>1. \A z \in Elements : z.data = x.data => z = x
          BY <2>1, <3>1, ElementsDistinct
        <5> QED
          BY <2>1, <5>1
      <4> QED
        BY <3>1, <4>1 DEF KeyOf
    <3> QED
      BY <3>1, <3>2, <3>3
  <2> QED
    BY <2>1, <2>2, <2>3
<1>1. ASSUME NEW e \in Event, NEW when \in Delay, EventCreate(e, when)
      PROVE  Timers!TNext
  <2> DEFINE k == pulse + Future(when)
             x == [data |-> e, key |-> k]
  <2>1. k \in 0 .. MaxPulse /\ k > pulse
    BY <1>1, <1>t, DelayAssumption DEF Future, EventCreate
  <2>2. e \notin Queued /\ QueueEnq(e, k) /\ pulse' = pulse
    BY <1>1 DEF EventCreate
  <2> HIDE DEF k
  <2>3. Elements' = Elements \cup {x}
    BY <1>t, <2>1, <2>2, EnqElements
  <2>x. x.data = e /\ x.key = k
    OBVIOUS
  <2> HIDE DEF x
  <2>4. Queued' = Queued \cup {e}
    BY <2>3, <2>x DEF Queued
  <2>5. KeyOf(e)' = k
    <3>1. \A z \in Elements' : z.data = e => z = x
      BY <2>2, <2>3 DEF Queued
    <3> QED
      BY <2>3, <2>x, <3>1 DEF KeyOf
  <2>6. \A y \in Queued : KeyOf(y)' = KeyOf(y)
    <3> SUFFICES ASSUME NEW y \in Queued PROVE KeyOf(y)' = KeyOf(y)
      OBVIOUS
    <3>1. PICK z \in Elements : z.data = y
      BY DEF Queued
    <3>2. \A w \in Elements' : w.data = y => w = z
      <4>1. y # e
        BY <2>2
      <4> QED
        BY <2>3, <2>x, <3>1, <4>1, ElementsDistinct
    <3>3. \A w \in Elements : w.data = y => w = z
      BY <3>1, ElementsDistinct
    <3> QED
      BY <2>3, <3>1, <3>2, <3>3 DEF KeyOf
  <2>7. DueMap' = [y \in Queued \cup {e} |-> IF y = e THEN k ELSE DueMap[y]]
    BY <2>2, <2>4, <2>5, <2>6
  <2>8. Timers!Arm(e, k)
    BY <2>1, <2>2, <2>7 DEF Timers!Arm, Timers!Armed
  <2> QED
    BY <2>1, <2>8 DEF Timers!TNext
<1>2. ASSUME NEW e \in Event, EventCancel(e)
      PROVE  Timers!TNext
  <2>1. PICK b \in Bucket : \E i \in DOMAIN bucket[b] :
           bucket[b][i].data = e /\ QueueDeq(b, i)
    BY <1>2 DEF EventCancel
  <2>2. PICK i \in DOMAIN bucket[b] : bucket[b][i].data = e /\ QueueDeq(b, i)
    BY <2>1
  <2>3. e \in Queued /\ DueMap' = [x \in Queued \ {e} |-> DueMap[x]]
    BY <1>d, <2>2
  <2>4. Timers!Disarm(e)
    BY <1>2, <2>3 DEF EventCancel, Timers!Disarm, Timers!Armed, Timers!Without
  <2> QED
    BY <2>4 DEF Timers!TNext
<1>3. CASE Heartbeat
  <2>1. /\ control = "game" /\ pulse' = pulse + 1 /\ bucket' = bucket
    BY <1>3 DEF Heartbeat
  <2>2. Elements' = Elements /\ Queued' = Queued
    BY <2>1 DEF Elements, Queued
  <2>3. DueMap' = DueMap
    BY <2>2 DEF KeyOf
  <2>4. \A e \in Queued : DueMap[e] > pulse
    BY <1>q, <2>1 DEF IndInv, NoKeyInThePast, Elements
  <2>5. Timers!Advance
    BY <2>1, <2>3, <2>4 DEF Timers!Advance, Timers!Armed
  <2> QED
    BY <2>5 DEF Timers!TNext
<1>4. CASE EventProcess
  <2> DEFINE e == bucket[Current][1].data
  <2>1. /\ Current \in Bucket
        /\ 1 \in DOMAIN bucket[Current]
        /\ bucket[Current][1].key <= pulse
        /\ QueueDeq(Current, 1) /\ pulse' = pulse
    BY <1>4, NQAssumption
       DEF EventProcess, HeadIsDue, Current, Bucket, IndInv, TypeOK
  <2>2. e \in Queued /\ e \in Event /\ DueMap[e] = bucket[Current][1].key
        /\ DueMap' = [x \in Queued \ {e} |-> DueMap[x]]
    BY <1>d, <2>1
  <2>3. bucket[Current][1].key >= pulse
    BY <2>1 DEF IndInv, NoKeyInThePast
  <2>4. bucket[Current][1] \in Element
    BY <1>t, <2>1 DEF Elements
  <2>5. DueMap[e] = pulse
    BY <1>t, <2>1, <2>2, <2>3, <2>4 DEF Element
  <2> HIDE DEF e
  <2>6. Timers!Fire(e)
    BY <2>1, <2>2, <2>5 DEF Timers!Fire, Timers!Armed, Timers!Without
  <2> QED
    BY <2>2, <2>6 DEF Timers!TNext
<1>5. CASE UNCHANGED <<pulse, bucket>>
  <2>1. Elements' = Elements /\ Queued' = Queued
    BY <1>5 DEF Elements, Queued
  <2> QED
    BY <1>5, <2>1 DEF KeyOf
<1> QED
  BY <1>1, <1>2, <1>3, <1>4, <1>5
     DEF Next, Loop, CallbackReturns, EventProcessReturns, vars

(* The event queue is a timer service: whatever the buckets do, users see  *)
(* timers that run once, in the pulse they were armed for.                 *)
THEOREM QueueRefinesTimers == Spec => ImplementsTimers
<1>1. Init => Timers!TInit
  <2> SUFFICES ASSUME Init PROVE Timers!TInit
    OBVIOUS
  <2>1. Elements = {}
    BY DEF Init, Elements
  <2>2. Queued = {}
    BY <2>1 DEF Queued
  <2>3. [e \in Queued |-> KeyOf(e)] = [x \in {} |-> 0]
    BY <2>2
  <2> QED
    BY <2>3 DEF Init, Timers!TInit
<1>2. IndInv /\ IndInv' /\ [Next]_vars => [Timers!TNext]_(Timers!tvars)
  BY RefinementStep DEF Timers!tvars, DueMap
<1> QED
  BY <1>1, <1>2, Invariance, PTL DEF Spec, ImplementsTimers, Timers!TSpec
=============================================================================
