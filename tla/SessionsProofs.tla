--------------------------- MODULE SessionsProofs ---------------------------
(***************************************************************************)
(* Descriptors and characters agree in every reachable state, until a name *)
(* is disputed.  Each function of the code that Sessions makes an operator *)
(* from a world to a world keeps a world sound, or says by how little it   *)
(* does not; the handlers put them together.  Of each is also said who     *)
(* moves, in the words of Presence, which the sessions implement.          *)
(***************************************************************************)
EXTENDS Sessions, ListProofs, SequenceTheorems

Typed(w) == w \in [order : Seq(Desc), sock : [Desc -> Socket],
                   people : Seq(Body), body : [Body -> Char]]

\* A world, one value at a time.
Con(w, d) == w.sock[d].con
Drives(w, d) == w.sock[d].character
Own(w, d) == w.sock[d].original
Kind(w, b) == w.body[b].kind
Label(w, b) == w.body[b].name
Link(w, b) == w.body[b].desc
Snoops(w, d) == w.sock[d].snooping
Heard(w, d) == w.sock[d].snoopBy
On(w) == ToSet(w.order)
In(w) == ToSet(w.people)

\* What these values can be.
Valued(w) ==
    /\ \A d \in Desc : /\ Con(w, d) \in ConState
                       /\ Drives(w, d) \in Body \cup {Null}
                       /\ Own(w, d) \in Body \cup {Null}
                       /\ Snoops(w, d) \in Body \cup {Null}
                       /\ Heard(w, d) \in Body \cup {Null}
    /\ \A b \in Body : /\ Kind(w, b) \in {"free", "pc", "npc", "poly"}
                       /\ Label(w, b) \in Name \cup {Null}
                       /\ Link(w, b) \in Desc \cup {Null}
    /\ On(w) \subseteq Desc /\ In(w) \subseteq Body

\* What is freed keeps nothing.
Cleared(w) ==
    \A b \in Body : Kind(w, b) = "free" => Label(w, b) = Null /\ Link(w, b) = Null

\* A closed descriptor drives nothing, and only live ones are in the list.
Shut(w) ==
    \A d \in Desc :
        /\ d \in On(w) <=> Con(w, d) # "closed"
        /\ Con(w, d) = "closed" => Drives(w, d) = Null /\ Own(w, d) = Null

\* What a descriptor drives is allocated and points back, or waits at the menu.
Driven(w) ==
    \A d \in Desc :
        /\ Drives(w, d) # Null =>
             /\ Kind(w, Drives(w, d)) # "free"
             /\ \/ Link(w, Drives(w, d)) = d
                \/ Con(w, d) = "SLCT" /\ Link(w, Drives(w, d)) = Null
        /\ Con(w, d) \in {"SLCT", "PLYNG", "CREATE", "NMECNF"} => Drives(w, d) # Null
        /\ Con(w, d) \in {"CREATE", "NMECNF"} => Label(w, Drives(w, d)) # Null

\* Who plays in a mobile has left its own body behind, and only who plays does.
Away(w) ==
    \A d \in Desc :
        /\ Own(w, d) # Null => /\ Con(w, d) = "PLYNG" /\ Drives(w, d) # Null
                               /\ Kind(w, Own(w, d)) = "pc"
                               /\ Link(w, Own(w, d)) = Null
                               /\ Kind(w, Drives(w, d)) \in {"npc", "poly"}
        /\ Drives(w, d) # Null /\ Own(w, d) = Null => Kind(w, Drives(w, d)) = "pc"

\* A character's link is the descriptor that drives it.
Held(w) == \A b \in Body : Link(w, b) # Null => Drives(w, Link(w, b)) = b

\* No body has two descriptors.
Single(w) ==
    \A d, e \in Desc :
        d # e => /\ Drives(w, d) # Null => Drives(w, d) \notin {Drives(w, e), Own(w, e)}
                 /\ Own(w, d) # Null => Own(w, d) # Own(w, e)

\* The lists hold what is in them once, and nothing freed.
Tidy(w) == IsInjective(w.order) /\ IsInjective(w.people)
Listed(w) == \A b \in In(w) : Kind(w, b) # "free"

\* Who is not playing has a character that is not in the world.
Outside(w) ==
    \A d \in Desc :
        Drives(w, d) # Null /\ Con(w, d) # "PLYNG" => Drives(w, d) \notin In(w)

\* Nobody snoops d, and d snoops nobody.
Deaf(w, d) == Snoops(w, d) = Null /\ Heard(w, d) = Null

\* A snooper plays in its own body, and it and its victim point at each other.
Mutual(w) ==
    \A d \in Desc :
        /\ Snoops(w, d) # Null =>
             /\ Con(w, d) = "PLYNG" /\ Own(w, d) = Null
             /\ Link(w, Snoops(w, d)) # Null
             /\ Heard(w, Link(w, Snoops(w, d))) = Drives(w, d)
        /\ Heard(w, d) # Null =>
             /\ Con(w, d) = "PLYNG"
             /\ Link(w, Heard(w, d)) # Null
             /\ Snoops(w, Link(w, Heard(w, d))) = Drives(w, d)

\* The player behind a descriptor.
Self(w, d) == IF Own(w, d) # Null THEN Own(w, d) ELSE Drives(w, d)

\* Who plays is in the world; a switched immortal may have left it.
Homed(w) ==
    Gods = {} => \A d \in Desc : Con(w, d) = "PLYNG" => Self(w, d) \in In(w)

Sound(w) ==
    /\ Cleared(w) /\ Shut(w) /\ Driven(w) /\ Away(w) /\ Held(w) /\ Single(w)
    /\ Tidy(w) /\ Listed(w) /\ Outside(w) /\ Homed(w) /\ Mutual(w)

\* The name of the player behind a descriptor.
Bears(w, d) == IF Self(w, d) = Null THEN Null ELSE Label(w, Self(w, d))

\* No two players, but those of X, have the same registered name.
Distinct(w, taken, X) ==
    \A d, e \in Desc \ X :
        d # e /\ Bears(w, d) # Null /\ Bears(w, d) = Bears(w, e)
            => Bears(w, d) \notin taken

\* The player characters that are in the world, or whose player is, or waits
\* at the menu.
Waits(w, b) ==
    /\ Kind(w, b) = "pc"
    /\ \/ b \in In(w)
       \/ \E d \in Desc : Con(w, d) \in {"SLCT", "PLYNG"} /\ Self(w, d) = b

\* No two of them have the same name.
Unique(w) ==
    \A a, b \in Body :
        Waits(w, a) /\ Waits(w, b) /\ Label(w, a) = Label(w, b)
            /\ Label(w, a) # Null => a = b

\* A sound world in which no registered name is shared.
Settled(w, taken) ==
    Typed(w) /\ Sound(w) /\ Distinct(w, taken, {}) /\ Unique(w)

\* The rows of the toon table.
Rows ==
    /\ owner \in [DOMAIN owner -> Account \cup {Null}]
    /\ DOMAIN owner \subseteq Name
    /\ recreated \subseteq Name

IndInv == Undisputed => Settled(World, DOMAIN owner) /\ Rows
-----------------------------------------------------------------------------
(* Lists *)

\* The lists a and b are s before and behind its i-th element.
Split(S, s, i, a, b) ==
    /\ a \in Seq(S) /\ Len(a) = i - 1 /\ \A j \in 1 .. i - 1 : a[j] = s[j]
    /\ b \in Seq(S) /\ Len(b) = Len(s) - i
    /\ \A j \in 1 .. Len(s) - i : b[j] = s[i + j]

(* What stands before the i-th element of a list, and then what stands behind
   it, is the list without it. *)
LEMMA JoinedProps ==
    ASSUME NEW S, NEW s \in Seq(S), NEW i \in 1 .. Len(s),
           NEW a, NEW b, Split(S, s, i, a, b)
    PROVE  /\ a \o b \in Seq(S)
           /\ Len(a \o b) = Len(s) - 1
           /\ \A j \in 1 .. Len(s) - 1 :
                (a \o b)[j] = IF j < i THEN s[j] ELSE s[j + 1]
<1>1. Len(s) \in Nat
  OBVIOUS
<1> USE DEF Split
<1>2. /\ a \o b \in Seq(S) /\ Len(a \o b) = Len(a) + Len(b)
      /\ \A j \in 1 .. Len(a) + Len(b) :
            (a \o b)[j] = IF j <= Len(a) THEN a[j] ELSE b[j - Len(a)]
  BY ConcatProperties
<1>3. ASSUME NEW t, t = a \o b
      PROVE  \A j \in 1 .. Len(s) - 1 : t[j] = IF j < i THEN s[j] ELSE s[j + 1]
  <2>1. \A j \in 1 .. Len(a) + Len(b) :
            t[j] = IF j <= Len(a) THEN a[j] ELSE b[j - Len(a)]
    BY <1>2, <1>3, Zenon
  <2>2. ASSUME NEW j \in 1 .. Len(s) - 1, j < i PROVE t[j] = s[j]
    BY <1>1, <2>1, <2>2
  <2>3. ASSUME NEW j \in 1 .. Len(s) - 1, ~(j < i) PROVE t[j] = s[j + 1]
    <3>1. j - (i - 1) \in 1 .. Len(s) - i /\ i + (j - (i - 1)) = j + 1
      BY <1>1, <2>3
    <3>2. b[j - (i - 1)] = s[j + 1]
      BY <3>1
    <3>3. j \in 1 .. Len(a) + Len(b) /\ ~(j <= Len(a)) /\ j - Len(a) = j - (i - 1)
      BY <1>1, <2>3
    <3>4. t[j] = b[j - Len(a)]
      BY <2>1, <3>3, Zenon
    <3> QED
      BY <3>2, <3>3, <3>4, Zenon
  <2> QED
    BY <2>2, <2>3
<1> QED
  BY <1>1, <1>2, <1>3

(* Taking out the i-th element moves the later ones up. *)
LEMMA UnlinkedProps ==
    ASSUME NEW S, NEW s \in Seq(S), NEW i \in 1 .. Len(s)
    PROVE  LET t == SubSeq(s, 1, i - 1) \o SubSeq(s, i + 1, Len(s))
           IN  /\ t \in Seq(S)
               /\ Len(t) = Len(s) - 1
               /\ \A j \in 1 .. Len(s) - 1 :
                    t[j] = IF j < i THEN s[j] ELSE s[j + 1]
<1>1. /\ Len(s) \in Nat /\ \A j \in 1 .. Len(s) : s[j] \in S
      /\ 1 \in Int /\ i - 1 \in Int /\ i + 1 \in Int /\ Len(s) \in Int
  OBVIOUS
<1> DEFINE a == SubSeq(s, 1, i - 1)
           b == SubSeq(s, i + 1, Len(s))
<1>2. /\ a \in Seq(S) /\ Len(a) = i - 1
      /\ \A j \in 1 .. i - 1 : a[j] = s[j]
  BY <1>1, SubSeqProperties
<1>3. /\ b \in Seq(S) /\ Len(b) = Len(s) - i
      /\ \A j \in 1 .. Len(s) - i : b[j] = s[i + j]
  BY <1>1, SubSeqProperties
<1>4. /\ a \o b \in Seq(S)
      /\ Len(a \o b) = Len(s) - 1
      /\ \A j \in 1 .. Len(s) - 1 :
            (a \o b)[j] = IF j < i THEN s[j] ELSE s[j + 1]
  <2>1. Split(S, s, i, a, b)
    <3> HIDE DEF a, b
    <3> QED
      BY <1>2, <1>3, Zenon DEF Split
  <2> HIDE DEF a, b
  <2> QED
    BY <2>1, JoinedProps
<1> QED
  BY <1>4, Zenon

(* Unlinking one element of a list of distinct ones leaves the others. *)
LEMMA WithoutProps ==
    ASSUME NEW S, NEW s \in Seq(S), NEW x
    PROVE  /\ Without(s, x) \in Seq(S)
           /\ IsInjective(s) => /\ IsInjective(Without(s, x))
                                /\ ToSet(Without(s, x)) = ToSet(s) \ {x}
<1>1. CASE x \notin ToSet(s)
  BY <1>1 DEF Without, ToSet
<1>2. CASE x \in ToSet(s)
  <2> DEFINE i == CHOOSE j \in DOMAIN s : s[j] = x
             n == Len(s)
             t == Without(s, x)
  <2>1. n \in Nat /\ DOMAIN s = 1 .. n /\ \A j \in 1 .. n : s[j] \in S
    OBVIOUS
  <2>2. \E j \in DOMAIN s : s[j] = x
    BY <1>2 DEF ToSet
  <2>3. i \in 1 .. n /\ s[i] = x
    BY <2>1, <2>2
  <2>4. t = SubSeq(s, 1, i - 1) \o SubSeq(s, i + 1, n)
    BY <1>2 DEF Without
  <2> HIDE DEF i, t
  <2>5. /\ t \in Seq(S)
        /\ Len(t) = n - 1
        /\ \A j \in 1 .. n - 1 : t[j] = IF j < i THEN s[j] ELSE s[j + 1]
    BY <2>3, <2>4, UnlinkedProps, Zenon
  <2>6. ASSUME IsInjective(s) PROVE IsInjective(t) /\ ToSet(t) = ToSet(s) \ {x}
    <3>1. DOMAIN t = 1 .. n - 1
      BY <2>1, <2>5
    <3>2. IsInjective(t)
      <4> SUFFICES ASSUME NEW a \in 1 .. n - 1, NEW b \in 1 .. n - 1, t[a] = t[b]
                   PROVE  a = b
        BY <3>1 DEF IsInjective
      <4> DEFINE from(j) == IF j < i THEN j ELSE j + 1
      <4>1. \A j \in 1 .. n - 1 : from(j) \in 1 .. n /\ t[j] = s[from(j)]
        BY <2>1, <2>3, <2>5
      <4>2. from(a) = from(b)
        <5> HIDE DEF from
        <5> QED
          BY <2>1, <2>6, <4>1 DEF IsInjective
      <4> QED
        BY <2>1, <2>3, <4>2
    <3>3. ASSUME NEW y \in ToSet(t) PROVE y \in ToSet(s) /\ y # x
      <4>1. PICK j \in 1 .. n - 1 : y = t[j]
        BY <3>1, <3>3 DEF ToSet
      <4>2. PICK k \in 1 .. n : y = s[k] /\ k # i
        BY <2>1, <2>3, <2>5, <4>1
      <4> QED
        BY <2>1, <2>3, <2>6, <4>2 DEF ToSet, IsInjective
    <3>4. ASSUME NEW y \in ToSet(s), y # x PROVE y \in ToSet(t)
      <4>1. PICK j \in 1 .. n : y = s[j]
        BY <2>1, <3>4 DEF ToSet
      <4>2. j # i
        BY <2>3, <3>4, <4>1
      <4>3. CASE j < i
        <5>1. j \in 1 .. n - 1 /\ t[j] = y
          BY <2>1, <2>3, <2>5, <4>1, <4>3
        <5> QED
          BY <3>1, <5>1 DEF ToSet
      <4>4. CASE j > i
        <5>1. j - 1 \in 1 .. n - 1 /\ t[j - 1] = y
          BY <2>1, <2>3, <2>5, <4>1, <4>4
        <5> QED
          BY <3>1, <5>1 DEF ToSet
      <4> QED
        BY <2>1, <2>3, <4>1, <4>2, <4>3, <4>4
    <3> QED
      BY <3>2, <3>3, <3>4
  <2> QED
    BY <2>5, <2>6 DEF t
<1> QED
  BY <1>1, <1>2

-----------------------------------------------------------------------------
(* Moves from one world to another *)

\* All descriptors but those of D drive what they drove.
Unmoved(w, v, D) ==
    \A k \in Desc \ D : /\ Con(v, k) = Con(w, k)
                        /\ Drives(v, k) = Drives(w, k)
                        /\ Own(v, k) = Own(w, k)

\* They snoop whom they snooped, and nobody of D has to do with snooping.
Unheard(w, v, D) ==
    /\ \A k \in Desc \ D : Snoops(v, k) = Snoops(w, k) /\ Heard(v, k) = Heard(w, k)
    /\ \A k \in Desc \cap D : Deaf(w, k) /\ Deaf(v, k)

\* All descriptors but those of D go on as they were, and all bodies but B's.
Still(w, v, D) == Unmoved(w, v, D) /\ Unheard(w, v, D)
Same(w, v, B) ==
    \A b \in Body \ B : /\ Kind(v, b) = Kind(w, b)
                        /\ Label(v, b) = Label(w, b)
                        /\ Link(v, b) = Link(w, b)

\* A descriptor that nobody listens to gets another value.
LEMMA SocketMoved ==
    ASSUME NEW w, NEW v, NEW d \in Desc, Deaf(w, d), Deaf(v, d),
           \A k \in Desc \ {d} : v.sock[k] = w.sock[k]
    PROVE  Still(w, v, {d})
<1>1. Unmoved(w, v, {d})
  BY DEF Unmoved, Con, Drives, Own
<1>2. Unheard(w, v, {d})
  BY DEF Unheard, Snoops, Heard
<1> QED
  BY <1>1, <1>2 DEF Still

Early == {"NME", "ACCOUNT", "TOON", "NMECNF", "CREATE", "PWDNRM"}

\* Descriptors in the login states go on to others; snooping may change too.
Relabelled(w, v) ==
    /\ On(v) = On(w) /\ In(v) = In(w) /\ Same(w, v, {}) /\ Mutual(v)
    /\ \A k \in Desc :
        /\ Drives(v, k) = Drives(w, k)
        /\ Own(v, k) = Own(w, k)
        /\ \/ Con(v, k) = Con(w, k)
           \/ /\ Con(w, k) \in Early
              /\ Con(v, k) \in Early \cup {"SLCT"}
              /\ Con(v, k) \in {"SLCT", "CREATE", "NMECNF"} =>
                    Drives(w, k) # Null
              /\ Con(v, k) \in {"CREATE", "NMECNF"} =>
                    Label(w, Drives(w, k)) # Null

\* The player of d returns to its own body.
Swapped(w, v, d) ==
    LET shape == Drives(w, d)
        own   == Own(w, d)
    IN  /\ own # Null
        /\ On(v) = On(w) /\ In(v) = In(w)
        /\ Still(w, v, {d}) /\ Same(w, v, {shape, own})
        /\ Con(v, d) = Con(w, d)
        /\ Drives(v, d) = own /\ Own(v, d) = Null
        /\ Kind(v, own) = Kind(w, own) /\ Label(v, own) = Label(w, own) /\ Link(v, own) = d
        /\ Kind(v, shape) = Kind(w, shape) /\ Label(v, shape) = Label(w, shape)
        /\ Link(v, shape) = Null

\* A mobile nobody is in is freed.
Freed(w, v, m) ==
    /\ m \in Body /\ Kind(w, m) \in {"npc", "poly"} /\ Link(w, m) = Null
    /\ On(v) = On(w) /\ In(v) = In(w) \ {m}
    /\ Still(w, v, {}) /\ Same(w, v, {m})
    /\ Kind(v, m) = "free" /\ Label(v, m) = Null /\ Link(v, m) = Null

\* A body nobody plays leaves the world.
Left(w, v, c) ==
    /\ Gods = {} => \A d \in Desc : Con(w, d) = "PLYNG" => Self(w, d) # c
    /\ On(v) = On(w) /\ In(v) = In(w) \ {c}
    /\ Still(w, v, {}) /\ Same(w, v, {})

\* The player of d leaves the world and is back at the menu.
Menued(w, v, d) ==
    LET c == Drives(w, d)
    IN  /\ Con(w, d) = "PLYNG" /\ Own(w, d) = Null
        /\ On(v) = On(w) /\ In(v) = In(w) \ {c}
        /\ Still(w, v, {d}) /\ Same(w, v, {c})
        /\ Con(v, d) = "SLCT"
        /\ Drives(v, d) = c /\ Own(v, d) = Null
        /\ Kind(v, c) = Kind(w, c) /\ Label(v, c) = Label(w, c) /\ Link(v, c) = Null

\* d is closed; the character of a player stays, without a link.
Closed(w, v, d) ==
    LET c == Drives(w, d)
    IN  /\ On(v) = On(w) \ {d} /\ In(v) = In(w)
        /\ Still(w, v, {d}) /\ Same(w, v, {c})
        /\ Con(v, d) = "closed"
        /\ Drives(v, d) = Null /\ Own(v, d) = Null
        /\ c # Null =>
              /\ Link(v, c) = Null
              /\ IF Con(w, d) = "PLYNG"
                 THEN Kind(v, c) = Kind(w, c) /\ Label(v, c) = Label(w, c)
                 ELSE Kind(v, c) = "free" /\ Label(v, c) = Null

\* d gets a character, in memory that was free.
Made(w, v, d, b, n) ==
    /\ Con(w, d) \in {"NME", "TOON", "PWDNRM"}
    /\ Drives(w, d) = Null
    /\ b \in Body /\ Kind(w, b) = "free"
    /\ On(v) = On(w) /\ In(v) = In(w)
    /\ Still(w, v, {d}) /\ Same(w, v, {b})
    /\ Con(v, d) = Con(w, d)
    /\ Drives(v, d) = b /\ Own(v, d) = Own(w, d)
    /\ Kind(v, b) = "pc" /\ Label(v, b) = n /\ Link(v, b) = d

\* The character of d gets another name, or none.
Renamed(w, v, d, n) ==
    LET c == Drives(w, d)
    IN  /\ Con(w, d) \in Early \ {"CREATE"} /\ c # Null
        /\ On(v) = On(w) /\ In(v) = In(w)
        /\ Still(w, v, {d}) /\ Same(w, v, {c})
        /\ Con(v, d) \in Early \ {"CREATE"}
        /\ Con(v, d) = "NMECNF" => n # Null
        /\ Drives(v, d) = c /\ Own(v, d) = Own(w, d)
        /\ Kind(v, c) = Kind(w, c) /\ Label(v, c) = n /\ Link(v, c) = Link(w, c)

\* d takes over a body that waits in the world, nobody's own.
TakenOver(w, v, d, c) ==
    LET mine == Drives(w, d)
    IN  /\ Con(w, d) \in Early /\ mine # Null
        /\ c \in In(w)
        /\ Kind(w, c) = "pc" /\ Link(w, c) = Null
        /\ \A e \in Desc : Own(w, e) # c
        /\ On(v) = On(w) /\ In(v) = In(w)
        /\ Still(w, v, {d}) /\ Same(w, v, {mine, c})
        /\ Con(v, d) = "PLYNG"
        /\ Drives(v, d) = c /\ Own(v, d) = Own(w, d)
        /\ Kind(v, mine) = "free" /\ Label(v, mine) = Null /\ Link(v, mine) = Null
        /\ Kind(v, c) = Kind(w, c) /\ Label(v, c) = Label(w, c) /\ Link(v, c) = d

\* d enters the world from the menu.
Entered(w, v, d) ==
    LET c == Drives(w, d)
    IN  /\ Con(w, d) = "SLCT"
        /\ On(v) = On(w) /\ In(v) = In(w) \cup {c}
        /\ Still(w, v, {d}) /\ Same(w, v, {c})
        /\ Con(v, d) = "PLYNG"
        /\ Drives(v, d) = c /\ Own(v, d) = Own(w, d)
        /\ Kind(v, c) = Kind(w, c) /\ Label(v, c) = Label(w, c) /\ Link(v, c) = d

\* d gives up its character for another choice.
Dropped(w, v, d) ==
    LET c == Drives(w, d)
    IN  /\ Con(w, d) = "SLCT"
        /\ On(v) = On(w) /\ In(v) = In(w)
        /\ Still(w, v, {d}) /\ Same(w, v, {c})
        /\ Con(v, d) \in {"NME", "TOON"}
        /\ Drives(v, d) = Null /\ Own(v, d) = Own(w, d)
        /\ Kind(v, c) = "free" /\ Label(v, c) = Null /\ Link(v, c) = Null

\* The player of d goes into a mobile m: a new one, or one nobody is in.
Shaped(w, v, d, m) ==
    LET c == Drives(w, d)
    IN  /\ Con(w, d) = "PLYNG" /\ Kind(w, c) = "pc"
        /\ m \in Body
        /\ On(v) = On(w)
        /\ \/ Kind(w, m) = "free" /\ In(v) = In(w) \cup {m}
           \/ /\ Kind(w, m) \in {"npc", "poly"} /\ Link(w, m) = Null
              /\ In(v) = In(w)
        /\ Still(w, v, {d}) /\ Same(w, v, {c, m})
        /\ Con(v, d) = "PLYNG"
        /\ Drives(v, d) = m /\ Own(v, d) = c
        /\ Kind(v, m) \in {"npc", "poly"} /\ Link(v, m) = d
        /\ Kind(v, c) = Kind(w, c) /\ Label(v, c) = Label(w, c) /\ Link(v, c) = Null

\* A new descriptor.
Opened(w, v, d) ==
    /\ Con(w, d) = "closed"
    /\ On(v) = On(w) \cup {d} /\ In(v) = In(w)
    /\ Still(w, v, {d}) /\ Same(w, v, {})
    /\ Con(v, d) = "NME"
    /\ Drives(v, d) = Null /\ Own(v, d) = Null

\* Every descriptor without a character is closed.
Pruned(w, v) ==
    LET gone == {d \in Desc : Drives(w, d) = Null}
    IN  /\ On(v) = On(w) \ gone
        /\ In(v) = In(w)
        /\ Still(w, v, gone) /\ Same(w, v, {})
        /\ \A d \in gone : /\ Con(v, d) = "closed"
                            /\ Drives(v, d) = Null
                            /\ Own(v, d) = Null

(* Going on in the login states keeps a world sound. *)
LEMMA RelabelledSound ==
    ASSUME NEW w, NEW v, Valued(w), Valued(v), Sound(w), Tidy(v),
           Relabelled(w, v)
    PROVE  Sound(v)
BY NullAssumption DEF Relabelled, Still, Unmoved, Unheard, Same, Valued, Early, Sound,
          Cleared, Shut, Driven, Away, Held, Single, Listed, Outside, Homed, Self, Mutual, Deaf

(* The return to the own body keeps a world sound. *)
LEMMA SwappedSound ==
    ASSUME NEW w, NEW v, Valued(w), Valued(v), Sound(w), Tidy(v), NEW d \in Desc,
           Swapped(w, v, d)
    PROVE  Sound(v)
BY NullAssumption DEF Swapped, Still, Unmoved, Unheard, Same, Valued, Sound, Cleared, Shut,
          Driven, Away, Held, Single, Listed, Outside, Homed, Self, Mutual, Deaf

(* Freeing a mobile nobody is in keeps a world sound. *)
LEMMA FreedSound ==
    ASSUME NEW w, NEW v, Valued(w), Valued(v), Sound(w), Tidy(v), NEW m,
           Freed(w, v, m)
    PROVE  Sound(v)
BY NullAssumption DEF Freed, Still, Unmoved, Unheard, Same, Valued, Sound, Cleared, Shut,
          Driven, Away, Held, Single, Listed, Outside, Homed, Self, Mutual, Deaf

(* A body that leaves the world leaves it sound. *)
LEMMA LeftSound ==
    ASSUME NEW w, NEW v, Valued(w), Valued(v), Sound(w), Tidy(v), NEW c,
           Left(w, v, c)
    PROVE  Sound(v)
BY NullAssumption DEF Left, Still, Unmoved, Unheard, Same, Valued, Sound, Cleared, Shut,
          Driven, Away, Held, Single, Listed, Outside, Homed, Self, Mutual, Deaf

(* The way back to the menu keeps a world sound. *)
LEMMA MenuedSound ==
    ASSUME NEW w, NEW v, Valued(w), Valued(v), Sound(w), Tidy(v), NEW d \in Desc,
           Menued(w, v, d)
    PROVE  Sound(v)
BY NullAssumption DEF Menued, Still, Unmoved, Unheard, Same, Valued, Sound, Cleared, Shut,
          Driven, Away, Held, Single, Listed, Outside, Homed, Self, Mutual, Deaf

(* Closing a connection keeps a world sound. *)
LEMMA ClosedSound ==
    ASSUME NEW w, NEW v, Valued(w), Valued(v), Sound(w), Tidy(v), NEW d \in Desc,
           Closed(w, v, d)
    PROVE  Sound(v)
BY NullAssumption DEF Closed, Still, Unmoved, Unheard, Same, Valued, Sound, Cleared, Shut,
          Driven, Away, Held, Single, Listed, Outside, Homed, Self, Mutual, Deaf

(* Making a character keeps a world sound, whatever its name. *)
LEMMA MadeSound ==
    ASSUME NEW w, NEW v, Valued(w), Valued(v), Sound(w), Tidy(v), NEW d \in Desc, NEW b, NEW n,
           Made(w, v, d, b, n)
    PROVE  Sound(v)
BY NullAssumption DEF Made, Still, Unmoved, Unheard, Same, Valued, Sound, Cleared, Shut,
          Driven, Away, Held, Single, Listed, Outside, Homed, Self, Mutual, Deaf

(* Another name for the character of a login keeps a world sound. *)
LEMMA RenamedSound ==
    ASSUME NEW w, NEW v, Valued(w), Valued(v), Sound(w), Tidy(v), NEW d \in Desc, NEW n,
           Renamed(w, v, d, n)
    PROVE  Sound(v)
BY NullAssumption DEF Renamed, Still, Unmoved, Unheard, Same, Valued, Early, Sound,
          Cleared, Shut, Driven, Away, Held, Single, Listed, Outside, Homed, Self, Mutual, Deaf

(* Taking over a body that is nobody's own keeps a world sound. *)
LEMMA TakenOverSound ==
    ASSUME NEW w, NEW v, Valued(w), Valued(v), Sound(w), Tidy(v), NEW d \in Desc, NEW c,
           TakenOver(w, v, d, c)
    PROVE  Sound(v)
BY NullAssumption DEF TakenOver, Still, Unmoved, Unheard, Same, Valued, Early, Sound,
          Cleared, Shut, Driven, Away, Held, Single, Listed, Outside, Homed, Self, Mutual, Deaf

(* Entering the world keeps it sound. *)
LEMMA EnteredSound ==
    ASSUME NEW w, NEW v, Valued(w), Valued(v), Sound(w), Tidy(v), NEW d \in Desc,
           Entered(w, v, d)
    PROVE  Sound(v)
BY NullAssumption DEF Entered, Still, Unmoved, Unheard, Same, Valued, Sound, Cleared, Shut,
          Driven, Away, Held, Single, Listed, Outside, Homed, Self, Mutual, Deaf

(* Giving up a character keeps a world sound. *)
LEMMA DroppedSound ==
    ASSUME NEW w, NEW v, Valued(w), Valued(v), Sound(w), Tidy(v), NEW d \in Desc,
           Dropped(w, v, d)
    PROVE  Sound(v)
BY NullAssumption DEF Dropped, Still, Unmoved, Unheard, Same, Valued, Sound, Cleared, Shut,
          Driven, Away, Held, Single, Listed, Outside, Homed, Self, Mutual, Deaf

(* Going into another body keeps a world sound. *)
LEMMA ShapedSound ==
    ASSUME NEW w, NEW v, Valued(w), Valued(v), Sound(w), Tidy(v), NEW d \in Desc, NEW m,
           Shaped(w, v, d, m)
    PROVE  Sound(v)
BY NullAssumption DEF Shaped, Still, Unmoved, Unheard, Same, Valued, Sound, Cleared, Shut,
          Driven, Away, Held, Single, Listed, Outside, Homed, Self, Mutual, Deaf

(* A new connection keeps a world sound. *)
LEMMA OpenedSound ==
    ASSUME NEW w, NEW v, Valued(w), Valued(v), Sound(w), Tidy(v), NEW d \in Desc,
           Opened(w, v, d)
    PROVE  Sound(v)
BY NullAssumption DEF Opened, Still, Unmoved, Unheard, Same, Valued, Sound, Cleared, Shut,
          Driven, Away, Held, Single, Listed, Outside, Homed, Self, Mutual, Deaf

(* Closing everybody who has no character keeps a world sound. *)
LEMMA PrunedSound ==
    ASSUME NEW w, NEW v, Valued(w), Valued(v), Sound(w), Tidy(v),
           Pruned(w, v)
    PROVE  Sound(v)
BY NullAssumption DEF Pruned, Still, Unmoved, Unheard, Same, Valued, Sound, Cleared, Shut,
          Driven, Away, Held, Single, Listed, Outside, Homed, Self, Mutual, Deaf
-----------------------------------------------------------------------------
(* Names *)

\* Nobody but d is touched: the others drive what they drove, by their name.
Others(w, v, d) ==
    Unmoved(w, v, {d}) /\ \A k \in Desc \ {d} : Bears(v, k) = Bears(w, k)

\* No player character comes to wait, or to wait under another name.
NoneComes(w, v) ==
    \A b \in Body : Waits(v, b) => Waits(w, b) /\ Label(v, b) = Label(w, b)

\* What d does leaves it the name of its player, or none.
Keeps(w, v, d) ==
    /\ Others(w, v, d) /\ Bears(v, d) \in {Bears(w, d), Null}
    /\ NoneComes(w, v)

(* Nobody comes to wait by moves of whoever has entered the game, or has not
   chosen a character. *)
LEMMA MovesBringNone ==
    ASSUME NEW w, NEW v, Valued(w), Valued(v), Sound(w), NEW d \in Desc,
           \/ Swapped(w, v, d) \/ Menued(w, v, d) \/ Closed(w, v, d)
           \/ Entered(w, v, d) \/ Dropped(w, v, d) \/ Opened(w, v, d)
           \/ \E m \in Body : Shaped(w, v, d, m)
    PROVE  NoneComes(w, v)
<1> USE NullAssumption DEF Still, Unmoved, Same, Valued, NoneComes, Waits, Self
<1>1. CASE Swapped(w, v, d)
  BY <1>1 DEF Swapped, Sound, Away
<1>2. CASE Menued(w, v, d)
  BY <1>2 DEF Menued, Sound, Away
<1>3. CASE Closed(w, v, d)
  BY <1>3 DEF Closed, Sound, Away
<1>4. CASE Entered(w, v, d)
  BY <1>4 DEF Entered, Sound, Away, Driven
<1>5. CASE Dropped(w, v, d)
  BY <1>5 DEF Dropped, Sound, Away
<1>6. CASE Opened(w, v, d)
  BY <1>6 DEF Opened, Sound, Away
<1>7. ASSUME NEW m \in Body, Shaped(w, v, d, m) PROVE NoneComes(w, v)
  BY <1>7 DEF Shaped, Sound, Away
<1> QED
  BY <1>1, <1>2, <1>3, <1>4, <1>5, <1>6, <1>7

(* Nor by what concerns no descriptor, nor before the menu is reached. *)
LEMMA AsideBringsNone ==
    ASSUME NEW w, NEW v, Valued(w), Valued(v), Sound(w),
           \/ Relabelled(w, v) /\ \A k \in Desc : Con(v, k) = "SLCT" => Con(w, k) = "SLCT"
           \/ \E b \in Body : Freed(w, v, b) \/ Left(w, v, b)
    PROVE  NoneComes(w, v)
BY NullAssumption DEF Relabelled, Freed, Left, Still, Unmoved, Same, Valued, NoneComes,
   Waits, Self, Early

(* Nor by making or naming a character in the login states. *)
LEMMA LoginBringsNone ==
    ASSUME NEW w, NEW v, Valued(w), Valued(v), Sound(w), NEW d \in Desc, NEW n,
           Renamed(w, v, d, n) \/ \E b \in Body : Made(w, v, d, b, n)
    PROVE  NoneComes(w, v)
<1>1. PICK c \in Body : /\ c \notin In(w) /\ Same(w, v, {c})
                        /\ \A e \in Desc \ {d} : Self(w, e) # c
  <2>1. CASE Renamed(w, v, d, n)
    <3>1. Drives(w, d) \in Body /\ Drives(w, d) # Null /\ Drives(w, d) \notin In(w)
      BY <2>1 DEF Renamed, Valued, Sound, Outside, Early
    <3> QED
      BY <2>1, <3>1 DEF Renamed, Self, Sound, Single
  <2>2. ASSUME NEW b \in Body, Made(w, v, d, b, n)
        PROVE  b \notin In(w) /\ Same(w, v, {b}) /\ \A e \in Desc \ {d} : Self(w, e) # b
    BY <2>2, NullAssumption DEF Made, Self, Sound, Listed, Driven, Away
  <2> QED
    BY <2>1, <2>2
<1>2. /\ Con(v, d) \in Early /\ Con(w, d) \in Early /\ Unmoved(w, v, {d})
      /\ In(v) = In(w)
  BY DEF Renamed, Made, Still, Early
<1> QED
  BY <1>1, <1>2 DEF NoneComes, Waits, Self, Unmoved, Same, Early

(* Nor by taking over a body: it was waiting. *)
LEMMA TakingBringsNone ==
    ASSUME NEW w, NEW v, Valued(w), Valued(v), Sound(w), NEW d \in Desc,
           NEW c \in Body, TakenOver(w, v, d, c)
    PROVE  NoneComes(w, v)
BY NullAssumption DEF TakenOver, Still, Unmoved, Same, Valued, NoneComes, Waits, Self,
   Sound, Away, Early

(* Whoever moves by itself disturbs no other descriptor, and only a login gives
   a name. *)
LEMMA MovesKeep ==
    ASSUME NEW w, NEW v, Valued(w), Valued(v), Sound(w), Sound(v), NEW d \in Desc,
           \/ Swapped(w, v, d) \/ Menued(w, v, d) \/ Closed(w, v, d)
           \/ Entered(w, v, d) \/ Dropped(w, v, d) \/ Opened(w, v, d)
           \/ \E m \in Body : Shaped(w, v, d, m)
    PROVE  Keeps(w, v, d)
<1>1. Others(w, v, d) /\ Bears(v, d) \in {Bears(w, d), Null}
  <2>1. CASE Swapped(w, v, d) \/ Menued(w, v, d) \/ Closed(w, v, d)
    BY <2>1, NullAssumption DEF Swapped, Menued, Closed, Still, Unmoved, Same, Valued,
       Sound, Cleared, Shut, Driven, Away, Held, Single, Listed, Outside, Others, Self,
       Bears
  <2>2. CASE Entered(w, v, d) \/ Dropped(w, v, d) \/ Opened(w, v, d)
    BY <2>2, NullAssumption DEF Entered, Dropped, Opened, Still, Unmoved, Same, Valued,
       Sound, Cleared, Shut, Driven, Away, Held, Single, Listed, Outside, Others, Self,
       Bears
  <2>3. CASE \E m \in Body : Shaped(w, v, d, m)
    BY <2>3, NullAssumption DEF Shaped, Still, Unmoved, Same, Valued, Sound, Cleared, Shut,
       Driven, Away, Held, Single, Listed, Outside, Others, Self, Bears
  <2> QED
    BY <2>1, <2>2, <2>3
<1> QED
  BY <1>1, MovesBringNone DEF Keeps

(* What concerns no descriptor leaves every name. *)
LEMMA MovesAside ==
    ASSUME NEW w, NEW v, Valued(w), Valued(v), Sound(w), NEW d \in Desc,
           Relabelled(w, v) \/ \E b \in Body : Freed(w, v, b) \/ Left(w, v, b)
    PROVE  \A k \in Desc : Bears(v, k) = Bears(w, k)
BY NullAssumption DEF Relabelled, Freed, Left, Still, Unmoved, Unheard, Same, Valued, Sound,
   Cleared, Shut, Driven, Away, Held, Single, Listed, Outside, Self, Bears

(* A login gives its own descriptor a name and no other. *)
LEMMA LoginNames ==
    ASSUME NEW w, NEW v, Valued(w), Valued(v), Sound(w), NEW d \in Desc, NEW n,
           Renamed(w, v, d, n) \/ \E b \in Body : Made(w, v, d, b, n)
    PROVE  Others(w, v, d) /\ Bears(v, d) = n
BY NullAssumption DEF Renamed, Made, Still, Unmoved, Unheard, Same, Valued, Sound, Early,
   Cleared, Shut, Driven, Away, Held, Single, Listed, Outside, Others, Self, Bears

(* Taking over a body gives its name. *)
LEMMA TakingNames ==
    ASSUME NEW w, NEW v, Valued(w), Valued(v), Sound(w), NEW d \in Desc,
           NEW c \in Body, TakenOver(w, v, d, c)
    PROVE  Others(w, v, d) /\ Bears(v, d) = Label(w, c)
BY NullAssumption DEF TakenOver, Still, Unmoved, Unheard, Same, Valued, Sound, Early,
   Cleared, Shut, Driven, Away, Held, Single, Listed, Outside, Others, Self, Bears

(* Players stay distinct while names are only given up. *)
LEMMA FewerNames ==
    ASSUME NEW w, NEW v, NEW taken, NEW X, Distinct(w, taken, X),
           \A k \in Desc \ X : Bears(v, k) \in {Bears(w, k), Null}
    PROVE  Distinct(v, taken, X)
BY DEF Distinct

(* Where nobody comes to wait, nobody waits twice. *)
LEMMA FewerWait ==
    ASSUME NEW w, NEW v, Unique(w), NoneComes(w, v)
    PROVE  Unique(v)
BY DEF Unique, NoneComes
-----------------------------------------------------------------------------
(* Where players are *)

\* What is true of a body: somebody plays it, it is a player's and in the
\* world, it is at the menu.
Plays(w, b) == \E d \in Desc : Con(w, d) = "PLYNG" /\ Self(w, d) = b
Stands(w, b) == Kind(w, b) = "pc" /\ b \in In(w)
Attends(w, b) == \E d \in Desc : Con(w, d) = "SLCT" /\ Self(w, d) = b

\* Where that is, in the words of Presence.
At(w, b) == IF Plays(w, b) THEN "playing"
            ELSE IF Stands(w, b) THEN "linkdead"
            ELSE IF Attends(w, b) THEN "menu"
            ELSE "out"

\* The moves of Presence: those of a connection that ends, those of a login
\* that is over, and all of them.
Downs == {<<"playing", "linkdead">>, <<"menu", "out">>}
Ups == {<<"linkdead", "playing">>, <<"out", "menu">>}
Edges == Downs \cup Ups \cup
         {<<"menu", "playing">>, <<"playing", "menu">>, <<"linkdead", "out">>}

\* A body keeps its place, under its name; all of them do.
Stays(w, v, a) ==
    At(v, a) = At(w, a) /\ (At(w, a) # "out" => Label(v, a) = Label(w, a))
Idle(w, v) == \A a \in Body : Stays(w, v, a)

\* All but b, which moves as E says; that is what any step does, and what the
\* end of a connection does, where nobody is switched.
Goes(w, v, b, E) ==
    \A a \in Body :
        \/ Stays(w, v, a)
        \/ /\ a = b /\ <<At(w, a), At(v, a)>> \in E
           /\ At(w, a) # "out" /\ At(v, a) # "out" => Label(v, a) = Label(w, a)
Drops(w, v, d) == Gods = {} => Goes(w, v, Self(w, d), Downs)
Walks(w, v, b) == Gods = {} => Goes(w, v, b, Edges)

(* Two descriptors have two players. *)
LEMMA SelfIsMine ==
    ASSUME NEW w, Sound(w), NEW d \in Desc, NEW e \in Desc, d # e, Self(w, d) # Null
    PROVE  Self(w, d) # Self(w, e)
BY DEF Sound, Single, Away, Self

(* Whatever is somewhere is a player's body, and waits. *)
LEMMA PlacedWaits ==
    ASSUME NEW w, Valued(w), Sound(w), NEW a \in Body
    PROVE  At(w, a) # "out" <=> Waits(w, a)
<1>1. ASSUME NEW d \in Desc, Con(w, d) \in {"SLCT", "PLYNG"}, Self(w, d) = a
      PROVE  Kind(w, a) = "pc"
  BY <1>1, NullAssumption DEF Sound, Driven, Away, Self
<1> QED
  BY <1>1 DEF At, Waits, Plays, Stands, Attends

(* Where no descriptor in the game or at the menu changes its player, and
   nobody enters or leaves the world, nobody moves. *)
LEMMA SameSelves ==
    ASSUME NEW w, NEW v, Valued(w), Sound(w),
           \A k \in Desc :
              Con(w, k) \in {"SLCT", "PLYNG"} \/ Con(v, k) \in {"SLCT", "PLYNG"}
                => Con(v, k) = Con(w, k) /\ Self(v, k) = Self(w, k),
           \A a \in Body : /\ Stands(v, a) <=> Stands(w, a)
                           /\ Waits(w, a) => Label(v, a) = Label(w, a)
    PROVE  Idle(w, v)
<1> SUFFICES ASSUME NEW a \in Body PROVE Stays(w, v, a)
  BY DEF Idle
<1>1. Plays(v, a) <=> Plays(w, a)
  BY DEF Plays
<1>2. Attends(v, a) <=> Attends(w, a)
  BY DEF Attends
<1>3. At(v, a) = At(w, a)
  BY <1>1, <1>2 DEF At
<1>4. At(w, a) # "out" => Label(v, a) = Label(w, a)
  BY PlacedWaits
<1> QED
  BY <1>3, <1>4 DEF Stays

(* A body that is not the one d has, or had, in the game or at the menu. *)
LEMMA OthersStay ==
    ASSUME NEW w, NEW v, Valued(w), Sound(w), NEW d \in Desc, Unmoved(w, v, {d}),
           NEW a \in Body,
           Con(w, d) \in {"SLCT", "PLYNG"} => Self(w, d) # a,
           Con(v, d) \in {"SLCT", "PLYNG"} => Self(v, d) # a,
           Stands(v, a) <=> Stands(w, a), Waits(w, a) => Label(v, a) = Label(w, a)
    PROVE  Stays(w, v, a)
<1>0. \A k \in Desc \ {d} : Con(v, k) = Con(w, k) /\ Self(v, k) = Self(w, k)
  BY DEF Unmoved, Self
<1>1. Plays(v, a) <=> Plays(w, a)
  BY <1>0 DEF Plays
<1>2. Attends(v, a) <=> Attends(w, a)
  BY <1>0 DEF Attends
<1>3. At(v, a) = At(w, a)
  BY <1>1, <1>2 DEF At
<1>4. At(w, a) # "out" => Label(v, a) = Label(w, a)
  BY PlacedWaits
<1> QED
  BY <1>3, <1>4 DEF Stays

(* Where the player of a descriptor is, its state tells. *)
LEMMA SelfIsAt ==
    ASSUME NEW w, Sound(w), NEW d \in Desc, NEW b \in Body, b = Self(w, d)
    PROVE  At(w, b) = IF Con(w, d) = "PLYNG" THEN "playing"
                      ELSE IF Stands(w, b) THEN "linkdead"
                      ELSE IF Con(w, d) = "SLCT" THEN "menu" ELSE "out"
<1>1. \A e \in Desc : Self(w, e) = b => e = d
  BY SelfIsMine, NullAssumption
<1>2. Plays(w, b) <=> Con(w, d) = "PLYNG"
  BY <1>1 DEF Plays
<1>3. Attends(w, b) <=> Con(w, d) = "SLCT"
  BY <1>1 DEF Attends
<1> QED
  BY <1>2, <1>3 DEF At

(* And of a body that is nobody's, the world. *)
LEMMA NobodyIsAt ==
    ASSUME NEW w, NEW b, \A d \in Desc : Self(w, d) # b
    PROVE  At(w, b) = IF Stands(w, b) THEN "linkdead" ELSE "out"
BY DEF At, Plays, Attends

(* The moves that change nobody's place. *)
LEMMA MovesIdle ==
    ASSUME NEW w, NEW v, Valued(w), Valued(v), Sound(w), Sound(v), NEW d \in Desc,
           \/ Swapped(w, v, d) \/ Opened(w, v, d)
           \/ \E m \in Body : Shaped(w, v, d, m)
    PROVE  Idle(w, v)
<1>1. CASE Swapped(w, v, d)
  <2>1. \A k \in Desc : Con(v, k) = Con(w, k) /\ Self(v, k) = Self(w, k)
    BY <1>1 DEF Swapped, Still, Unmoved, Self
  <2>2. \A a \in Body : Kind(v, a) = Kind(w, a) /\ Label(v, a) = Label(w, a)
    BY <1>1 DEF Swapped, Same
  <2>3. In(v) = In(w)
    BY <1>1 DEF Swapped
  <2> QED
    BY <2>1, <2>2, <2>3, SameSelves DEF Stands
<1>2. CASE Opened(w, v, d)
  <2>1. \A k \in Desc \ {d} : Con(v, k) = Con(w, k) /\ Self(v, k) = Self(w, k)
    BY <1>2 DEF Opened, Still, Unmoved, Self
  <2>2. \A a \in Body : Kind(v, a) = Kind(w, a) /\ Label(v, a) = Label(w, a)
    BY <1>2 DEF Opened, Same
  <2>3. In(v) = In(w) /\ Con(w, d) = "closed" /\ Con(v, d) = "NME"
    BY <1>2 DEF Opened
  <2> QED
    BY <2>1, <2>2, <2>3, SameSelves DEF Stands
<1>3. ASSUME NEW m \in Body, Shaped(w, v, d, m) PROVE Idle(w, v)
  <2>1. Own(w, d) = Null /\ Drives(w, d) # Null
    BY <1>3 DEF Shaped, Sound, Away, Driven
  <2>2. \A k \in Desc : Con(v, k) = Con(w, k) /\ Self(v, k) = Self(w, k)
    BY <1>3, <2>1 DEF Shaped, Still, Unmoved, Self
  <2>3. \A a \in Body \ {m} : Kind(v, a) = Kind(w, a) /\ Label(v, a) = Label(w, a)
    BY <1>3 DEF Shaped, Same
  <2>4. Kind(w, m) # "pc" /\ Kind(v, m) # "pc" /\ ~Waits(w, m)
    BY <1>3 DEF Shaped, Waits
  <2>5. \A a \in Body \ {m} : a \in In(v) <=> a \in In(w)
    BY <1>3 DEF Shaped
  <2> QED
    BY <2>2, <2>3, <2>4, <2>5, SameSelves DEF Stands
<1> QED
  BY <1>1, <1>2, <1>3

(* Nor does what concerns no descriptor in the game. *)
LEMMA AsideIdle ==
    ASSUME NEW w, NEW v, Valued(w), Valued(v), Sound(w),
           \/ Relabelled(w, v) /\ \A k \in Desc : Con(v, k) = "SLCT" => Con(w, k) = "SLCT"
           \/ \E b \in Body : Freed(w, v, b)
    PROVE  Idle(w, v)
<1>1. CASE /\ Relabelled(w, v)
           /\ \A k \in Desc : Con(v, k) = "SLCT" => Con(w, k) = "SLCT"
  <2>1. \A k \in Desc : Self(v, k) = Self(w, k)
    BY <1>1 DEF Relabelled, Self
  <2>2. \A k \in Desc :
            Con(w, k) \in {"SLCT", "PLYNG"} \/ Con(v, k) \in {"SLCT", "PLYNG"}
                => Con(v, k) = Con(w, k)
    BY <1>1 DEF Relabelled, Early
  <2>3. \A a \in Body : Kind(v, a) = Kind(w, a) /\ Label(v, a) = Label(w, a)
    BY <1>1 DEF Relabelled, Same
  <2>4. In(v) = In(w)
    BY <1>1 DEF Relabelled
  <2> QED
    BY <2>1, <2>2, <2>3, <2>4, SameSelves DEF Stands
<1>2. ASSUME NEW b \in Body, Freed(w, v, b) PROVE Idle(w, v)
  <2>1. \A k \in Desc : Con(v, k) = Con(w, k) /\ Self(v, k) = Self(w, k)
    BY <1>2 DEF Freed, Still, Unmoved, Self
  <2>2. \A a \in Body \ {b} : Kind(v, a) = Kind(w, a) /\ Label(v, a) = Label(w, a)
    BY <1>2 DEF Freed, Same
  <2>3. Kind(w, b) # "pc" /\ Kind(v, b) # "pc" /\ ~Waits(w, b)
    BY <1>2 DEF Freed, Waits
  <2>4. \A a \in Body \ {b} : a \in In(v) <=> a \in In(w)
    BY <1>2 DEF Freed
  <2> QED
    BY <2>1, <2>2, <2>3, <2>4, SameSelves DEF Stands
<1> QED
  BY <1>1, <1>2

(* Nor making or naming a character in the login states. *)
LEMMA LoginIdle ==
    ASSUME NEW w, NEW v, Valued(w), Valued(v), Sound(w), NEW d \in Desc, NEW n,
           Renamed(w, v, d, n) \/ \E b \in Body : Made(w, v, d, b, n)
    PROVE  Idle(w, v)
<1>1. PICK c \in Body : /\ c \notin In(w) /\ Same(w, v, {c})
                        /\ \A e \in Desc \ {d} : Self(w, e) # c
  <2>1. CASE Renamed(w, v, d, n)
    <3>1. Drives(w, d) \in Body /\ Drives(w, d) # Null /\ Drives(w, d) \notin In(w)
      BY <2>1 DEF Renamed, Valued, Sound, Outside, Early
    <3> QED
      BY <2>1, <3>1 DEF Renamed, Self, Sound, Single
  <2>2. ASSUME NEW b \in Body, Made(w, v, d, b, n)
        PROVE  b \notin In(w) /\ Same(w, v, {b}) /\ \A e \in Desc \ {d} : Self(w, e) # b
    BY <2>2, NullAssumption DEF Made, Self, Sound, Listed, Driven, Away
  <2> QED
    BY <2>1, <2>2
<1>2. /\ Con(v, d) \in Early /\ Con(w, d) \in Early /\ Unmoved(w, v, {d})
      /\ In(v) = In(w)
  BY DEF Renamed, Made, Still, Early
<1>3. \A k \in Desc \ {d} : Con(v, k) = Con(w, k) /\ Self(v, k) = Self(w, k)
  BY <1>2 DEF Unmoved, Self
<1>4. ~Waits(w, c)
  BY <1>1, <1>2 DEF Waits, Early
<1>5. \A a \in Body \ {c} : Kind(v, a) = Kind(w, a) /\ Label(v, a) = Label(w, a)
  BY <1>1 DEF Same
<1> QED
  BY <1>1, <1>2, <1>3, <1>4, <1>5, SameSelves DEF Stands, Early

(* Nor closing everybody who has no character. *)
LEMMA PrunedIdle ==
    ASSUME NEW w, NEW v, Valued(w), Sound(w), Pruned(w, v)
    PROVE  Idle(w, v)
<1>1. \A k \in Desc : Drives(w, k) = Null =>
        Con(w, k) \notin {"SLCT", "PLYNG"} /\ Con(v, k) = "closed"
  BY DEF Sound, Driven, Pruned
<1>2. \A k \in Desc : Drives(w, k) # Null =>
        Con(v, k) = Con(w, k) /\ Self(v, k) = Self(w, k)
  BY DEF Pruned, Still, Unmoved, Self
<1>3. \A a \in Body : Kind(v, a) = Kind(w, a) /\ Label(v, a) = Label(w, a)
  BY DEF Pruned, Same
<1>4. In(v) = In(w)
  BY DEF Pruned
<1> QED
  BY <1>1, <1>2, <1>3, <1>4, SameSelves DEF Stands

(* Who leaves the world without a player was there without a link. *)
LEMMA LeftWalks ==
    ASSUME NEW w, NEW v, Valued(w), Valued(v), Sound(w), NEW c \in Body, Left(w, v, c)
    PROVE  Walks(w, v, c)
<1> SUFFICES ASSUME Gods = {} PROVE Goes(w, v, c, Edges)
  BY DEF Walks
<1>1. \A k \in Desc : Con(v, k) = Con(w, k) /\ Self(v, k) = Self(w, k)
  BY DEF Left, Still, Unmoved, Self
<1>2. \A a \in Body : /\ Plays(v, a) <=> Plays(w, a)
                      /\ Attends(v, a) <=> Attends(w, a)
                      /\ Kind(v, a) = Kind(w, a) /\ Label(v, a) = Label(w, a)
  BY <1>1 DEF Plays, Attends, Left, Same
<1>3. ASSUME NEW a \in Body, a # c \/ ~Stands(w, c) PROVE Stays(w, v, a)
  <2>1. Stands(v, a) <=> Stands(w, a)
    BY <1>2, <1>3 DEF Left, Stands
  <2> QED
    BY <1>2, <2>1 DEF At, Stays
<1>4. ASSUME Stands(w, c) PROVE At(w, c) = "linkdead" /\ At(v, c) = "out"
  <2>1. ~Plays(w, c)
    BY DEF Plays, Left
  <2>2. ~Attends(w, c)
    BY <1>4, NullAssumption DEF Attends, Stands, Sound, Outside, Away, Self
  <2>3. ~Stands(v, c)
    BY DEF Stands, Left
  <2> QED
    BY <1>2, <1>4, <2>1, <2>2, <2>3 DEF At
<1> QED
  BY <1>3, <1>4 DEF Goes, Edges

(* Who leaves the world for the menu was playing. *)
LEMMA MenuedWalks ==
    ASSUME NEW w, NEW v, Valued(w), Valued(v), Sound(w), Sound(v), NEW d \in Desc,
           Menued(w, v, d)
    PROVE  Goes(w, v, Drives(w, d), Edges)
<1> DEFINE c == Drives(w, d)
<1>1. /\ c \in Body /\ Self(w, d) = c /\ Self(v, d) = c
      /\ Con(w, d) = "PLYNG" /\ Con(v, d) = "SLCT"
  BY NullAssumption DEF Menued, Valued, Sound, Driven, Self
<1>2. /\ Unmoved(w, v, {d}) /\ c \notin In(v) /\ Label(v, c) = Label(w, c)
      /\ \A a \in Body \ {c} : /\ Kind(v, a) = Kind(w, a) /\ Label(v, a) = Label(w, a)
                               /\ a \in In(v) <=> a \in In(w)
  BY DEF Menued, Still, Same
<1> HIDE DEF c
<1>3. ASSUME NEW a \in Body \ {c} PROVE Stays(w, v, a)
  BY <1>1, <1>2, OthersStay DEF Stands
<1>4. At(w, c) = "playing" /\ At(v, c) = "menu"
  BY <1>1, <1>2, SelfIsAt DEF Stands
<1> QED
  BY <1>2, <1>3, <1>4 DEF Goes, Edges, c

(* A connection that ends leaves its player without a link, or out. *)
LEMMA ClosedDrops ==
    ASSUME NEW w, NEW v, Valued(w), Valued(v), Sound(w), Sound(v), NEW d \in Desc,
           Closed(w, v, d)
    PROVE  Drops(w, v, d)
<1> SUFFICES ASSUME Gods = {} PROVE Goes(w, v, Self(w, d), Downs)
  BY DEF Drops
<1> DEFINE b == Self(w, d)
           c == Drives(w, d)
<1>1. /\ Unmoved(w, v, {d}) /\ Con(v, d) = "closed" /\ Self(v, d) = Null
      /\ In(v) = In(w)
      /\ \A a \in Body \ {c} : Kind(v, a) = Kind(w, a) /\ Label(v, a) = Label(w, a)
  BY DEF Closed, Still, Same, Self
<1>2. ASSUME NEW a \in Body, a # c, Con(w, d) \in {"SLCT", "PLYNG"} => b # a
      PROVE  Stays(w, v, a)
  BY <1>1, <1>2, OthersStay DEF Stands
<1>3. CASE c = Null
  <2>1. Con(w, d) \notin {"SLCT", "PLYNG"}
    BY <1>3 DEF Sound, Driven
  <2> QED
    BY <1>2, <1>3, <2>1, NullAssumption DEF Goes
<1>4. ASSUME NEW a \in Body, Self(w, d) = a
      PROVE  At(v, a) = IF Stands(v, a) THEN "linkdead" ELSE "out"
  <2>1. \A k \in Desc : Self(v, k) # a
    <3> SUFFICES ASSUME NEW k \in Desc \ {d} PROVE Self(v, k) # a
      BY <1>1, NullAssumption
    <3>1. Self(v, k) = Self(w, k)
      BY <1>1 DEF Unmoved, Self
    <3> QED
      BY <1>4, <3>1, SelfIsMine, NullAssumption
  <2> QED
    BY <2>1, NobodyIsAt
<1>5. CASE c # Null /\ Con(w, d) = "PLYNG"
  <2>1. \A a \in Body : Kind(v, a) = Kind(w, a) /\ Label(v, a) = Label(w, a)
    BY <1>1, <1>5 DEF Closed
  <2>2. b \in Body /\ Kind(w, b) = "pc" /\ b \in In(w)
    BY <1>5 DEF Self, Valued, Sound, Away, Homed
  <2> HIDE DEF b
  <2>3. At(w, b) = "playing"
    BY <1>5, <2>2, SelfIsAt DEF b
  <2>4. At(v, b) = "linkdead"
    BY <1>1, <1>4, <2>1, <2>2 DEF b, Stands
  <2>5. ASSUME NEW a \in Body, a # b PROVE Stays(w, v, a)
    BY <1>1, <2>1, <2>5, OthersStay DEF Stands, b
  <2> QED
    BY <2>1, <2>2, <2>3, <2>4, <2>5 DEF Goes, Downs, b
<1>6. CASE c # Null /\ Con(w, d) # "PLYNG"
  <2>1. c \in Body /\ b = c /\ c \notin In(w)
    BY <1>6 DEF Self, Valued, Sound, Away, Outside
  <2>2. Kind(v, c) = "free"
    BY <1>6 DEF Closed
  <2> HIDE DEF b, c
  <2>3. At(v, c) = "out"
    BY <1>4, <2>1, <2>2 DEF b, Stands
  <2>4. At(w, c) = IF Con(w, d) = "SLCT" THEN "menu" ELSE "out"
    BY <1>6, <2>1, SelfIsAt DEF b, Stands
  <2>5. ASSUME NEW a \in Body, a # c PROVE Stays(w, v, a)
    BY <1>2, <2>1, <2>5
  <2> QED
    BY <2>1, <2>3, <2>4, <2>5 DEF Goes, Downs, Stays, b
<1> QED
  BY <1>3, <1>5, <1>6

(* Who is taken over was without a link, and plays. *)
LEMMA TakenOverWalks ==
    ASSUME NEW w, NEW v, Valued(w), Valued(v), Sound(w), Sound(v), NEW d \in Desc,
           NEW c \in Body, TakenOver(w, v, d, c)
    PROVE  Goes(w, v, c, Ups)
<1> DEFINE mine == Drives(w, d)
<1>1. /\ mine \in Body /\ mine # Null /\ Self(w, d) = mine /\ Self(v, d) = c
      /\ Con(w, d) \in Early /\ Con(v, d) = "PLYNG"
  BY DEF TakenOver, Valued, Sound, Away, Self, Early
<1>2. mine \notin In(w) /\ mine # c
  BY <1>1, NullAssumption DEF TakenOver, Sound, Outside, Driven, Early
<1>3. /\ Unmoved(w, v, {d}) /\ In(v) = In(w) /\ Kind(v, mine) = "free"
      /\ Kind(v, c) = "pc" /\ Kind(w, c) = "pc" /\ Label(v, c) = Label(w, c) /\ c \in In(w)
      /\ \A a \in Body \ {mine, c} : Kind(v, a) = Kind(w, a) /\ Label(v, a) = Label(w, a)
  BY DEF TakenOver, Still, Same
<1>4. \A e \in Desc : Self(w, e) # c
  <2> SUFFICES ASSUME NEW e \in Desc, Drives(w, e) = c PROVE FALSE
    BY DEF TakenOver, Self
  <2> QED
    BY NullAssumption DEF TakenOver, Sound, Driven, Outside
<1> HIDE DEF mine
<1>5. At(w, c) = "linkdead" /\ At(v, c) = "playing"
  BY <1>1, <1>3, <1>4, NobodyIsAt, SelfIsAt DEF Stands
<1>6. At(w, mine) = "out"
  BY <1>1, <1>2, SelfIsAt DEF Stands, Early
<1>7. At(v, mine) = "out"
  <2>1. \A k \in Desc : Self(v, k) # mine
    <3> SUFFICES ASSUME NEW k \in Desc \ {d} PROVE Self(v, k) # mine
      BY <1>1, <1>2
    <3>1. Self(v, k) = Self(w, k)
      BY <1>3 DEF Unmoved, Self
    <3> QED
      BY <1>1, <3>1, SelfIsMine
  <2> QED
    BY <1>3, <2>1, NobodyIsAt DEF Stands
<1>8. ASSUME NEW a \in Body \ {mine, c} PROVE Stays(w, v, a)
  BY <1>1, <1>3, OthersStay DEF Stands, Early
<1> QED
  BY <1>3, <1>5, <1>6, <1>7, <1>8 DEF Goes, Ups, Stays

(* From the menu a player comes to play, or goes out. *)
LEMMA MenuWalks ==
    ASSUME NEW w, NEW v, Valued(w), Valued(v), Sound(w), Sound(v), NEW d \in Desc,
           Entered(w, v, d) \/ Dropped(w, v, d)
    PROVE  Goes(w, v, Drives(w, d), Edges)
<1> DEFINE c == Drives(w, d)
<1>1. /\ c \in Body /\ c # Null /\ Self(w, d) = c /\ Con(w, d) = "SLCT" /\ c \notin In(w)
  BY DEF Entered, Dropped, Valued, Sound, Driven, Away, Outside, Self
<1>2. /\ Unmoved(w, v, {d})
      /\ \A a \in Body \ {c} : /\ Kind(v, a) = Kind(w, a) /\ Label(v, a) = Label(w, a)
                               /\ a \in In(v) <=> a \in In(w)
  BY DEF Entered, Dropped, Still, Same
<1>3. At(w, c) = "menu"
  BY <1>1, SelfIsAt DEF Stands
<1>4. CASE Entered(w, v, d)
  <2>1. Con(v, d) = "PLYNG" /\ Self(v, d) = c /\ Label(v, c) = Label(w, c)
    BY <1>1, <1>4 DEF Entered, Self
  <2> HIDE DEF c
  <2>2. At(v, c) = "playing"
    BY <1>1, <2>1, SelfIsAt
  <2>3. ASSUME NEW a \in Body \ {c} PROVE Stays(w, v, a)
    BY <1>1, <1>2, <2>1, OthersStay DEF Stands
  <2> QED
    BY <1>3, <2>1, <2>2, <2>3 DEF Goes, Edges, c
<1>5. CASE Dropped(w, v, d)
  <2>1. /\ Con(v, d) \in {"NME", "TOON"} /\ Self(v, d) = Null
        /\ Kind(v, c) = "free"
    BY <1>1, <1>5 DEF Dropped, Self, Sound, Away
  <2> HIDE DEF c
  <2>2. \A k \in Desc : Self(v, k) # c
    <3> SUFFICES ASSUME NEW k \in Desc \ {d} PROVE Self(v, k) # c
      BY <1>1, <2>1
    <3>1. Self(v, k) = Self(w, k)
      BY <1>2 DEF Unmoved, Self
    <3> QED
      BY <1>1, <3>1, SelfIsMine
  <2>3. At(v, c) = "out"
    BY <2>1, <2>2, NobodyIsAt DEF Stands
  <2>4. ASSUME NEW a \in Body \ {c} PROVE Stays(w, v, a)
    BY <1>1, <1>2, <2>1, OthersStay DEF Stands
  <2> QED
    BY <1>3, <2>3, <2>4 DEF Goes, Edges, Downs, c
<1> QED
  BY <1>4, <1>5

(* Who comes to the menu from the login states was out. *)
LEMMA ComesWalks ==
    ASSUME NEW w, NEW v, Valued(w), Valued(v), Sound(w), Sound(v), NEW d \in Desc,
           Relabelled(w, v), Unmoved(w, v, {d}), Con(w, d) \in Early,
           Con(v, d) = "SLCT"
    PROVE  Goes(w, v, Drives(w, d), Ups)
<1> DEFINE c == Drives(w, d)
<1>1. c \in Body /\ c # Null /\ Self(w, d) = c /\ Self(v, d) = c /\ c \notin In(w)
  BY DEF Relabelled, Valued, Sound, Driven, Away, Outside, Self, Early
<1>2. /\ In(v) = In(w)
      /\ \A a \in Body : Kind(v, a) = Kind(w, a) /\ Label(v, a) = Label(w, a)
  BY DEF Relabelled, Same
<1> HIDE DEF c
<1>3. At(w, c) = "out" /\ At(v, c) = "menu"
  BY <1>1, <1>2, SelfIsAt DEF Stands, Early
<1>4. ASSUME NEW a \in Body \ {c} PROVE Stays(w, v, a)
  BY <1>1, <1>2, OthersStay DEF Stands
<1> QED
  BY <1>3, <1>4 DEF Goes, Ups, c

(* Nothing happens, and then something, or the other way round. *)
LEMMA IdleGoes ==
    ASSUME NEW w, NEW v, NEW u, Idle(w, v), NEW b, NEW E
    PROVE  /\ Goes(v, u, b, E) => Goes(w, u, b, E)
           /\ Idle(v, u) => Idle(w, u)
BY DEF Idle, Stays, Goes

LEMMA GoesIdle ==
    ASSUME NEW w, NEW v, NEW u, NEW b, NEW E, Goes(w, v, b, E), Idle(v, u)
    PROVE  Goes(w, u, b, E)
BY DEF Idle, Stays, Goes

\* Somebody may have moved.
Moved(w, v) == \E b : Walks(w, v, b)

LEMMA MovedIdle ==
    ASSUME NEW w, NEW v, NEW u
    PROVE  /\ Idle(w, v) /\ Moved(v, u) => Moved(w, u)
           /\ Moved(w, v) /\ Idle(v, u) => Moved(w, u)
BY IdleGoes, GoesIdle DEF Moved, Walks

(* Where nobody moves, or a connection ends, no more than one moves. *)
LEMMA LittleMoves ==
    ASSUME NEW w, NEW v
    PROVE  /\ Idle(w, v) => Moved(w, v)
           /\ \A d : Drops(w, v, d) => Moved(w, v)
           /\ \A b : Goes(w, v, b, Edges) => Moved(w, v)
           /\ \A b : Goes(w, v, b, Ups) => Moved(w, v)
<1>1. ASSUME Idle(w, v) PROVE Moved(w, v)
  BY <1>1 DEF Idle, Goes, Walks, Moved
<1>2. ASSUME NEW d, Drops(w, v, d) PROVE Moved(w, v)
  <2>1. Walks(w, v, Self(w, d))
    BY <1>2 DEF Drops, Goes, Walks, Edges
  <2> QED
    BY <2>1 DEF Moved
<1>3. ASSUME NEW b, Goes(w, v, b, Edges) \/ Goes(w, v, b, Ups) PROVE Moved(w, v)
  <2>1. Walks(w, v, b)
    BY <1>3 DEF Goes, Walks, Edges
  <2> QED
    BY <2>1 DEF Moved
<1> QED
  BY <1>1, <1>2, <1>3

(* What ends is the connection of the same player, before and after. *)
LEMMA DropsAfter ==
    ASSUME NEW w, NEW v, NEW u, NEW d, Idle(w, v), Self(v, d) = Self(w, d),
           Drops(v, u, d)
    PROVE  Drops(w, u, d)
BY IdleGoes DEF Drops

\* A body of that name is there; where the player of that name is.
Found(w, n, place) == \E b \in Body : Label(w, b) = n /\ At(w, b) = place
Placed(w, n) == IF Found(w, n, "playing") THEN "playing"
                ELSE IF Found(w, n, "linkdead") THEN "linkdead"
                ELSE IF Found(w, n, "menu") THEN "menu"
                ELSE "out"

\* The players stay where they are, but n, which may move as E says.
Steps(w, v, n, E) ==
    \A m \in Name :
        \/ Placed(v, m) = Placed(w, m)
        \/ m = n /\ <<Placed(w, m), Placed(v, m)>> \in E

(* A player is where its body is. *)
LEMMA PlacedThere ==
    ASSUME NEW w, Valued(w), Sound(w), Unique(w), NEW n \in Name, NEW b \in Body,
           Label(w, b) = n, At(w, b) # "out"
    PROVE  Placed(w, n) = At(w, b)
<1>1. \A a \in Body : Label(w, a) = n /\ At(w, a) # "out" => a = b
  BY PlacedWaits, NullAssumption DEF Unique
<1>2. At(w, b) \in {"playing", "linkdead", "menu", "out"}
  BY DEF At
<1> QED
  BY <1>1, <1>2 DEF Placed, Found

(* And whoever has none is out. *)
LEMMA PlacedNowhere ==
    ASSUME NEW w, NEW n, \A a \in Body : Label(w, a) = n => At(w, a) = "out"
    PROVE  Placed(w, n) = "out"
BY DEF Placed, Found

(* Where no body moves, no player does. *)
LEMMA IdleSteps ==
    ASSUME NEW w, NEW v, Valued(w), Sound(w), Unique(w), Valued(v), Sound(v), Unique(v),
           Idle(w, v), NEW n \in Name
    PROVE  Placed(v, n) = Placed(w, n)
<1>1. CASE \E b \in Body : Label(w, b) = n /\ At(w, b) # "out"
  <2>1. PICK b \in Body : Label(w, b) = n /\ At(w, b) # "out"
    BY <1>1
  <2>2. Label(v, b) = n /\ At(v, b) = At(w, b)
    BY <2>1 DEF Idle, Stays
  <2> QED
    BY <2>1, <2>2, PlacedThere
<1>2. CASE \A b \in Body : Label(w, b) = n => At(w, b) = "out"
  <2>1. \A b \in Body : Label(v, b) = n => At(v, b) = "out"
    BY <1>2 DEF Idle, Stays
  <2> QED
    BY <1>2, <2>1, PlacedNowhere
<1> QED
  BY <1>1, <1>2

(* Where one body moves, the player of its name does. *)
LEMMA GoesSteps ==
    ASSUME NEW w, NEW v, Valued(w), Sound(w), Unique(w), Valued(v), Sound(v), Unique(v),
           NEW b, NEW E, Goes(w, v, b, E)
    PROVE  LET n == IF At(w, b) # "out" THEN Label(w, b) ELSE Label(v, b)
           IN  Steps(w, v, n, E)
<1> DEFINE n == IF At(w, b) # "out" THEN Label(w, b) ELSE Label(v, b)
<1> SUFFICES ASSUME NEW m \in Name, Placed(v, m) # Placed(w, m)
             PROVE  m = n /\ <<Placed(w, m), Placed(v, m)>> \in E
  BY DEF Steps
<1>1. ASSUME NEW a \in Body, Label(w, a) = m, At(w, a) # "out"
      PROVE  m = n /\ <<Placed(w, m), Placed(v, m)>> \in E
  <2>1. Placed(w, m) = At(w, a)
    BY <1>1, PlacedThere
  <2>2. ~Stays(w, v, a)
    BY <1>1, <2>1, PlacedThere DEF Stays
  <2>3. /\ a = b /\ <<At(w, a), At(v, a)>> \in E
        /\ At(v, a) # "out" => Label(v, a) = m
    BY <1>1, <2>2 DEF Goes
  <2>4. Placed(v, m) = At(v, a)
    <3>1. CASE At(v, a) # "out"
      BY <2>3, <3>1, PlacedThere
    <3>2. CASE At(v, a) = "out"
      <4>1. ASSUME NEW e \in Body, Label(v, e) = m, At(v, e) # "out" PROVE FALSE
        <5>1. Stays(w, v, e)
          BY <2>3, <3>2, <4>1 DEF Goes
        <5>2. At(w, e) # "out" /\ Label(w, e) = m
          BY <4>1, <5>1 DEF Stays
        <5> QED
          BY <1>1, <3>2, <4>1, <5>2, PlacedWaits, NullAssumption DEF Unique
      <4> QED
        BY <3>2, <4>1, PlacedNowhere
    <3> QED
      BY <3>1, <3>2
  <2> QED
    BY <1>1, <2>1, <2>3, <2>4
<1>2. ASSUME \A a \in Body : Label(w, a) = m => At(w, a) = "out"
      PROVE  m = n /\ <<Placed(w, m), Placed(v, m)>> \in E
  <2>1. Placed(w, m) = "out"
    BY <1>2, PlacedNowhere
  <2>2. PICK a \in Body : Label(v, a) = m /\ At(v, a) # "out"
    BY <2>1, PlacedNowhere
  <2>3. ~Stays(w, v, a)
    BY <1>2, <2>2 DEF Stays
  <2>4. /\ a = b /\ <<At(w, a), At(v, a)>> \in E
        /\ At(w, a) # "out" => Label(w, a) = m
    BY <2>2, <2>3 DEF Goes
  <2>5. At(w, a) = "out"
    BY <1>2, <2>4
  <2>6. Placed(v, m) = At(v, a)
    BY <2>2, PlacedThere
  <2> QED
    BY <2>1, <2>2, <2>4, <2>5, <2>6
<1> QED
  BY <1>1, <1>2

\* The same, where nobody is switched.
Turns(w, v, n) == Gods = {} => Steps(w, v, n, Edges)

(* After nothing, a step is a step. *)
LEMMA IdleTurns ==
    ASSUME NEW w, NEW v, NEW u, Valued(w), Sound(w), Unique(w), Valued(v), Sound(v), Unique(v),
           Idle(w, v), NEW n, NEW E, Steps(v, u, n, E)
    PROVE  Steps(w, u, n, E)
BY IdleSteps DEF Steps

(* A connection that ends moves its player. *)
LEMMA DropsSteps ==
    ASSUME NEW w, NEW v, Valued(w), Sound(w), Unique(w), Valued(v), Sound(v), Unique(v),
           NEW d \in Desc, Drops(w, v, d), Gods = {}
    PROVE  Steps(w, v, Bears(w, d), Downs)
<1> DEFINE b == Self(w, d)
<1>1. Goes(w, v, b, Downs)
  BY DEF Drops
<1>2. CASE b \in Body /\ At(w, b) # "out"
  <2>1. Bears(w, d) = Label(w, b)
    BY <1>2, NullAssumption DEF Bears
  <2> HIDE DEF b
  <2> QED
    BY <1>1, <1>2, <2>1, GoesSteps
<1>3. CASE ~(b \in Body /\ At(w, b) # "out")
  <2> HIDE DEF b
  <2>1. Idle(w, v)
    BY <1>1, <1>3 DEF Goes, Downs, Idle
  <2> QED
    BY <2>1, IdleSteps DEF Steps
<1> QED
  BY <1>2, <1>3

(* What moves a body that keeps its name moves that player. *)
LEMMA NamedSteps ==
    ASSUME NEW w, NEW v, Valued(w), Sound(w), Unique(w), Valued(v), Sound(v), Unique(v),
           NEW b, NEW E, Goes(w, v, b, E), Label(v, b) = Label(w, b)
    PROVE  Steps(w, v, Label(w, b), E)
BY GoesSteps

(* A player that goes down and up again has moved at most once. *)
LEMMA DownAndUp ==
    ASSUME NEW w, NEW v, NEW u, NEW n, Steps(w, v, n, Downs),
           (\A m \in Name : Placed(u, m) = Placed(v, m)) \/ Steps(v, u, n, Ups)
    PROVE  Steps(w, u, n, Edges)
<1> SUFFICES ASSUME NEW m \in Name, Placed(u, m) # Placed(w, m)
             PROVE  m = n /\ <<Placed(w, m), Placed(u, m)>> \in Edges
  BY DEF Steps
<1>1. /\ \/ Placed(v, m) = Placed(w, m)
         \/ m = n /\ <<Placed(w, m), Placed(v, m)>> \in Downs
      /\ \/ Placed(u, m) = Placed(v, m)
         \/ m = n /\ <<Placed(v, m), Placed(u, m)>> \in Ups
  BY DEF Steps
<1> QED
  BY <1>1 DEF Downs, Ups, Edges

(* Whoever moves, one player does. *)
LEMMA MovedTurns ==
    ASSUME NEW w, NEW v, Valued(w), Sound(w), Unique(w), Valued(v), Sound(v), Unique(v),
           Moved(w, v)
    PROVE  \E n : Turns(w, v, n)
<1>1. PICK b : Walks(w, v, b)
  BY DEF Moved
<1>2. Gods = {} => \E n : Steps(w, v, n, Edges)
  BY <1>1, GoesSteps DEF Walks
<1> QED
  BY <1>2 DEF Turns
-----------------------------------------------------------------------------
(* The functions of the code *)

(* The values of a world have their types. *)
LEMMA TypedValues ==
    ASSUME NEW w, Typed(w)
    PROVE  Valued(w)
<1>1. /\ w.order \in Seq(Desc) /\ w.people \in Seq(Body)
      /\ w.sock \in [Desc -> Socket] /\ w.body \in [Body -> Char]
  BY DEF Typed
<1>2. On(w) \subseteq Desc /\ In(w) \subseteq Body
  BY <1>1 DEF On, In, ToSet
<1>3. ASSUME NEW d \in Desc
      PROVE  /\ Con(w, d) \in ConState /\ Drives(w, d) \in Body \cup {Null}
             /\ Own(w, d) \in Body \cup {Null} /\ Snoops(w, d) \in Body \cup {Null}
             /\ Heard(w, d) \in Body \cup {Null}
  BY <1>1 DEF Socket, Con, Drives, Own, Snoops, Heard
<1>4. ASSUME NEW b \in Body
      PROVE  /\ Kind(w, b) \in {"free", "pc", "npc", "poly"}
             /\ Label(w, b) \in Name \cup {Null} /\ Link(w, b) \in Desc \cup {Null}
  BY <1>1 DEF Char, Kind, Label, Link
<1> QED
  BY <1>2, <1>3, <1>4 DEF Valued

(* Who does not play has nothing to do with snooping. *)
LEMMA NotPlayingDeaf ==
    ASSUME NEW w, Sound(w), NEW d \in Desc, Con(w, d) # "PLYNG"
    PROVE  Deaf(w, d)
BY DEF Sound, Mutual, Deaf

(* The return to the own body. *)
LEMMA SwapBackMoves ==
    ASSUME NEW w, Typed(w), Sound(w), NEW d \in Desc, Own(w, d) # Null, Deaf(w, d)
    PROVE  LET v == SwapBack(w, d)
           IN  Typed(v) /\ Swapped(w, v, d) /\ Tidy(v)
<1> DEFINE own == w.sock[d].original
           shape == w.sock[d].character
           v == SwapBack(w, d)
<1>1. own \in Body /\ shape \in Body /\ own # shape
  BY TypedValues DEF Sound, Away, Valued, Own, Drives
<1>2. v = [w EXCEPT !.sock[d].character = own, !.sock[d].original = Null,
                    !.body[own].desc = d, !.body[shape].desc = Null]
  BY DEF SwapBack
<1> HIDE DEF v
<1>3. /\ v.order = w.order /\ v.people = w.people
      /\ v.sock = [w.sock EXCEPT ![d] = [@ EXCEPT !.character = own, !.original = Null]]
      /\ v = [order |-> v.order, sock |-> v.sock, people |-> v.people, body |-> v.body]
  BY <1>2 DEF Typed
<1>4. v.body = [w.body EXCEPT ![own] = [@ EXCEPT !.desc = d],
                              ![shape] = [@ EXCEPT !.desc = Null]]
  BY <1>1, <1>2 DEF Typed
<1>5. v.sock \in [Desc -> Socket] /\ v.body \in [Body -> Char]
  <2>1. w.sock \in [Desc -> Socket] /\ w.body \in [Body -> Char]
    BY DEF Typed
  <2>2. [w.sock[d] EXCEPT !.character = own, !.original = Null] \in Socket
    BY <1>1, <2>1 DEF Socket
  <2>3. v.sock \in [Desc -> Socket]
    BY <1>3, <2>1, <2>2
  <2>4. /\ [w.body[own] EXCEPT !.desc = d] \in Char
        /\ [w.body[shape] EXCEPT !.desc = Null] \in Char
    <3>1. w.body[own] \in Char /\ w.body[shape] \in Char
      BY <1>1, <2>1
    <3> HIDE DEF own, shape
    <3> QED
      BY <3>1 DEF Char
  <2>5. v.body \in [Body -> Char]
    BY <1>1, <1>4, <2>1, <2>4
  <2> QED
    BY <2>3, <2>5
<1>6. Typed(v)
  BY <1>3, <1>5 DEF Typed
<1>7. Swapped(w, v, d)
  <2>1. /\ Con(v, d) = Con(w, d) /\ Drives(v, d) = own /\ Own(v, d) = Null
        /\ Still(w, v, {d})
    <3> DEFINE s == [w.sock[d] EXCEPT !.character = own, !.original = Null]
    <3>1. /\ w.sock \in [Desc -> Socket]
          /\ w.sock[d] \in Socket /\ w.sock[d].snooping = Null /\ w.sock[d].snoopBy = Null
      BY DEF Typed, Deaf, Snoops, Heard
    <3>2. /\ s.con = Con(w, d) /\ s.character = own /\ s.original = Null
          /\ s.snooping = Null /\ s.snoopBy = Null
      BY <3>1 DEF Socket, Con
    <3>3. v.sock = [w.sock EXCEPT ![d] = s]
      BY <1>3
    <3> HIDE DEF s
    <3>4. v.sock[d] = s /\ \A k \in Desc \ {d} : v.sock[k] = w.sock[k]
      BY <3>1, <3>3
    <3>5. Deaf(v, d)
      BY <3>2, <3>4 DEF Deaf, Snoops, Heard
    <3>6. Still(w, v, {d})
      BY <3>4, <3>5, SocketMoved
    <3> QED
      BY <3>2, <3>4, <3>6 DEF Con, Drives, Own
  <2>2. /\ Same(w, v, {shape, own})
        /\ Kind(v, own) = Kind(w, own) /\ Label(v, own) = Label(w, own)
        /\ Link(v, own) = d
        /\ Kind(v, shape) = Kind(w, shape) /\ Label(v, shape) = Label(w, shape)
        /\ Link(v, shape) = Null
    <3> DEFINE x == [w.body[own] EXCEPT !.desc = d]
               y == [w.body[shape] EXCEPT !.desc = Null]
    <3>1. w.body \in [Body -> Char] /\ w.body[own] \in Char /\ w.body[shape] \in Char
      BY <1>1 DEF Typed
    <3>2. /\ x.kind = Kind(w, own) /\ x.name = Label(w, own) /\ x.desc = d
          /\ y.kind = Kind(w, shape) /\ y.name = Label(w, shape) /\ y.desc = Null
      BY <3>1 DEF Char, Kind, Label
    <3>3. v.body = [w.body EXCEPT ![own] = x, ![shape] = y]
      BY <1>1, <1>4
    <3> HIDE DEF x, y, own, shape
    <3>4. /\ v.body[own] = x /\ v.body[shape] = y
          /\ \A b \in Body \ {shape, own} : v.body[b] = w.body[b]
      BY <1>1, <3>1, <3>3
    <3> QED
      BY <3>2, <3>4 DEF Same, Kind, Label, Link
  <2>3. own = Own(w, d) /\ shape = Drives(w, d)
    BY DEF Own, Drives
  <2> HIDE DEF own, shape
  <2> QED
    BY <1>3, <2>1, <2>2, <2>3 DEF Swapped, On, In
<1>8. Tidy(v)
  BY <1>3 DEF Sound, Tidy
<1> QED
  BY <1>6, <1>7, <1>8 DEF v

\* The same world, but for what snooping, accounts and choices say.
Steady(w, v) ==
    /\ Typed(v) /\ v.order = w.order /\ v.people = w.people /\ v.body = w.body
    /\ Unmoved(w, v, {})

\* In which the pointers of snooping still agree.
Alike(w, v) == Steady(w, v) /\ Mutual(v)

(* Such a world is as sound, with the same names. *)
LEMMA AlikeSound ==
    ASSUME NEW w, NEW v, Typed(w), Sound(w), Alike(w, v)
    PROVE  /\ Sound(v) /\ \A k \in Desc : Bears(v, k) = Bears(w, k)
           /\ NoneComes(w, v) /\ Idle(w, v)
<1>1. Valued(w) /\ Valued(v)
  BY TypedValues DEF Alike, Steady
<1>2. /\ On(v) = On(w) /\ In(v) = In(w) /\ Tidy(v)
      /\ \A b \in Body : /\ Kind(v, b) = Kind(w, b) /\ Label(v, b) = Label(w, b)
                         /\ Link(v, b) = Link(w, b)
  BY DEF Alike, Steady, On, In, Tidy, Sound, Kind, Label, Link
<1>3. Relabelled(w, v) /\ \A k \in Desc : Con(v, k) = "SLCT" => Con(w, k) = "SLCT"
  BY <1>2 DEF Alike, Steady, Relabelled, Unmoved, Same
<1> QED
  BY <1>1, <1>2, <1>3, RelabelledSound, MovesAside, AsideBringsNone, AsideIdle

(* Forgetting snooping changes nothing but the pointers of snooping. *)
LEMMA ForgetSnoopingSteady ==
    ASSUME NEW w, Typed(w), NEW d \in Desc
    PROVE  LET v == ForgetSnooping(w, d)
           IN  /\ Steady(w, v)
               /\ \A k \in Desc :
                    /\ Snoops(v, k) =
                         IF k = d \/ (Heard(w, d) # Null /\ k = Link(w, Heard(w, d)))
                         THEN Null ELSE Snoops(w, k)
                    /\ Heard(v, k) =
                         IF k = d \/ (Snoops(w, d) # Null /\ k = Link(w, Snoops(w, d)))
                         THEN Null ELSE Heard(w, k)
<1> DEFINE victim == w.sock[d].snooping
           spy == w.sock[d].snoopBy
           s == [k \in Desc |->
                  [w.sock[k] EXCEPT
                    !.snooping = IF k = d \/ (spy # Null /\ k = w.body[spy].desc)
                                 THEN Null ELSE @,
                    !.snoopBy = IF k = d \/ (victim # Null /\ k = w.body[victim].desc)
                                THEN Null ELSE @]]
           v == ForgetSnooping(w, d)
<1>1. v = [w EXCEPT !.sock = s]
  BY DEF ForgetSnooping
<1>2. ASSUME NEW k \in Desc
      PROVE  /\ s[k] \in Socket /\ s[k].con = w.sock[k].con
             /\ s[k].character = w.sock[k].character
             /\ s[k].original = w.sock[k].original
             /\ s[k].snooping = IF k = d \/ (spy # Null /\ k = w.body[spy].desc)
                                THEN Null ELSE w.sock[k].snooping
             /\ s[k].snoopBy = IF k = d \/ (victim # Null /\ k = w.body[victim].desc)
                               THEN Null ELSE w.sock[k].snoopBy
  <2> DEFINE x == IF k = d \/ (spy # Null /\ k = w.body[spy].desc)
                  THEN Null ELSE w.sock[k].snooping
             y == IF k = d \/ (victim # Null /\ k = w.body[victim].desc)
                  THEN Null ELSE w.sock[k].snoopBy
  <2>1. w.sock[k] \in Socket
    BY DEF Typed
  <2>2. s[k] = [w.sock[k] EXCEPT !.snooping = x, !.snoopBy = y]
    OBVIOUS
  <2>3. x \in Body \cup {Null} /\ y \in Body \cup {Null}
    BY <2>1 DEF Socket
  <2> HIDE DEF s, x, y
  <2>4. /\ s[k] \in Socket /\ s[k].con = w.sock[k].con
        /\ s[k].character = w.sock[k].character /\ s[k].original = w.sock[k].original
        /\ s[k].snooping = x /\ s[k].snoopBy = y
    BY <2>1, <2>2, <2>3 DEF Socket
  <2> QED
    BY <2>4 DEF x, y
<1>3. s \in [Desc -> Socket]
  BY <1>2
<1> HIDE DEF s, v
<1>4. /\ v.order = w.order /\ v.people = w.people /\ v.body = w.body /\ v.sock = s
      /\ v = [order |-> v.order, sock |-> v.sock, people |-> v.people, body |-> v.body]
  BY <1>1 DEF Typed
<1>5. Typed(v)
  BY <1>3, <1>4 DEF Typed
<1>6. Unmoved(w, v, {})
  BY <1>2, <1>4 DEF Unmoved, Con, Drives, Own
<1>7. Steady(w, v)
  BY <1>4, <1>5, <1>6 DEF Steady
<1> QED
  BY <1>2, <1>4, <1>7 DEF v, Snoops, Heard, Link

(* Whoever snoops or is snooped plays, and the body it drives points back. *)
LEMMA SnoopersLinked ==
    ASSUME NEW w, Valued(w), Sound(w), NEW k \in Desc, ~Deaf(w, k)
    PROVE  /\ Drives(w, k) \in Body /\ Drives(w, k) # Null
           /\ Link(w, Drives(w, k)) = k
           /\ \A e \in Desc : Drives(w, e) = Drives(w, k) => e = k
<1>1. Con(w, k) = "PLYNG"
  BY DEF Sound, Mutual, Deaf
<1>2. Drives(w, k) \in Body /\ Drives(w, k) # Null
  BY <1>1 DEF Valued, Sound, Driven
<1> QED
  BY <1>1, <1>2 DEF Sound, Driven, Single

(* Both sides of every pair are cleared, or none. *)
LEMMA ForgetSnoopingMoves ==
    ASSUME NEW w, Typed(w), Sound(w), NEW d \in Desc
    PROVE  Alike(w, ForgetSnooping(w, d)) /\ Deaf(ForgetSnooping(w, d), d)
<1> DEFINE v == ForgetSnooping(w, d)
<1>1. /\ Steady(w, v)
      /\ \A k \in Desc :
            /\ Snoops(v, k) =
                 IF k = d \/ (Heard(w, d) # Null /\ k = Link(w, Heard(w, d)))
                 THEN Null ELSE Snoops(w, k)
            /\ Heard(v, k) =
                 IF k = d \/ (Snoops(w, d) # Null /\ k = Link(w, Snoops(w, d)))
                 THEN Null ELSE Heard(w, k)
  BY ForgetSnoopingSteady
<1> HIDE DEF v
<1>2. Valued(w)
  BY TypedValues
<1>3. \A k \in Desc : Con(v, k) = Con(w, k) /\ Drives(v, k) = Drives(w, k) /\ Own(v, k) = Own(w, k)
  BY <1>1 DEF Steady, Unmoved
<1>4. \A b : Link(v, b) = Link(w, b)
  BY <1>1 DEF Steady, Link
<1>5. ASSUME NEW k \in Desc, Snoops(v, k) # Null
      PROVE  /\ Con(v, k) = "PLYNG" /\ Own(v, k) = Null
             /\ Link(v, Snoops(v, k)) # Null
             /\ Heard(v, Link(v, Snoops(v, k))) = Drives(v, k)
  <2> DEFINE e == Link(w, Snoops(w, k))
  <2>1. Snoops(v, k) = Snoops(w, k) /\ Snoops(w, k) # Null /\ k # d
    BY <1>1, <1>5
  <2>2. /\ Con(w, k) = "PLYNG" /\ Own(w, k) = Null
        /\ e # Null /\ Heard(w, e) = Drives(w, k)
    BY <2>1 DEF Sound, Mutual
  <2>3. e \in Desc
    BY <1>2, <2>1, <2>2 DEF Valued
  <2>4. Link(w, Drives(w, k)) = k /\ Drives(w, k) # Null
    BY <1>2, <2>1, SnoopersLinked DEF Deaf
  <2>5. e # d
    BY <1>1, <1>5, <2>2, <2>4
  <2>6. ASSUME Snoops(w, d) # Null, e = Link(w, Snoops(w, d)) PROVE FALSE
    <3>1. Heard(w, e) = Drives(w, d)
      BY <2>6 DEF Sound, Mutual
    <3>2. ~Deaf(w, k)
      BY <2>1 DEF Deaf
    <3>3. Drives(w, d) = Drives(w, k) => d = k
      BY <1>2, <3>2, SnoopersLinked
    <3> QED
      BY <2>1, <2>2, <3>1, <3>3
  <2>7. Heard(v, e) = Heard(w, e)
    BY <1>1, <2>3, <2>5, <2>6
  <2> QED
    BY <1>3, <1>4, <2>1, <2>2, <2>7
<1>6. ASSUME NEW k \in Desc, Heard(v, k) # Null
      PROVE  /\ Con(v, k) = "PLYNG"
             /\ Link(v, Heard(v, k)) # Null
             /\ Snoops(v, Link(v, Heard(v, k))) = Drives(v, k)
  <2> DEFINE e == Link(w, Heard(w, k))
  <2>1. Heard(v, k) = Heard(w, k) /\ Heard(w, k) # Null /\ k # d
    BY <1>1, <1>6
  <2>2. Con(w, k) = "PLYNG" /\ e # Null /\ Snoops(w, e) = Drives(w, k)
    BY <2>1 DEF Sound, Mutual
  <2>3. e \in Desc
    BY <1>2, <2>1, <2>2 DEF Valued
  <2>4. Link(w, Drives(w, k)) = k /\ Drives(w, k) # Null
    BY <1>2, <2>1, SnoopersLinked DEF Deaf
  <2>5. e # d
    BY <1>1, <1>6, <2>2, <2>4
  <2>6. ASSUME Heard(w, d) # Null, e = Link(w, Heard(w, d)) PROVE FALSE
    <3>1. Snoops(w, e) = Drives(w, d)
      BY <2>6 DEF Sound, Mutual
    <3>2. ~Deaf(w, k)
      BY <2>1 DEF Deaf
    <3>3. Drives(w, d) = Drives(w, k) => d = k
      BY <1>2, <3>2, SnoopersLinked
    <3> QED
      BY <2>1, <2>2, <3>1, <3>3
  <2>7. Snoops(v, e) = Snoops(w, e)
    BY <1>1, <2>3, <2>5, <2>6
  <2> QED
    BY <1>3, <1>4, <2>1, <2>2, <2>7
<1>7. Mutual(v) /\ Deaf(v, d)
  BY <1>1, <1>5, <1>6 DEF Mutual, Deaf
<1> QED
  BY <1>1, <1>7 DEF Alike, v

(* Stopping a snooper clears both sides of the pair. *)
LEMMA StopSnooperMoves ==
    ASSUME NEW w, Typed(w), Sound(w), NEW d \in Desc, Snoops(w, d) = Null
    PROVE  Alike(w, StopSnooper(w, d)) /\ Deaf(StopSnooper(w, d), d)
<1> DEFINE spy == w.sock[d].snoopBy
           e == w.body[spy].desc
           v == StopSnooper(w, d)
<1>1. CASE spy = Null
  <2>1. v = w
    BY <1>1 DEF StopSnooper
  <2> HIDE DEF v
  <2>2. Steady(w, w) /\ Mutual(w) /\ Deaf(w, d)
    BY <1>1 DEF Steady, Unmoved, Sound, Deaf, Heard
  <2> QED
    BY <2>1, <2>2 DEF Alike, v
<1>2. CASE spy # Null
  <2>1. v = [w EXCEPT !.sock[e].snooping = Null, !.sock[d].snoopBy = Null]
    BY <1>2 DEF StopSnooper
  <2>2. spy \in Body /\ e \in Desc \cup {Null}
    BY <1>2 DEF Typed, Socket, Char
  <2>0. e = Link(w, Heard(w, d)) /\ Heard(w, d) # Null
    BY <1>2 DEF Link, Heard
  <2> HIDE DEF v, e
  <2>3. /\ v.order = w.order /\ v.people = w.people /\ v.body = w.body
        /\ v = [order |-> v.order, sock |-> v.sock, people |-> v.people, body |-> v.body]
        /\ v.sock = [[w.sock EXCEPT ![e].snooping = Null] EXCEPT ![d].snoopBy = Null]
    BY <2>1 DEF Typed
  <2>4. DOMAIN v.sock = Desc
    BY <2>3 DEF Typed
  <2>5. ASSUME NEW k \in Desc
        PROVE  /\ v.sock[k] \in Socket /\ v.sock[k].con = w.sock[k].con
               /\ v.sock[k].character = w.sock[k].character
               /\ v.sock[k].original = w.sock[k].original
               /\ v.sock[k].snooping = IF k = e THEN Null ELSE w.sock[k].snooping
               /\ v.sock[k].snoopBy = IF k = d THEN Null ELSE w.sock[k].snoopBy
    BY <2>2, <2>3 DEF Typed, Socket
  <2>6. v.sock \in [Desc -> Socket]
    <3>1. v.sock = [k \in Desc |-> v.sock[k]]
      BY <2>3 DEF Typed
    <3> QED
      BY <2>5, <3>1
  <2>7. Typed(v)
    BY <2>3, <2>6 DEF Typed
  <2>8. Steady(w, v)
    BY <2>3, <2>5, <2>7 DEF Steady, Unmoved, Con, Drives, Own
  <2>9. /\ \A k \in Desc : /\ Snoops(v, k) = IF k = e THEN Null ELSE Snoops(w, k)
                           /\ Heard(v, k) = IF k = d THEN Null ELSE Heard(w, k)
        /\ \A k \in Desc : /\ Con(v, k) = Con(w, k) /\ Drives(v, k) = Drives(w, k)
                           /\ Own(v, k) = Own(w, k)
        /\ \A b : Link(v, b) = Link(w, b)
    BY <2>3, <2>5 DEF Snoops, Heard, Con, Drives, Own, Link
  <2>10. Mutual(v)
    <3> USE TypedValues, SnoopersLinked
    <3>1. Valued(w)
      OBVIOUS
    <3>2. Snoops(w, e) = Drives(w, d) /\ e # Null /\ e \in Desc
      BY <2>0, <3>1, <2>2 DEF Sound, Mutual
    <3>3. ASSUME NEW k \in Desc, k # e, Snoops(w, k) # Null
          PROVE  /\ Link(w, Snoops(w, k)) \in Desc /\ Link(w, Snoops(w, k)) # d
                 /\ Heard(w, Link(w, Snoops(w, k))) = Drives(w, k)
      <4>1. /\ Link(w, Snoops(w, k)) \in Desc
            /\ Heard(w, Link(w, Snoops(w, k))) = Drives(w, k)
        BY <3>1, <3>3 DEF Sound, Mutual, Valued
      <4> QED
        BY <2>0, <3>1, <3>3, <4>1 DEF Deaf
    <3>4. ASSUME NEW k \in Desc, k # d, Heard(w, k) # Null
          PROVE  /\ Link(w, Heard(w, k)) \in Desc /\ Link(w, Heard(w, k)) # e
                 /\ Snoops(w, Link(w, Heard(w, k))) = Drives(w, k)
      <4>1. /\ Link(w, Heard(w, k)) \in Desc
            /\ Snoops(w, Link(w, Heard(w, k))) = Drives(w, k)
        BY <3>1, <3>4 DEF Sound, Mutual, Valued
      <4> QED
        BY <3>1, <3>2, <3>4, <4>1 DEF Deaf
    <3> QED
      BY <2>9, <3>3, <3>4 DEF Sound, Mutual
  <2>11. Deaf(v, d)
    BY <2>9 DEF Deaf
  <2> QED
    BY <2>8, <2>10, <2>11 DEF Alike, v
<1> QED
  BY <1>1, <1>2

\* c is freed: a descriptor it is linked to drives nothing any more.
Emptied(w, v, c) ==
    /\ Typed(v) /\ v.order = w.order /\ v.people = w.people
    /\ Same(w, v, {c})
    /\ Kind(v, c) = "free" /\ Label(v, c) = Null /\ Link(v, c) = Null
    /\ \A k \in Desc :
        /\ Con(v, k) = Con(w, k) /\ Own(v, k) = Own(w, k)
        /\ Snoops(v, k) = Snoops(w, k) /\ Heard(v, k) = Heard(w, k)
        /\ Drives(v, k) = IF k = Link(w, c) THEN Null ELSE Drives(w, k)

(* That is what free_char does. *)
LEMMA FreeCharMoves ==
    ASSUME NEW w, Typed(w), NEW c \in Body
    PROVE  Emptied(w, FreeChar(w, c), c)
<1> DEFINE e == w.body[c].desc
           v == FreeChar(w, c)
<1>1. v = [w EXCEPT !.body[c] = NoChar,
                    !.sock = IF e = Null THEN @ ELSE [@ EXCEPT ![e].character = Null]]
  BY DEF FreeChar
<1>2. e \in Desc \cup {Null}
  BY DEF Typed, Char
<1> HIDE DEF v, e
<1>3. /\ v.order = w.order /\ v.people = w.people
      /\ v = [order |-> v.order, sock |-> v.sock, people |-> v.people, body |-> v.body]
      /\ v.body = [w.body EXCEPT ![c] = NoChar]
      /\ v.sock = IF e = Null THEN w.sock ELSE [w.sock EXCEPT ![e].character = Null]
  BY <1>1 DEF Typed
<1>4. /\ v.body \in [Body -> Char]
      /\ Kind(v, c) = "free" /\ Label(v, c) = Null /\ Link(v, c) = Null
      /\ Same(w, v, {c})
  BY <1>3 DEF Typed, NoChar, Char, Kind, Label, Link, Same
<1>5. ASSUME NEW k \in Desc
      PROVE  /\ v.sock[k] \in Socket /\ v.sock[k].con = w.sock[k].con
             /\ v.sock[k].character = IF k = e THEN Null ELSE w.sock[k].character
             /\ v.sock[k].original = w.sock[k].original
             /\ v.sock[k].snooping = w.sock[k].snooping
             /\ v.sock[k].snoopBy = w.sock[k].snoopBy
  <2>1. w.sock[k] \in Socket /\ w.sock \in [Desc -> Socket]
    BY DEF Typed
  <2>2. CASE e = Null
    BY <1>3, <2>1, <2>2, NullAssumption DEF Socket
  <2>3. CASE e \in Desc
    <3>1. v.sock[k] = IF k = e THEN [w.sock[k] EXCEPT !.character = Null] ELSE w.sock[k]
      BY <1>3, <2>1, <2>3, NullAssumption
    <3> QED
      BY <2>1, <3>1 DEF Socket
  <2> QED
    BY <1>2, <2>2, <2>3
<1>6. v.sock \in [Desc -> Socket]
  <2>1. v.sock = [k \in Desc |-> v.sock[k]]
    BY <1>3 DEF Typed
  <2> QED
    BY <1>5, <2>1
<1>7. Typed(v)
  BY <1>3, <1>4, <1>6 DEF Typed
<1> QED
  BY <1>3, <1>4, <1>5, <1>7 DEF Emptied, v, e, Con, Own, Drives, Link, Snoops, Heard

(* A mobile nobody is in is unlinked and freed. *)
LEMMA DiscardMoves ==
    ASSUME NEW w, Typed(w), Sound(w), NEW m \in Body,
           Kind(w, m) \in {"npc", "poly"}, Link(w, m) = Null
    PROVE  LET v == Discard(w, m)
           IN  Typed(v) /\ Freed(w, v, m) /\ Tidy(v)
<1> DEFINE out == [w EXCEPT !.people = Without(w.people, m)]
           v == Discard(w, m)
<1>1. v = FreeChar(out, m)
  BY DEF Discard
<1>2. /\ Without(w.people, m) \in Seq(Body) /\ IsInjective(Without(w.people, m))
      /\ ToSet(Without(w.people, m)) = In(w) \ {m}
  BY WithoutProps DEF Typed, In, Sound, Tidy
<1>3. Typed(out) /\ In(out) = In(w) \ {m}
  BY <1>2 DEF Typed, In
<1>4. /\ out.order = w.order /\ out.sock = w.sock /\ out.body = w.body
      /\ out.people = Without(w.people, m)
  BY DEF Typed
<1> HIDE DEF out, v
<1>5. Emptied(out, v, m)
  BY <1>1, <1>3, FreeCharMoves
<1>6. Still(w, v, {})
  BY <1>4, <1>5, NullAssumption DEF Emptied, Still, Unmoved, Unheard, Con, Own, Drives,
     Link, Snoops, Heard
<1>7. Same(w, v, {m})
  BY <1>4, <1>5 DEF Emptied, Same, Kind, Label, Link
<1>8. Tidy(v) /\ On(v) = On(w) /\ In(v) = In(w) \ {m} /\ Typed(v)
  BY <1>2, <1>3, <1>4, <1>5 DEF Emptied, Tidy, On, In, Sound
<1> QED
  BY <1>5, <1>6, <1>7, <1>8 DEF Emptied, Freed, v

(* Touching one descriptor twice touches no other. *)
LEMMA KeepsTwice ==
    ASSUME NEW w, NEW v, NEW u, NEW d \in Desc, Keeps(w, v, d), Keeps(v, u, d)
    PROVE  Keeps(w, u, d)
BY DEF Keeps, Others, Unmoved, NoneComes

(* What touches no descriptor touches no other than d. *)
LEMMA AsideKeeps ==
    ASSUME NEW w, NEW v, NEW d \in Desc, Unmoved(w, v, {}),
           \A k \in Desc : Bears(v, k) = Bears(w, k), NoneComes(w, v)
    PROVE  Keeps(w, v, d)
BY DEF Keeps, Others, Unmoved

(* So do forgetting snooping and stopping a snooper. *)
LEMMA AlikeKeeps ==
    ASSUME NEW w, NEW v, Typed(w), Sound(w), Alike(w, v), NEW d \in Desc
    PROVE  Typed(v) /\ Sound(v) /\ Keeps(w, v, d) /\ Idle(w, v)
BY AlikeSound, AsideKeeps DEF Alike, Steady

\* The player of d drives its own body again, snooped by nobody.
Returned(w, v, d) ==
    /\ Typed(v) /\ Sound(v) /\ Keeps(w, v, d) /\ v.order = w.order /\ Deaf(v, d)
    /\ Con(v, d) = Con(w, d) /\ Drives(v, d) = Own(w, d) /\ Own(v, d) = Null
    /\ Idle(w, v)

(* Once snooping is over it has its own body back, and nobody is in the shape. *)
LEMMA SwapBackReturns ==
    ASSUME NEW w, Typed(w), Sound(w), NEW d \in Desc, Own(w, d) # Null,
           NEW q, Alike(w, q), Deaf(q, d)
    PROVE  LET v == SwapBack(q, d)
               shape == Drives(w, d)
           IN  /\ Returned(w, v, d)
               /\ Kind(v, shape) = Kind(w, shape) /\ Link(v, shape) = Null
<1> DEFINE v == SwapBack(q, d)
           shape == Drives(w, d)
<1>1. Typed(q) /\ Sound(q) /\ Keeps(w, q, d) /\ Idle(w, q)
  BY AlikeKeeps
<1>2. /\ Con(q, d) = Con(w, d) /\ Own(q, d) = Own(w, d) /\ Drives(q, d) = shape
      /\ q.order = w.order /\ Kind(q, shape) = Kind(w, shape)
  BY DEF Alike, Steady, Unmoved, Kind
<1>3. Typed(v) /\ Swapped(q, v, d) /\ Tidy(v)
  BY <1>1, <1>2, SwapBackMoves
<1>4. v.order = q.order
  BY <1>1 DEF Typed, SwapBack
<1> HIDE DEF v, shape
<1>5. Valued(q) /\ Valued(v)
  BY <1>1, <1>3, TypedValues
<1>6. Sound(v)
  BY <1>1, <1>3, <1>5, SwappedSound
<1>7. Keeps(w, v, d)
  BY <1>1, <1>3, <1>5, <1>6, MovesKeep, KeepsTwice
<1>i. Idle(w, v)
  BY <1>1, <1>3, <1>5, <1>6, MovesIdle, IdleGoes
<1>8. Returned(w, v, d)
  BY <1>2, <1>3, <1>4, <1>6, <1>7, <1>i DEF Returned, Swapped, Still, Unheard
<1> QED
  BY <1>2, <1>3, <1>8 DEF Swapped, v, shape

\* What leaves the world is no descriptor's.
Aside(w, v) ==
    /\ Typed(v) /\ Sound(v) /\ v.order = w.order /\ Still(w, v, {})
    /\ \A k \in Desc : Bears(v, k) = Bears(w, k)
    /\ NoneComes(w, v)

(* Discarding a mobile nobody is in concerns no descriptor. *)
LEMMA DiscardAside ==
    ASSUME NEW w, Typed(w), Sound(w), NEW m \in Body,
           Kind(w, m) \in {"npc", "poly"}, Link(w, m) = Null
    PROVE  Aside(w, Discard(w, m)) /\ Idle(w, Discard(w, m))
<1> DEFINE v == Discard(w, m)
<1>1. Typed(v) /\ Freed(w, v, m) /\ Tidy(v)
  BY DiscardMoves
<1>2. v.order = w.order
  <2> DEFINE out == [w EXCEPT !.people = Without(w.people, m)]
  <2>1. Without(w.people, m) \in Seq(Body)
    BY WithoutProps DEF Typed
  <2>2. Typed(out) /\ out.order = w.order
    BY <2>1 DEF Typed
  <2> HIDE DEF out
  <2>3. Emptied(out, FreeChar(out, m), m)
    BY <2>2, FreeCharMoves
  <2>4. v = FreeChar(out, m)
    BY DEF Discard, out
  <2> QED
    BY <2>2, <2>3, <2>4 DEF Emptied
<1> HIDE DEF v
<1>3. Valued(w) /\ Valued(v)
  BY <1>1, TypedValues
<1>4. Sound(v)
  BY <1>1, <1>3, FreedSound
<1>5. (\A k \in Desc : Bears(v, k) = Bears(w, k)) /\ NoneComes(w, v)
  BY <1>1, <1>3, MovesAside, AsideBringsNone
<1>6. Idle(w, v)
  BY <1>1, <1>3, AsideIdle
<1> QED
  BY <1>1, <1>2, <1>4, <1>5, <1>6 DEF Aside, Freed, v

(* What happens aside after a return leaves it a return. *)
LEMMA ReturnedAside ==
    ASSUME NEW w, NEW v, NEW u, NEW d \in Desc, Returned(w, v, d), Aside(v, u), Idle(v, u)
    PROVE  Returned(w, u, d)
<1>1. Keeps(v, u, d)
  BY AsideKeeps DEF Aside, Still
<1>2. Keeps(w, u, d) /\ Idle(w, u)
  BY <1>1, KeepsTwice, IdleGoes DEF Returned
<1> QED
  BY <1>2 DEF Returned, Aside, Still, Unmoved, Unheard, Deaf

(* do_return and force_return. *)
LEMMA DoReturnReturns ==
    ASSUME NEW w, Typed(w), Sound(w), NEW d \in Desc, Own(w, d) # Null
    PROVE  Returned(w, DoReturn(w, d), d)
<1> DEFINE q == StopSnooper(w, d)
           back == SwapBack(q, d)
           shape == Drives(w, d)
<1>1. Alike(w, q) /\ Deaf(q, d)
  <2>1. Snoops(w, d) = Null
    BY DEF Sound, Mutual
  <2> QED
    BY <2>1, StopSnooperMoves
<1>2. /\ Returned(w, back, d)
      /\ Kind(back, shape) = Kind(w, shape) /\ Link(back, shape) = Null
  <2> HIDE DEF q
  <2> QED
    BY <1>1, SwapBackReturns
<1>3. shape \in Body
  BY TypedValues DEF Valued, Sound, Away
<1>4. DoReturn(w, d) = IF Kind(w, shape) = "poly" THEN Discard(back, shape) ELSE back
  BY DEF DoReturn, Drives, Kind
<1> HIDE DEF q, back, shape
<1>5. CASE Kind(w, shape) = "poly"
  <2>1. Aside(back, Discard(back, shape)) /\ Idle(back, Discard(back, shape))
    BY <1>2, <1>3, <1>5, DiscardAside DEF Returned
  <2> QED
    BY <1>2, <1>4, <1>5, <2>1, ReturnedAside
<1>6. CASE Kind(w, shape) # "poly"
  BY <1>2, <1>4, <1>6
<1> QED
  BY <1>5, <1>6

\* d is out of the list and reset, whatever it drove.
Hung(w, v, d) ==
    /\ Typed(v) /\ v.order = Without(w.order, d) /\ v.people = w.people
    /\ v.body = w.body /\ Still(w, v, {d})
    /\ Con(v, d) = "closed" /\ Drives(v, d) = Null /\ Own(v, d) = Null

(* The last thing close_socket does. *)
LEMMA HangUp ==
    ASSUME NEW w, Typed(w), NEW d \in Desc, Deaf(w, d),
           NEW v, v = [w EXCEPT !.order = Without(@, d), !.sock[d] = NoSocket]
    PROVE  Hung(w, v, d)
<1>1. /\ v.order = Without(w.order, d) /\ v.people = w.people /\ v.body = w.body
      /\ v.sock = [w.sock EXCEPT ![d] = NoSocket]
      /\ v = [order |-> v.order, sock |-> v.sock, people |-> v.people, body |-> v.body]
  BY DEF Typed
<1>2. v.order \in Seq(Desc)
  BY <1>1, WithoutProps DEF Typed
<1>3. NoSocket \in Socket
  BY DEF NoSocket, Socket, ConState
<1>4. v.sock \in [Desc -> Socket]
  BY <1>1, <1>3 DEF Typed
<1>5. Typed(v)
  BY <1>1, <1>2, <1>4 DEF Typed
<1>6. /\ Still(w, v, {d})
      /\ Con(v, d) = "closed" /\ Drives(v, d) = Null /\ Own(v, d) = Null
  BY <1>1 DEF Typed, Still, Unmoved, Unheard, Deaf, Con, Drives, Own, Snoops, Heard,
     NoSocket
<1> QED
  BY <1>1, <1>5, <1>6 DEF Hung

(* Who plays loses the link of its body first. *)
LEMMA LinkGoes ==
    ASSUME NEW w, Typed(w), NEW c \in Body,
           NEW v, v = [w EXCEPT !.body[c].desc = Null]
    PROVE  /\ Typed(v) /\ v.order = w.order /\ v.people = w.people
           /\ v.sock = w.sock /\ Same(w, v, {c})
           /\ Kind(v, c) = Kind(w, c) /\ Label(v, c) = Label(w, c)
           /\ Link(v, c) = Null
<1>1. /\ v.order = w.order /\ v.people = w.people /\ v.sock = w.sock
      /\ v = [order |-> v.order, sock |-> v.sock, people |-> v.people, body |-> v.body]
  BY DEF Typed
<1>2. v.body = [w.body EXCEPT ![c] = [@ EXCEPT !.desc = Null]]
  BY DEF Typed
<1>3. [w.body[c] EXCEPT !.desc = Null] \in Char
  BY DEF Typed, Char
<1>4. v.body \in [Body -> Char]
  BY <1>2, <1>3 DEF Typed
<1>5. Typed(v)
  BY <1>1, <1>4 DEF Typed
<1>6. /\ Same(w, v, {c}) /\ Kind(v, c) = Kind(w, c) /\ Label(v, c) = Label(w, c)
      /\ Link(v, c) = Null
  BY <1>2 DEF Typed, Char, Same, Kind, Label, Link
<1> QED
  BY <1>1, <1>5, <1>6

\* A connection is gone, and its player has no name any more.
Gone(w, v, d) ==
    /\ Typed(v) /\ Sound(v) /\ Keeps(w, v, d) /\ Drops(w, v, d)
    /\ Con(v, d) = "closed" /\ Bears(v, d) = Null

(* A world in which d is closed is sound if the move to it is one. *)
LEMMA ClosedGone ==
    ASSUME NEW w, NEW v, Typed(w), Typed(v), Sound(w), Tidy(v), NEW d \in Desc,
           Closed(w, v, d)
    PROVE  Gone(w, v, d)
<1>1. Valued(w) /\ Valued(v)
  BY TypedValues
<1>2. Sound(v)
  BY <1>1, ClosedSound
<1>3. Keeps(w, v, d) /\ Drops(w, v, d)
  BY <1>1, <1>2, MovesKeep, ClosedDrops
<1> QED
  BY <1>2, <1>3 DEF Gone, Closed, Bears, Self

(* Unlinking d from a tidy list leaves it tidy. *)
LEMMA HungTidy ==
    ASSUME NEW w, NEW v, Typed(w), Sound(w), NEW p, NEW d \in Desc,
           Hung(p, v, d), p.order = w.order, p.people = w.people
    PROVE  Tidy(v) /\ On(v) = On(w) \ {d} /\ In(v) = In(w)
<1>1. /\ IsInjective(Without(w.order, d))
      /\ ToSet(Without(w.order, d)) = ToSet(w.order) \ {d}
  BY WithoutProps DEF Typed, Sound, Tidy
<1> QED
  BY <1>1 DEF Hung, Tidy, On, In, Sound

(* close_socket of any descriptor in a sound world leaves a sound world and
   disturbs no other. *)
LEMMA CloseSocketGone ==
    ASSUME NEW w, Typed(w), Sound(w), NEW d \in Desc, NEW refused \in BOOLEAN
    PROVE  Gone(w, CloseSocket(w, d, refused), d)
<1> DEFINE quiet == ForgetSnooping(w, d)
           c == w.sock[d].character
           playing == IF w.body[c].kind = "pc" \/ refused THEN quiet
                      ELSE DoReturn(quiet, d)
           left == IF c = Null THEN quiet
                   ELSE IF w.sock[d].con # "PLYNG" THEN FreeChar(quiet, c)
                   ELSE [playing EXCEPT !.body[playing.sock[d].character].desc = Null]
           v == [left EXCEPT !.order = Without(@, d), !.sock[d] = NoSocket]
<1> SUFFICES Gone(w, v, d)
  BY DEF CloseSocket
<1>2. Alike(w, quiet) /\ Deaf(quiet, d)
  BY ForgetSnoopingMoves
<1>3. Typed(quiet) /\ Sound(quiet) /\ Keeps(w, quiet, d) /\ Idle(w, quiet)
  BY <1>2, AlikeKeeps
<1>4. /\ Con(quiet, d) = Con(w, d) /\ Own(quiet, d) = Own(w, d)
      /\ Drives(quiet, d) = c /\ quiet.order = w.order /\ quiet.people = w.people
      /\ quiet.body = w.body
  BY <1>2 DEF Alike, Steady, Unmoved, Drives
<1> HIDE DEF quiet
<1>5. c \in Body \cup {Null}
  BY DEF Typed, Socket
<1>6. ASSUME Typed(left), Hung(left, v, d) => Closed(quiet, v, d), Deaf(left, d),
             left.order = quiet.order, left.people = quiet.people
      PROVE  Gone(w, v, d)
  <2> HIDE DEF left
  <2>1. Hung(left, v, d)
    BY <1>6, HangUp
  <2>2. Tidy(v)
    BY <1>3, <1>6, <2>1, HungTidy
  <2>3. Gone(quiet, v, d)
    BY <1>3, <1>6, <2>1, <2>2, ClosedGone DEF Hung
  <2>4. Self(quiet, d) = Self(w, d)
    BY <1>4 DEF Self, Drives
  <2>5. Drops(w, v, d)
    BY <1>3, <2>3, <2>4, DropsAfter DEF Gone
  <2> QED
    BY <1>3, <2>3, <2>5, KeepsTwice DEF Gone
<1>7. CASE c = Null
  <2>1. left = quiet
    BY <1>7
  <2>2. Hung(quiet, v, d) => Closed(quiet, v, d)
    <3> HIDE DEF v
    <3> QED
      BY <1>3, <1>4, <1>7, HungTidy DEF Hung, Closed, Same, Kind, Label, Link
  <2> HIDE DEF left, v
  <2> QED
    BY <1>2, <1>3, <1>6, <2>1, <2>2
<1>8. CASE c # Null /\ Con(w, d) # "PLYNG"
  <2>1. left = FreeChar(quiet, c)
    BY <1>8 DEF Con
  <2>2. Emptied(quiet, left, c)
    <3> HIDE DEF left
    <3> QED
      BY <1>3, <1>5, <1>8, <2>1, FreeCharMoves
  <2>3. Link(quiet, c) \in {d, Null}
    BY <1>3, <1>4, <1>8 DEF Sound, Driven
  <2>4. Hung(left, v, d) => Closed(quiet, v, d)
    <3> HIDE DEF left, v
    <3>1. ASSUME Hung(left, v, d) PROVE On(v) = On(quiet) \ {d} /\ In(v) = In(quiet)
      BY <1>3, <2>2, <3>1, HungTidy DEF Emptied
    <3>2. ASSUME Hung(left, v, d) PROVE Still(quiet, v, {d})
      BY <1>2, <2>2, <2>3, <3>2, NullAssumption
         DEF Emptied, Hung, Still, Unmoved, Unheard
    <3>3. ASSUME Hung(left, v, d)
          PROVE  /\ Same(quiet, v, {c})
                 /\ Kind(v, c) = "free" /\ Label(v, c) = Null /\ Link(v, c) = Null
      BY <2>2, <3>3 DEF Emptied, Hung, Same, Kind, Label, Link
    <3> QED
      BY <1>4, <1>8, <3>1, <3>2, <3>3 DEF Hung, Closed
  <2>5. Deaf(left, d)
    BY <1>2, <2>2 DEF Emptied, Deaf
  <2> HIDE DEF left, v
  <2> QED
    BY <1>6, <2>2, <2>4, <2>5 DEF Emptied
<1>9. CASE c # Null /\ Con(w, d) = "PLYNG"
  <2> DEFINE own == playing.sock[d].character
  <2>1. left = [playing EXCEPT !.body[own].desc = Null]
    BY <1>9 DEF Con
  <2>2. /\ Typed(playing) /\ Sound(playing) /\ Keeps(w, playing, d)
        /\ Con(playing, d) = "PLYNG" /\ own # Null /\ Deaf(playing, d)
        /\ Idle(w, playing) /\ Self(playing, d) = Self(w, d)
    <3>1. CASE w.body[c].kind = "pc" \/ refused
      <4>1. playing = quiet
        BY <3>1
      <4> HIDE DEF playing
      <4> QED
        BY <1>2, <1>3, <1>4, <1>9, <4>1 DEF Drives, Self
    <3>2. CASE ~(w.body[c].kind = "pc" \/ refused)
      <4>1. Own(quiet, d) # Null
        BY <1>4, <1>9, <3>2 DEF Sound, Away, Kind, Drives
      <4>2. Returned(quiet, DoReturn(quiet, d), d)
        BY <1>3, <4>1, DoReturnReturns
      <4>3. playing = DoReturn(quiet, d)
        BY <3>2
      <4> HIDE DEF playing
      <4>4. Keeps(w, playing, d) /\ Idle(w, playing)
        BY <1>3, <4>2, <4>3, KeepsTwice, IdleGoes DEF Returned
      <4> QED
        BY <1>4, <1>9, <4>1, <4>2, <4>3, <4>4 DEF Returned, Drives, Self
    <3> QED
      BY <3>1, <3>2
  <2> HIDE DEF playing
  <2>3. own \in Body
    BY <2>2 DEF Typed, Socket
  <2>4. /\ Typed(left) /\ left.order = playing.order /\ left.people = playing.people
        /\ left.sock = playing.sock /\ Same(playing, left, {own}) /\ Deaf(left, d)
        /\ Kind(left, own) = Kind(playing, own) /\ Label(left, own) = Label(playing, own)
        /\ Link(left, own) = Null
    <3> HIDE DEF left, own
    <3> QED
      BY <2>1, <2>2, <2>3, LinkGoes DEF Deaf, Snoops, Heard
  <2>5. own = Drives(playing, d)
    BY DEF Drives
  <2> HIDE DEF left, own
  <2>6. Hung(left, v, d)
    BY <2>4, HangUp
  <2> HIDE DEF v
  <2>7. Tidy(v) /\ On(v) = On(playing) \ {d} /\ In(v) = In(playing)
    BY <2>2, <2>4, <2>6, HungTidy
  <2>8. Still(playing, v, {d})
    BY <2>2, <2>4, <2>6
       DEF Hung, Still, Unmoved, Unheard, Con, Drives, Own, Snoops, Heard
  <2>9. /\ Same(playing, v, {own})
        /\ Kind(v, own) = Kind(playing, own) /\ Label(v, own) = Label(playing, own)
        /\ Link(v, own) = Null
    BY <2>4, <2>6 DEF Hung, Same, Kind, Label, Link
  <2>10. Closed(playing, v, d)
    BY <2>2, <2>5, <2>6, <2>7, <2>8, <2>9 DEF Hung, Closed
  <2>11. Gone(playing, v, d)
    BY <2>2, <2>6, <2>7, <2>10, ClosedGone DEF Hung
  <2>12. Drops(w, v, d)
    BY <2>2, <2>11, DropsAfter DEF Gone
  <2> QED
    BY <2>2, <2>11, <2>12, KeepsTwice DEF Gone
<1> QED
  BY <1>7, <1>8, <1>9 DEF Con

(* extract_char of a mobile: who is inside returns to the own body. *)
LEMMA ExtractMobileReturns ==
    ASSUME NEW w, Typed(w), Sound(w), NEW m \in Body,
           Kind(w, m) \in {"npc", "poly"}
    PROVE  LET v == ExtractMobile(w, m)
           IN  IF Link(w, m) = Null THEN Aside(w, v) /\ Idle(w, v)
               ELSE Returned(w, v, Link(w, m))
<1> DEFINE d == Link(w, m)
           back == IF d = Null THEN w ELSE SwapBack(ForgetSnooping(w, d), d)
<1>1. ExtractMobile(w, m) = Discard(back, m)
  BY DEF ExtractMobile, Link
<1>2. CASE d = Null
  <2>1. Aside(w, Discard(w, m)) /\ Idle(w, Discard(w, m))
    BY <1>2, DiscardAside
  <2> QED
    BY <1>1, <1>2, <2>1
<1>3. CASE d # Null
  <2>1. d \in Desc /\ Drives(w, d) = m /\ Own(w, d) # Null
    BY <1>3, TypedValues, NullAssumption DEF Valued, Sound, Held, Away
  <2>2. Alike(w, ForgetSnooping(w, d)) /\ Deaf(ForgetSnooping(w, d), d)
    BY <2>1, ForgetSnoopingMoves
  <2>3. /\ Returned(w, SwapBack(ForgetSnooping(w, d), d), d)
        /\ Kind(SwapBack(ForgetSnooping(w, d), d), m) = Kind(w, m)
        /\ Link(SwapBack(ForgetSnooping(w, d), d), m) = Null
    BY <2>1, <2>2, SwapBackReturns
  <2>4. /\ Returned(w, back, d) /\ Kind(back, m) = Kind(w, m) /\ Link(back, m) = Null
    BY <1>3, <2>3
  <2> HIDE DEF d, back
  <2>5. Aside(back, Discard(back, m)) /\ Idle(back, Discard(back, m))
    BY <2>4, DiscardAside DEF Returned
  <2>6. Returned(w, Discard(back, m), d)
    BY <2>1, <2>4, <2>5, ReturnedAside
  <2> QED
    BY <1>1, <1>3, <2>6 DEF d
<1> QED
  BY <1>2, <1>3

(* Unlinking a body from the character list touches nothing else. *)
LEMMA Unlists ==
    ASSUME NEW w, Typed(w), Sound(w), NEW c \in Body,
           NEW v, v = [w EXCEPT !.people = Without(@, c)]
    PROVE  /\ Typed(v) /\ v.order = w.order /\ v.sock = w.sock /\ v.body = w.body
           /\ In(v) = In(w) \ {c} /\ Tidy(v)
<1>1. /\ v.order = w.order /\ v.sock = w.sock /\ v.body = w.body
      /\ v.people = Without(w.people, c)
      /\ v = [order |-> v.order, sock |-> v.sock, people |-> v.people, body |-> v.body]
  BY DEF Typed
<1>2. /\ v.people \in Seq(Body) /\ IsInjective(v.people)
      /\ ToSet(v.people) = In(w) \ {c}
  BY <1>1, WithoutProps DEF Typed, In, Sound, Tidy
<1>3. Typed(v)
  BY <1>1, <1>2 DEF Typed
<1> QED
  BY <1>1, <1>2, <1>3 DEF In, Tidy, Sound

(* A body nobody plays leaves the world, and that concerns no descriptor. *)
LEMMA LeavesTheWorld ==
    ASSUME NEW w, Typed(w), Sound(w), NEW c \in Body,
           Gods = {} => \A d \in Desc : Con(w, d) = "PLYNG" => Self(w, d) # c,
           NEW v, v = [w EXCEPT !.people = Without(@, c)]
    PROVE  Aside(w, v) /\ Moved(w, v)
<1>1. /\ Typed(v) /\ v.order = w.order /\ v.sock = w.sock /\ v.body = w.body
      /\ In(v) = In(w) \ {c} /\ Tidy(v)
  BY Unlists
<1>2. Left(w, v, c)
  BY <1>1 DEF Left, On, Still, Unmoved, Unheard, Same, Con, Drives, Own, Snoops, Heard,
     Kind, Label, Link
<1>3. Valued(w) /\ Valued(v)
  BY <1>1, TypedValues
<1>4. Sound(v)
  BY <1>1, <1>2, <1>3, LeftSound
<1>5. (\A k \in Desc : Bears(v, k) = Bears(w, k)) /\ NoneComes(w, v)
  BY <1>2, <1>3, MovesAside, AsideBringsNone
<1>6. Moved(w, v)
  BY <1>2, <1>3, LeftWalks DEF Moved
<1> QED
  BY <1>1, <1>2, <1>4, <1>5, <1>6 DEF Aside, Left

(* The end of extract_char for a body with a link. *)
LEMMA ToMenuMoves ==
    ASSUME NEW w, Typed(w), Sound(w), NEW c \in Body, NEW d \in Desc,
           Drives(w, d) = c, Own(w, d) = Null, Con(w, d) = "PLYNG",
           NEW gone, gone = [w EXCEPT !.people = Without(@, c)]
    PROVE  LET v == ToMenu(gone, c, d)
           IN  Typed(v) /\ Sound(v) /\ Keeps(w, v, d) /\ Moved(w, v)
<1> DEFINE q == ForgetSnooping(w, d)
           g == ForgetSnooping(gone, d)
           v == ToMenu(gone, c, d)
<1>0. /\ Typed(gone) /\ gone.order = w.order /\ gone.sock = w.sock /\ gone.body = w.body
      /\ In(gone) = In(w) \ {c} /\ Tidy(gone)
  BY Unlists
<1>1. v = [g EXCEPT !.body[c].desc = Null, !.sock[d].con = "SLCT"]
  BY DEF ToMenu
<1>2. Alike(w, q) /\ Deaf(q, d)
  BY ForgetSnoopingMoves
<1>g. g.sock = q.sock
  BY <1>0 DEF ForgetSnooping, Typed
<1>h. Typed(g) /\ g.order = q.order /\ g.people = gone.people /\ g.body = q.body
  <2>1. Steady(gone, g)
    BY <1>0, ForgetSnoopingSteady
  <2> HIDE DEF q, g
  <2> QED
    BY <1>0, <1>2, <2>1 DEF Steady, Alike
<1> HIDE DEF q, g, v
<1>3. Typed(q) /\ Sound(q) /\ Keeps(w, q, d) /\ Idle(w, q)
  BY <1>2, AlikeKeeps
<1>4. /\ v.order = q.order /\ v.people = gone.people
      /\ v = [order |-> v.order, sock |-> v.sock, people |-> v.people, body |-> v.body]
  BY <1>1, <1>h DEF Typed
<1>5. /\ v.sock = [q.sock EXCEPT ![d] = [@ EXCEPT !.con = "SLCT"]]
      /\ v.body = [q.body EXCEPT ![c] = [@ EXCEPT !.desc = Null]]
  BY <1>1, <1>3, <1>g, <1>h DEF Typed
<1>6. /\ [q.sock[d] EXCEPT !.con = "SLCT"] \in Socket
      /\ [q.body[c] EXCEPT !.desc = Null] \in Char
  <2>1. q.sock[d] \in Socket /\ q.body[c] \in Char
    BY <1>3 DEF Typed
  <2>2. "SLCT" \in ConState
    BY DEF ConState
  <2> QED
    BY <2>1, <2>2 DEF Socket, Char
<1>7. v.sock \in [Desc -> Socket] /\ v.body \in [Body -> Char]
  BY <1>3, <1>5, <1>6 DEF Typed
<1>8. Typed(v)
  BY <1>0, <1>3, <1>4, <1>7 DEF Typed
<1>9. /\ Drives(q, d) = c /\ Own(q, d) = Null /\ Con(q, d) = "PLYNG"
      /\ On(v) = On(q) /\ In(v) = In(q) \ {c}
  BY <1>0, <1>2, <1>4 DEF Alike, Steady, Unmoved, On, In
<1>10. Menued(q, v, d)
  <2>1. /\ Con(v, d) = "SLCT" /\ Drives(v, d) = Drives(q, d) /\ Own(v, d) = Own(q, d)
        /\ Still(q, v, {d})
    BY <1>2, <1>3, <1>5 DEF Still, Unmoved, Unheard, Deaf, Con, Drives, Own, Snoops,
       Heard, Typed, Socket
  <2>2. /\ Same(q, v, {c}) /\ Kind(v, c) = Kind(q, c) /\ Label(v, c) = Label(q, c)
        /\ Link(v, c) = Null
    BY <1>3, <1>5 DEF Same, Kind, Label, Link, Typed, Char
  <2> QED
    BY <1>9, <2>1, <2>2 DEF Menued
<1>11. Tidy(v)
  BY <1>0, <1>3, <1>4 DEF Sound, Tidy
<1>12. Valued(q) /\ Valued(v)
  BY <1>3, <1>8, TypedValues
<1>13. Sound(v)
  BY <1>3, <1>10, <1>11, <1>12, MenuedSound
<1>14. Keeps(w, v, d)
  BY <1>3, <1>10, <1>12, <1>13, MovesKeep, KeepsTwice
<1>15. Moved(q, v)
  BY <1>3, <1>10, <1>12, <1>13, MenuedWalks, LittleMoves
<1>16. Moved(w, v)
  BY <1>3, <1>15, MovedIdle
<1> QED
  BY <1>8, <1>13, <1>14, <1>16 DEF v

\* Every other descriptor than d drives what it drove, or is closed.
Touches(w, v, d) ==
    \A k \in Desc : k # d =>
        Con(v, k) = "closed" \/ (/\ Con(v, k) = Con(w, k)
                                 /\ Drives(v, k) = Drives(w, k)
                                 /\ Own(v, k) = Own(w, k))

\* A sound world in which nobody has got a name, or comes to wait, and one
\* player at most has moved.
Calmer(w, v, d) ==
    /\ Typed(v) /\ Sound(v) /\ \A k \in Desc : Bears(v, k) \in {Bears(w, k), Null}
    /\ NoneComes(w, v) /\ Touches(w, v, d) /\ Moved(w, v)

(* Whoever moves by itself leaves a calm world. *)
LEMMA KeepsCalm ==
    ASSUME NEW w, NEW v, NEW d \in Desc, Typed(v), Sound(v), Keeps(w, v, d), Moved(w, v)
    PROVE  Calmer(w, v, d)
BY DEF Keeps, Others, Unmoved, Touches, Calmer

(* So does what concerns no descriptor. *)
LEMMA AsideCalm ==
    ASSUME NEW w, NEW v, NEW d, Aside(w, v), Moved(w, v)
    PROVE  Calmer(w, v, d)
BY DEF Aside, Still, Unmoved, Touches, Calmer

(* Calm goes on, if nobody moves first, or nobody afterwards. *)
LEMMA CalmerTwice ==
    ASSUME NEW w, NEW v, NEW u, NEW d, Calmer(w, v, d), Calmer(v, u, d),
           Idle(w, v) \/ Idle(v, u)
    PROVE  Calmer(w, u, d)
<1>1. Moved(w, u)
  BY MovedIdle DEF Calmer
<1> QED
  BY <1>1 DEF Calmer, NoneComes, Touches

(* extract_char of a player's own body, that of d if anybody's. *)
LEMMA ExtractPlayerCalm ==
    ASSUME NEW w, Typed(w), Sound(w), NEW c \in Body, Kind(w, c) = "pc",
           Link(w, c) # Null => Con(w, Link(w, c)) = "PLYNG",
           Gods = {} /\ Link(w, c) = Null => \A k \in Desc : Own(w, k) # c,
           NEW d, \A k \in Desc : c \in {Drives(w, k), Own(w, k)} => k = d
    PROVE  Calmer(w, ExtractPlayer(w, c), d)
<1> DEFINE away == {e \in Desc : w.sock[e].original = c
                                 /\ w.body[w.sock[e].character].kind = "poly"}
           k == CHOOSE e \in away : TRUE
           back == IF w.body[c].desc = Null /\ away # {}
                   THEN SwapBack(StopSnooper(w, k), k) ELSE w
           link == back.body[c].desc
           gone == [back EXCEPT !.people = Without(@, c)]
           v == ExtractPlayer(w, c)
<1>1. v = IF link = Null THEN gone ELSE ToMenu(gone, c, link)
  BY DEF ExtractPlayer
<1>2. /\ Calmer(w, back, d) /\ Idle(w, back) /\ Kind(back, c) = "pc"
      /\ Link(back, c) # Null => Con(back, Link(back, c)) = "PLYNG" /\ Link(back, c) = d
      /\ Gods = {} /\ Link(back, c) = Null => \A e \in Desc : Own(back, e) # c
  <2>1. CASE Link(w, c) = Null /\ away # {}
    <3>1. k \in Desc /\ Own(w, k) = c
      BY <2>1 DEF Own
    <3>2. back = SwapBack(StopSnooper(w, k), k)
      BY <2>1 DEF Link
    <3>3. c # Null
      BY NullAssumption
    <3> HIDE DEF k, back, away
    <3>4. Alike(w, StopSnooper(w, k)) /\ Deaf(StopSnooper(w, k), k)
      <4>1. Snoops(w, k) = Null
        BY <3>1, <3>3 DEF Sound, Mutual
      <4> QED
        BY <3>1, <4>1, StopSnooperMoves
    <3>5. Returned(w, back, k)
      BY <3>1, <3>2, <3>3, <3>4, SwapBackReturns
    <3>6. Own(w, k) # Null /\ Con(w, k) = "PLYNG"
      BY <3>1, <3>3 DEF Sound, Away
    <3>7. Con(back, k) = "PLYNG" /\ Drives(back, k) = c /\ Own(back, k) = Null
      BY <3>1, <3>5, <3>6 DEF Returned
    <3>8. Kind(back, c) = "pc" /\ Link(back, c) = k
      BY <3>1, <3>3, <3>5, <3>7 DEF Returned, Sound, Away, Driven
    <3>9. k = d
      BY <3>1
    <3>10. Calmer(w, back, d) /\ Idle(w, back)
      BY <3>1, <3>5, <3>9, KeepsCalm, LittleMoves DEF Returned
    <3> QED
      BY <3>1, <3>7, <3>8, <3>9, <3>10, NullAssumption
  <2>2. CASE ~(Link(w, c) = Null /\ away # {})
    <3>1. back = w
      BY <2>2 DEF Link
    <3> HIDE DEF back
    <3>2. Link(w, c) # Null => Link(w, c) = d
      BY TypedValues DEF Valued, Sound, Held
    <3>3. Idle(w, w)
      BY DEF Idle, Stays
    <3>4. Calmer(w, w, d)
      BY <3>3, LittleMoves DEF Calmer, NoneComes, Touches
    <3> QED
      BY <3>1, <3>2, <3>3, <3>4
  <2> QED
    BY <2>1, <2>2
<1> HIDE DEF back
<1>3. Typed(back) /\ Sound(back) /\ link = Link(back, c)
  BY <1>2 DEF Calmer, Link
<1> HIDE DEF link
<1>4. CASE link = Null
  <2>1. ASSUME Gods = {}, NEW e \in Desc, Con(back, e) = "PLYNG", Self(back, e) = c
        PROVE  FALSE
    <3>1. Own(back, e) # c
      BY <1>2, <1>3, <1>4, <2>1
    <3>2. Drives(back, e) = c
      BY <2>1, <3>1 DEF Self
    <3> QED
      BY <1>3, <1>4, <2>1, <3>2, NullAssumption DEF Sound, Driven
  <2>2. Aside(back, gone) /\ Moved(back, gone)
    BY <1>3, <2>1, LeavesTheWorld
  <2> HIDE DEF gone
  <2>3. Calmer(back, gone, d)
    BY <2>2, AsideCalm
  <2> QED
    BY <1>1, <1>2, <1>4, <2>3, CalmerTwice
<1>5. CASE link # Null
  <2>1. d \in Desc /\ link = d
    BY <1>2, <1>3, <1>5, TypedValues DEF Valued
  <2>2. Drives(back, d) = c /\ Con(back, d) = "PLYNG" /\ Own(back, d) = Null
    BY <1>2, <1>3, <1>5, <2>1, NullAssumption DEF Sound, Held, Away
  <2>3. gone = [back EXCEPT !.people = Without(@, c)]
    OBVIOUS
  <2> HIDE DEF gone
  <2>4. LET u == ToMenu(gone, c, d)
        IN  Typed(u) /\ Sound(u) /\ Keeps(back, u, d) /\ Moved(back, u)
    BY <1>3, <2>1, <2>2, <2>3, ToMenuMoves
  <2>5. Calmer(back, ToMenu(gone, c, d), d)
    BY <2>1, <2>4, KeepsCalm
  <2> QED
    BY <1>1, <1>2, <1>5, <2>1, <2>5, CalmerTwice
<1> QED
  BY <1>4, <1>5
-----------------------------------------------------------------------------
(* Logging in *)

\* The descriptor d, which has nothing to do with snooping, becomes s.
Written(w, v, d, s) ==
    /\ s \in Socket /\ Deaf(w, d) /\ s.snooping = Null /\ s.snoopBy = Null
    /\ v.order = w.order /\ v.people = w.people /\ v.body = w.body
    /\ v.sock = [w.sock EXCEPT ![d] = s]
    /\ v = [order |-> v.order, sock |-> v.sock, people |-> v.people, body |-> v.body]

(* Writing into one descriptor touches no other, and no body. *)
LEMMA SocketMoves ==
    ASSUME NEW w, Typed(w), NEW d \in Desc, NEW s, NEW v, Written(w, v, d, s)
    PROVE  /\ Typed(v) /\ v.order = w.order /\ v.people = w.people /\ v.body = w.body
           /\ Still(w, v, {d}) /\ Con(v, d) = s.con
           /\ Drives(v, d) = s.character /\ Own(v, d) = s.original
<1>1. w.sock \in [Desc -> Socket] /\ w.order \in Seq(Desc) /\ w.people \in Seq(Body)
      /\ w.body \in [Body -> Char]
  BY DEF Typed
<1>2. v.sock \in [Desc -> Socket]
  BY <1>1 DEF Written
<1>3. Typed(v)
  BY <1>1, <1>2 DEF Typed, Written
<1>4. (\A k \in Desc \ {d} : v.sock[k] = w.sock[k]) /\ v.sock[d] = s
  BY <1>1 DEF Written
<1>5. Still(w, v, {d})
  BY <1>4 DEF Still, Unmoved, Unheard, Deaf, Written, Con, Drives, Own, Snoops, Heard
<1> QED
  BY <1>3, <1>4, <1>5 DEF Written, Con, Drives, Own

(* The pointers of snooping agree when only d changes, which has none. *)
LEMMA StillMutual ==
    ASSUME NEW w, NEW v, Valued(w), Sound(w), NEW d \in Desc, Still(w, v, {d}),
           v.body = w.body
    PROVE  Mutual(v)
<1>1. \A b : Link(v, b) = Link(w, b)
  BY DEF Link
<1>2. ASSUME NEW k \in Desc, ~Deaf(w, k) PROVE Drives(w, k) # Null
  BY <1>2, SnoopersLinked
<1> QED
  BY <1>1, <1>2 DEF Sound, Mutual, Still, Unmoved, Unheard, Deaf, Valued

(* A descriptor that goes on in the login states, or from them to the menu. *)
LEMMA GoesOn ==
    ASSUME NEW w, Typed(w), Sound(w), NEW d \in Desc, Con(w, d) \in Early,
           NEW x \in Early \cup {"SLCT"},
           x \in {"SLCT", "CREATE", "NMECNF"} => Drives(w, d) # Null,
           x \in {"CREATE", "NMECNF"} => Bears(w, d) # Null,
           NEW v, Typed(v), v.order = w.order, v.people = w.people, v.body = w.body,
           Still(w, v, {d}), Con(v, d) = x,
           Drives(v, d) = Drives(w, d), Own(v, d) = Own(w, d)
    PROVE  /\ Sound(v) /\ \A k \in Desc : Bears(v, k) = Bears(w, k)
           /\ Touches(w, v, d)
           /\ x # "SLCT" => NoneComes(w, v) /\ Idle(w, v)
           /\ x = "SLCT" => Goes(w, v, Drives(w, d), Ups)
<1>1. Valued(w) /\ Valued(v)
  BY TypedValues
<1>2. /\ On(v) = On(w) /\ In(v) = In(w) /\ Tidy(v)
      /\ \A b \in Body : /\ Kind(v, b) = Kind(w, b) /\ Label(v, b) = Label(w, b)
                         /\ Link(v, b) = Link(w, b)
  BY DEF On, In, Tidy, Sound, Kind, Label, Link
<1>3. Own(w, d) = Null
  BY DEF Sound, Away, Early
<1>4. Relabelled(w, v)
  <2>1. Mutual(v)
    BY <1>1, StillMutual
  <2> QED
    BY <1>2, <1>3, <2>1 DEF Relabelled, Still, Unmoved, Same, Bears, Self
<1>5. x # "SLCT" => NoneComes(w, v) /\ Idle(w, v)
  BY <1>1, <1>4, AsideBringsNone, AsideIdle DEF Still, Unmoved
<1>6. Touches(w, v, d)
  BY DEF Touches, Still, Unmoved
<1>7. Sound(v)
  BY <1>1, <1>2, <1>4, RelabelledSound
<1>8. x = "SLCT" => Goes(w, v, Drives(w, d), Ups)
  BY <1>1, <1>4, <1>7, ComesWalks DEF Still
<1> QED
  BY <1>1, <1>4, <1>5, <1>6, <1>7, <1>8, MovesAside

(* Only the state of one descriptor changes. *)
LEMMA ConMoves ==
    ASSUME NEW w, Typed(w), NEW d \in Desc, Deaf(w, d), NEW x \in ConState,
           NEW v, v = [w EXCEPT !.sock[d].con = x]
    PROVE  /\ Typed(v) /\ v.order = w.order /\ v.people = w.people /\ v.body = w.body
           /\ Still(w, v, {d}) /\ Con(v, d) = x
           /\ Drives(v, d) = Drives(w, d) /\ Own(v, d) = Own(w, d)
<1> DEFINE s == [w.sock[d] EXCEPT !.con = x]
<1>1. w.sock[d] \in Socket
  BY DEF Typed
<1>2. /\ s \in Socket /\ s.con = x /\ s.character = Drives(w, d) /\ s.original = Own(w, d)
      /\ s.snooping = Null /\ s.snoopBy = Null
  BY <1>1 DEF Socket, Drives, Own, Deaf, Snoops, Heard
<1>3. Written(w, v, d, s)
  BY <1>2 DEF Typed, Written
<1> HIDE DEF s
<1> QED
  BY <1>2, <1>3, SocketMoves

\* The only player of its name logs in as d.
Alone(w, d, taken) ==
    /\ Typed(w) /\ Sound(w) /\ Con(w, d) \in Early
    /\ Bears(w, d) # Null
    /\ \A e \in Desc \ {d} : Bears(w, e) # Bears(w, d)
    /\ Distinct(w, taken, {})

(* Who logs in drives its own body. *)
LEMMA EarlySelf ==
    ASSUME NEW w, Typed(w), Sound(w), NEW d \in Desc, Con(w, d) \in Early,
           Bears(w, d) # Null
    PROVE  /\ Own(w, d) = Null /\ Drives(w, d) \in Body /\ Drives(w, d) # Null
           /\ Bears(w, d) = Label(w, Drives(w, d))
           /\ Bears(w, d) = NameOf(w, w.sock[d].character)
<1>1. Own(w, d) = Null
  BY DEF Sound, Away, Early
<1>2. Drives(w, d) # Null /\ Bears(w, d) = Label(w, Drives(w, d))
  BY <1>1 DEF Bears, Self
<1> QED
  BY <1>1, <1>2, TypedValues DEF Valued, NameOf, Label, Drives

(* The name con_pwdok compares is that of the player. *)
LEMMA NamesAgree ==
    ASSUME NEW w, NEW d \in Desc
    PROVE  NameOf(w, Player(w, d)) = Bears(w, d)
BY DEF NameOf, Player, Bears, Self, Own, Drives, Label

(* The first scan of con_pwdok: one descriptor at most has this player already,
   and it is closed. *)
LEMMA FirstScan ==
    ASSUME NEW w, Typed(w), Sound(w), NEW d \in Desc, Con(w, d) \in Early,
           NEW taken, Bears(w, d) # Null, Bears(w, d) \in taken,
           Distinct(w, taken, {d}), NEW refused \in BOOLEAN,
           NEW v, v = IF Duplicates(w, d) = {} THEN w
                      ELSE CloseSocket(w, w.order[Max(Duplicates(w, d))], refused)
    PROVE  /\ Alone(v, d, taken) /\ Bears(v, d) = Bears(w, d)
           /\ NoneComes(w, v) /\ Touches(w, v, d)
           /\ Idle(w, v) \/ \E e \in Desc : Bears(w, e) = Bears(w, d) /\ Drops(w, v, e)
<1> DEFINE dup == Duplicates(w, d)
           n == Bears(w, d)
           mine == Drives(w, d)
<1>1. /\ Own(w, d) = Null /\ mine \in Body /\ mine # Null
      /\ n = NameOf(w, w.sock[d].character)
  BY EarlySelf
<1>2. dup = {i \in DOMAIN w.order :
                /\ Drives(w, w.order[i]) \notin {Null, mine}
                /\ NameOf(w, Player(w, w.order[i])) = n}
  BY <1>1 DEF Duplicates, Drives
<1> HIDE DEF dup, n, mine
<1>3. /\ w.order \in Seq(Desc) /\ Len(w.order) \in Nat
      /\ DOMAIN w.order = 1 .. Len(w.order)
      /\ \A i \in 1 .. Len(w.order) : w.order[i] \in Desc
  BY DEF Typed
<1>4. ASSUME NEW i \in dup
      PROVE  /\ w.order[i] \in Desc \ {d}
             /\ Bears(w, w.order[i]) = n
  BY <1>2, <1>3, <1>4, NamesAgree DEF mine
<1>5. ASSUME NEW e \in Desc \ {d}, Bears(w, e) = n
      PROVE  dup # {}
  <2>1. Drives(w, e) # Null
    BY <1>5 DEF Sound, Away, Bears, Self, n
  <2>2. Drives(w, e) # mine
    BY <1>1, <1>5, <2>1 DEF Sound, Single, mine
  <2>3. e \in On(w)
    BY <2>1 DEF Sound, Shut
  <2>4. PICK i \in DOMAIN w.order : w.order[i] = e
    BY <2>3 DEF On, ToSet
  <2>5. NameOf(w, Player(w, e)) = n
    BY <1>5, NamesAgree
  <2>6. i \in dup
    BY <1>2, <2>1, <2>2, <2>4, <2>5
  <2> QED
    BY <2>6
<1>6. CASE dup = {}
  <2>1. v = w
    BY <1>6 DEF dup
  <2>2. \A e \in Desc \ {d} : Bears(w, e) # n
    BY <1>5, <1>6
  <2>3. Distinct(w, taken, {})
    BY <2>2 DEF Distinct, n
  <2>4. NoneComes(w, w) /\ Touches(w, w, d) /\ Idle(w, w)
    BY DEF NoneComes, Touches, Idle, Stays
  <2> QED
    BY <2>1, <2>2, <2>3, <2>4 DEF Alone, n
<1>7. CASE dup # {}
  <2> DEFINE e == w.order[Max(dup)]
  <2>1. Max(dup) \in dup
    <3>1. dup \in SUBSET (1 .. Len(w.order))
      BY <1>2, <1>3
    <3> QED
      BY <1>3, <1>7, <3>1, FirstAndLast
  <2>2. v = CloseSocket(w, e, refused)
    BY <1>7 DEF dup
  <2>3. e \in Desc \ {d} /\ Bears(w, e) = n
    BY <1>4, <2>1
  <2> HIDE DEF e
  <2>4. Gone(w, v, e)
    BY <2>2, <2>3, CloseSocketGone
  <2>5. Con(v, d) = Con(w, d) /\ Bears(v, d) = n
    BY <2>3, <2>4 DEF Gone, Keeps, Others, Unmoved, n
  <2>6. ASSUME NEW f \in Desc \ {d} PROVE Bears(v, f) # n
    <3>1. CASE f = e
      BY <2>4, <3>1 DEF Gone, n
    <3>2. CASE f # e
      <4>1. Bears(w, f) # n
        BY <2>3, <3>2 DEF Distinct, n
      <4> QED
        BY <2>4, <3>2, <4>1 DEF Gone, Keeps, Others
    <3> QED
      BY <3>1, <3>2
  <2>7. Distinct(v, taken, {d})
    <3>1. \A k \in Desc \ {d} : Bears(v, k) \in {Bears(w, k), Null}
      BY <2>4 DEF Gone, Keeps, Others
    <3> QED
      BY <3>1, FewerNames
  <2>8. Distinct(v, taken, {})
    BY <2>5, <2>6, <2>7 DEF Distinct
  <2>9. NoneComes(w, v) /\ Touches(w, v, d)
    BY <2>4 DEF Gone, Keeps, Others, Unmoved, Touches
  <2>10. e \in Desc /\ Bears(w, e) = Bears(w, d) /\ Drops(w, v, e)
    BY <2>3, <2>4 DEF Gone, n
  <2> QED
    BY <2>4, <2>5, <2>6, <2>8, <2>9, <2>10 DEF Alone, Gone, n
<1> QED
  BY <1>6, <1>7

\* d and c point at each other, and d plays.
Joined(w, v, d, c) ==
    /\ Typed(v) /\ v.order = w.order /\ v.people = w.people
    /\ Same(w, v, {c}) /\ Kind(v, c) = Kind(w, c) /\ Label(v, c) = Label(w, c)
    /\ Link(v, c) = d
    /\ Still(w, v, {d}) /\ Con(v, d) = "PLYNG" /\ Drives(v, d) = c
    /\ Own(v, d) = Own(w, d)

(* That is what con_pwdok writes for a body without a link. *)
LEMMA JoinMoves ==
    ASSUME NEW w, Typed(w), NEW d \in Desc, Deaf(w, d), NEW c \in Body,
           NEW v, v = [w EXCEPT
                         !.body[c].desc = d,
                         !.sock[d] = [@ EXCEPT !.character = c, !.con = "PLYNG"]]
    PROVE  Joined(w, v, d, c)
<1>1. /\ w.sock \in [Desc -> Socket] /\ w.body \in [Body -> Char]
      /\ w.sock[d] \in Socket /\ w.body[c] \in Char
  BY DEF Typed
<1> DEFINE x == [w.sock[d] EXCEPT !.character = c, !.con = "PLYNG"]
           y == [w.body[c] EXCEPT !.desc = d]
<1>2. /\ v.order = w.order /\ v.people = w.people
      /\ v = [order |-> v.order, sock |-> v.sock, people |-> v.people, body |-> v.body]
      /\ v.sock = [w.sock EXCEPT ![d] = x]
      /\ v.body = [w.body EXCEPT ![c] = y]
  BY DEF Typed
<1>3. x \in Socket /\ x.con = "PLYNG" /\ x.character = c
      /\ x.original = w.sock[d].original
      /\ x.snooping = w.sock[d].snooping /\ x.snoopBy = w.sock[d].snoopBy
  <2>1. "PLYNG" \in ConState
    BY DEF ConState
  <2> QED
    BY <1>1, <2>1 DEF Socket
<1>4. y \in Char /\ y.kind = w.body[c].kind /\ y.name = w.body[c].name /\ y.desc = d
  BY <1>1 DEF Char
<1> HIDE DEF x, y
<1>5. v.sock \in [Desc -> Socket] /\ v.body \in [Body -> Char]
  BY <1>1, <1>2, <1>3, <1>4
<1>6. Typed(v)
  BY <1>2, <1>5 DEF Typed
<1>7. /\ Still(w, v, {d}) /\ Con(v, d) = "PLYNG" /\ Drives(v, d) = c
      /\ Own(v, d) = Own(w, d)
  BY <1>1, <1>2, <1>3
     DEF Still, Unmoved, Unheard, Deaf, Con, Drives, Own, Snoops, Heard
<1>8. /\ Same(w, v, {c}) /\ Kind(v, c) = Kind(w, c) /\ Label(v, c) = Label(w, c)
      /\ Link(v, c) = d
  BY <1>1, <1>2, <1>4 DEF Same, Kind, Label, Link
<1> QED
  BY <1>2, <1>6, <1>7, <1>8 DEF Joined

(* The second scan: the body of that name that waits in the world is taken
   over, and the memory the login used is freed. *)
LEMMA TakesOver ==
    ASSUME NEW v, Typed(v), Sound(v), NEW d \in Desc, Con(v, d) \in Early,
           Bears(v, d) # Null, \A e \in Desc \ {d} : Bears(v, e) # Bears(v, d),
           NEW c \in Body, c \in In(v), Kind(v, c) = "pc", Link(v, c) = Null,
           Label(v, c) = Bears(v, d),
           NEW f, Emptied(v, f, Drives(v, d)), NEW u, Joined(f, u, d, c)
    PROVE  /\ Typed(u) /\ Sound(u) /\ \A k \in Desc : Bears(u, k) = Bears(v, k)
           /\ NoneComes(v, u) /\ Touches(v, u, d)
           /\ Goes(v, u, c, Ups) /\ Label(u, c) = Label(v, c)
<1> DEFINE mine == Drives(v, d)
<1>1. Own(v, d) = Null /\ mine \in Body /\ mine # Null
  BY EarlySelf
<1> HIDE DEF mine
<1>2. Link(v, mine) = d /\ mine \notin In(v) /\ mine # c
  BY <1>1 DEF Sound, Driven, Outside, Early, mine
<1>3. \A e \in Desc : Own(v, e) # c
  <2> SUFFICES ASSUME NEW e \in Desc, Own(v, e) = c PROVE FALSE
    OBVIOUS
  <2>1. Bears(v, e) = Label(v, c)
    BY NullAssumption DEF Bears, Self
  <2>2. e # d
    BY <1>1, NullAssumption
  <2> QED
    BY <2>1, <2>2
<1>4. Still(v, u, {d}) /\ Own(u, d) = Own(v, d)
  BY <1>2 DEF Emptied, Joined, Still, Unmoved, Unheard, Deaf, mine
<1>5. /\ Same(v, u, {mine, c}) /\ Kind(u, c) = Kind(v, c) /\ Label(u, c) = Label(v, c)
      /\ Kind(u, mine) = "free" /\ Label(u, mine) = Null /\ Link(u, mine) = Null
  BY <1>1, <1>2 DEF Emptied, Joined, Same, mine
<1>6. On(u) = On(v) /\ In(u) = In(v) /\ Tidy(u)
  BY DEF On, In, Tidy, Sound, Emptied, Joined
<1>7. TakenOver(v, u, d, c)
  BY <1>1, <1>3, <1>4, <1>5, <1>6 DEF Joined, TakenOver, mine
<1>8. Typed(u)
  BY DEF Joined
<1>9. Valued(v) /\ Valued(u)
  BY <1>8, TypedValues
<1>10. Sound(u)
  BY <1>6, <1>7, <1>9, TakenOverSound
<1>11. Others(v, u, d) /\ Bears(u, d) = Label(v, c) /\ NoneComes(v, u)
  BY <1>7, <1>9, TakingNames, TakingBringsNone
<1>12. Goes(v, u, c, Ups)
  BY <1>7, <1>9, <1>10, TakenOverWalks
<1> QED
  BY <1>5, <1>8, <1>10, <1>11, <1>12 DEF Others, Unmoved, Touches

(* Who reaches the menu is the only one of its name that waits, if nobody of
   that name waits without a link. *)
LEMMA ReachesTheMenu ==
    ASSUME NEW v, Valued(v), Sound(v), Unique(v), NEW d \in Desc, Con(v, d) \in Early,
           \A e \in Desc \ {d} : Bears(v, e) # Bears(v, d),
           \A b \in In(v) : ~(/\ Kind(v, b) = "pc" /\ Label(v, b) = Bears(v, d)
                              /\ Link(v, b) = Null),
           NEW u, Valued(u), u.people = v.people, u.body = v.body,
           Unmoved(v, u, {d}), Drives(u, d) = Drives(v, d), Own(u, d) = Own(v, d)
    PROVE  Unique(u)
<1> DEFINE mine == Drives(v, d)
<1>1. /\ In(u) = In(v)
      /\ \A b : Kind(u, b) = Kind(v, b) /\ Label(u, b) = Label(v, b)
  BY DEF In, Kind, Label
<1>2. ASSUME NEW b \in Body, Waits(u, b), b # mine
      PROVE  Waits(v, b) /\ (Label(v, b) # Null => Label(v, b) # Bears(v, d))
  <2>1. Own(v, d) = Null
    BY DEF Sound, Away, Early
  <2>2. Self(u, d) = mine /\ \A k \in Desc \ {d} : Self(u, k) = Self(v, k)
    BY <2>1 DEF Self, Unmoved
  <2>3. Waits(v, b)
    BY <1>1, <1>2, <2>2 DEF Waits, Unmoved
  <2>4. ASSUME NEW e \in Desc \ {d}, Self(v, e) = b PROVE Label(v, b) # Bears(v, d)
    BY <2>4, NullAssumption DEF Bears
  <2>5. ASSUME b \in In(v), Label(v, b) # Null PROVE Label(v, b) # Bears(v, d)
    <3>1. CASE Link(v, b) = Null
      BY <2>3, <2>5, <3>1 DEF Waits
    <3>2. CASE Link(v, b) # Null
      <4> DEFINE e == Link(v, b)
      <4>1. e \in Desc /\ Drives(v, e) = b
        BY <3>2 DEF Valued, Sound, Held
      <4>2. e # d
        BY <1>2, <4>1
      <4>3. Kind(v, b) = "pc"
        BY <2>3 DEF Waits
      <4>4. Own(v, e) = Null
        BY <4>1, <4>3 DEF Sound, Away
      <4> QED
        BY <2>4, <4>1, <4>2, <4>4 DEF Self
    <3> QED
      BY <3>1, <3>2
  <2>6. ASSUME NEW k \in Desc, Con(u, k) \in {"SLCT", "PLYNG"}, Self(u, k) = b
        PROVE  Label(v, b) # Bears(v, d)
    <3>1. k # d
      BY <1>2, <2>2, <2>6
    <3> QED
      BY <2>2, <2>4, <2>6, <3>1
  <2> QED
    BY <1>1, <1>2, <2>3, <2>5, <2>6 DEF Waits
<1>3. mine \in Body => Label(v, mine) = Bears(v, d)
  BY NullAssumption DEF Sound, Away, Early, Bears, Self
<1> HIDE DEF mine
<1> QED
  BY <1>1, <1>2, <1>3 DEF Unique

(* con_pwdok, whatever its scans find, once d has its character: no other
   player has the name when it is done. *)
LEMMA ConPwdokSettles ==
    ASSUME NEW w, Typed(w), Sound(w), NEW d \in Desc, Con(w, d) \in Early,
           NEW taken, Bears(w, d) # Null, Bears(w, d) \in taken,
           Distinct(w, taken, {d}), Unique(w), NEW refused \in BOOLEAN
    PROVE  /\ Settled(ConPwdok(w, d, refused), taken)
           /\ Touches(w, ConPwdok(w, d, refused), d)
           /\ Turns(w, ConPwdok(w, d, refused), Bears(w, d))
<1> DEFINE n    == NameOf(w, w.sock[d].character)
           dup  == Duplicates(w, d)
           v    == IF dup = {} THEN w
                   ELSE CloseSocket(w, w.order[Max(dup)], refused)
           multiplay(c) == /\ dup = {}
                           /\ v.body[c].desc # Null
                           /\ v.sock[v.body[c].desc].account = v.sock[d].account
                           /\ v.sock[d].account # Null
           hits == {i \in DOMAIN v.people :
                       Linkdead(v, v.people[i], n) \/ multiplay(v.people[i])}
           c    == v.people[Min(hits)]
           u    == IF hits = {} THEN [v EXCEPT !.sock[d].con = "SLCT"]
                   ELSE IF Linkdead(v, c, n)
                   THEN [FreeChar(v, v.sock[d].character) EXCEPT
                           !.body[c].desc = d,
                           !.sock[d] = [@ EXCEPT !.character = c, !.con = "PLYNG"]]
                   ELSE Choose(v, d)
<1> SUFFICES Settled(u, taken) /\ Touches(w, u, d) /\ Turns(w, u, Bears(w, d))
  BY DEF ConPwdok
<1>1. /\ Alone(v, d, taken) /\ Bears(v, d) = Bears(w, d)
      /\ NoneComes(w, v) /\ Touches(w, v, d)
      /\ Idle(w, v) \/ \E e \in Desc : Bears(w, e) = Bears(w, d) /\ Drops(w, v, e)
  BY FirstScan
<1>2. hits \in SUBSET (DOMAIN v.people)
  OBVIOUS
<1>3. n = Bears(w, d)
  BY EarlySelf
<1> HIDE DEF n, dup, v, multiplay, hits, c
<1>4. v.people \in Seq(Body) /\ Len(v.people) \in Nat
      /\ DOMAIN v.people = 1 .. Len(v.people)
  BY <1>1 DEF Alone, Typed
<1>41. Unique(v) /\ Deaf(v, d) /\ Valued(v)
  BY <1>1, FewerWait, NotPlayingDeaf, TypedValues DEF Alone, Early
<1>42. ASSUME Touches(v, u, d) PROVE Touches(w, u, d)
  BY <1>1, <1>42 DEF Touches
<1>43. Valued(w) /\ Sound(v) /\ Typed(v)
  BY <1>1, TypedValues DEF Alone
<1>44. Gods = {} => Steps(w, v, Bears(w, d), Downs)
  <2>1. CASE Idle(w, v)
    BY <1>41, <1>43, <2>1, IdleSteps DEF Steps
  <2>2. ASSUME Gods = {}, NEW e \in Desc, Bears(w, e) = Bears(w, d), Drops(w, v, e)
        PROVE  Steps(w, v, Bears(w, d), Downs)
    <3>1. Steps(w, v, Bears(w, e), Downs)
      BY <1>41, <1>43, <2>2, DropsSteps
    <3> QED
      BY <2>2, <3>1
  <2> QED
    BY <1>1, <2>1, <2>2
<1>45. ASSUME Settled(u, taken), \/ Idle(v, u)
                                 \/ \E b : /\ Goes(v, u, b, Ups) /\ Label(v, b) = Bears(w, d)
                                           /\ Label(u, b) = Bears(w, d)
       PROVE  Turns(w, u, Bears(w, d))
  <2> HIDE DEF u
  <2>1. Valued(u) /\ Sound(u) /\ Unique(u)
    BY <1>45, TypedValues DEF Settled
  <2>2. \/ \A m \in Name : Placed(u, m) = Placed(v, m)
        \/ Steps(v, u, Bears(w, d), Ups)
    <3>1. ASSUME Idle(v, u) PROVE \A m \in Name : Placed(u, m) = Placed(v, m)
      BY <1>41, <1>43, <2>1, <3>1, IdleSteps
    <3>2. ASSUME NEW b, Goes(v, u, b, Ups), Label(v, b) = Bears(w, d),
                 Label(u, b) = Bears(w, d)
          PROVE  Steps(v, u, Bears(w, d), Ups)
      <4>1. Steps(v, u, Label(v, b), Ups)
        BY <1>41, <1>43, <2>1, <3>2, NamedSteps
      <4> QED
        BY <3>2, <4>1
    <3> QED
      BY <1>45, <3>1, <3>2
  <2> QED
    BY <1>44, <2>2, DownAndUp DEF Turns
<1>5. ASSUME NEW x \in {"SLCT", "TOON", "NME"}, u = [v EXCEPT !.sock[d].con = x],
             x = "SLCT" => hits = {}
      PROVE  Settled(u, taken) /\ Touches(w, u, d) /\ Turns(w, u, Bears(w, d))
  <2>1. x \in ConState
    BY DEF ConState
  <2> HIDE DEF u
  <2>2. /\ Typed(u) /\ u.order = v.order /\ u.people = v.people /\ u.body = v.body
        /\ Still(v, u, {d}) /\ Con(u, d) = x
        /\ Drives(u, d) = Drives(v, d) /\ Own(u, d) = Own(v, d)
    BY <1>1, <1>41, <1>5, <2>1, ConMoves DEF Alone
  <2>3. Drives(v, d) # Null /\ x \in Early \cup {"SLCT"}
        /\ x \notin {"CREATE", "NMECNF"}
    BY <1>1, EarlySelf DEF Alone, Early
  <2>4. /\ Sound(u) /\ \A k \in Desc : Bears(u, k) = Bears(v, k)
        /\ Touches(v, u, d)
        /\ x # "SLCT" => NoneComes(v, u) /\ Idle(v, u)
        /\ x = "SLCT" => Goes(v, u, Drives(v, d), Ups)
    BY <1>1, <2>2, <2>3, GoesOn DEF Alone
  <2>5. ASSUME x = "SLCT" PROVE Unique(u)
    <3>1. ASSUME NEW b \in In(v), Kind(v, b) = "pc", Label(v, b) = Bears(v, d),
                 Link(v, b) = Null
          PROVE  FALSE
      <4>1. PICK i \in DOMAIN v.people : v.people[i] = b
        BY DEF In, ToSet
      <4>2. Linkdead(v, v.people[i], n)
        BY <1>1, <1>3, <3>1, <4>1 DEF Linkdead, Kind, Label, Link
      <4> QED
        BY <1>5, <2>5, <4>2 DEF hits
    <3>2. Valued(u) /\ Unmoved(v, u, {d})
      BY <2>2, TypedValues DEF Still
    <3>3. Unique(u)
      BY <1>1, <1>41, <2>2, <3>1, <3>2, ReachesTheMenu DEF Alone
    <3> QED
      BY <3>3
  <2>6. ASSUME x # "SLCT" PROVE Unique(u)
    BY <1>41, <2>4, <2>6, FewerWait
  <2>7. Distinct(u, taken, {})
    BY <1>1, <2>4, FewerNames DEF Alone
  <2>8. Unique(u)
    BY <2>5, <2>6
  <2>9. Settled(u, taken) /\ Touches(w, u, d)
    BY <1>42, <2>2, <2>4, <2>7, <2>8 DEF Settled
  <2>10. /\ Label(v, Drives(v, d)) = Bears(w, d)
         /\ Label(u, Drives(v, d)) = Bears(w, d)
    BY <1>1, <2>2, EarlySelf DEF Alone, Label
  <2> HIDE DEF u
  <2>11. Turns(w, u, Bears(w, d))
    BY <1>45, <2>4, <2>9, <2>10
  <2> QED
    BY <2>9, <2>11
<1>6. CASE hits = {}
  BY <1>5, <1>6
<1>7. CASE hits # {}
  <2>1. c \in Body /\ c \in In(v)
    <3>1. Min(hits) \in hits
      BY <1>2, <1>4, <1>7, FirstAndLast
    <3> QED
      BY <1>2, <1>4, <3>1 DEF c, In, ToSet
  <2>2. CASE Linkdead(v, c, n)
    <3>1. u = [FreeChar(v, v.sock[d].character) EXCEPT
                  !.body[c].desc = d,
                  !.sock[d] = [@ EXCEPT !.character = c, !.con = "PLYNG"]]
      BY <1>7, <2>2
    <3>2. Kind(v, c) = "pc" /\ Label(v, c) = Bears(v, d) /\ Link(v, c) = Null
      BY <1>1, <1>3, <2>2 DEF Linkdead, Kind, Label, Link
    <3> HIDE DEF u
    <3>3. /\ Typed(v) /\ Sound(v) /\ Con(v, d) \in Early /\ Bears(v, d) # Null
          /\ \A e \in Desc \ {d} : Bears(v, e) # Bears(v, d)
      BY <1>1 DEF Alone
    <3> DEFINE f == FreeChar(v, v.sock[d].character)
    <3>4. u = [f EXCEPT !.body[c].desc = d,
                        !.sock[d] = [@ EXCEPT !.character = c, !.con = "PLYNG"]]
      BY <3>1
    <3>5. Emptied(v, f, Drives(v, d))
      BY <3>3, EarlySelf, FreeCharMoves DEF Drives
    <3> HIDE DEF f
    <3>6. Joined(f, u, d, c)
      <4>1. Typed(f) /\ Deaf(f, d)
        BY <1>41, <3>5 DEF Emptied, Deaf
      <4> QED
        BY <2>1, <3>4, <4>1, JoinMoves
    <3>7. /\ Typed(u) /\ Sound(u) /\ \A k \in Desc : Bears(u, k) = Bears(v, k)
          /\ NoneComes(v, u) /\ Touches(v, u, d)
          /\ Goes(v, u, c, Ups) /\ Label(u, c) = Label(v, c)
      BY <2>1, <3>2, <3>3, <3>5, <3>6, TakesOver
    <3>8. Settled(u, taken) /\ Touches(w, u, d)
      BY <1>1, <1>41, <1>42, <3>7, FewerNames, FewerWait DEF Alone, Settled
    <3>9. Turns(w, u, Bears(w, d))
      BY <1>1, <1>45, <3>2, <3>7, <3>8
    <3> QED
      BY <3>8, <3>9
  <2>3. CASE ~Linkdead(v, c, n)
    BY <1>5, <1>7, <2>3 DEF Choose
  <2> QED
    BY <2>2, <2>3
<1> QED
  BY <1>6, <1>7

\* The memory a login uses for its character.
Usable(w, d, b) ==
    b \in Body /\ IF Drives(w, d) = Null THEN Kind(w, b) = "free" ELSE b = Drives(w, d)

(* Memory is usable. *)
LEMMA MemoryUsable ==
    ASSUME Typed(World), NEW d \in Desc, NEW b \in Memory(d)
    PROVE  Usable(World, d, b)
<1>1. Drives(World, d) \in Body \cup {Null}
  BY TypedValues DEF Valued
<1>2. Drives(World, d) = sock[d].character /\ \A k \in Body : Kind(World, k) = body[k].kind
  BY DEF World, Drives, Kind
<1>3. CASE Drives(World, d) = Null
  BY <1>2, <1>3 DEF Memory, Usable
<1>4. CASE Drives(World, d) # Null
  BY <1>1, <1>2, <1>4 DEF Memory, Usable
<1> QED
  BY <1>3, <1>4

(* A character is named n for d: the one it has, or a new one. *)
LEMMA NamedMoves ==
    ASSUME NEW w, Typed(w), Sound(w), NEW d \in Desc, Con(w, d) \in {"NME", "TOON", "PWDNRM"},
           NEW n \in Name, NEW b, Usable(w, d, b)
    PROVE  LET v == Named(w, d, b, n)
           IN  /\ Typed(v) /\ Sound(v) /\ Others(w, v, d) /\ NoneComes(w, v)
               /\ Bears(v, d) = n /\ Con(v, d) = Con(w, d) /\ Idle(w, v)
<1> DEFINE v == Named(w, d, b, n)
           c == [kind |-> "pc", name |-> n, desc |-> d]
           s == [w.sock[d] EXCEPT !.character = b]
           y == [w.body[b] EXCEPT !.name = n]
<1>1. b \in Body /\ Deaf(w, d)
  BY NotPlayingDeaf DEF Usable
<1>2. /\ w.sock \in [Desc -> Socket] /\ w.body \in [Body -> Char]
      /\ w.sock[d] \in Socket /\ w.body[b] \in Char
  BY <1>1 DEF Typed
<1>3. CASE Drives(w, d) = Null
  <2> DEFINE made == MakeChar(w, d, b)
  <2>1. v = [made EXCEPT !.body[b].name = n]
    BY <1>3 DEF Named, Drives
  <2>2. made = [w EXCEPT !.body[b] = [kind |-> "pc", name |-> Null, desc |-> d],
                         !.sock[d].character = b]
    BY DEF MakeChar
  <2> HIDE DEF v, made
  <2>3. /\ made.order = w.order /\ made.people = w.people
        /\ made.sock = [w.sock EXCEPT ![d] = s]
        /\ made.body = [w.body EXCEPT ![b] = [kind |-> "pc", name |-> Null, desc |-> d]]
        /\ made = [order |-> made.order, sock |-> made.sock, people |-> made.people,
                   body |-> made.body]
    BY <2>2 DEF Typed
  <2>4. /\ v.order = w.order /\ v.people = w.people
        /\ v.sock = [w.sock EXCEPT ![d] = s]
        /\ v.body = [w.body EXCEPT ![b] = c]
        /\ v = [order |-> v.order, sock |-> v.sock, people |-> v.people, body |-> v.body]
    BY <1>1, <1>2, <2>1, <2>3
  <2>5. s \in Socket /\ s.con = w.sock[d].con /\ s.character = b
        /\ s.original = w.sock[d].original
        /\ s.snooping = w.sock[d].snooping /\ s.snoopBy = w.sock[d].snoopBy
    BY <1>1, <1>2 DEF Socket
  <2>6. c \in Char
    BY DEF Char
  <2> HIDE DEF s
  <2>7. v.sock \in [Desc -> Socket] /\ v.body \in [Body -> Char]
    BY <1>2, <2>4, <2>5, <2>6
  <2>8. Typed(v)
    BY <2>4, <2>7 DEF Typed
  <2>9. /\ Still(w, v, {d}) /\ Con(v, d) = Con(w, d) /\ Drives(v, d) = b
        /\ Own(v, d) = Own(w, d)
    BY <1>1, <1>2, <2>4, <2>5
       DEF Still, Unmoved, Unheard, Deaf, Con, Drives, Own, Snoops, Heard
  <2>10. /\ Same(w, v, {b}) /\ Kind(v, b) = "pc" /\ Label(v, b) = n /\ Link(v, b) = d
    BY <1>1, <1>2, <2>4 DEF Same, Kind, Label, Link
  <2>11. On(v) = On(w) /\ In(v) = In(w) /\ Tidy(v)
    BY <2>4 DEF On, In, Tidy, Sound
  <2>12. Made(w, v, d, b, n)
    BY <1>1, <1>3, <2>9, <2>10, <2>11 DEF Made, Usable
  <2>13. Valued(w) /\ Valued(v)
    BY <2>8, TypedValues
  <2>14. Sound(v)
    BY <2>11, <2>12, <2>13, MadeSound
  <2>15. Others(w, v, d) /\ Bears(v, d) = n /\ NoneComes(w, v) /\ Idle(w, v)
    BY <1>1, <2>12, <2>13, LoginNames, LoginBringsNone, LoginIdle
  <2> QED
    BY <2>8, <2>9, <2>14, <2>15 DEF v
<1>4. CASE Drives(w, d) # Null
  <2>1. v = [w EXCEPT !.body[b].name = n]
    BY <1>4 DEF Named, Drives
  <2> HIDE DEF v
  <2>2. /\ v.order = w.order /\ v.people = w.people /\ v.sock = w.sock
        /\ v.body = [w.body EXCEPT ![b] = y]
        /\ v = [order |-> v.order, sock |-> v.sock, people |-> v.people, body |-> v.body]
    BY <2>1 DEF Typed
  <2>3. y \in Char /\ y.kind = w.body[b].kind /\ y.name = n /\ y.desc = w.body[b].desc
    BY <1>2 DEF Char
  <2> HIDE DEF y
  <2>4. v.body \in [Body -> Char]
    BY <1>2, <2>2, <2>3
  <2>5. Typed(v)
    BY <2>2, <2>4 DEF Typed
  <2>6. /\ Still(w, v, {d}) /\ Con(v, d) = Con(w, d) /\ Drives(v, d) = Drives(w, d)
        /\ Own(v, d) = Own(w, d) /\ On(v) = On(w) /\ In(v) = In(w) /\ Tidy(v)
    BY <1>1, <2>2 DEF Still, Unmoved, Unheard, Deaf, Con, Drives, Own, Snoops, Heard,
       On, In, Tidy, Sound
  <2>7. /\ Same(w, v, {b}) /\ Kind(v, b) = Kind(w, b) /\ Label(v, b) = n
        /\ Link(v, b) = Link(w, b)
    BY <1>1, <1>2, <2>2, <2>3 DEF Same, Kind, Label, Link
  <2>8. b = Drives(w, d)
    BY <1>4 DEF Usable
  <2>9. Renamed(w, v, d, n)
    BY <1>4, <2>6, <2>7, <2>8 DEF Renamed, Early
  <2>10. Valued(w) /\ Valued(v)
    BY <2>5, TypedValues
  <2>11. Sound(v)
    BY <2>6, <2>9, <2>10, RenamedSound
  <2>12. Others(w, v, d) /\ Bears(v, d) = n /\ NoneComes(w, v) /\ Idle(w, v)
    BY <2>9, <2>10, LoginNames, LoginBringsNone, LoginIdle
  <2> QED
    BY <2>5, <2>6, <2>11, <2>12 DEF v
<1> QED
  BY <1>3, <1>4

(* The name that was typed is kept on the descriptor. *)
LEMMA ChoosenMoves ==
    ASSUME NEW w, Typed(w), Sound(w), NEW d \in Desc, Con(w, d) # "PLYNG",
           NEW n \in Name, NEW v, v = [w EXCEPT !.sock[d].choosen = n]
    PROVE  Alike(w, v)
<1> DEFINE s == [w.sock[d] EXCEPT !.choosen = n]
<1>1. w.sock[d] \in Socket /\ Deaf(w, d)
  BY NotPlayingDeaf DEF Typed
<1>2. /\ s \in Socket /\ s.con = Con(w, d) /\ s.character = Drives(w, d)
      /\ s.original = Own(w, d) /\ s.snooping = Null /\ s.snoopBy = Null
  BY <1>1 DEF Socket, Con, Drives, Own, Deaf, Snoops, Heard
<1>3. Written(w, v, d, s)
  BY <1>1, <1>2 DEF Typed, Written
<1> HIDE DEF s
<1>4. /\ Typed(v) /\ v.order = w.order /\ v.people = w.people /\ v.body = w.body
      /\ Still(w, v, {d}) /\ Con(v, d) = Con(w, d)
      /\ Drives(v, d) = Drives(w, d) /\ Own(v, d) = Own(w, d)
  BY <1>2, <1>3, SocketMoves
<1>5. Mutual(v)
  BY <1>4, StillMutual, TypedValues
<1> QED
  BY <1>4, <1>5 DEF Alike, Steady, Still, Unmoved

(* A character is loaded for d, or the connection is closed. *)
LEMMA LoadSettles ==
    ASSUME NEW w, NEW taken, Settled(w, taken), NEW d \in Desc,
           Con(w, d) \in {"NME", "TOON", "PWDNRM"},
           taken \subseteq Name, NEW n, NEW b, Usable(w, d, b), NEW refused \in BOOLEAN
    PROVE  LET v == IF n \notin taken THEN CloseSocket(w, d, FALSE)
                    ELSE ConPwdok([Named(w, d, b, n) EXCEPT
                                     !.sock[d].choosen = n], d, refused)
           IN  Settled(v, taken) /\ Touches(w, v, d) /\ \E m : Turns(w, v, m)
<1>1. Typed(w) /\ Sound(w) /\ Distinct(w, taken, {}) /\ Unique(w) /\ Valued(w)
  BY TypedValues DEF Settled
<1>2. CASE n \notin taken
  <2>1. Gone(w, CloseSocket(w, d, FALSE), d)
    BY <1>1, CloseSocketGone
  <2> DEFINE v == CloseSocket(w, d, FALSE)
  <2> SUFFICES Settled(v, taken) /\ Touches(w, v, d) /\ \E m : Turns(w, v, m)
    BY <1>2
  <2>2. Gone(w, v, d)
    BY <2>1
  <2> HIDE DEF v
  <2>3. Settled(v, taken) /\ Touches(w, v, d)
    BY <1>1, <2>2, FewerNames, FewerWait
       DEF Gone, Keeps, Others, Unmoved, Touches, Settled
  <2>4. Valued(v) /\ Sound(v) /\ Unique(v) /\ Moved(w, v)
    BY <2>2, <2>3, TypedValues, LittleMoves DEF Settled, Gone
  <2>5. \E m : Turns(w, v, m)
    BY <1>1, <2>4, MovedTurns
  <2> QED
    BY <2>3, <2>5
<1>3. CASE n \in taken
  <2> DEFINE v == Named(w, d, b, n)
             q == [v EXCEPT !.sock[d].choosen = n]
  <2>1. /\ Typed(v) /\ Sound(v) /\ Others(w, v, d) /\ NoneComes(w, v)
        /\ Bears(v, d) = n /\ Con(v, d) = Con(w, d) /\ Idle(w, v)
    BY <1>1, <1>3, NamedMoves
  <2> SUFFICES /\ Settled(ConPwdok(q, d, refused), taken)
               /\ Touches(w, ConPwdok(q, d, refused), d)
               /\ \E m : Turns(w, ConPwdok(q, d, refused), m)
    BY <1>3
  <2> HIDE DEF v
  <2>2. q = [v EXCEPT !.sock[d].choosen = n]
    OBVIOUS
  <2> HIDE DEF q
  <2>3. Alike(v, q)
    BY <2>1, <2>2, <1>3, ChoosenMoves
  <2>4. Typed(q) /\ Con(q, d) = Con(w, d)
    BY <2>1, <2>3 DEF Alike, Steady, Unmoved
  <2>6. /\ Sound(q) /\ \A k \in Desc : Bears(q, k) = Bears(v, k)
        /\ NoneComes(v, q) /\ Idle(v, q)
    BY <2>1, <2>3, AlikeSound
  <2>7. Distinct(q, taken, {d})
    BY <1>1, <2>1, <2>6 DEF Distinct, Others
  <2>8. Bears(q, d) # Null /\ Bears(q, d) \in taken /\ Con(q, d) \in Early
    BY <1>3, <2>1, <2>4, <2>6, NullAssumption DEF Early
  <2>9. Unique(q)
    BY <1>1, <2>1, <2>6, FewerWait
  <2> DEFINE u == ConPwdok(q, d, refused)
  <2>10. Touches(q, u, d) /\ Settled(u, taken) /\ Turns(q, u, Bears(q, d))
    BY <2>4, <2>6, <2>7, <2>8, <2>9, ConPwdokSettles
  <2> HIDE DEF u
  <2>11. Turns(w, u, Bears(q, d))
    <3>1. Idle(w, q) /\ Valued(q)
      BY <2>1, <2>4, <2>6, IdleGoes, TypedValues
    <3> QED
      BY <1>1, <2>6, <2>9, <2>10, <3>1, IdleTurns DEF Turns
  <2>12. Touches(w, u, d)
    BY <2>1, <2>3, <2>10 DEF Touches, Others, Alike, Steady, Unmoved
  <2> QED
    BY <2>10, <2>11, <2>12 DEF u
<1> QED
  BY <1>2, <1>3
-----------------------------------------------------------------------------
(* What the handlers do *)

(* Where nobody gets a name and none is registered, none comes to be shared. *)
LEMMA CalmSettles ==
    ASSUME NEW w, NEW v, NEW taken, NEW fewer \in SUBSET taken, NEW d,
           Settled(w, taken), Calmer(w, v, d)
    PROVE  Settled(v, fewer)
<1>1. Distinct(v, taken, {}) /\ Unique(v)
  BY FewerNames, FewerWait DEF Settled, Calmer
<1> QED
  BY <1>1 DEF Distinct, Settled, Calmer

(* Every descriptor without a character is closed when the limit is near. *)
LEMMA CloseLoginOnlyMoves ==
    ASSUME NEW w, Typed(w), Sound(w), NEW e
    PROVE  /\ Pruned(w, CloseLoginOnly(w)) /\ Calmer(w, CloseLoginOnly(w), e)
           /\ Idle(w, CloseLoginOnly(w))
<1> DEFINE gone == {d \in Desc : w.sock[d].character = Null}
           v == CloseLoginOnly(w)
           s == [d \in Desc |-> IF d \in gone THEN NoSocket ELSE w.sock[d]]
<1>1. v = [w EXCEPT !.order = Staying(@, gone), !.sock = s]
  BY DEF CloseLoginOnly
<1>2. gone = {d \in Desc : Drives(w, d) = Null}
  BY DEF Drives
<1>3. w.order \in Seq(Desc) /\ w.sock \in [Desc -> Socket] /\ IsInjective(w.order)
  BY DEF Typed, Sound, Tidy
<1> HIDE DEF gone, v
<1>4. /\ v.order = Staying(w.order, gone) /\ v.people = w.people /\ v.body = w.body
      /\ v.sock = s
      /\ v = [order |-> v.order, sock |-> v.sock, people |-> v.people, body |-> v.body]
  BY <1>1 DEF Typed
<1>5. /\ v.order \in Seq(Desc) /\ ToSet(v.order) = ToSet(w.order) \ gone
      /\ IsInjective(v.order)
  BY <1>3, <1>4, StayingProps
<1>6. s \in [Desc -> Socket]
  <2>1. NoSocket \in Socket
    BY DEF NoSocket, Socket, ConState
  <2> QED
    BY <1>3, <2>1
<1>7. \A d \in Desc : s[d] = IF d \in gone THEN NoSocket ELSE w.sock[d]
  OBVIOUS
<1> HIDE DEF s
<1>8. Typed(v)
  BY <1>4, <1>5, <1>6 DEF Typed
<1>9. /\ Still(w, v, gone)
      /\ \A d \in gone : /\ Con(v, d) = "closed" /\ Drives(v, d) = Null
                         /\ Own(v, d) = Null
  <2>1. ASSUME NEW d \in gone PROVE d \in Desc /\ Deaf(w, d)
    BY <1>2, <2>1, NotPlayingDeaf DEF Sound, Driven
  <2> QED
    BY <1>2, <1>4, <1>7, <2>1
       DEF Still, Unmoved, Unheard, Deaf, Con, Drives, Own, Snoops, Heard, NoSocket
<1>10. /\ On(v) = On(w) \ gone /\ In(v) = In(w) /\ Same(w, v, {}) /\ Tidy(v)
  BY <1>4, <1>5 DEF On, In, Same, Kind, Label, Link, Tidy, Sound
<1>11. Pruned(w, v)
  BY <1>2, <1>9, <1>10 DEF Pruned
<1>12. Valued(w) /\ Valued(v)
  BY <1>8, TypedValues
<1>13. Sound(v)
  BY <1>10, <1>11, <1>12, PrunedSound
<1>14. \A k \in Desc : Bears(v, k) \in {Bears(w, k), Null}
  BY <1>4, <1>9, <1>12, NullAssumption DEF Valued, Still, Unmoved, Bears, Self, Label
<1>15. NoneComes(w, v)
  <2>1. \A d \in Desc : Con(v, d) \in {"SLCT", "PLYNG"} => d \notin gone
    BY <1>9
  <2> QED
    BY <1>9, <1>10, <2>1 DEF NoneComes, Waits, Still, Unmoved, Same, Self
<1>16. Touches(w, v, e)
  <2>1. \A k \in Desc \ gone : /\ Con(v, k) = Con(w, k) /\ Drives(v, k) = Drives(w, k)
                               /\ Own(v, k) = Own(w, k)
    BY <1>9 DEF Still, Unmoved
  <2> QED
    BY <1>9, <2>1 DEF Touches
<1>17. Idle(w, v)
  BY <1>11, <1>12, PrunedIdle
<1>18. Moved(w, v)
  BY <1>17, LittleMoves
<1> QED
  BY <1>8, <1>11, <1>13, <1>14, <1>15, <1>16, <1>17, <1>18 DEF Calmer, v

(* A new descriptor comes first in the list. *)
LEMMA OpenedCalm ==
    ASSUME NEW w, Typed(w), Sound(w), NEW d \in Desc, Con(w, d) = "closed",
           NEW v, v = [w EXCEPT !.order = <<d>> \o @, !.sock[d].con = "NME"]
    PROVE  Calmer(w, v, d) /\ Idle(w, v)
<1> DEFINE s == [w.sock[d] EXCEPT !.con = "NME"]
           o == <<d>> \o w.order
<1>1. /\ w.order \in Seq(Desc) /\ w.sock \in [Desc -> Socket] /\ IsInjective(w.order)
      /\ w.sock[d] \in Socket
  BY DEF Typed, Sound, Tidy
<1>2. d \notin On(w) /\ Drives(w, d) = Null /\ Own(w, d) = Null /\ Deaf(w, d)
  BY NotPlayingDeaf DEF Sound, Shut
<1>3. o \in Seq(Desc) /\ ToSet(o) = On(w) \cup {d} /\ IsInjective(o)
  BY <1>1, <1>2, LinkedProps DEF On
<1>4. /\ s \in Socket /\ s.con = "NME" /\ s.character = Null /\ s.original = Null
      /\ s.snooping = Null /\ s.snoopBy = Null
  <2>1. "NME" \in ConState
    BY DEF ConState
  <2> QED
    BY <1>1, <1>2, <2>1 DEF Socket, Drives, Own, Deaf, Snoops, Heard
<1>5. /\ v.order = o /\ v.people = w.people /\ v.body = w.body
      /\ v.sock = [w.sock EXCEPT ![d] = s]
      /\ v = [order |-> v.order, sock |-> v.sock, people |-> v.people, body |-> v.body]
  BY DEF Typed
<1> HIDE DEF s, o
<1>6. v.sock \in [Desc -> Socket]
  BY <1>1, <1>4, <1>5
<1>7. Typed(v)
  BY <1>3, <1>5, <1>6 DEF Typed
<1>8. /\ Still(w, v, {d}) /\ Con(v, d) = "NME" /\ Drives(v, d) = Null
      /\ Own(v, d) = Null
  BY <1>1, <1>2, <1>4, <1>5
     DEF Still, Unmoved, Unheard, Deaf, Con, Drives, Own, Snoops, Heard
<1>9. /\ On(v) = On(w) \cup {d} /\ In(v) = In(w) /\ Same(w, v, {}) /\ Tidy(v)
  BY <1>3, <1>5 DEF On, In, Same, Kind, Label, Link, Tidy, Sound
<1>10. Opened(w, v, d)
  BY <1>8, <1>9 DEF Opened
<1>11. Valued(w) /\ Valued(v)
  BY <1>7, TypedValues
<1>12. Sound(v)
  BY <1>9, <1>10, <1>11, OpenedSound
<1>13. Keeps(w, v, d) /\ Idle(w, v)
  BY <1>10, <1>11, <1>12, MovesKeep, MovesIdle
<1> QED
  BY <1>7, <1>12, <1>13, KeepsCalm, LittleMoves

(* A body enters the world from the menu, first in the list. *)
LEMMA EnteredCalm ==
    ASSUME NEW w, Typed(w), Sound(w), NEW d \in Desc, Con(w, d) = "SLCT",
           NEW c \in Body, c = Drives(w, d),
           NEW q, q = [w EXCEPT !.body[c].desc = d],
           NEW v, v = [q EXCEPT !.people = <<c>> \o @, !.sock[d].con = "PLYNG"]
    PROVE  Calmer(w, v, d)
<1> DEFINE s == [w.sock[d] EXCEPT !.con = "PLYNG"]
           y == [w.body[c] EXCEPT !.desc = d]
           p == <<c>> \o w.people
<1>1. /\ w.people \in Seq(Body) /\ w.sock \in [Desc -> Socket] /\ IsInjective(w.people)
      /\ w.sock[d] \in Socket /\ w.body \in [Body -> Char] /\ w.body[c] \in Char
  BY DEF Typed, Sound, Tidy
<1>2. c \notin In(w) /\ c # Null /\ Deaf(w, d)
  BY NullAssumption, NotPlayingDeaf DEF Sound, Outside
<1>3. p \in Seq(Body) /\ ToSet(p) = In(w) \cup {c} /\ IsInjective(p)
  BY <1>1, <1>2, LinkedProps DEF In
<1>4. /\ s \in Socket /\ s.con = "PLYNG" /\ s.character = c /\ s.original = Own(w, d)
      /\ s.snooping = Null /\ s.snoopBy = Null
  <2>1. "PLYNG" \in ConState
    BY DEF ConState
  <2> QED
    BY <1>1, <1>2, <2>1 DEF Socket, Drives, Own, Deaf, Snoops, Heard
<1>5. y \in Char /\ y.kind = Kind(w, c) /\ y.name = Label(w, c) /\ y.desc = d
  BY <1>1 DEF Char, Kind, Label
<1>6. /\ q.order = w.order /\ q.people = w.people /\ q.sock = w.sock
      /\ q.body = [w.body EXCEPT ![c] = y]
      /\ q = [order |-> q.order, sock |-> q.sock, people |-> q.people, body |-> q.body]
  BY DEF Typed
<1>7. /\ v.order = w.order /\ v.people = p /\ v.body = [w.body EXCEPT ![c] = y]
      /\ v.sock = [w.sock EXCEPT ![d] = s]
      /\ v = [order |-> v.order, sock |-> v.sock, people |-> v.people, body |-> v.body]
  BY <1>6
<1> HIDE DEF s, y, p
<1>8. v.sock \in [Desc -> Socket] /\ v.body \in [Body -> Char]
  <2>0. w.sock \in [Desc -> Socket] /\ s \in Socket
    BY <1>1, <1>4
  <2>s. [w.sock EXCEPT ![d] = s] \in [Desc -> Socket]
    BY <2>0
  <2>1. v.sock \in [Desc -> Socket]
    BY <1>7, <2>s
  <2>2. w.body \in [Body -> Char] /\ y \in Char
    BY <1>1, <1>5
  <2>3. [w.body EXCEPT ![c] = y] \in [Body -> Char]
    BY <2>2
  <2>4. v.body \in [Body -> Char]
    BY <1>7, <2>3
  <2> QED
    BY <2>1, <2>4
<1>9. Typed(v)
  BY <1>3, <1>7, <1>8 DEF Typed
<1>10. /\ Still(w, v, {d}) /\ Con(v, d) = "PLYNG" /\ Drives(v, d) = c
       /\ Own(v, d) = Own(w, d)
  <2>1. v.sock[d] = s /\ \A k \in Desc \ {d} : v.sock[k] = w.sock[k]
    BY <1>1, <1>7
  <2>2. Deaf(v, d)
    BY <1>4, <2>1 DEF Deaf, Snoops, Heard
  <2>3. Still(w, v, {d})
    BY <1>2, <2>1, <2>2, SocketMoved
  <2> QED
    BY <1>4, <2>1, <2>3 DEF Con, Drives, Own
<1>11. /\ Same(w, v, {c}) /\ Kind(v, c) = Kind(w, c) /\ Label(v, c) = Label(w, c)
       /\ Link(v, c) = d
  BY <1>1, <1>5, <1>7 DEF Same, Kind, Label, Link
<1>12. On(v) = On(w) /\ In(v) = In(w) \cup {c} /\ Tidy(v)
  BY <1>3, <1>7 DEF On, In, Tidy, Sound
<1>13. Entered(w, v, d)
  BY <1>10, <1>11, <1>12 DEF Entered
<1>14. Valued(w) /\ Valued(v)
  BY <1>9, TypedValues
<1>15. Sound(v)
  BY <1>12, <1>13, <1>14, EnteredSound
<1>16. Keeps(w, v, d)
  BY <1>13, <1>14, <1>15, MovesKeep
<1>17. Moved(w, v)
  BY <1>13, <1>14, <1>15, MenuWalks, LittleMoves
<1> QED
  BY <1>9, <1>15, <1>16, <1>17, KeepsCalm

\* d drives nothing any more, and what it drove is freed.
Unplugged(w, v, d) ==
    /\ Typed(v) /\ v.order = w.order /\ v.people = w.people
    /\ Same(w, v, {Drives(w, d)})
    /\ Kind(v, Drives(w, d)) = "free" /\ Label(v, Drives(w, d)) = Null
    /\ Link(v, Drives(w, d)) = Null
    /\ Still(w, v, {d})
    /\ Con(v, d) = Con(w, d) /\ Drives(v, d) = Null /\ Own(v, d) = Own(w, d)

(* Freeing a character at the menu and forgetting it. *)
LEMMA Unplugs ==
    ASSUME NEW w, Typed(w), Sound(w), NEW d \in Desc, Con(w, d) = "SLCT",
           NEW f, Emptied(w, f, Drives(w, d)),
           NEW v, v = [f EXCEPT !.sock[d].character = Null]
    PROVE  Unplugged(w, v, d)
<1> DEFINE s == [f.sock[d] EXCEPT !.character = Null]
<1>1. f.sock[d] \in Socket /\ Typed(f) /\ Deaf(w, d) /\ Deaf(f, d)
  BY NotPlayingDeaf DEF Emptied, Typed, Deaf
<1>2. /\ s \in Socket /\ s.con = Con(f, d) /\ s.character = Null
      /\ s.original = Own(f, d) /\ s.snooping = Null /\ s.snoopBy = Null
  BY <1>1 DEF Socket, Con, Own, Deaf, Snoops, Heard
<1>3. Written(f, v, d, s)
  BY <1>1, <1>2 DEF Typed, Written
<1> HIDE DEF s
<1>4. /\ Typed(v) /\ v.order = f.order /\ v.people = f.people /\ v.body = f.body
      /\ Still(f, v, {d}) /\ Con(v, d) = s.con
      /\ Drives(v, d) = s.character /\ Own(v, d) = s.original
  <2>1. Typed(f)
    BY <1>1
  <2> QED
    BY <1>3, <2>1, SocketMoves
<1>5. Drives(w, d) \in Body /\ Drives(w, d) # Null
  BY TypedValues, NullAssumption DEF Sound, Driven, Valued
<1>6. Link(w, Drives(w, d)) \in {d, Null}
  BY <1>5 DEF Sound, Driven
<1>7. Still(w, v, {d})
  BY <1>1, <1>4, <1>6, NullAssumption DEF Emptied, Still, Unmoved, Unheard
<1>8. /\ Same(w, v, {Drives(w, d)})
      /\ Kind(v, Drives(w, d)) = "free" /\ Label(v, Drives(w, d)) = Null
      /\ Link(v, Drives(w, d)) = Null
  BY <1>4 DEF Emptied, Same, Kind, Label, Link
<1> QED
  BY <1>2, <1>4, <1>7, <1>8 DEF Emptied, Unplugged

(* Then d chooses again. *)
LEMMA DroppedCalm ==
    ASSUME NEW w, Typed(w), Sound(w), NEW d \in Desc, Con(w, d) = "SLCT",
           NEW f, Unplugged(w, f, d), NEW x \in {"NME", "TOON"},
           NEW v, v = [f EXCEPT !.sock[d].con = x]
    PROVE  Calmer(w, v, d) /\ Kind(v, Drives(w, d)) = "free"
<1>1. x \in ConState /\ Deaf(f, d)
  BY DEF ConState, Unplugged, Still, Unheard
<1>2. /\ Typed(v) /\ v.order = f.order /\ v.people = f.people /\ v.body = f.body
      /\ Still(f, v, {d}) /\ Con(v, d) = x
      /\ Drives(v, d) = Drives(f, d) /\ Own(v, d) = Own(f, d)
  BY <1>1, ConMoves DEF Unplugged
<1>3. On(v) = On(w) /\ In(v) = In(w) /\ Tidy(v)
  BY <1>2 DEF Unplugged, On, In, Tidy, Sound
<1>4. Still(w, v, {d})
  BY <1>2 DEF Unplugged, Still, Unmoved, Unheard
<1>5. /\ Same(w, v, {Drives(w, d)})
      /\ Kind(v, Drives(w, d)) = "free" /\ Label(v, Drives(w, d)) = Null
      /\ Link(v, Drives(w, d)) = Null
  BY <1>2 DEF Unplugged, Same, Kind, Label, Link
<1>6. Dropped(w, v, d)
  BY <1>2, <1>3, <1>4, <1>5 DEF Dropped, Unplugged
<1>7. Valued(w) /\ Valued(v)
  BY <1>2, TypedValues
<1>8. Sound(v)
  BY <1>3, <1>6, <1>7, DroppedSound
<1>9. Keeps(w, v, d)
  BY <1>6, <1>7, <1>8, MovesKeep
<1>10. Moved(w, v)
  BY <1>6, <1>7, <1>8, MenuWalks, LittleMoves
<1> QED
  BY <1>2, <1>5, <1>8, <1>9, <1>10, KeepsCalm

(* Or its connection is closed. *)
LEMMA UnpluggedCloses ==
    ASSUME NEW w, Typed(w), Sound(w), NEW d \in Desc, Con(w, d) = "SLCT",
           NEW f, Unplugged(w, f, d)
    PROVE  /\ Calmer(w, CloseSocket(f, d, FALSE), d)
           /\ Kind(CloseSocket(f, d, FALSE), Drives(w, d)) = "free"
<1> DEFINE quiet == ForgetSnooping(f, d)
           v == CloseSocket(f, d, FALSE)
<1>1. f.sock[d].character = Null
  BY DEF Unplugged, Drives
<1>2. v = [quiet EXCEPT !.order = Without(@, d), !.sock[d] = NoSocket]
  BY <1>1 DEF CloseSocket
<1>3. Steady(f, quiet) /\ Deaf(quiet, d)
      /\ \A k \in Desc : Snoops(quiet, k) = Snoops(f, k) /\ Heard(quiet, k) = Heard(f, k)
  <2>1. Typed(f) /\ Deaf(f, d)
    BY DEF Unplugged, Still, Unheard
  <2> QED
    BY <2>1, ForgetSnoopingSteady DEF Deaf
<1> HIDE DEF quiet, v
<1>4. Hung(quiet, v, d)
  BY <1>2, <1>3, HangUp DEF Steady
<1>5. Tidy(v) /\ On(v) = On(w) \ {d} /\ In(v) = In(w)
  BY <1>3, <1>4, HungTidy DEF Steady, Unplugged
<1>6. Still(w, v, {d})
  BY <1>3, <1>4 DEF Steady, Unplugged, Hung, Still, Unmoved, Unheard
<1>7. /\ Same(w, v, {Drives(w, d)})
      /\ Kind(v, Drives(w, d)) = "free" /\ Label(v, Drives(w, d)) = Null
      /\ Link(v, Drives(w, d)) = Null
  BY <1>3, <1>4 DEF Steady, Unplugged, Hung, Same, Kind, Label, Link
<1>8. Closed(w, v, d)
  BY <1>4, <1>5, <1>6, <1>7 DEF Closed, Hung
<1>9. Gone(w, v, d)
  BY <1>4, <1>5, <1>8, ClosedGone DEF Hung
<1>10. Moved(w, v)
  BY <1>9, LittleMoves DEF Gone
<1> QED
  BY <1>7, <1>9, <1>10, KeepsCalm DEF Gone, v

\* What spell_poly_self and do_switch write: y is the mobile, now linked.
Transferred(w, v, d, m, y) ==
    LET c == Drives(w, d)
        s == [w.sock[d] EXCEPT !.character = m, !.original = c]
        z == [w.body[c] EXCEPT !.desc = Null]
    IN  /\ y \in Char /\ y.kind \in {"npc", "poly"} /\ y.desc = d
        /\ v.order = w.order
        /\ v.sock = [w.sock EXCEPT ![d] = s]
        /\ v.body = [w.body EXCEPT ![m] = y, ![c] = z]
        /\ v = [order |-> v.order, sock |-> v.sock, people |-> v.people,
                body |-> v.body]

(* The player of d goes into m. *)
LEMMA ShapedCalm ==
    ASSUME NEW w, Typed(w), Sound(w), NEW d \in Desc, Con(w, d) = "PLYNG",
           Kind(w, Drives(w, d)) = "pc", Deaf(w, d), NEW m \in Body, NEW y, NEW v,
           Transferred(w, v, d, m, y),
           \/ Kind(w, m) = "free" /\ v.people = <<m>> \o w.people
           \/ /\ Kind(w, m) \in {"npc", "poly"} /\ Link(w, m) = Null
              /\ v.people = w.people
    PROVE  Calmer(w, v, d) /\ Idle(w, v)
<1> DEFINE c == Drives(w, d)
           s == [w.sock[d] EXCEPT !.character = m, !.original = c]
           z == [w.body[c] EXCEPT !.desc = Null]
<1>1. c \in Body /\ c # Null /\ c # m
  BY TypedValues, NullAssumption DEF Sound, Driven, Valued
<1>2. /\ w.people \in Seq(Body) /\ w.sock \in [Desc -> Socket] /\ IsInjective(w.people)
      /\ w.sock[d] \in Socket /\ w.body \in [Body -> Char] /\ w.body[c] \in Char
  BY <1>1 DEF Typed, Sound, Tidy
<1>3. /\ v.people \in Seq(Body) /\ IsInjective(v.people)
      /\ \/ Kind(w, m) = "free" /\ In(v) = In(w) \cup {m}
         \/ Kind(w, m) \in {"npc", "poly"} /\ Link(w, m) = Null /\ In(v) = In(w)
  <2>1. ASSUME Kind(w, m) = "free", v.people = <<m>> \o w.people
        PROVE  /\ v.people \in Seq(Body) /\ IsInjective(v.people)
               /\ In(v) = In(w) \cup {m}
    <3>1. m \notin ToSet(w.people)
      BY <2>1 DEF Sound, Listed, In
    <3> QED
      BY <1>2, <2>1, <3>1, LinkedProps DEF In
  <2> QED
    BY <1>2, <2>1 DEF In
<1>4. /\ s \in Socket /\ s.con = "PLYNG" /\ s.character = m /\ s.original = c
      /\ s.snooping = Null /\ s.snoopBy = Null
  BY <1>1, <1>2 DEF Socket, Con, Deaf, Snoops, Heard
<1>5. z \in Char /\ z.kind = Kind(w, c) /\ z.name = Label(w, c) /\ z.desc = Null
  BY <1>2 DEF Char, Kind, Label
<1>6. /\ v.order = w.order /\ v.sock = [w.sock EXCEPT ![d] = s]
      /\ v.body = [w.body EXCEPT ![m] = y, ![c] = z]
      /\ v = [order |-> v.order, sock |-> v.sock, people |-> v.people, body |-> v.body]
      /\ y \in Char /\ y.kind \in {"npc", "poly"} /\ y.desc = d
  BY DEF Transferred
<1> HIDE DEF c, s, z
<1>7. v.sock \in [Desc -> Socket] /\ v.body \in [Body -> Char]
  <2>1. v.sock \in [Desc -> Socket]
    BY <1>2, <1>4, <1>6
  <2>2. v.body \in [Body -> Char]
    BY <1>1, <1>2, <1>5, <1>6
  <2> QED
    BY <2>1, <2>2
<1>8. Typed(v)
  BY <1>3, <1>6, <1>7 DEF Typed
<1>9. Still(w, v, {d}) /\ Con(v, d) = "PLYNG" /\ Drives(v, d) = m /\ Own(v, d) = c
  BY <1>2, <1>4, <1>6
     DEF Still, Unmoved, Unheard, Deaf, Con, Drives, Own, Snoops, Heard
<1>10. v.body[m] = y /\ v.body[c] = z /\ \A b \in Body \ {c, m} : v.body[b] = w.body[b]
  BY <1>1, <1>2, <1>6
<1>11. /\ Same(w, v, {c, m}) /\ Kind(v, m) \in {"npc", "poly"} /\ Link(v, m) = d
       /\ Kind(v, c) = Kind(w, c) /\ Label(v, c) = Label(w, c) /\ Link(v, c) = Null
  BY <1>5, <1>6, <1>10 DEF Same, Kind, Label, Link
<1>12. On(v) = On(w) /\ Tidy(v)
  BY <1>3, <1>6 DEF On, Tidy, Sound
<1>13. Shaped(w, v, d, m)
  BY <1>3, <1>9, <1>11, <1>12 DEF Shaped, c
<1>14. Valued(w) /\ Valued(v)
  BY <1>8, TypedValues
<1>15. Sound(v)
  BY <1>12, <1>13, <1>14, ShapedSound
<1>16. Keeps(w, v, d) /\ Idle(w, v)
  BY <1>13, <1>14, <1>15, MovesKeep, MovesIdle
<1> QED
  BY <1>8, <1>15, <1>16, KeepsCalm, LittleMoves
-----------------------------------------------------------------------------
(* The handlers *)

(* A step to the world v makes it the next one. *)
LEMMA BecomesWorld ==
    ASSUME NEW v, Typed(v), Becomes(v)
    PROVE  World' = v
<1>1. v = [order |-> v.order, sock |-> v.sock, people |-> v.people, body |-> v.body]
  BY DEF Typed
<1> QED
  BY <1>1 DEF Becomes, World

\* The step leaves a settled world, d is the only descriptor that goes on, and
\* one player at most has moved.
Settles(d) ==
    /\ Settled(World', DOMAIN owner') /\ Touches(World, World', d)
    /\ \E n : Turns(World, World', n)

(* It is one that does if the worlds before and after it are settled. *)
LEMMA MovedSettles ==
    ASSUME Settled(World, DOMAIN owner), NEW v, NEW taken, NEW d, Settled(v, taken),
           Moved(World, v), World' = v, DOMAIN owner' = taken, Touches(World, v, d)
    PROVE  Settles(d)
<1>1. /\ Valued(World) /\ Sound(World) /\ Unique(World)
      /\ Valued(v) /\ Sound(v) /\ Unique(v)
  BY TypedValues DEF Settled
<1>2. \E n : Turns(World, v, n)
  BY <1>1, MovedTurns
<1> QED
  BY <1>2 DEF Settles

(* A step to a calm world keeps what is settled, whatever rows it deletes. *)
LEMMA StepSettles ==
    ASSUME Settled(World, DOMAIN owner), NEW v, NEW d, Calmer(World, v, d), Becomes(v),
           DOMAIN owner' \subseteq DOMAIN owner
    PROVE  Settles(d)
<1>1. World' = v
  BY BecomesWorld DEF Calmer
<1>2. Settled(v, DOMAIN owner') /\ Touches(World, v, d) /\ Moved(World, v)
  BY CalmSettles DEF Calmer
<1> QED
  BY <1>1, <1>2, MovedSettles

(* The values of the variables. *)
LEMMA WorldValues ==
    ASSUME Typed(World)
    PROVE  /\ order \in Seq(Desc) /\ people \in Seq(Body)
           /\ sock \in [Desc -> Socket] /\ body \in [Body -> Char]
           /\ \A d \in Desc : /\ Con(World, d) = sock[d].con
                              /\ Drives(World, d) = sock[d].character
                              /\ Own(World, d) = sock[d].original
                              /\ Snoops(World, d) = sock[d].snooping
                              /\ Heard(World, d) = sock[d].snoopBy
           /\ \A b \in Body : /\ Kind(World, b) = body[b].kind
                              /\ Label(World, b) = body[b].name
                              /\ Link(World, b) = body[b].desc
           /\ On(World) = ToSet(order) /\ In(World) = ToSet(people)
BY DEF Typed, World, Con, Drives, Own, Snoops, Heard, Kind, Label, Link, On, In

(* Any connection may be closed. *)
LEMMA LinkLostSettles ==
    ASSUME Settled(World, DOMAIN owner), NEW d \in Desc, LinkLost(d)
    PROVE  Settles(d)
<1>1. PICK refused \in BOOLEAN : Becomes(CloseSocket(World, d, refused))
  BY DEF LinkLost
<1>2. Gone(World, CloseSocket(World, d, refused), d)
  BY CloseSocketGone DEF Settled
<1> DEFINE v == CloseSocket(World, d, refused)
<1> HIDE DEF v
<1>3. Calmer(World, v, d)
  BY <1>2, KeepsCalm, LittleMoves DEF Gone, v
<1> QED
  BY <1>1, <1>3, StepSettles DEF LinkLost, v

(* A new connection may close those that are logging in. *)
LEMMA NewDescriptorSettles ==
    ASSUME Settled(World, DOMAIN owner), NEW d \in Desc, NewDescriptor(d)
    PROVE  Settles(d)
<1> DEFINE w == IF Len(order) >= MaxConnects - 1 THEN CloseLoginOnly(World)
                ELSE World
           v == [w EXCEPT !.order = <<d>> \o @, !.sock[d].con = "NME"]
<1>1. Typed(World) /\ Sound(World) /\ Con(World, d) = "closed"
  BY WorldValues DEF Settled, NewDescriptor
<1>2. Calmer(World, w, d) /\ Con(w, d) = "closed" /\ Idle(World, w)
  <2>1. CASE Len(order) >= MaxConnects - 1
    <3>1. Drives(World, d) = Null
      BY <1>1 DEF Sound, Shut
    <3>2. Pruned(World, CloseLoginOnly(World)) /\ Calmer(World, CloseLoginOnly(World), d)
          /\ Idle(World, CloseLoginOnly(World))
      BY <1>1, CloseLoginOnlyMoves
    <3>3. w = CloseLoginOnly(World)
      BY <2>1
    <3> HIDE DEF w
    <3> QED
      BY <3>1, <3>2, <3>3 DEF Pruned
  <2>2. CASE ~(Len(order) >= MaxConnects - 1)
    <3>1. Idle(World, World)
      BY DEF Idle, Stays
    <3>2. Moved(World, World)
      BY <3>1, LittleMoves
    <3> QED
      BY <1>1, <2>2, <3>1, <3>2 DEF Calmer, NoneComes, Touches
  <2> QED
    BY <2>1, <2>2
<1>3. Becomes(IF Len(w.order) >= MaxConnects THEN w ELSE v) /\ owner' = owner
  BY DEF NewDescriptor
<1> HIDE DEF w
<1>4. Calmer(w, v, d)
  BY <1>2, OpenedCalm DEF Calmer
<1> HIDE DEF v
<1>5. Calmer(World, v, d)
  BY <1>2, <1>4, CalmerTwice
<1>6. CASE Len(w.order) >= MaxConnects
  BY <1>2, <1>3, <1>6, StepSettles
<1>7. CASE ~(Len(w.order) >= MaxConnects)
  BY <1>3, <1>5, <1>7, StepSettles
<1> QED
  BY <1>6, <1>7

\* The handler writes s into d, which is logging in, and nothing else.
Relabels(d, s) ==
    /\ Con(World, d) \in Early
    /\ s \in Socket /\ s.character = sock[d].character /\ s.original = sock[d].original
    /\ s.snooping = sock[d].snooping /\ s.snoopBy = sock[d].snoopBy
    /\ s.con \in Early
    /\ s.con \in {"CREATE", "NMECNF"} => Con(World, d) \in {"CREATE", "NMECNF"}
    /\ sock' = [sock EXCEPT ![d] = s]
    /\ UNCHANGED <<order, people, body, owner>>

(* Such a handler gives nobody a name. *)
LEMMA RelabelsSettles ==
    ASSUME Settled(World, DOMAIN owner), NEW d \in Desc, NEW s, Relabels(d, s)
    PROVE  Settles(d)
<1>1. Typed(World) /\ Sound(World)
  BY DEF Settled
<1>2. Written(World, World', d, s)
  <2>1. Deaf(World, d)
    BY <1>1, NotPlayingDeaf DEF Relabels, Early
  <2>2. s.snooping = Null /\ s.snoopBy = Null
    BY <1>1, <2>1, WorldValues DEF Relabels, Deaf
  <2> QED
    BY <2>1, <2>2 DEF Relabels, Written, World
<1>3. s.con \in Early \cup {"SLCT"} /\ s.con # "SLCT" /\ Con(World, d) \in Early
  BY DEF Relabels, Early
<1>4. s.character = Drives(World, d) /\ s.original = Own(World, d)
  BY <1>1, WorldValues DEF Relabels
<1>5. s.con \in {"CREATE", "NMECNF"} => Drives(World, d) # Null /\ Bears(World, d) # Null
  BY <1>1 DEF Relabels, Sound, Driven, Away, Early, Bears, Self
<1> DEFINE v == World'
<1>6. /\ Typed(v) /\ v.order = World.order /\ v.people = World.people
      /\ v.body = World.body /\ Still(World, v, {d}) /\ Con(v, d) = s.con
      /\ Drives(v, d) = s.character /\ Own(v, d) = s.original
  BY <1>1, <1>2, SocketMoves
<1> HIDE DEF v
<1> DEFINE w == World
<1>7. /\ Sound(v) /\ \A k \in Desc : Bears(v, k) = Bears(World, k)
      /\ Touches(World, v, d) /\ NoneComes(World, v) /\ Idle(World, v)
  <2>1. Con(v, d) \in Early \cup {"SLCT"} /\ Con(v, d) # "SLCT"
    BY <1>3, <1>6
  <2>2. Con(v, d) \in {"SLCT", "CREATE", "NMECNF"} =>
           Drives(World, d) # Null /\ Bears(World, d) # Null
    BY <1>5, <1>6, <2>1
  <2>3. Typed(w) /\ Sound(w) /\ Con(w, d) \in Early
    BY <1>1, <1>3
  <2>4. Con(v, d) \in {"SLCT", "CREATE", "NMECNF"} =>
           Drives(w, d) # Null /\ Bears(w, d) # Null
    BY <2>2
  <2>5. /\ Typed(v) /\ v.order = w.order /\ v.people = w.people
        /\ v.body = w.body /\ Still(w, v, {d})
        /\ Drives(v, d) = Drives(w, d) /\ Own(v, d) = Own(w, d)
    BY <1>4, <1>6
  <2> HIDE DEF w
  <2>6. /\ Sound(v) /\ \A k \in Desc : Bears(v, k) = Bears(w, k)
        /\ Touches(w, v, d) /\ NoneComes(w, v) /\ Idle(w, v)
    BY <2>1, <2>3, <2>4, <2>5, GoesOn
  <2> QED
    BY <2>6 DEF w
<1> HIDE DEF w
<1>i. Moved(World, v)
  BY <1>7, LittleMoves
<1>8. Calmer(World, v, d)
  BY <1>6, <1>7, <1>i DEF Calmer
<1>9. Settled(v, DOMAIN owner)
  BY <1>8, CalmSettles
<1>10. World' = v /\ DOMAIN owner' = DOMAIN owner
  BY DEF v, Relabels
<1> QED
  BY <1>7, <1>9, <1>10, <1>i, MovedSettles

(* The account handlers give nobody a name. *)
LEMMA AccountSettles ==
    ASSUME Settled(World, DOMAIN owner), NEW d \in Desc,
           (\E a \in Account : ConNmeAccount(d, a)) \/ ConAccountPwd(d) \/ ConAccountBack(d)
    PROVE  Settles(d)
<1>1. /\ sock \in [Desc -> Socket] /\ sock[d] \in Socket
      /\ Con(World, d) = sock[d].con
  BY WorldValues DEF Settled
<1>2. {"NME", "ACCOUNT", "TOON"} \subseteq ConState
  BY DEF ConState
<1>3. ASSUME NEW a \in Account, ConNmeAccount(d, a) PROVE Settles(d)
  <2> DEFINE s == [sock[d] EXCEPT !.con = "ACCOUNT", !.account = a]
  <2>1. /\ s \in Socket /\ s.character = sock[d].character
        /\ s.original = sock[d].original /\ s.con = "ACCOUNT"
        /\ s.snooping = sock[d].snooping /\ s.snoopBy = sock[d].snoopBy
    BY <1>1, <1>2 DEF Socket
  <2>2. sock' = [sock EXCEPT ![d] = s] /\ UNCHANGED <<order, people, body, owner>>
    BY <1>3 DEF ConNmeAccount
  <2>3. Con(World, d) \in Early
    BY <1>1, <1>3 DEF ConNmeAccount, Early
  <2> HIDE DEF s
  <2>4. Relabels(d, s)
    BY <2>1, <2>2, <2>3 DEF Relabels, Early
  <2> QED
    BY <2>4, RelabelsSettles
<1>4. ASSUME ConAccountPwd(d) PROVE Settles(d)
  <2> DEFINE s == [sock[d] EXCEPT !.con = "TOON", !.auth = TRUE]
  <2>1. /\ s \in Socket /\ s.character = sock[d].character
        /\ s.original = sock[d].original /\ s.con = "TOON"
        /\ s.snooping = sock[d].snooping /\ s.snoopBy = sock[d].snoopBy
    BY <1>1, <1>2 DEF Socket
  <2>2. sock' = [sock EXCEPT ![d] = s] /\ UNCHANGED <<order, people, body, owner>>
    BY <1>4 DEF ConAccountPwd
  <2>3. Con(World, d) \in Early
    BY <1>1, <1>4 DEF ConAccountPwd, Early
  <2> HIDE DEF s
  <2>4. Relabels(d, s)
    BY <2>1, <2>2, <2>3 DEF Relabels, Early
  <2> QED
    BY <2>4, RelabelsSettles
<1>5. ASSUME ConAccountBack(d) PROVE Settles(d)
  <2>1. PICK tried, byId \in BOOLEAN :
            sock' = [sock EXCEPT ![d].con = "NME",
                                 ![d].auth = @ /\ ~tried,
                                 ![d].account = IF tried \/ byId THEN @ ELSE Null]
    BY <1>5 DEF ConAccountBack
  <2> DEFINE s == [sock[d] EXCEPT !.con = "NME",
                                  !.auth = @ /\ ~tried,
                                  !.account = IF tried \/ byId THEN @ ELSE Null]
  <2>2. sock' = [sock EXCEPT ![d] = s]
    BY <1>1, <2>1 DEF Socket
  <2>3. sock[d].auth \in BOOLEAN /\ sock[d].account \in Account \cup {Null}
    BY <1>1 DEF Socket
  <2>4. /\ s \in Socket /\ s.character = sock[d].character
        /\ s.original = sock[d].original /\ s.con = "NME"
        /\ s.snooping = sock[d].snooping /\ s.snoopBy = sock[d].snoopBy
    <3> DEFINE known == sock[d].auth /\ ~tried
               as == IF tried \/ byId THEN sock[d].account ELSE Null
    <3>1. known \in BOOLEAN /\ as \in Account \cup {Null}
      BY <2>3
    <3>2. s = [sock[d] EXCEPT !.con = "NME", !.auth = known, !.account = as]
      OBVIOUS
    <3> HIDE DEF s, known, as
    <3> QED
      BY <1>1, <1>2, <3>1, <3>2 DEF Socket
  <2>5. Con(World, d) \in Early /\ UNCHANGED <<order, people, body, owner>>
    BY <1>1, <1>5 DEF ConAccountBack, Early
  <2> HIDE DEF s
  <2>6. Relabels(d, s)
    BY <2>2, <2>4, <2>5 DEF Relabels, Early
  <2> QED
    BY <2>6, RelabelsSettles
<1> QED
  BY <1>3, <1>4, <1>5

(* Going on to another login state, with a name that was typed or not. *)
LEMMA GoesOnSettles ==
    ASSUME Settled(World, DOMAIN owner), NEW d \in Desc, sock[d].con \in Early,
           NEW x \in Early, x = "CREATE" => sock[d].con = "NMECNF", x # "NMECNF",
           NEW n \in Name \cup {Null},
           sock' = [sock EXCEPT ![d] = [@ EXCEPT !.con = x, !.choosen = n]],
           UNCHANGED <<order, people, body, owner>>
    PROVE  Settles(d)
<1> DEFINE s == [sock[d] EXCEPT !.con = x, !.choosen = n]
<1>1. sock[d] \in Socket /\ Con(World, d) = sock[d].con
  BY WorldValues DEF Settled
<1>2. x \in ConState
  BY DEF Early, ConState
<1>3. /\ s \in Socket /\ s.character = sock[d].character
      /\ s.original = sock[d].original /\ s.con = x
      /\ s.snooping = sock[d].snooping /\ s.snoopBy = sock[d].snoopBy
  BY <1>1, <1>2 DEF Socket
<1>4. sock' = [sock EXCEPT ![d] = s]
  OBVIOUS
<1> HIDE DEF s
<1>5. Relabels(d, s)
  BY <1>1, <1>3, <1>4 DEF Relabels
<1> QED
  BY <1>5, RelabelsSettles

(* A character that is loaded. *)
LEMMA LoadAndEnterSettles ==
    ASSUME Settled(World, DOMAIN owner), Rows, NEW d \in Desc, NEW n,
           sock[d].con \in {"NME", "TOON", "PWDNRM"}, LoadAndEnter(d, n),
           DOMAIN owner' = DOMAIN owner
    PROVE  Settles(d)
<1>1. Typed(World) /\ Con(World, d) = sock[d].con
  BY WorldValues DEF Settled
<1> DEFINE load(b, refused) ==
               IF n \notin DOMAIN owner THEN CloseSocket(World, d, FALSE)
               ELSE ConPwdok([Named(World, d, b, n) EXCEPT
                                !.sock[d].choosen = n], d, refused)
<1>2. PICK b \in Memory(d), refused \in BOOLEAN : Becomes(load(b, refused))
  BY DEF LoadAndEnter
<1>3. Usable(World, d, b)
  BY <1>1, MemoryUsable
<1>4. /\ Settled(load(b, refused), DOMAIN owner) /\ Touches(World, load(b, refused), d)
      /\ \E m : Turns(World, load(b, refused), m)
  BY <1>1, <1>3, LoadSettles DEF Rows
<1> DEFINE v == load(b, refused)
<1> HIDE DEF load
<1>5. World' = v
  BY <1>2, <1>4, BecomesWorld DEF Settled
<1> QED
  BY <1>4, <1>5 DEF Settles

(* A character of the list, or another name. *)
LEMMA ConAccountToonSettles ==
    ASSUME Settled(World, DOMAIN owner), Rows, NEW d \in Desc, ConAccountToon(d)
    PROVE  Settles(d)
<1>1. sock[d].con = "TOON" /\ owner' = owner
  BY DEF ConAccountToon
<1>2. ASSUME NEW n, LoadAndEnter(d, n) PROVE Settles(d)
  BY <1>1, <1>2, LoadAndEnterSettles
<1>3. ASSUME Becomes([World EXCEPT !.sock[d].con = "NME"])
      PROVE  Settles(d)
  <2>1. sock[d] \in Socket
    BY WorldValues DEF Settled
  <2>2. sock' = [sock EXCEPT ![d] = [@ EXCEPT !.con = "NME", !.choosen = sock[d].choosen]]
        /\ UNCHANGED <<order, people, body, owner>>
    BY <1>1, <1>3, <2>1 DEF Becomes, World, Socket
  <2>3. sock[d].choosen \in Name \cup {Null}
    BY <2>1 DEF Socket
  <2> QED
    BY <1>1, <2>2, <2>3, GoesOnSettles DEF Early
<1> QED
  BY <1>2, <1>3 DEF ConAccountToon

(* A name that has a row. *)
LEMMA ConNmeKnownSettles ==
    ASSUME Settled(World, DOMAIN owner), Rows, NEW d \in Desc, NEW n \in Name,
           ConNmeKnown(d, n)
    PROVE  Settles(d)
<1>1. sock[d].con = "NME" /\ owner' = owner
  BY DEF ConNmeKnown
<1>2. ASSUME LoadAndEnter(d, n) PROVE Settles(d)
  BY <1>1, <1>2, LoadAndEnterSettles
<1>3. ASSUME Becomes([World EXCEPT !.sock[d] = [@ EXCEPT !.con = "PWDNRM", !.choosen = n]])
      PROVE  Settles(d)
  <2>1. sock' = [sock EXCEPT ![d] = [@ EXCEPT !.con = "PWDNRM", !.choosen = n]]
        /\ UNCHANGED <<order, people, body, owner>>
    BY <1>1, <1>3 DEF Becomes, World
  <2> QED
    BY <1>1, <2>1, GoesOnSettles DEF Early
<1> QED
  BY <1>2, <1>3 DEF ConNmeKnown

(* A name nobody has: it is not registered yet. *)
LEMMA ConNmeUnknownSettles ==
    ASSUME Settled(World, DOMAIN owner), NEW d \in Desc, NEW n \in Name,
           ConNmeUnknown(d, n)
    PROVE  Settles(d)
<1>1. /\ Typed(World) /\ Sound(World) /\ Distinct(World, DOMAIN owner, {})
      /\ Unique(World)
      /\ Con(World, d) = "NME" /\ n \notin DOMAIN owner /\ owner' = owner
  BY WorldValues DEF Settled, ConNmeUnknown
<1>2. PICK b \in Memory(d) :
        Becomes([Named(World, d, b, n) EXCEPT !.sock[d].con = "NMECNF",
                                              !.sock[d].choosen = n])
  BY DEF ConNmeUnknown
<1>3. Usable(World, d, b)
  BY <1>1, MemoryUsable
<1> DEFINE v == Named(World, d, b, n)
           q == [v EXCEPT !.sock[d].con = "NMECNF"]
           u == [v EXCEPT !.sock[d].con = "NMECNF", !.sock[d].choosen = n]
<1>4. /\ Typed(v) /\ Sound(v) /\ Others(World, v, d) /\ NoneComes(World, v)
      /\ Bears(v, d) = n /\ Con(v, d) = Con(World, d) /\ Idle(World, v)
  BY <1>1, <1>3, NamedMoves
<1> HIDE DEF v
<1>5. /\ Typed(q) /\ q.order = v.order /\ q.people = v.people /\ q.body = v.body
      /\ Still(v, q, {d}) /\ Con(q, d) = "NMECNF"
      /\ Drives(q, d) = Drives(v, d) /\ Own(q, d) = Own(v, d)
  <2>1. "NMECNF" \in ConState /\ Deaf(v, d)
    BY <1>1, <1>4, NotPlayingDeaf DEF ConState
  <2> QED
    BY <1>4, <2>1, ConMoves
<1>6. u = [q EXCEPT !.sock[d].choosen = n]
  OBVIOUS
<1> HIDE DEF u, q
<1>8. Bears(v, d) # Null /\ Con(v, d) \in Early /\ "NMECNF" \in Early \cup {"SLCT"}
  BY <1>1, <1>4, NullAssumption DEF Early
<1>9. Drives(v, d) # Null
  BY <1>4, <1>8, EarlySelf
<1>10. /\ Sound(q) /\ \A k \in Desc : Bears(q, k) = Bears(v, k)
       /\ NoneComes(v, q) /\ Idle(v, q)
  BY <1>4, <1>5, <1>8, <1>9, GoesOn
<1>11. Alike(q, u)
  BY <1>5, <1>6, <1>10, ChoosenMoves
<1>12. /\ Typed(u) /\ Sound(u) /\ \A k \in Desc : Bears(u, k) = Bears(v, k)
       /\ NoneComes(q, u) /\ Idle(q, u)
  BY <1>5, <1>10, <1>11, AlikeSound DEF Alike, Steady
<1>13. Distinct(u, DOMAIN owner, {})
  BY <1>1, <1>4, <1>12 DEF Distinct, Others
<1>14. Unique(u)
  BY <1>1, <1>4, <1>10, <1>12, FewerWait
<1>15. Touches(World, u, d)
  BY <1>4, <1>5, <1>11 DEF Others, Still, Alike, Steady, Unmoved, Touches
<1>16. World' = u
  BY <1>2, <1>12, BecomesWorld DEF u, v
<1>17. Settled(u, DOMAIN owner)
  BY <1>12, <1>13, <1>14 DEF Settled
<1>18. Idle(World, u)
  BY <1>4, <1>10, <1>12, IdleGoes
<1>19. Moved(World, u)
  BY <1>18, LittleMoves
<1> QED
  BY <1>1, <1>15, <1>16, <1>17, <1>19, MovedSettles

(* A new character whose name is refused by its player has none. *)
LEMMA UnnamedCalm ==
    ASSUME NEW w, Typed(w), Sound(w), NEW d \in Desc, Con(w, d) = "NMECNF",
           NEW c, c = Drives(w, d),
           NEW v, v = [w EXCEPT !.sock[d].con = "NME", !.body[c].name = Null]
    PROVE  Calmer(w, v, d)
<1> DEFINE s == [w.sock[d] EXCEPT !.con = "NME"]
           y == [w.body[c] EXCEPT !.name = Null]
<1>1. c \in Body /\ c # Null /\ Deaf(w, d)
  BY TypedValues, NotPlayingDeaf DEF Sound, Driven, Valued
<1>2. /\ w.sock \in [Desc -> Socket] /\ w.sock[d] \in Socket
      /\ w.body \in [Body -> Char] /\ w.body[c] \in Char
  BY <1>1 DEF Typed
<1>3. /\ s \in Socket /\ s.con = "NME" /\ s.character = c /\ s.original = Own(w, d)
      /\ s.snooping = Null /\ s.snoopBy = Null
  <2>1. "NME" \in ConState
    BY DEF ConState
  <2> QED
    BY <1>1, <1>2, <2>1 DEF Socket, Drives, Own, Deaf, Snoops, Heard
<1>4. y \in Char /\ y.kind = Kind(w, c) /\ y.name = Null /\ y.desc = Link(w, c)
  BY <1>2 DEF Char, Kind, Link
<1>5. /\ v.order = w.order /\ v.people = w.people
      /\ v.sock = [w.sock EXCEPT ![d] = s]
      /\ v.body = [w.body EXCEPT ![c] = y]
      /\ v = [order |-> v.order, sock |-> v.sock, people |-> v.people, body |-> v.body]
  BY DEF Typed
<1> HIDE DEF s, y
<1>6. v.sock \in [Desc -> Socket] /\ v.body \in [Body -> Char]
  BY <1>1, <1>2, <1>3, <1>4, <1>5
<1>7. Typed(v)
  BY <1>5, <1>6 DEF Typed
<1>8. /\ Still(w, v, {d}) /\ Con(v, d) = "NME" /\ Drives(v, d) = c
      /\ Own(v, d) = Own(w, d)
  BY <1>1, <1>2, <1>3, <1>5
     DEF Still, Unmoved, Unheard, Deaf, Con, Drives, Own, Snoops, Heard
<1>9. /\ Same(w, v, {c}) /\ Kind(v, c) = Kind(w, c) /\ Label(v, c) = Null
      /\ Link(v, c) = Link(w, c)
  BY <1>1, <1>2, <1>4, <1>5 DEF Same, Kind, Label, Link
<1>10. On(v) = On(w) /\ In(v) = In(w) /\ Tidy(v)
  BY <1>5 DEF On, In, Tidy, Sound
<1>11. Renamed(w, v, d, Null)
  BY <1>1, <1>8, <1>9, <1>10 DEF Renamed, Early
<1>12. Valued(w) /\ Valued(v)
  BY <1>7, TypedValues
<1>13. Sound(v)
  BY <1>10, <1>11, <1>12, RenamedSound
<1>14. Others(w, v, d) /\ Bears(v, d) = Null /\ NoneComes(w, v)
  BY <1>11, <1>12, LoginNames, LoginBringsNone
<1>15. Idle(w, v)
  BY <1>11, <1>12, <1>13, LoginIdle
<1>16. Moved(w, v)
  BY <1>15, LittleMoves
<1> QED
  BY <1>7, <1>13, <1>14, <1>16, KeepsCalm DEF Keeps

(* The name is confirmed or given up. *)
LEMMA ConNmecnfSettles ==
    ASSUME Settled(World, DOMAIN owner), NEW d \in Desc, ConNmecnf(d)
    PROVE  Settles(d)
<1>1. sock[d].con = "NMECNF" /\ owner' = owner
  BY DEF ConNmecnf
<1>2. /\ Typed(World) /\ Sound(World) /\ Con(World, d) = "NMECNF"
      /\ Drives(World, d) = sock[d].character /\ sock[d] \in Socket
  BY <1>1, WorldValues DEF Settled
<1>3. ASSUME Becomes([World EXCEPT !.sock[d].con = "CREATE"])
      PROVE  Settles(d)
  <2>1. sock' = [sock EXCEPT ![d] = [@ EXCEPT !.con = "CREATE", !.choosen = sock[d].choosen]]
        /\ UNCHANGED <<order, people, body, owner>>
    BY <1>1, <1>2, <1>3 DEF Becomes, World, Socket
  <2>2. sock[d].choosen \in Name \cup {Null}
    BY <1>2 DEF Socket
  <2> QED
    BY <1>1, <2>1, <2>2, GoesOnSettles DEF Early
<1>4. ASSUME Becomes([World EXCEPT !.sock[d].con = "NME",
                                   !.body[sock[d].character].name = Null])
      PROVE  Settles(d)
  <2> DEFINE v == [World EXCEPT !.sock[d].con = "NME",
                                !.body[sock[d].character].name = Null]
  <2>1. Calmer(World, v, d)
    BY <1>2, UnnamedCalm
  <2>2. Becomes(v)
    BY <1>4
  <2> HIDE DEF v
  <2> QED
    BY <1>1, <2>1, <2>2, StepSettles
<1> QED
  BY <1>3, <1>4 DEF ConNmecnf

(* The password of an old character is right. *)
LEMMA ConPwdnrmSettles ==
    ASSUME Settled(World, DOMAIN owner), Rows, NEW d \in Desc, ConPwdnrm(d)
    PROVE  Settles(d)
<1>1. /\ sock[d].con = "PWDNRM" /\ LoadAndEnter(d, sock[d].choosen)
      /\ DOMAIN owner' = DOMAIN owner
  BY DEF ConPwdnrm
<1> QED
  BY <1>1, LoadAndEnterSettles

(* The row of a new character is inserted, or was there already.  Its name is
   shared by nobody if it is not disputed. *)
LEMMA ConRegisterSettles ==
    ASSUME Settled(World, DOMAIN owner), NEW d \in Desc, ConRegister(d),
           Undisputed'
    PROVE  Settles(d)
<1> DEFINE n == NameOf(World, sock[d].character)
           taken == DOMAIN owner \cup {n}
<1>1. /\ Typed(World) /\ Sound(World) /\ Distinct(World, DOMAIN owner, {})
      /\ Unique(World) /\ Con(World, d) = "CREATE" /\ Drives(World, d) = sock[d].character
  BY WorldValues DEF Settled, ConRegister
<1>2. CASE n \in DOMAIN owner
  <2>1. Becomes(CloseSocket(World, d, FALSE)) /\ owner' = owner
    BY <1>2 DEF ConRegister
  <2>2. Gone(World, CloseSocket(World, d, FALSE), d)
    BY <1>1, CloseSocketGone
  <2> DEFINE v == CloseSocket(World, d, FALSE)
  <2> HIDE DEF v
  <2>3. Calmer(World, v, d)
    BY <2>2, KeepsCalm, LittleMoves DEF Gone, v
  <2> QED
    BY <2>1, <2>3, StepSettles DEF v
<1>3. CASE n \notin DOMAIN owner
  <2>1. Con(World, d) \in Early /\ Bears(World, d) # Null /\ Bears(World, d) = n
    <3>1. Own(World, d) = Null /\ Drives(World, d) # Null
          /\ Label(World, Drives(World, d)) # Null /\ Con(World, d) \in Early
      BY <1>1 DEF Sound, Away, Driven, Early
    <3>2. Bears(World, d) # Null
      BY <3>1 DEF Bears, Self
    <3>3. Bears(World, d) = NameOf(World, World.sock[d].character)
      BY <1>1, <3>1, <3>2, EarlySelf
    <3>4. World.sock = sock
      BY DEF World
    <3> QED
      BY <3>1, <3>2, <3>3, <3>4
  <2>2. Rivals(d, n) = {}
    <3>1. contested' = contested \cup {m \in {n} : Rivals(d, m) # {}}
      BY <1>3 DEF ConRegister
    <3>2. {m \in {n} : Rivals(d, m) # {}} = {}
      BY <3>1 DEF Undisputed
    <3> QED
      BY <3>2
  <2>3. \A e \in Desc \ {d} : Bears(World, e) # n
    BY <2>2, NamesAgree DEF Rivals
  <2>4. DOMAIN owner' = taken
    BY <1>3 DEF ConRegister
  <2>5. PICK refused \in BOOLEAN : Becomes(ConPwdok(World, d, refused))
    BY <1>3 DEF ConRegister
  <2> HIDE DEF n
  <2>6. Distinct(World, taken, {d})
    BY <1>1, <2>3 DEF Distinct
  <2>7. Bears(World, d) \in taken
    BY <2>1
  <2> HIDE DEF taken
  <2>8. /\ Settled(ConPwdok(World, d, refused), taken)
        /\ Touches(World, ConPwdok(World, d, refused), d)
        /\ Turns(World, ConPwdok(World, d, refused), Bears(World, d))
    BY <1>1, <2>1, <2>6, <2>7, ConPwdokSettles
  <2>9. World' = ConPwdok(World, d, refused)
    BY <2>5, <2>8, BecomesWorld DEF Settled
  <2> QED
    BY <2>4, <2>8, <2>9 DEF Settles
<1> QED
  BY <1>2, <1>3

(* From the menu into the world; a toon without a row chooses again. *)
LEMMA ConSlctEnterSettles ==
    ASSUME Settled(World, DOMAIN owner), NEW d \in Desc, ConSlctEnter(d)
    PROVE  Settles(d)
<1> DEFINE c == sock[d].character
           w == [World EXCEPT !.body[c].desc = d]
           v == [w EXCEPT !.people = <<c>> \o @, !.sock[d].con = "PLYNG"]
           f == FreeChar(w, c)
           u == Choose(f, d)
<1>1. /\ Typed(World) /\ Sound(World) /\ Con(World, d) = "SLCT"
      /\ Drives(World, d) = c /\ owner' = owner
  BY WorldValues DEF Settled, ConSlctEnter
<1>2. c \in Body
  BY <1>1, TypedValues DEF Sound, Driven, Valued
<1> HIDE DEF c
<1>3. ASSUME Becomes(v) PROVE Settles(d)
  <2>1. Calmer(World, v, d)
    BY <1>1, <1>2, EnteredCalm
  <2> HIDE DEF v
  <2> QED
    BY <1>1, <1>3, <2>1, StepSettles
<1>4. ASSUME Becomes(u) PROVE Settles(d)
  <2>1. /\ Typed(w) /\ w.order = World.order /\ w.people = World.people
        /\ w.sock = World.sock /\ Same(World, w, {c}) /\ Link(w, c) = d
    <3> DEFINE y == [World.body[c] EXCEPT !.desc = d]
    <3>1. /\ w.order = World.order /\ w.people = World.people /\ w.sock = World.sock
          /\ w.body = [World.body EXCEPT ![c] = y]
          /\ w = [order |-> w.order, sock |-> w.sock, people |-> w.people, body |-> w.body]
      <4> DEFINE b == [World.body EXCEPT ![c] = y]
      <4>1. World \in [order : Seq(Desc), sock : [Desc -> Socket],
                       people : Seq(Body), body : [Body -> Char]]
        BY <1>1 DEF Typed
      <4>2. w = [World EXCEPT !.body = b]
        OBVIOUS
      <4> HIDE DEF b, w
      <4>3. /\ w.order = World.order /\ w.people = World.people /\ w.sock = World.sock
            /\ w.body = b
            /\ w = [order |-> w.order, sock |-> w.sock, people |-> w.people,
                    body |-> w.body]
        BY <4>1, <4>2
      <4> QED
        BY <4>3 DEF b
    <3>2. World.body \in [Body -> Char] /\ World.body[c] \in Char
      BY <1>1, <1>2 DEF Typed
    <3>3. y \in Char /\ y.desc = d
      BY <3>2 DEF Char
    <3> HIDE DEF w, y
    <3>4. w.body \in [Body -> Char]
      BY <1>2, <3>1, <3>2, <3>3
    <3>5. Typed(w)
      BY <1>1, <3>1, <3>4 DEF Typed
    <3>6. Same(World, w, {c}) /\ Link(w, c) = d
      BY <1>2, <3>1, <3>2, <3>3 DEF Same, Kind, Label, Link
    <3> QED
      BY <3>1, <3>5, <3>6
  <2> HIDE DEF w
  <2>2. Emptied(w, f, c)
    BY <1>2, <2>1, FreeCharMoves
  <2> HIDE DEF f
  <2>3. Unplugged(World, f, d)
    <3>1. Typed(f) /\ f.order = World.order /\ f.people = World.people
      BY <2>1, <2>2 DEF Emptied
    <3>2. /\ Still(World, f, {d}) /\ Con(f, d) = Con(World, d) /\ Drives(f, d) = Null
          /\ Own(f, d) = Own(World, d)
      <4>1. Deaf(World, d)
        BY <1>1, NotPlayingDeaf
      <4> QED
        BY <2>1, <2>2, <4>1 DEF Emptied, Still, Unmoved, Unheard, Deaf, Con, Own, Drives,
           Snoops, Heard
    <3>3. /\ Same(World, f, {c}) /\ Kind(f, c) = "free" /\ Label(f, c) = Null
          /\ Link(f, c) = Null
      BY <2>1, <2>2 DEF Emptied, Same
    <3> QED
      BY <1>1, <3>1, <3>2, <3>3 DEF Unplugged
  <2>4. Calmer(World, u, d)
    <3> DEFINE x == IF f.sock[d].auth THEN "TOON" ELSE "NME"
    <3>1. u = [f EXCEPT !.sock[d].con = x] /\ x \in {"NME", "TOON"}
      BY DEF Choose
    <3> HIDE DEF u, x
    <3> QED
      BY <1>1, <2>3, <3>1, DroppedCalm
  <2> HIDE DEF u
  <2> QED
    BY <1>1, <1>4, <2>4, StepSettles
<1> QED
  BY <1>3, <1>4 DEF ConSlctEnter, c

(* Freeing the character of a player at the menu, by the menu's handlers. *)
LEMMA MenuFrees ==
    ASSUME Settled(World, DOMAIN owner), NEW d \in Desc, sock[d].con = "SLCT"
    PROVE  Unplugged(World, [FreeChar(World, sock[d].character) EXCEPT
                                !.sock[d].character = Null], d)
<1> DEFINE f == FreeChar(World, sock[d].character)
           v == [f EXCEPT !.sock[d].character = Null]
<1>1. /\ Typed(World) /\ Sound(World) /\ Con(World, d) = "SLCT"
      /\ Drives(World, d) = sock[d].character
  BY WorldValues DEF Settled
<1>2. Drives(World, d) \in Body
  BY <1>1, TypedValues DEF Sound, Driven, Valued
<1>3. Emptied(World, f, Drives(World, d))
  BY <1>1, <1>2, FreeCharMoves
<1> HIDE DEF f
<1>4. Unplugged(World, v, d)
  BY <1>1, <1>3, Unplugs
<1> QED
  BY <1>4 DEF f

(* Another character. *)
LEMMA ConSlctChangeSettles ==
    ASSUME Settled(World, DOMAIN owner), NEW d \in Desc, ConSlctChange(d)
    PROVE  Settles(d)
<1> DEFINE f == [FreeChar(World, sock[d].character) EXCEPT !.sock[d].character = Null]
           v == Choose(f, d)
           x == IF f.sock[d].auth THEN "TOON" ELSE "NME"
<1>1. /\ Typed(World) /\ Sound(World) /\ Con(World, d) = "SLCT"
      /\ sock[d].con = "SLCT" /\ owner' = owner /\ Becomes(v)
  BY WorldValues DEF Settled, ConSlctChange
<1>2. Unplugged(World, f, d)
  BY <1>1, MenuFrees
<1>3. v = [f EXCEPT !.sock[d].con = x] /\ x \in {"NME", "TOON"}
  BY DEF Choose
<1> HIDE DEF f, v, x
<1>4. Calmer(World, v, d)
  BY <1>1, <1>2, <1>3, DroppedCalm
<1> QED
  BY <1>1, <1>4, StepSettles

(* The character and its row are deleted: its body is freed. *)
LEMMA ConDeleteMeSettles ==
    ASSUME Settled(World, DOMAIN owner), NEW d \in Desc, ConDeleteMe(d)
    PROVE  /\ Settles(d)
           /\ NoneComes(World, World') /\ Kind(World', Drives(World, d)) = "free"
<1> DEFINE w == [FreeChar(World, sock[d].character) EXCEPT !.sock[d].character = Null]
           v == [w EXCEPT !.sock[d].con = "TOON"]
           u == CloseSocket(w, d, FALSE)
<1>1. /\ Typed(World) /\ Sound(World) /\ Con(World, d) = "SLCT"
      /\ sock[d].con = "SLCT" /\ DOMAIN owner' \subseteq DOMAIN owner
      /\ Becomes(v) \/ Becomes(u)
  BY WorldValues DEF Settled, ConDeleteMe
<1>2. Unplugged(World, w, d)
  BY <1>1, MenuFrees
<1> HIDE DEF w
<1>3. Calmer(World, v, d) /\ Kind(v, Drives(World, d)) = "free"
  BY <1>1, <1>2, DroppedCalm
<1>4. Calmer(World, u, d) /\ Kind(u, Drives(World, d)) = "free"
  BY <1>1, <1>2, UnpluggedCloses
<1> HIDE DEF v, u
<1>5. Settles(d)
  BY <1>1, <1>3, <1>4, StepSettles
<1>6. World' \in {v, u}
  BY <1>1, <1>3, <1>4, BecomesWorld DEF Calmer
<1>7. NoneComes(World, World') /\ Kind(World', Drives(World, d)) = "free"
  BY <1>3, <1>4, <1>6 DEF Calmer
<1> QED
  BY <1>5, <1>7

(* A player leaves the game for the menu. *)
LEMMA LeaveGameSettles ==
    ASSUME Settled(World, DOMAIN owner), NEW d \in Desc, LeaveGame(d)
    PROVE  Settles(d)
<1> DEFINE c == sock[d].character
           v == ExtractPlayer(World, c)
<1>1. /\ Typed(World) /\ Sound(World) /\ Con(World, d) = "PLYNG"
      /\ Drives(World, d) = c /\ owner' = owner /\ Becomes(v)
  BY WorldValues DEF Settled, LeaveGame, Playing
<1>2. c \in Body /\ c # Null
  BY <1>1, TypedValues DEF Sound, Driven, Valued
<1>3. Kind(World, c) = "pc"
  BY <1>1, <1>2, WorldValues DEF LeaveGame
<1>4. Link(World, c) = d
  BY <1>1, <1>2 DEF Sound, Driven
<1>5. \A k \in Desc : c \in {Drives(World, k), Own(World, k)} => k = d
  BY <1>1, <1>2 DEF Sound, Single
<1> HIDE DEF c
<1>6. Calmer(World, v, d)
  <2>1. Link(World, c) # Null
    BY <1>4, NullAssumption
  <2> QED
    BY <1>1, <1>2, <1>3, <1>4, <1>5, <2>1, ExtractPlayerCalm
<1> HIDE DEF v
<1> QED
  BY <1>1, <1>6, StepSettles

(* A body without a link leaves: the one that may be called back to it is the
   only one that goes on. *)
LEMMA ForceRentSettles ==
    ASSUME Settled(World, DOMAIN owner), NEW c \in Body, ForceRent(c)
    PROVE  \E d : Settles(d)
<1> DEFINE v == ExtractPlayer(World, c)
<1>1. /\ Typed(World) /\ Sound(World) /\ Kind(World, c) = "pc"
      /\ Link(World, c) = Null /\ owner' = owner /\ Becomes(v)
  BY WorldValues DEF Settled, ForceRent
<1>2. Gods = {} => \A k \in Desc : Own(World, k) # c
  BY <1>1, WorldValues DEF ForceRent
<1>3. PICK d : \A k \in Desc : c \in {Drives(World, k), Own(World, k)} => k = d
  <2>1. CASE \E k \in Desc : c \in {Drives(World, k), Own(World, k)}
    <3>1. PICK d \in Desc : c \in {Drives(World, d), Own(World, d)}
      BY <2>1
    <3>2. c # Null
      BY NullAssumption
    <3>3. \A k \in Desc : c \in {Drives(World, k), Own(World, k)} => k = d
      BY <1>1, <3>1, <3>2 DEF Sound, Single
    <3> QED
      BY <3>3
  <2>2. CASE ~ \E k \in Desc : c \in {Drives(World, k), Own(World, k)}
    BY <2>2
  <2> QED
    BY <2>1, <2>2
<1>4. Calmer(World, v, d)
  BY <1>1, <1>2, <1>3, ExtractPlayerCalm
<1> HIDE DEF v
<1> QED
  BY <1>1, <1>4, StepSettles

(* A player goes into a new shape. *)
LEMMA PolySelfSettles ==
    ASSUME Settled(World, DOMAIN owner), NEW d \in Desc, NEW m \in Body, PolySelf(d, m)
    PROVE  Settles(d)
<1> DEFINE c == sock[d].character
           q == StopSnooper(World, d)
           y == [kind |-> "poly", name |-> body[c].name, desc |-> d]
           v == [q EXCEPT !.people = <<m>> \o @, !.body[m] = y,
                          !.body[c].desc = Null, !.sock[d].character = m,
                          !.sock[d].original = c]
<1>1. /\ Typed(World) /\ Sound(World) /\ Con(World, d) = "PLYNG"
      /\ Drives(World, d) = c /\ Kind(World, m) = "free" /\ owner' = owner
      /\ Becomes(v) /\ Snoops(World, d) = Null
  BY WorldValues DEF Settled, PolySelf, Playing
<1>2. c \in Body /\ c # Null
  BY <1>1, TypedValues DEF Sound, Driven, Valued
<1>3. Kind(World, c) = "pc" /\ Label(World, c) = body[c].name
  BY <1>1, <1>2, WorldValues DEF PolySelf
<1>4. Alike(World, q) /\ Deaf(q, d)
  BY <1>1, StopSnooperMoves
<1>i. Typed(q) /\ Sound(q) /\ Keeps(World, q, d) /\ Idle(World, q)
  BY <1>1, <1>4, AlikeKeeps
<1>5. Typed(q) /\ Sound(q) /\ Calmer(World, q, d)
  BY <1>i, KeepsCalm, LittleMoves
<1>6. /\ Con(q, d) = "PLYNG" /\ Drives(q, d) = c /\ Kind(q, c) = "pc"
      /\ Kind(q, m) = "free"
  BY <1>1, <1>3, <1>4 DEF Alike, Steady, Unmoved, Kind
<1>7. y \in Char
  BY <1>1, <1>2, <1>3, TypedValues DEF Char, Valued
<1>8. y.kind = "poly" /\ y.desc = d
  OBVIOUS
<1> HIDE DEF c, q, y
<1>9. Transferred(q, v, d, m, y) /\ v.people = <<m>> \o q.people
  <2> DEFINE p == <<m>> \o q.people
  <2>0. v = [q EXCEPT !.people = p, !.body[m] = y, !.body[c].desc = Null,
                      !.sock[d].character = m, !.sock[d].original = c]
    OBVIOUS
  <2> HIDE DEF v, p
  <2>1. /\ v.people = p /\ v.order = q.order
        /\ v = [order |-> v.order, sock |-> v.sock, people |-> v.people, body |-> v.body]
    BY <1>5, <2>0 DEF Typed
  <2>2. v.sock = [q.sock EXCEPT ![d] = [@ EXCEPT !.character = m, !.original = c]]
    BY <1>5, <2>0 DEF Typed
  <2>3. c # m
    BY <1>1, <1>3
  <2>4. v.body = [q.body EXCEPT ![m] = y, ![c] = [q.body[c] EXCEPT !.desc = Null]]
    BY <1>2, <1>5, <2>0, <2>3 DEF Typed
  <2> QED
    BY <1>6, <1>7, <1>8, <2>1, <2>2, <2>4 DEF Transferred, p
<1> HIDE DEF v
<1>10. Calmer(q, v, d)
  BY <1>4, <1>5, <1>6, <1>9, ShapedCalm
<1>11. Calmer(World, v, d)
  BY <1>5, <1>10, <1>i, CalmerTwice
<1> QED
  BY <1>1, <1>11, StepSettles

(* An immortal goes into a mobile nobody is in. *)
LEMMA DoSwitchSettles ==
    ASSUME Settled(World, DOMAIN owner), NEW d \in Desc, NEW m \in Body, DoSwitch(d, m)
    PROVE  Settles(d)
<1> DEFINE c == sock[d].character
           y == [World.body[m] EXCEPT !.desc = d]
           v == [World EXCEPT !.sock[d].character = m, !.sock[d].original = c,
                              !.body[m].desc = d, !.body[c].desc = Null]
<1>1. /\ Typed(World) /\ Sound(World) /\ Con(World, d) = "PLYNG"
      /\ Drives(World, d) = c /\ Kind(World, m) \in {"npc", "poly"}
      /\ Link(World, m) = Null /\ owner' = owner /\ Becomes(v) /\ Deaf(World, d)
  BY WorldValues DEF Settled, DoSwitch, Playing, Deaf
<1>2. c \in Body /\ c # Null
  BY <1>1, TypedValues DEF Sound, Driven, Valued
<1>3. Kind(World, c) = "pc"
  BY <1>1, <1>2, WorldValues DEF DoSwitch
<1>4. y \in Char /\ y.kind = Kind(World, m) /\ y.desc = d
  <2>1. World.body[m] \in Char
    BY <1>1 DEF Typed
  <2> QED
    BY <2>1 DEF Char, Kind
<1> DEFINE w == World
<1>5. Typed(w) /\ Sound(w)
  BY <1>1
<1> HIDE DEF c, w
<1>6. Transferred(w, v, d, m, y) /\ v.people = w.people
  <2>1. v = [w EXCEPT !.sock[d].character = m, !.sock[d].original = c,
                      !.body[m].desc = d, !.body[c].desc = Null]
    BY DEF w
  <2> HIDE DEF v, y
  <2>2. /\ v.people = w.people /\ v.order = w.order
        /\ v = [order |-> v.order, sock |-> v.sock, people |-> v.people, body |-> v.body]
    BY <1>5, <2>1 DEF Typed
  <2>3. v.sock = [w.sock EXCEPT ![d] = [@ EXCEPT !.character = m, !.original = c]]
    BY <1>5, <2>1 DEF Typed
  <2>4. c # m
    BY <1>1, <1>3
  <2>5. v.body = [w.body EXCEPT ![m] = [@ EXCEPT !.desc = d], ![c] = [@ EXCEPT !.desc = Null]]
    BY <1>2, <1>5, <2>1, <2>4 DEF Typed
  <2>6. v.body = [w.body EXCEPT ![m] = y, ![c] = [w.body[c] EXCEPT !.desc = Null]]
    BY <1>2, <1>5, <2>4, <2>5 DEF Typed, y, w
  <2> QED
    BY <1>1, <1>4, <2>2, <2>3, <2>6 DEF Transferred, w
<1>7. Transferred(World, v, d, m, y) /\ v.people = World.people
  BY <1>6 DEF w
<1> HIDE DEF v, y
<1>8. Calmer(World, v, d)
  BY <1>1, <1>3, <1>7, ShapedCalm
<1> QED
  BY <1>1, <1>8, StepSettles

(* A player returns to its own body. *)
LEMMA ReturnSettles ==
    ASSUME Settled(World, DOMAIN owner), NEW d \in Desc, Return(d)
    PROVE  Settles(d)
<1> DEFINE v == DoReturn(World, d)
<1>1. /\ Typed(World) /\ Sound(World) /\ Own(World, d) # Null
      /\ owner' = owner /\ Becomes(v)
  BY WorldValues DEF Settled, Return
<1>2. Returned(World, v, d)
  BY <1>1, DoReturnReturns
<1> HIDE DEF v
<1>3. Calmer(World, v, d)
  BY <1>2, KeepsCalm, LittleMoves DEF Returned
<1> QED
  BY <1>1, <1>3, StepSettles

(* A mobile that leaves the world, with a player in it or not. *)
LEMMA ExtractMobileCalm ==
    ASSUME NEW w, Typed(w), Sound(w), NEW m \in Body, Kind(w, m) \in {"npc", "poly"}
    PROVE  Calmer(w, ExtractMobile(w, m), Link(w, m))
<1> DEFINE v == ExtractMobile(w, m)
<1>1. IF Link(w, m) = Null THEN Aside(w, v) /\ Idle(w, v)
      ELSE Returned(w, v, Link(w, m))
  BY ExtractMobileReturns
<1>2. Link(w, m) \in Desc \cup {Null}
  BY TypedValues DEF Valued
<1> HIDE DEF v
<1>i. Moved(w, v)
  BY <1>1, LittleMoves DEF Returned
<1>3. Calmer(w, v, Link(w, m))
  BY <1>1, <1>2, <1>i, KeepsCalm, AsideCalm DEF Returned
<1> QED
  BY <1>3 DEF v

(* A polymorphed player dies, and its own body with it. *)
LEMMA PolyDiesSettles ==
    ASSUME Settled(World, DOMAIN owner), NEW d \in Desc, PolyDies(d)
    PROVE  Settles(d)
<1> DEFINE m == sock[d].character
           c == sock[d].original
           v == ExtractMobile(World, m)
           u == ExtractPlayer(v, c)
<1>1. /\ Typed(World) /\ Sound(World) /\ Con(World, d) = "PLYNG"
      /\ Drives(World, d) = m /\ Own(World, d) = c /\ c # Null
      /\ owner' = owner /\ Becomes(u)
  BY WorldValues DEF Settled, PolyDies, Playing
<1>2. m \in Body /\ m # Null /\ c \in Body
  BY <1>1, TypedValues DEF Sound, Driven, Valued
<1>3. Kind(World, m) = "poly" /\ Link(World, m) = d /\ d # Null
  <2>1. Kind(World, m) = "poly"
    BY <1>1, <1>2, WorldValues DEF PolyDies
  <2> QED
    BY <1>1, <1>2, <2>1, NullAssumption DEF Sound, Driven
<1> HIDE DEF m, c
<1>4. IF Link(World, m) = Null THEN Aside(World, v) /\ Idle(World, v)
      ELSE Returned(World, v, Link(World, m))
  BY <1>1, <1>2, <1>3, ExtractMobileReturns
<1> HIDE DEF v
<1>5. Returned(World, v, d)
  BY <1>3, <1>4
<1>6. /\ Typed(v) /\ Sound(v) /\ Con(v, d) = "PLYNG" /\ Drives(v, d) = c
      /\ Own(v, d) = Null
  BY <1>1, <1>5 DEF Returned
<1>7. Kind(v, c) = "pc" /\ Link(v, c) = d
  BY <1>1, <1>6 DEF Sound, Away, Driven
<1>8. Calmer(v, u, d)
  <2>1. \A k \in Desc : c \in {Drives(v, k), Own(v, k)} => k = d
    BY <1>1, <1>6 DEF Sound, Single
  <2> QED
    BY <1>2, <1>3, <1>6, <1>7, <2>1, NullAssumption, ExtractPlayerCalm
<1>9. Calmer(World, v, d) /\ Idle(World, v)
  BY <1>5, KeepsCalm, LittleMoves DEF Returned
<1> HIDE DEF u
<1>10. Calmer(World, u, d)
  BY <1>8, <1>9, CalmerTwice
<1> QED
  BY <1>1, <1>10, StepSettles

(* A mobile dies or is purged. *)
LEMMA MobileGoesSettles ==
    ASSUME Settled(World, DOMAIN owner), NEW m \in Body, MobileGoes(m)
    PROVE  \E d : Settles(d)
<1> DEFINE v == ExtractMobile(World, m)
<1>1. /\ Typed(World) /\ Sound(World) /\ Kind(World, m) \in {"npc", "poly"}
      /\ owner' = owner /\ Becomes(v)
  BY WorldValues DEF Settled, MobileGoes
<1>2. Calmer(World, v, Link(World, m))
  BY <1>1, ExtractMobileCalm
<1> HIDE DEF v
<1> QED
  BY <1>1, <1>2, StepSettles

(* One pointer of snooping is written: at the snooper, *)
LEMMA SnoopMoves ==
    ASSUME NEW w, Typed(w), NEW k, NEW x \in Body \cup {Null},
           NEW v, v = [w EXCEPT !.sock[k].snooping = x]
    PROVE  /\ Steady(w, v)
           /\ \A e \in Desc : /\ Snoops(v, e) = IF e = k THEN x ELSE Snoops(w, e)
                              /\ Heard(v, e) = Heard(w, e)
<1>1. w.sock \in [Desc -> Socket]
  BY DEF Typed
<1>2. /\ v.order = w.order /\ v.people = w.people /\ v.body = w.body
      /\ v = [order |-> v.order, sock |-> v.sock, people |-> v.people, body |-> v.body]
      /\ v.sock = [w.sock EXCEPT ![k] = [@ EXCEPT !.snooping = x]]
  BY DEF Typed
<1>3. ASSUME NEW e \in Desc
      PROVE  /\ v.sock[e] \in Socket /\ v.sock[e].con = w.sock[e].con
             /\ v.sock[e].character = w.sock[e].character
             /\ v.sock[e].original = w.sock[e].original
             /\ v.sock[e].snooping = IF e = k THEN x ELSE w.sock[e].snooping
             /\ v.sock[e].snoopBy = w.sock[e].snoopBy
  <2>1. w.sock[e] \in Socket
    BY <1>1
  <2>2. v.sock[e] = IF e = k THEN [w.sock[e] EXCEPT !.snooping = x] ELSE w.sock[e]
    BY <1>1, <1>2
  <2> QED
    BY <2>1, <2>2 DEF Socket
<1>4. v.sock \in [Desc -> Socket]
  <2>1. v.sock = [e \in Desc |-> v.sock[e]]
    BY <1>1, <1>2
  <2> QED
    BY <1>3, <2>1
<1>5. Typed(v)
  BY <1>2, <1>4 DEF Typed
<1> QED
  BY <1>2, <1>3, <1>5 DEF Steady, Unmoved, Con, Drives, Own, Snoops, Heard

\* k is snooped by x.
Hears(w, v, k, x) ==
    Typed(w) /\ x \in Body \cup {Null} /\ v = [w EXCEPT !.sock[k].snoopBy = x]

(* or at its victim. *)
LEMMA HeardMoves ==
    ASSUME NEW w, NEW v, NEW k, NEW x, Hears(w, v, k, x)
    PROVE  /\ Steady(w, v)
           /\ \A e \in Desc : /\ Heard(v, e) = IF e = k THEN x ELSE Heard(w, e)
                              /\ Snoops(v, e) = Snoops(w, e)
<1> USE DEF Hears
<1>1. w.sock \in [Desc -> Socket]
  BY DEF Typed
<1>2. /\ v.order = w.order /\ v.people = w.people /\ v.body = w.body
      /\ v = [order |-> v.order, sock |-> v.sock, people |-> v.people, body |-> v.body]
      /\ v.sock = [w.sock EXCEPT ![k] = [@ EXCEPT !.snoopBy = x]]
  BY DEF Typed
<1>3. ASSUME NEW e \in Desc
      PROVE  /\ v.sock[e] \in Socket /\ v.sock[e].con = w.sock[e].con
             /\ v.sock[e].character = w.sock[e].character
             /\ v.sock[e].original = w.sock[e].original
             /\ v.sock[e].snoopBy = IF e = k THEN x ELSE w.sock[e].snoopBy
             /\ v.sock[e].snooping = w.sock[e].snooping
  <2>1. w.sock[e] \in Socket
    BY <1>1
  <2>2. v.sock[e] = IF e = k THEN [w.sock[e] EXCEPT !.snoopBy = x] ELSE w.sock[e]
    BY <1>1, <1>2
  <2> QED
    BY <2>1, <2>2 DEF Socket
<1>4. v.sock \in [Desc -> Socket]
  <2>1. v.sock = [e \in Desc |-> v.sock[e]]
    BY <1>1, <1>2
  <2> QED
    BY <1>3, <2>1
<1>5. Typed(v)
  BY <1>2, <1>4 DEF Typed
<1> QED
  BY <1>2, <1>3, <1>5 DEF Steady, Unmoved, Con, Drives, Own, Snoops, Heard

\* d gives up whom it snoops: both sides of the pair are cleared.
Quiet(w, v, d) ==
    /\ Steady(w, v)
    /\ \A k \in Desc :
        /\ Snoops(v, k) = IF k = d THEN Null ELSE Snoops(w, k)
        /\ Heard(v, k) = IF Snoops(w, d) # Null /\ k = Link(w, Snoops(w, d))
                         THEN Null ELSE Heard(w, k)

(* That leaves the other pairs as they were. *)
LEMMA QuietAlike ==
    ASSUME NEW w, Typed(w), Sound(w), NEW d \in Desc, NEW v, Quiet(w, v, d)
    PROVE  Alike(w, v)
<1>1. Valued(w)
  BY TypedValues
<1>2. /\ \A k \in Desc : /\ Con(v, k) = Con(w, k) /\ Drives(v, k) = Drives(w, k)
                         /\ Own(v, k) = Own(w, k)
      /\ \A b : Link(v, b) = Link(w, b)
  BY DEF Quiet, Steady, Unmoved, Link
<1>3. ASSUME NEW k \in Desc, Snoops(v, k) # Null
      PROVE  /\ Con(v, k) = "PLYNG" /\ Own(v, k) = Null
             /\ Link(v, Snoops(v, k)) # Null
             /\ Heard(v, Link(v, Snoops(v, k))) = Drives(v, k)
  <2> DEFINE e == Link(w, Snoops(w, k))
  <2>1. k # d /\ Snoops(v, k) = Snoops(w, k)
    BY <1>3 DEF Quiet
  <2>2. e \in Desc /\ Heard(w, e) = Drives(w, k)
    BY <1>1, <1>3, <2>1 DEF Sound, Mutual, Valued
  <2>3. ~(Snoops(w, d) # Null /\ e = Link(w, Snoops(w, d)))
    <3> SUFFICES ASSUME Snoops(w, d) # Null, e = Link(w, Snoops(w, d)) PROVE FALSE
      OBVIOUS
    <3>1. Drives(w, d) = Drives(w, k)
      BY <2>2 DEF Sound, Mutual
    <3> QED
      BY <1>1, <1>3, <2>1, <3>1, SnoopersLinked DEF Deaf
  <2> QED
    BY <1>2, <1>3, <2>1, <2>2, <2>3 DEF Quiet, Sound, Mutual
<1>4. ASSUME NEW k \in Desc, Heard(v, k) # Null
      PROVE  /\ Con(v, k) = "PLYNG"
             /\ Link(v, Heard(v, k)) # Null
             /\ Snoops(v, Link(v, Heard(v, k))) = Drives(v, k)
  <2> DEFINE e == Link(w, Heard(w, k))
  <2>1. /\ ~(Snoops(w, d) # Null /\ k = Link(w, Snoops(w, d)))
        /\ Heard(v, k) = Heard(w, k)
    BY <1>4 DEF Quiet
  <2>2. e \in Desc /\ Snoops(w, e) = Drives(w, k)
    BY <1>1, <1>4, <2>1 DEF Sound, Mutual, Valued
  <2>3. e # d
    <3> SUFFICES ASSUME e = d PROVE FALSE
      OBVIOUS
    <3>1. Drives(w, k) # Null /\ Link(w, Drives(w, k)) = k
      BY <1>1, <1>4, <2>1, SnoopersLinked DEF Deaf
    <3> QED
      BY <2>1, <2>2, <3>1
  <2> QED
    BY <1>2, <1>4, <2>1, <2>2, <2>3 DEF Quiet, Sound, Mutual
<1> QED
  BY <1>3, <1>4 DEF Alike, Quiet, Mutual

(* d, which snoops nobody any more, starts on somebody nobody snoops. *)
LEMMA SpiesAlike ==
    ASSUME NEW w, Typed(w), Sound(w), NEW d \in Desc, Snoops(w, d) = Null,
           Con(w, d) = "PLYNG", Own(w, d) = Null,
           NEW x \in Body, x \in In(w), Link(w, x) # Null, Heard(w, Link(w, x)) = Null,
           NEW v, Steady(w, v),
           \A k \in Desc :
             /\ Snoops(v, k) = IF k = d THEN x ELSE Snoops(w, k)
             /\ Heard(v, k) = IF k = Link(w, x) THEN Drives(w, d) ELSE Heard(w, k)
    PROVE  Alike(w, v)
<1> DEFINE c == Drives(w, d)
           e == Link(w, x)
<1>1. Valued(w)
  BY TypedValues
<1>2. /\ \A k \in Desc : /\ Con(v, k) = Con(w, k) /\ Drives(v, k) = Drives(w, k)
                         /\ Own(v, k) = Own(w, k)
      /\ \A b : Link(v, b) = Link(w, b)
  BY DEF Steady, Unmoved, Link
<1>3. e \in Desc /\ Drives(w, e) = x /\ x # Null /\ Con(w, e) = "PLYNG"
  <2>1. e \in Desc /\ Drives(w, e) = x /\ x # Null
    BY <1>1, NullAssumption DEF Valued, Sound, Held
  <2> QED
    BY <2>1 DEF Sound, Outside
<1>4. c # Null /\ Link(w, c) = d /\ d # Null
  BY NullAssumption DEF Sound, Driven
<1> HIDE DEF c
<1>5. ASSUME NEW k \in Desc, Snoops(v, k) # Null
      PROVE  /\ Con(v, k) = "PLYNG" /\ Own(v, k) = Null
             /\ Link(v, Snoops(v, k)) # Null
             /\ Heard(v, Link(v, Snoops(v, k))) = Drives(v, k)
  <2>1. CASE k = d
    BY <1>2, <1>3, <2>1 DEF c
  <2>2. CASE k # d
    <3>1. Snoops(v, k) = Snoops(w, k)
      BY <2>2
    <3>2. /\ Link(w, Snoops(w, k)) \in Desc /\ Heard(w, Link(w, Snoops(w, k))) = Drives(w, k)
          /\ Drives(w, k) # Null
      BY <1>1, <1>5, <3>1 DEF Sound, Mutual, Valued, Driven
    <3>3. Link(w, Snoops(w, k)) # e
      BY <3>2
    <3> QED
      BY <1>2, <1>5, <3>1, <3>2, <3>3 DEF Sound, Mutual
  <2> QED
    BY <2>1, <2>2
<1>6. ASSUME NEW k \in Desc, Heard(v, k) # Null
      PROVE  /\ Con(v, k) = "PLYNG"
             /\ Link(v, Heard(v, k)) # Null
             /\ Snoops(v, Link(v, Heard(v, k))) = Drives(v, k)
  <2>1. CASE k = e
    BY <1>2, <1>3, <1>4, <2>1 DEF c
  <2>2. CASE k # e
    <3>1. Heard(v, k) = Heard(w, k)
      BY <2>2
    <3>2. /\ Link(w, Heard(w, k)) \in Desc /\ Snoops(w, Link(w, Heard(w, k))) = Drives(w, k)
          /\ Drives(w, k) # Null
      BY <1>1, <1>6, <3>1 DEF Sound, Mutual, Valued, Driven
    <3>3. Link(w, Heard(w, k)) # d
      BY <3>2
    <3> QED
      BY <1>2, <1>6, <3>1, <3>2, <3>3 DEF Sound, Mutual
  <2> QED
    BY <2>1, <2>2
<1> QED
  BY <1>5, <1>6 DEF Alike, Mutual

(* Snooping starts, moves on or stops: nobody's character changes. *)
LEMMA DoSnoopSettles ==
    ASSUME Settled(World, DOMAIN owner), NEW d \in Desc, NEW x \in Body, DoSnoop(d, x)
    PROVE  Settles(d)
<1> DEFINE c == sock[d].character
           old == sock[d].snooping
           free == IF old = Null THEN World
                   ELSE [World EXCEPT !.sock[body[old].desc].snoopBy = Null]
           quits == [free EXCEPT !.sock[d].snooping = Null]
           spies == [free EXCEPT !.sock[d].snooping = x]
           snoops == [spies EXCEPT !.sock[body[x].desc].snoopBy = c]
<1>1. /\ Typed(World) /\ Sound(World) /\ Valued(World) /\ owner' = owner
      /\ c = Drives(World, d) /\ old = Snoops(World, d) /\ Con(World, d) = "PLYNG"
      /\ \A b : body[b].desc = Link(World, b)
  BY WorldValues, TypedValues DEF Settled, DoSnoop, Playing, Link, World
<1>2. c \in Body /\ c # Null /\ Own(World, d) = Null
  <2>1. c \in Body /\ c # Null
    BY <1>1 DEF Valued, Sound, Driven
  <2>2. Kind(World, c) = "pc"
    BY <1>1, <2>1, WorldValues DEF DoSnoop
  <2> QED
    BY <1>1, <2>1, <2>2 DEF Sound, Away
<1>3. x \in In(World) /\ Link(World, x) # Null
  BY <1>1, WorldValues DEF DoSnoop
<1>4. /\ Steady(World, free)
      /\ \A k \in Desc :
            /\ Snoops(free, k) = Snoops(World, k)
            /\ Heard(free, k) = IF old # Null /\ k = Link(World, old)
                                THEN Null ELSE Heard(World, k)
  <2>1. CASE old = Null
    BY <1>1, <2>1 DEF Steady, Unmoved
  <2>2. CASE old # Null
    <3>1. free = [World EXCEPT !.sock[Link(World, old)].snoopBy = Null]
      BY <1>1, <2>2
    <3> DEFINE e == Link(World, old)
    <3> HIDE DEF free, old, e
    <3>2. Hears(World, free, e, Null)
      BY <1>1, <3>1 DEF e, Hears
    <3>3. Steady(World, free)
          /\ \A k \in Desc : /\ Heard(free, k) = IF k = e THEN Null ELSE Heard(World, k)
                             /\ Snoops(free, k) = Snoops(World, k)
      BY <3>2, HeardMoves
    <3> QED
      BY <2>2, <3>3 DEF e
  <2> QED
    BY <2>1, <2>2
<1> HIDE DEF free, c, old
<1>5. /\ Steady(free, quits)
      /\ \A k \in Desc : /\ Snoops(quits, k) = IF k = d THEN Null ELSE Snoops(free, k)
                         /\ Heard(quits, k) = Heard(free, k)
  <2>1. Typed(free) /\ quits = [free EXCEPT !.sock[d].snooping = Null]
    BY <1>4 DEF Steady
  <2> HIDE DEF quits
  <2> QED
    BY <2>1, SnoopMoves
<1> HIDE DEF quits
<1>6. Quiet(World, quits, d)
  BY <1>1, <1>4, <1>5 DEF Quiet, Steady, Unmoved
<1>7. Alike(World, quits)
  BY <1>1, <1>6, QuietAlike
<1>i. Typed(quits) /\ Sound(quits) /\ Keeps(World, quits, d) /\ Idle(World, quits)
  BY <1>1, <1>7, AlikeKeeps
<1>8. Calmer(World, quits, d) /\ Typed(quits) /\ Sound(quits)
  BY <1>i, KeepsCalm, LittleMoves
<1>9. ASSUME Becomes(snoops), Heard(World, Link(World, x)) = Null PROVE Settles(d)
  <2>1. /\ Steady(free, spies)
        /\ \A k \in Desc : /\ Snoops(spies, k) = IF k = d THEN x ELSE Snoops(free, k)
                           /\ Heard(spies, k) = Heard(free, k)
    <3>1. Typed(free) /\ spies = [free EXCEPT !.sock[d].snooping = x]
      BY <1>4 DEF Steady
    <3> HIDE DEF spies
    <3> QED
      BY <3>1, SnoopMoves
  <2> DEFINE e == Link(World, x)
  <2>2. snoops = [spies EXCEPT !.sock[e].snoopBy = c]
    BY <1>1
  <2> HIDE DEF spies, snoops, e
  <2>3. /\ Steady(spies, snoops)
        /\ \A k \in Desc : /\ Heard(snoops, k) = IF k = e THEN c ELSE Heard(spies, k)
                           /\ Snoops(snoops, k) = Snoops(spies, k)
    <3>1. Hears(spies, snoops, e, c)
      BY <1>2, <2>1, <2>2 DEF Steady, Hears
    <3> QED
      BY <3>1, HeardMoves
  <2>4. Steady(quits, snoops)
    BY <1>4, <1>5, <2>1, <2>3 DEF Steady, Unmoved
  <2>5. \A k \in Desc :
            /\ Snoops(snoops, k) = IF k = d THEN x ELSE Snoops(quits, k)
            /\ Heard(snoops, k) = IF k = Link(World, x) THEN c ELSE Heard(quits, k)
    BY <1>5, <2>1, <2>3 DEF e
  <2>6. /\ Drives(quits, d) = c /\ Con(quits, d) = "PLYNG" /\ Own(quits, d) = Null
        /\ In(quits) = In(World) /\ \A b : Link(quits, b) = Link(World, b)
    BY <1>1, <1>2, <1>7 DEF Alike, Steady, Unmoved, In, Link
  <2>7. Snoops(quits, d) = Null /\ Heard(quits, Link(World, x)) = Null
    <3>1. Link(World, x) \in Desc
      BY <1>1, <1>3 DEF Valued
    <3> QED
      BY <1>9, <1>4, <1>5, <3>1
  <2>8. Alike(quits, snoops)
    BY <1>3, <1>8, <2>4, <2>5, <2>6, <2>7, SpiesAlike
  <2>i. Typed(snoops) /\ Sound(snoops) /\ Keeps(quits, snoops, d) /\ Idle(quits, snoops)
    BY <1>8, <2>8, AlikeKeeps
  <2>9. Calmer(quits, snoops, d)
    BY <2>i, KeepsCalm, LittleMoves
  <2>10. Calmer(World, snoops, d)
    BY <1>8, <1>i, <2>9, CalmerTwice
  <2> QED
    BY <1>1, <1>9, <2>10, StepSettles
<1>10. Becomes(quits) \/ (Becomes(snoops) /\ Heard(World, Link(World, x)) = Null)
  <2>1. Becomes(quits) \/ (Becomes(snoops) /\ sock[body[x].desc].snoopBy = Null)
    BY DEF DoSnoop, quits, free, old, c
  <2>2. sock[body[x].desc].snoopBy = Heard(World, Link(World, x))
    BY <1>1 DEF Heard, World
  <2> QED
    BY <2>1, <2>2
<1>11. CASE Becomes(quits)
  BY <1>1, <1>8, <1>11, StepSettles
<1> QED
  BY <1>9, <1>10, <1>11
-----------------------------------------------------------------------------
(* The specification *)

(* Nobody has connected yet, and the mobiles stand in the world once. *)
LEMMA InitIndInv ==
    ASSUME Init
    PROVE  IndInv
<1>1. /\ order = << >> /\ sock = [d \in Desc |-> NoSocket]
      /\ people \in [1 .. Cardinality(Mob) -> Mob] /\ ToSet(people) = Mob
      /\ body = [b \in Body |-> IF b \in Mob
                                THEN [kind |-> "npc", name |-> Null, desc |-> Null]
                                ELSE NoChar]
      /\ owner = OwnerAtStart /\ recreated = {}
  BY DEF Init
<1>2. Cardinality(Mob) \in Nat /\ IsFiniteSet(Mob) /\ Mob \subseteq Body
  BY MobAssumption, FS_CardinalityType
<1>3. people \in Seq(Body) /\ IsInjective(people)
  <2> DEFINE n == Cardinality(Mob)
  <2>1. people \in Seq(Mob) /\ DOMAIN people = 1 .. n
    BY <1>1, <1>2
  <2>2. people \in Seq(Body)
    BY <1>2, <2>1
  <2>3. people \in Surjection(1 .. n, Mob)
    <3>1. \A m \in Mob : \E i \in 1 .. n : people[i] = m
      BY <1>1, <2>1 DEF ToSet
    <3> QED
      BY <1>1, <3>1 DEF Surjection
  <2>4. IsFiniteSet(1 .. n) /\ Cardinality(1 .. n) = n
    BY <1>2, FS_Interval
  <2>5. people \in Injection(1 .. n, Mob)
    BY <1>2, <2>3, <2>4, FS_SurjSameCardinalityImpliesInj
  <2>6. IsInjective(people)
    BY <2>1, <2>5 DEF Injection, IsInjective
  <2> QED
    BY <2>2, <2>6
<1>4. Typed(World)
  <2>1. NoSocket \in Socket /\ NoChar \in Char
        /\ [kind |-> "npc", name |-> Null, desc |-> Null] \in Char
    BY DEF NoSocket, Socket, ConState, NoChar, Char
  <2>2. sock \in [Desc -> Socket] /\ body \in [Body -> Char]
    BY <1>1, <2>1
  <2>3. order \in Seq(Desc)
    BY <1>1
  <2> QED
    BY <1>3, <2>2, <2>3 DEF Typed, World
<1>5. \A d \in Desc : /\ Con(World, d) = "closed" /\ Drives(World, d) = Null
                      /\ Own(World, d) = Null
                      /\ Snoops(World, d) = Null /\ Heard(World, d) = Null
  BY <1>1 DEF World, Con, Drives, Own, Snoops, Heard, NoSocket
<1>6. \A b \in Body : /\ Label(World, b) = Null /\ Link(World, b) = Null
                      /\ b \in Mob => Kind(World, b) = "npc"
  BY <1>1 DEF World, Label, Link, Kind, NoChar
<1>7. On(World) = {} /\ In(World) = Mob /\ IsInjective(World.order)
      /\ IsInjective(World.people)
  BY <1>1, <1>3 DEF World, On, In, ToSet, IsInjective
<1>8. Sound(World)
  BY <1>2, <1>5, <1>6, <1>7, NullAssumption DEF Sound, Cleared, Shut, Driven, Away, Held,
     Single, Tidy, Listed, Outside, Homed, Mutual
<1>9. Distinct(World, DOMAIN owner, {}) /\ Unique(World)
  BY <1>5, <1>6 DEF Distinct, Unique, Bears, Self
<1>10. Rows
  BY <1>1, OwnerAssumption, NameAssumption DEF Rows
<1> QED
  BY <1>4, <1>8, <1>9, <1>10 DEF IndInv, Settled

\* The steps that write the toon table.
WritesRows(d) == ConPwdnrm(d) \/ ConRegister(d) \/ ConDeleteMe(d)

(* No other step touches the toon table, or the history of names. *)
LEMMA OthersKeepRows ==
    ASSUME Next
    PROVE  \/ UNCHANGED <<owner, recreated, contested>>
           \/ \E d \in Desc : WritesRows(d)
<1> DEFINE kept == UNCHANGED <<owner, recreated, contested>>
<1>1. ASSUME NEW d \in Desc, NewDescriptor(d) \/ LinkLost(d) PROVE kept
  BY <1>1 DEF NewDescriptor, LinkLost
<1>2. ASSUME NEW d \in Desc, Nanny(d) PROVE kept \/ WritesRows(d)
  <2>1. ASSUME NEW a \in Account, ConNmeAccount(d, a) PROVE kept
    BY <2>1 DEF ConNmeAccount
  <2>2. ASSUME ConAccountPwd(d) \/ ConAccountBack(d) \/ ConAccountToon(d) PROVE kept
    BY <2>2 DEF ConAccountPwd, ConAccountBack, ConAccountToon
  <2>3. ASSUME NEW n \in Name, ConNmeKnown(d, n) \/ ConNmeUnknown(d, n) PROVE kept
    BY <2>3 DEF ConNmeKnown, ConNmeUnknown
  <2>4. ASSUME ConNmecnf(d) \/ ConSlctEnter(d) \/ ConSlctChange(d) PROVE kept
    BY <2>4 DEF ConNmecnf, ConSlctEnter, ConSlctChange
  <2> HIDE DEF kept
  <2> QED
    BY <1>2, <2>1, <2>2, <2>3, <2>4 DEF Nanny, WritesRows
<1>3. ASSUME NEW d \in Desc, Command(d) PROVE kept
  <2>1. ASSUME LeaveGame(d) \/ Return(d) \/ PolyDies(d) PROVE kept
    BY <2>1 DEF LeaveGame, Return, PolyDies
  <2>2. ASSUME NEW b \in Body, PolySelf(d, b) \/ DoSwitch(d, b) \/ DoSnoop(d, b)
        PROVE  kept
    BY <2>2 DEF PolySelf, DoSwitch, DoSnoop
  <2> HIDE DEF kept
  <2> QED
    BY <1>3, <2>1, <2>2 DEF Command
<1>4. ASSUME NEW b \in Body, ForceRent(b) \/ MobileGoes(b) PROVE kept
  BY <1>4 DEF ForceRent, MobileGoes
<1> HIDE DEF kept
<1>5. kept \/ \E d \in Desc : WritesRows(d)
  BY <1>1, <1>2, <1>3, <1>4 DEF Next
<1> QED
  BY <1>5 DEF kept

(* Rows are inserted and deleted for names, and given to accounts. *)
LEMMA NextRows ==
    ASSUME Settled(World, DOMAIN owner), Rows, Next
    PROVE  Rows'
<1>1. CASE UNCHANGED <<owner, recreated, contested>>
  BY <1>1 DEF Rows
<1>2. ASSUME NEW d \in Desc, ConPwdnrm(d) PROVE Rows'
  <2>1. sock[d] \in Socket
    BY WorldValues DEF Settled
  <2>2. sock[d].account \in Account \cup {Null}
    BY <2>1 DEF Socket
  <2> QED
    BY <1>2, <2>2 DEF ConPwdnrm, Rows
<1>3. ASSUME NEW d \in Desc, ConRegister(d) PROVE Rows'
  <2> DEFINE n == NameOf(World, sock[d].character)
             account == IF sock[d].auth THEN sock[d].account ELSE Null
  <2>1. sock[d] \in Socket
    BY WorldValues DEF Settled
  <2>2. account \in Account \cup {Null}
    BY <2>1 DEF Socket
  <2>3. n \in Name
    <3>1. /\ Con(World, d) = "CREATE" /\ Drives(World, d) = sock[d].character
          /\ Valued(World) /\ Sound(World) /\ World.body = body
      BY <1>3, WorldValues, TypedValues DEF ConRegister, Settled, World
    <3>2. /\ Drives(World, d) \in Body /\ Drives(World, d) # Null
          /\ Label(World, Drives(World, d)) \in Name
      BY <3>1 DEF Sound, Driven, Valued
    <3> QED
      BY <3>1, <3>2 DEF NameOf, Label
  <2>4. CASE UNCHANGED <<owner, recreated, contested>>
    BY <1>1, <2>4
  <2>5. CASE /\ owner' = [m \in DOMAIN owner \cup {n} |->
                            IF m # n THEN owner[m] ELSE account]
             /\ recreated' = recreated \cup {n}
    <3> HIDE DEF n, account
    <3> QED
      BY <2>2, <2>3, <2>5 DEF Rows
  <2> QED
    BY <1>3, <2>4, <2>5 DEF ConRegister
<1>4. ASSUME NEW d \in Desc, ConDeleteMe(d) PROVE Rows'
  BY <1>4 DEF ConDeleteMe, Rows
<1> QED
  BY <1>1, <1>2, <1>3, <1>4, OthersKeepRows DEF WritesRows

(* A step of the login states, unless it disputes a name. *)
LEMMA NannySettles ==
    ASSUME Settled(World, DOMAIN owner), Rows, NEW d \in Desc, Nanny(d), Undisputed'
    PROVE  Settles(d)
<1> DEFINE S == Settles(d)
<1>1. ASSUME NEW a \in Account, ConNmeAccount(d, a) PROVE S
  BY <1>1, AccountSettles
<1>2. ASSUME ConAccountPwd(d) \/ ConAccountBack(d) PROVE S
  BY <1>2, AccountSettles
<1>3. ASSUME ConAccountToon(d) PROVE S
  BY <1>3, ConAccountToonSettles
<1>4. ASSUME NEW n \in Name, ConNmeKnown(d, n) PROVE S
  BY <1>4, ConNmeKnownSettles
<1>5. ASSUME NEW n \in Name, ConNmeUnknown(d, n) PROVE S
  BY <1>5, ConNmeUnknownSettles
<1>6. ASSUME ConNmecnf(d) PROVE S
  BY <1>6, ConNmecnfSettles
<1>7. ASSUME ConPwdnrm(d) PROVE S
  BY <1>7, ConPwdnrmSettles
<1>8. ASSUME ConRegister(d) PROVE S
  BY <1>8, ConRegisterSettles
<1>9. ASSUME ConSlctEnter(d) PROVE S
  BY <1>9, ConSlctEnterSettles
<1>10. ASSUME ConSlctChange(d) PROVE S
  BY <1>10, ConSlctChangeSettles
<1>11. ASSUME ConDeleteMe(d) PROVE S
  BY <1>11, ConDeleteMeSettles
<1> HIDE DEF S
<1>12. S
  BY <1>1, <1>2, <1>3, <1>4, <1>5, <1>6, <1>7, <1>8, <1>9, <1>10, <1>11 DEF Nanny
<1> QED
  BY <1>12 DEF S

(* A command, or an event that befalls a player. *)
LEMMA CommandSettles ==
    ASSUME Settled(World, DOMAIN owner), NEW d \in Desc, Command(d)
    PROVE  Settles(d)
<1> DEFINE S == Settles(d)
<1>1. ASSUME LeaveGame(d) PROVE S
  BY <1>1, LeaveGameSettles
<1>2. ASSUME Return(d) PROVE S
  BY <1>2, ReturnSettles
<1>3. ASSUME PolyDies(d) PROVE S
  BY <1>3, PolyDiesSettles
<1>4. ASSUME NEW b \in Body, PolySelf(d, b) PROVE S
  BY <1>4, PolySelfSettles
<1>5. ASSUME NEW b \in Body, DoSwitch(d, b) PROVE S
  BY <1>5, DoSwitchSettles
<1>6. ASSUME NEW b \in Body, DoSnoop(d, b) PROVE S
  BY <1>6, DoSnoopSettles
<1> HIDE DEF S
<1>7. S
  BY <1>1, <1>2, <1>3, <1>4, <1>5, <1>6 DEF Command
<1> QED
  BY <1>7 DEF S

(* Disputes are not forgotten. *)
LEMMA DisputesStay ==
    ASSUME Next, Undisputed'
    PROVE  Undisputed
<1>1. CASE UNCHANGED <<owner, recreated, contested>>
  BY <1>1 DEF Undisputed
<1>2. ASSUME NEW d \in Desc, WritesRows(d) PROVE Undisputed
  BY <1>2 DEF Undisputed, WritesRows, ConPwdnrm, ConRegister, ConDeleteMe
<1> QED
  BY <1>1, <1>2, OthersKeepRows

(* Every step that disputes no name leaves a settled world, in which one
   descriptor at most goes on. *)
LEMMA NextSettles ==
    ASSUME IndInv, Next, Undisputed'
    PROVE  /\ Settled(World, DOMAIN owner) /\ Rows'
           /\ \E d : Settles(d)
<1>1. Settled(World, DOMAIN owner) /\ Rows
  BY DisputesStay DEF IndInv
<1>2. Rows'
  BY <1>1, NextRows
<1> DEFINE S == \E d : Settles(d)
<1>3. ASSUME NEW d \in Desc, NewDescriptor(d) PROVE S
  BY <1>1, <1>3, NewDescriptorSettles
<1>4. ASSUME NEW d \in Desc, LinkLost(d) PROVE S
  BY <1>1, <1>4, LinkLostSettles
<1>5. ASSUME NEW d \in Desc, Nanny(d) PROVE S
  BY <1>1, <1>5, NannySettles
<1>6. ASSUME NEW d \in Desc, Command(d) PROVE S
  BY <1>1, <1>6, CommandSettles
<1>7. ASSUME NEW b \in Body, ForceRent(b) PROVE S
  BY <1>1, <1>7, ForceRentSettles
<1>8. ASSUME NEW b \in Body, MobileGoes(b) PROVE S
  BY <1>1, <1>8, MobileGoesSettles
<1> HIDE DEF S
<1>9. S
  BY <1>3, <1>4, <1>5, <1>6, <1>7, <1>8 DEF Next
<1> QED
  BY <1>1, <1>2, <1>9 DEF S

(* Every step keeps the invariant. *)
LEMMA NextIndInv ==
    ASSUME IndInv, [Next]_vars
    PROVE  IndInv'
<1>1. CASE UNCHANGED vars
  <2>1. World' = World /\ owner' = owner /\ recreated' = recreated
        /\ contested' = contested
    BY <1>1 DEF vars, World
  <2> QED
    BY <2>1 DEF IndInv, Undisputed, Rows
<1>2. CASE Next
  <2>1. ASSUME Undisputed' PROVE Settled(World', DOMAIN owner') /\ Rows'
    BY <1>2, <2>1, NextSettles DEF Settles
  <2> QED
    BY <2>1 DEF IndInv
<1> QED
  BY <1>1, <1>2

(* The invariant holds in every reachable state. *)
LEMMA SpecIndInv == Spec => []IndInv
<1>1. Init => IndInv
  BY InitIndInv
<1>2. IndInv /\ [Next]_vars => IndInv'
  BY NextIndInv
<1> QED
  BY <1>1, <1>2, PTL DEF Spec

(* The values of a sound world are what LinksAgree says of the variables. *)
LEMMA SoundLinks ==
    ASSUME IndInv
    PROVE  LinksAgree
<1> SUFFICES ASSUME Undisputed PROVE LinksAgree
  BY DEF LinksAgree
<1>1. Typed(World) /\ Sound(World) /\ Valued(World)
  BY TypedValues DEF IndInv, Settled
<1>2. ASSUME NEW d \in Desc
      PROVE  LET c == sock[d].character
                 o == sock[d].original
             IN  /\ Live(d) <=> sock[d].con # "closed"
                 /\ c # Null =>
                     /\ body[c].kind # "free"
                     /\ body[c].desc = d \/ (sock[d].con = "SLCT" /\ body[c].desc = Null)
                 /\ o # Null => /\ Playing(d)
                                /\ body[o].kind = "pc" /\ body[o].desc = Null
                                /\ body[c].kind \in {"npc", "poly"}
                 /\ sock[d].con \in {"SLCT", "PLYNG", "CREATE", "NMECNF"} => c # Null
  <2>1. /\ Drives(World, d) = sock[d].character /\ Own(World, d) = sock[d].original
        /\ Con(World, d) = sock[d].con /\ On(World) = ToSet(order)
        /\ Drives(World, d) \in Body \cup {Null} /\ Own(World, d) \in Body \cup {Null}
    BY <1>1, WorldValues DEF Valued
  <2>2. \A b \in Body : Kind(World, b) = body[b].kind /\ Link(World, b) = body[b].desc
    BY <1>1, WorldValues
  <2>3. Live(d) <=> Con(World, d) # "closed"
    BY <1>1, <2>1 DEF Sound, Shut, Live
  <2>4. ASSUME Drives(World, d) # Null
        PROVE  /\ Kind(World, Drives(World, d)) # "free"
               /\ \/ Link(World, Drives(World, d)) = d
                  \/ Con(World, d) = "SLCT" /\ Link(World, Drives(World, d)) = Null
    BY <1>1, <2>4 DEF Sound, Driven
  <2>5. ASSUME Own(World, d) # Null
        PROVE  /\ Con(World, d) = "PLYNG" /\ Drives(World, d) # Null
               /\ Kind(World, Own(World, d)) = "pc" /\ Link(World, Own(World, d)) = Null
               /\ Kind(World, Drives(World, d)) \in {"npc", "poly"}
    BY <1>1, <2>5 DEF Sound, Away
  <2>6. Con(World, d) \in {"SLCT", "PLYNG", "CREATE", "NMECNF"} => Drives(World, d) # Null
    BY <1>1 DEF Sound, Driven
  <2> QED
    BY <2>1, <2>2, <2>3, <2>4, <2>5, <2>6 DEF Playing
<1>3. ASSUME NEW b \in Body, body[b].desc # Null PROVE sock[body[b].desc].character = b
  <2>1. Link(World, b) = body[b].desc /\ Link(World, b) \in Desc
    BY <1>1, <1>3, WorldValues DEF Valued
  <2>2. Drives(World, Link(World, b)) = b
    BY <1>1, <1>3, <2>1 DEF Sound, Held
  <2> QED
    BY <1>1, <2>1, <2>2, WorldValues
<1> QED
  BY <1>2, <1>3 DEF LinksAgree

(* What the lists hold, from the links of their elements. *)
LEMMA SoundLists ==
    ASSUME IndInv
    PROVE  ListsSound /\ OneDriver /\ TypeOK
<1> SUFFICES ASSUME Undisputed PROVE ListsSound /\ OneDriver /\ TypeOK
  BY DEF ListsSound, OneDriver, TypeOK
<1>1. Typed(World) /\ Sound(World) /\ Valued(World) /\ Rows
  BY TypedValues DEF IndInv, Settled
<1>2. ListsSound
  <2>1. IsInjective(order) /\ IsInjective(people)
    BY <1>1 DEF Sound, Tidy, World
  <2>2. ASSUME NEW b \in ToSet(people)
        PROVE  body[b].kind # "free" /\ (body[b].desc # Null => Playing(body[b].desc))
    <3>1. b \in In(World) /\ b \in Body
      BY <1>1, WorldValues DEF Valued
    <3>2. Kind(World, b) = body[b].kind /\ Link(World, b) = body[b].desc
      BY <1>1, <3>1, WorldValues
    <3>3. Kind(World, b) # "free"
      BY <1>1, <3>1 DEF Sound, Listed
    <3>4. ASSUME Link(World, b) # Null PROVE Playing(Link(World, b))
      <4>1. Link(World, b) \in Desc /\ Drives(World, Link(World, b)) = b /\ b # Null
        BY <1>1, <3>1, <3>4, NullAssumption DEF Valued, Sound, Held
      <4>2. Con(World, Link(World, b)) = "PLYNG"
        BY <1>1, <3>1, <4>1 DEF Sound, Outside
      <4> QED
        BY <1>1, <4>1, <4>2, WorldValues DEF Playing
    <3> QED
      BY <3>2, <3>3, <3>4
  <2> QED
    BY <2>1, <2>2 DEF ListsSound
<1>3. OneDriver
  <2>1. ASSUME NEW d \in Desc, NEW e \in Desc, d # e
        PROVE  {sock[d].character, sock[d].original} \cap
                  {sock[e].character, sock[e].original} \subseteq {Null}
    <3>1. /\ Drives(World, d) = sock[d].character /\ Own(World, d) = sock[d].original
          /\ Drives(World, e) = sock[e].character /\ Own(World, e) = sock[e].original
      BY <1>1, WorldValues
    <3>2. /\ Drives(World, d) # Null =>
                Drives(World, d) \notin {Drives(World, e), Own(World, e)}
          /\ Drives(World, e) # Null =>
                Drives(World, e) \notin {Drives(World, d), Own(World, d)}
          /\ Own(World, d) # Null => Own(World, d) # Own(World, e)
      BY <1>1, <2>1 DEF Sound, Single
    <3> QED
      BY <3>1, <3>2
  <2> QED
    BY <2>1 DEF OneDriver
<1>4. TypeOK
  <2>1. \A b \in Body : body[b].kind = "free" => body[b] = NoChar
    <3> SUFFICES ASSUME NEW b \in Body, body[b].kind = "free" PROVE body[b] = NoChar
      OBVIOUS
    <3>1. body[b] \in Char
      BY <1>1, WorldValues
    <3>2. body[b].name = Null /\ body[b].desc = Null
      BY <1>1, WorldValues DEF Sound, Cleared
    <3> QED
      BY <3>1, <3>2 DEF Char, NoChar
  <2> QED
    BY <1>1, <2>1, WorldValues DEF TypeOK, Rows
<1> QED
  BY <1>2, <1>3, <1>4

(* Every variable of the sessions keeps its type, and what is freed keeps
   nothing: no handler of the login, no command and no way a connection ends
   writes anything else into a descriptor or a character. *)
THEOREM TypesAreKept == Spec => []TypeOK
<1>1. IndInv => TypeOK
  BY SoundLists
<1> QED
  BY <1>1, SpecIndInv, PTL

(* The pointers between descriptors and characters agree in every reachable
   state, for any number of connections, bodies, names and accounts: none of
   close_socket, extract_char, free_char, con_pwdok, switch, polymorph and
   return, in any order, leaves one side of a pair behind. *)
THEOREM LinksAlwaysAgree == Spec => []LinksAgree
<1>1. IndInv => LinksAgree
  BY SoundLinks
<1> QED
  BY <1>1, SpecIndInv, PTL

(* No body is ever driven, or waited for, from two connections: con_pwdok takes
   over a body only when nobody is away from it. *)
THEOREM OneDriverEver == Spec => []OneDriver
<1>1. IndInv => OneDriver
  BY SoundLists
<1> QED
  BY <1>1, SpecIndInv, PTL

(* The descriptor list and the character list never hold anything twice, nor
   anything that was freed, nor anybody who has not entered the game. *)
THEOREM ListsStaySound == Spec => []ListsSound
<1>1. IndInv => ListsSound
  BY SoundLists
<1> QED
  BY <1>1, SpecIndInv, PTL

(* What the lists, the snoopers and the names are, from a settled world.    *)
LEMMA SoundPlayers ==
    ASSUME IndInv, Undisputed
    PROVE  /\ SnoopIsMutual
           /\ Gods = {} => PlayersAreInTheWorld
           /\ \A n \in Name : Cardinality(Bearers(n)) <= 1
<1>1. Typed(World) /\ Sound(World) /\ Valued(World) /\ Unique(World)
  BY TypedValues DEF IndInv, Settled
<1>2. SnoopIsMutual
  <2>1. ASSUME NEW d \in Desc, sock[d].snooping # Null
        PROVE  /\ body[sock[d].snooping].desc # Null
               /\ sock[body[sock[d].snooping].desc].snoopBy = sock[d].character
    <3>1. /\ Snoops(World, d) = sock[d].snooping /\ Snoops(World, d) \in Body
          /\ Drives(World, d) = sock[d].character
      BY <1>1, <2>1, WorldValues DEF Valued
    <3>2. /\ Link(World, Snoops(World, d)) = body[sock[d].snooping].desc
          /\ Link(World, Snoops(World, d)) \in Desc \cup {Null}
      BY <1>1, <3>1, WorldValues DEF Valued
    <3>3. /\ Link(World, Snoops(World, d)) # Null
          /\ Heard(World, Link(World, Snoops(World, d))) = Drives(World, d)
      BY <1>1, <2>1, <3>1 DEF Sound, Mutual
    <3> QED
      BY <1>1, <3>1, <3>2, <3>3, WorldValues
  <2>2. ASSUME NEW d \in Desc, sock[d].snoopBy # Null
        PROVE  /\ body[sock[d].snoopBy].desc # Null
               /\ sock[body[sock[d].snoopBy].desc].snooping = sock[d].character
    <3>1. /\ Heard(World, d) = sock[d].snoopBy /\ Heard(World, d) \in Body
          /\ Drives(World, d) = sock[d].character
      BY <1>1, <2>2, WorldValues DEF Valued
    <3>2. /\ Link(World, Heard(World, d)) = body[sock[d].snoopBy].desc
          /\ Link(World, Heard(World, d)) \in Desc \cup {Null}
      BY <1>1, <3>1, WorldValues DEF Valued
    <3>3. /\ Link(World, Heard(World, d)) # Null
          /\ Snoops(World, Link(World, Heard(World, d))) = Drives(World, d)
      BY <1>1, <2>2, <3>1 DEF Sound, Mutual
    <3> QED
      BY <1>1, <3>1, <3>2, <3>3, WorldValues
  <2> QED
    BY <2>1, <2>2 DEF SnoopIsMutual
<1>3. ASSUME Gods = {} PROVE PlayersAreInTheWorld
  <2> SUFFICES ASSUME NEW d \in Desc, Playing(d)
               PROVE  Player(World, d) \in ToSet(people)
    BY DEF PlayersAreInTheWorld
  <2>1. Con(World, d) = "PLYNG"
    BY <1>1, WorldValues DEF Playing
  <2>2. Self(World, d) \in In(World)
    BY <1>1, <1>3, <2>1 DEF Sound, Homed
  <2>3. Player(World, d) = Self(World, d)
    BY DEF Player, Self, Own, Drives
  <2> QED
    BY <1>1, <2>2, <2>3, WorldValues
<1>4. ASSUME NEW n \in Name PROVE Cardinality(Bearers(n)) <= 1
  <2>1. ASSUME NEW b \in Bearers(n)
        PROVE  b \in Body /\ Waits(World, b) /\ Label(World, b) = n
    <3>1. /\ b \in Body /\ body[b].kind = "pc" /\ body[b].name = n
          /\ \/ b \in ToSet(people)
             \/ \E d \in Desc : sock[d].con = "SLCT" /\ sock[d].character = b
      BY <2>1 DEF Bearers
    <3>2. Kind(World, b) = "pc" /\ Label(World, b) = n
      BY <1>1, <3>1, WorldValues
    <3>3. CASE b \in ToSet(people)
      BY <1>1, <3>1, <3>2, <3>3, WorldValues DEF Waits
    <3>4. ASSUME NEW d \in Desc, sock[d].con = "SLCT", sock[d].character = b
          PROVE  Waits(World, b)
      <4>1. Con(World, d) = "SLCT" /\ Drives(World, d) = b
        BY <1>1, <3>4, WorldValues
      <4>2. Own(World, d) = Null
        BY <1>1, <4>1 DEF Sound, Away
      <4>3. Self(World, d) = b
        BY <4>1, <4>2 DEF Self
      <4> QED
        BY <3>2, <4>1, <4>3 DEF Waits
    <3> QED
      BY <3>1, <3>2, <3>3, <3>4
  <2>2. n # Null
    BY NullAssumption
  <2>3. \A a, b \in Bearers(n) : a = b
    BY <1>1, <2>1, <2>2 DEF Unique
  <2>4. CASE Bearers(n) = {}
    BY <2>4, FS_EmptySet
  <2>5. ASSUME NEW b \in Bearers(n) PROVE Cardinality(Bearers(n)) = 1
    <3>1. Bearers(n) = {b}
      BY <2>3, <2>5
    <3> QED
      BY <3>1, FS_Singleton
  <2> QED
    BY <2>4, <2>5
<1> QED
  BY <1>2, <1>3, <1>4

(* A step takes a body from a descriptor only when it closes that one.      *)
LEMMA StepStealsNothing ==
    ASSUME IndInv, Next, Undisputed', NEW b \in Body,
           body[b].desc # Null, body'[b].desc \notin {body[b].desc, Null}
    PROVE  sock'[body[b].desc].con = "closed"
<1>1. PICK t : Settles(t)
  BY NextSettles
<1>2. /\ Typed(World) /\ Sound(World) /\ Valued(World)
      /\ Typed(World') /\ Sound(World') /\ Valued(World')
      /\ Touches(World, World', t)
  BY <1>1, NextSettles, TypedValues DEF Settled, Settles
<1> DEFINE d == Link(World, b)
           e == Link(World', b)
<1>3. d = body[b].desc /\ e = body'[b].desc /\ Con(World', d) = sock'[d].con
  BY DEF World, Link, Con
<1>4. d \in Desc /\ e \in Desc /\ d # e /\ b # Null
  BY <1>2, <1>3, NullAssumption DEF Valued
<1>5. Drives(World, d) = b /\ Drives(World', e) = b
  BY <1>2, <1>4, NullAssumption DEF Sound, Held
<1>6. Drives(World', d) # b
  BY <1>2, <1>4, <1>5 DEF Sound, Single
<1>7. Drives(World, e) # b /\ Con(World', e) # "closed"
  BY <1>2, <1>4, <1>5 DEF Sound, Single, Shut
<1>8. e = t
  BY <1>2, <1>4, <1>5, <1>7 DEF Touches
<1>9. Con(World', d) = "closed"
  BY <1>2, <1>4, <1>5, <1>6, <1>8 DEF Touches
<1> QED
  BY <1>3, <1>9

(* Who plays is in the world, so that extract_char finds in the character
   list whom it is given.  Without immortals: one that is switched can be
   rented away by force behind its own back (MCForceRent). *)
THEOREM PlayersStayInTheWorld == Spec => [](Gods = {} => PlayersAreInTheWorld)
<1>1. IndInv => (Gods = {} => PlayersAreInTheWorld)
  BY SoundPlayers DEF PlayersAreInTheWorld
<1> QED
  BY <1>1, SpecIndInv, PTL

(* No registered character is twice in the world or at the menu, whatever
   order its player's connections are lost, closed and opened in; neither is
   one that was created since the start. *)
THEOREM OneBodyEver ==
    Spec => [](Undisputed => /\ OneBodyPerName
                             /\ \A n \in Name : Cardinality(Bearers(n)) <= 1)
<1>1. IndInv => (Undisputed => /\ OneBodyPerName
                               /\ \A n \in Name : Cardinality(Bearers(n)) <= 1)
  <2> SUFFICES ASSUME IndInv, Undisputed
               PROVE  /\ OneBodyPerName
                      /\ \A n \in Name : Cardinality(Bearers(n)) <= 1
    OBVIOUS
  <2>1. DOMAIN owner \subseteq Name
    BY DEF IndInv, Rows
  <2> QED
    BY <2>1, SoundPlayers DEF OneBodyPerName
<1> QED
  BY <1>1, SpecIndInv, PTL

(* A snooper and its victim always point at each other: the writes of
   close_socket, extract_char and do_snoop through the other's descriptor
   never go through a null pointer. *)
THEOREM SnoopersStayMutual == Spec => [](Undisputed => SnoopIsMutual)
<1>1. IndInv => (Undisputed => SnoopIsMutual)
  BY SoundPlayers
<1> QED
  BY <1>1, SpecIndInv, PTL

(* While no name is disputed, no step gives a body that has a link to another
   connection unless it closes the one it had. *)
THEOREM LinksAreNotStolen == Spec /\ []Undisputed => LinkIsNotStolen
<1> DEFINE A == \A b \in Body :
                    LET d == body[b].desc
                    IN  d # Null /\ body'[b].desc \notin {d, Null} =>
                            sock'[d].con = "closed" \/ body[b].name # body'[b].name
<1>1. IndInv /\ Undisputed' /\ [Next]_vars => [A]_vars
  BY StepStealsNothing
<1>2. IndInv /\ Undisputed' /\ [Next]_vars =>
        [\A b \in Body :
            LET d == body[b].desc
            IN  d # Null /\ body'[b].desc \notin {d, Null} =>
                    sock'[d].con = "closed" \/ body[b].name # body'[b].name]_vars
  BY <1>1
<1> QED
  BY <1>2, SpecIndInv, PTL DEF Spec, LinkIsNotStolen
-----------------------------------------------------------------------------
(* The refinement *)

\* The names whose row is the one they had at the start.
Tracked == DOMAIN owner \ recreated

\* Presence has them where their bodies are.
Somewhere ==
    \A n \in Known : WhereIs(n) = IF n \in Tracked THEN Placed(World, n) ELSE "out"

(* In a settled world it does. *)
LEMMA BodiesTell ==
    ASSUME IndInv, Undisputed
    PROVE  Somewhere
<1>1. Typed(World) /\ Sound(World) /\ Valued(World) /\ Tracked \subseteq Name
  BY TypedValues DEF IndInv, Settled, Rows, Tracked
<1>2. \A d \in Desc : Player(World, d) = Self(World, d)
  BY DEF Player, Self, Own, Drives
<1> SUFFICES ASSUME NEW n \in Known, n \in Tracked
             PROVE  WhereIs(n) = Placed(World, n)
  BY DEF Somewhere, WhereIs, Tracked
<1>3. n # Null
  BY <1>1, NullAssumption
<1> DEFINE playing == \E d \in Desc : Playing(d) /\ NameOf(World, Player(World, d)) = n
           linkdead == \E b \in ToSet(people) : Linkdead(World, b, n)
<1>4. playing <=> Found(World, n, "playing")
  <2>1. ASSUME NEW d \in Desc, Playing(d), NameOf(World, Player(World, d)) = n
        PROVE  Found(World, n, "playing")
    <3> DEFINE b == Self(World, d)
    <3>1. b # Null /\ Label(World, b) = n
      BY <1>2, <1>3, <2>1 DEF NameOf, Label
    <3>2. b \in Body
      BY <1>1, <3>1 DEF Valued, Self
    <3>3. Con(World, d) = "PLYNG"
      BY <1>1, <2>1, WorldValues DEF Playing
    <3> HIDE DEF b
    <3>4. At(World, b) = "playing"
      BY <3>3 DEF At, Plays, b
    <3> QED
      BY <3>1, <3>2, <3>4 DEF Found
  <2>2. ASSUME NEW b \in Body, Label(World, b) = n, At(World, b) = "playing"
        PROVE  playing
    <3>1. PICK d \in Desc : Con(World, d) = "PLYNG" /\ Self(World, d) = b
      BY <2>2 DEF At, Plays
    <3>2. Playing(d)
      BY <1>1, <3>1, WorldValues DEF Playing
    <3>3. NameOf(World, Player(World, d)) = n
      BY <1>2, <2>2, <3>1, NullAssumption DEF NameOf, Label
    <3> QED
      BY <3>2, <3>3
  <2> QED
    BY <2>1, <2>2 DEF Found
<1>5. ASSUME ~Found(World, n, "playing")
      PROVE  linkdead <=> Found(World, n, "linkdead")
  <2>1. ASSUME NEW b \in ToSet(people), Linkdead(World, b, n)
        PROVE  Found(World, n, "linkdead")
    <3>1. b \in Body /\ Stands(World, b) /\ Label(World, b) = n
      BY <1>1, <2>1, WorldValues DEF Linkdead, Valued, Stands, Kind, Label
    <3> QED
      BY <1>5, <3>1 DEF Found, At
  <2>2. ASSUME NEW b \in Body, Label(World, b) = n, At(World, b) = "linkdead"
        PROVE  linkdead
    <3>1. Stands(World, b) /\ ~Plays(World, b)
      BY <2>2 DEF At
    <3>2. Link(World, b) = Null
      <4> SUFFICES ASSUME Link(World, b) # Null PROVE FALSE
        OBVIOUS
      <4> DEFINE d == Link(World, b)
      <4>1. d \in Desc /\ Drives(World, d) = b /\ b # Null
        BY <1>1, NullAssumption DEF Valued, Sound, Held
      <4> HIDE DEF d
      <4>2. Con(World, d) = "PLYNG" /\ Own(World, d) = Null
        BY <1>1, <3>1, <4>1 DEF Sound, Outside, Away, Stands
      <4> QED
        BY <3>1, <4>1, <4>2 DEF Plays, Self
    <3>3. b \in ToSet(people) /\ Linkdead(World, b, n)
      BY <1>1, <2>2, <3>1, <3>2, WorldValues DEF Linkdead, Stands, Kind, Label, Link
    <3> QED
      BY <3>3
  <2> QED
    BY <2>1, <2>2 DEF Found
<1>6. ASSUME ~Found(World, n, "playing"), ~Found(World, n, "linkdead")
      PROVE  Bearers(n) # {} <=> Found(World, n, "menu")
  <2>1. ASSUME NEW b \in Bearers(n) PROVE Found(World, n, "menu")
    <3>1. b \in Body /\ Kind(World, b) = "pc" /\ Label(World, b) = n
      BY <1>1, <2>1, WorldValues DEF Bearers
    <3>2. ~Stands(World, b) /\ ~Plays(World, b)
      BY <1>6, <3>1 DEF Found, At
    <3>3. PICK d \in Desc : sock[d].con = "SLCT" /\ sock[d].character = b
      BY <1>1, <2>1, <3>1, <3>2, WorldValues DEF Bearers, Stands
    <3>4. Con(World, d) = "SLCT" /\ Drives(World, d) = b
      BY <1>1, <3>3, WorldValues
    <3>5. Self(World, d) = b
      BY <1>1, <3>4 DEF Sound, Away, Self
    <3>6. At(World, b) = "menu"
      BY <3>2, <3>4, <3>5 DEF At, Attends
    <3> QED
      BY <3>1, <3>6 DEF Found
  <2>2. ASSUME NEW b \in Body, Label(World, b) = n, At(World, b) = "menu"
        PROVE  b \in Bearers(n)
    <3>1. PICK d \in Desc : Con(World, d) = "SLCT" /\ Self(World, d) = b
      BY <2>2 DEF At, Attends
    <3>2. Own(World, d) = Null
      BY <1>1, <3>1 DEF Sound, Away
    <3>3. Drives(World, d) = b
      BY <3>1, <3>2 DEF Self
    <3>4. Kind(World, b) = "pc"
      BY <1>1, <2>2, PlacedWaits DEF Waits
    <3> QED
      BY <1>1, <2>2, <3>1, <3>3, <3>4, WorldValues DEF Bearers
  <2> QED
    BY <2>1, <2>2 DEF Found
<1>7. WhereIs(n) = IF playing THEN "playing"
                   ELSE IF linkdead THEN "linkdead"
                   ELSE IF Bearers(n) # {} THEN "menu"
                   ELSE "out"
  BY DEF WhereIs, Tracked
<1> HIDE DEF playing, linkdead
<1> QED
  BY <1>4, <1>5, <1>6, <1>7 DEF Placed

(* A row of the start is only ever deleted. *)
LEMMA RowsDeleted ==
    ASSUME Next
    PROVE  Tracked' = Tracked \/ \E d \in Desc : ConDeleteMe(d)
<1>1. CASE UNCHANGED <<owner, recreated, contested>>
  BY <1>1 DEF Tracked
<1>2. ASSUME NEW d \in Desc, ConPwdnrm(d) PROVE Tracked' = Tracked
  BY <1>2 DEF ConPwdnrm, Tracked
<1>3. ASSUME NEW d \in Desc, ConRegister(d) PROVE Tracked' = Tracked
  <2> DEFINE n == NameOf(World, sock[d].character)
  <2>1. CASE n \in DOMAIN owner
    BY <1>3, <2>1 DEF ConRegister, Tracked
  <2>2. CASE n \notin DOMAIN owner
    <3>1. DOMAIN owner' = DOMAIN owner \cup {n} /\ recreated' = recreated \cup {n}
      BY <1>3, <2>2 DEF ConRegister
    <3> HIDE DEF n
    <3> QED
      BY <2>2, <3>1 DEF Tracked
  <2> QED
    BY <2>1, <2>2
<1> QED
  BY <1>1, <1>2, <1>3, OthersKeepRows DEF WritesRows

(* Whoever deletes its character was at the menu, and nobody is left of it. *)
LEMMA DeletedIsOut ==
    ASSUME Settled(World, DOMAIN owner), NEW d \in Desc, ConDeleteMe(d),
           NEW n \in Name, n = NameOf(World, sock[d].character)
    PROVE  Placed(World, n) = "menu" /\ Placed(World', n) = "out"
<1> DEFINE w == World
           v == World'
           b == Drives(World, d)
<1>1. /\ Typed(w) /\ Sound(w) /\ Valued(w) /\ Unique(w) /\ Con(w, d) = "SLCT"
      /\ b = sock[d].character /\ w.body = body
  BY WorldValues, TypedValues DEF Settled, ConDeleteMe, World
<1>2. /\ Sound(v) /\ Valued(v) /\ NoneComes(w, v) /\ Kind(v, b) = "free"
  BY ConDeleteMeSettles, TypedValues DEF Settles, Settled
<1> HIDE DEF v
<1>3. b \in Body /\ b # Null /\ b \notin In(w)
  BY <1>1 DEF Sound, Driven, Outside, Valued
<1>4. b = Self(w, d) /\ Label(w, b) = n
  <2>1. Own(w, d) = Null
    BY <1>1 DEF Sound, Away
  <2>2. b = Self(w, d)
    BY <2>1 DEF Self
  <2>3. NameOf(w, b) = n
    BY <1>1
  <2> QED
    BY <1>3, <2>2, <2>3 DEF NameOf, Label
<1> HIDE DEF w, b
<1>5. At(w, b) = "menu"
  BY <1>1, <1>3, <1>4, SelfIsAt DEF Stands
<1>6. Placed(w, n) = "menu"
  BY <1>1, <1>3, <1>4, <1>5, PlacedThere
<1>7. ASSUME NEW a \in Body, Label(v, a) = n, At(v, a) # "out" PROVE FALSE
  <2>1. Waits(v, a)
    BY <1>2, <1>7, PlacedWaits
  <2>2. Waits(w, a) /\ Label(w, a) = n
    BY <1>2, <1>7, <2>1 DEF NoneComes
  <2>3. Waits(w, b) /\ n # Null
    BY <1>1, <1>3, <1>5, PlacedWaits, NullAssumption
  <2>4. a = b
    BY <1>1, <1>3, <1>4, <2>2, <2>3 DEF Unique
  <2> QED
    BY <1>2, <2>1, <2>4 DEF Waits
<1>8. Placed(v, n) = "out"
  BY <1>7, PlacedNowhere
<1> QED
  BY <1>6, <1>8 DEF w, v

\* Presence's variable, in the words of the sessions.
Places == [n \in Known |-> WhereIs(n)]

(* One player at most moves in a step, as it may. *)
LEMMA OneMoves ==
    ASSUME IndInv, Undisputed', Next, Gods = {}, Somewhere, Somewhere'
    PROVE  \E n : \A m \in Known :
              \/ Places'[m] = Places[m]
              \/ m = n /\ <<Places[m], Places'[m]>> \in Edges
<1>1. /\ Settled(World, DOMAIN owner) /\ Tracked \subseteq Name
      /\ \E d : Settles(d)
  <2>1. Undisputed
    BY DisputesStay
  <2>2. Tracked \subseteq Name
    BY <2>1 DEF IndInv, Rows, Tracked
  <2> QED
    BY <2>2, NextSettles
<1>2. PICK n : \A m \in Name :
                  \/ Placed(World', m) = Placed(World, m)
                  \/ m = n /\ <<Placed(World, m), Placed(World', m)>> \in Edges
  BY <1>1 DEF Settles, Turns, Steps
<1>3. \A m \in Known :
          /\ Places[m] = IF m \in Tracked THEN Placed(World, m) ELSE "out"
          /\ Places'[m] = IF m \in Tracked' THEN Placed(World', m) ELSE "out"
  BY DEF Places, Somewhere
<1>4. CASE Tracked' = Tracked
  BY <1>1, <1>2, <1>3, <1>4
<1>5. ASSUME NEW d \in Desc, ConDeleteMe(d)
      PROVE  \A m \in Known :
                \/ Places'[m] = Places[m]
                \/ m = n /\ <<Places[m], Places'[m]>> \in Edges
  <2> DEFINE k == NameOf(World, sock[d].character)
  <2>1. Tracked' = Tracked \ {k}
    BY <1>5 DEF ConDeleteMe, Tracked
  <2>2. k \in Name => Placed(World, k) = "menu" /\ Placed(World', k) = "out"
    BY <1>1, <1>5, DeletedIsOut
  <2> HIDE DEF k
  <2>3. k \in Name => k = n
    BY <1>2, <2>2
  <2> SUFFICES ASSUME NEW m \in Known, m \in Tracked, m \notin Tracked'
               PROVE  m = n /\ <<Places[m], Places'[m]>> \in Edges
    BY <1>1, <1>2, <1>3, <2>1
  <2>4. m = k /\ m \in Name
    BY <1>1, <2>1
  <2> QED
    BY <1>3, <2>2, <2>3, <2>4 DEF Edges, Downs
<1> QED
  BY <1>4, <1>5, RowsDeleted

(* And every step is a step of Presence, or none. *)
LEMMA PresenceSteps ==
    ASSUME IndInv, Undisputed', [Next]_vars, Gods = {}, Somewhere, Somewhere'
    PROVE  Presences!PNext \/ Places' = Places
<1>1. CASE UNCHANGED vars
  BY <1>1 DEF vars, Places, WhereIs, Bearers, World, Playing
<1>2. CASE Next
  <2>1. PICK n : \A m \in Known :
                    \/ Places'[m] = Places[m]
                    \/ m = n /\ <<Places[m], Places'[m]>> \in Edges
    BY <1>2, OneMoves
  <2>2. Places = [m \in Known |-> Places[m]] /\ Places' = [m \in Known |-> Places'[m]]
    BY DEF Places
  <2>3. CASE \A m \in Known : Places'[m] = Places[m]
    BY <2>2, <2>3
  <2>4. CASE ~ \A m \in Known : Places'[m] = Places[m]
    <3>1. n \in Known /\ <<Places[n], Places'[n]>> \in Edges
      BY <2>1, <2>4
    <3>2. Places' = [Places EXCEPT ![n] = Places'[n]]
      BY <2>1, <2>2
    <3> DEFINE from == Places[n]
               to == Places'[n]
    <3>3. Presences!Moves(n, from, to)
      BY <3>2 DEF Presences!Moves, Places
    <3>4. <<from, to>> \in Edges
      BY <3>1
    <3> HIDE DEF from, to
    <3> QED
      BY <3>1, <3>3, <3>4 DEF Edges, Downs, Ups, Presences!PNext, Presences!Login,
         Presences!Enter, Presences!Leave, Presences!LoseLink, Presences!Reconnect,
         Presences!Depart
  <2> QED
    BY <2>3, <2>4
<1> QED
  BY <1>1, <1>2

(* At the start nobody is anywhere. *)
LEMMA NobodyYet ==
    ASSUME Init
    PROVE  Presences!PInit
<1>1. \A d \in Desc : sock[d].con = "closed"
  BY DEF Init, NoSocket
<1>2. \A b \in Body : body[b].kind # "pc"
  BY DEF Init, NoChar
<1>3. ToSet(people) = Mob /\ Mob \subseteq Body
  BY MobAssumption DEF Init
<1>4. ASSUME NEW n \in Known PROVE WhereIs(n) = "out"
  <2>1. ~ \E d \in Desc : Playing(d) /\ NameOf(World, Player(World, d)) = n
    BY <1>1 DEF Playing
  <2>2. ~ \E b \in ToSet(people) : Linkdead(World, b, n)
    BY <1>2, <1>3 DEF Linkdead, World
  <2>3. Bearers(n) = {}
    BY <1>2 DEF Bearers
  <2> QED
    BY <2>1, <2>2, <2>3 DEF WhereIs
<1> QED
  BY <1>4 DEF Presences!PInit

(* The login, the commands and the ways a connection ends implement what is
   promised of a player: one that nanny has let in comes to the menu and from
   there plays, one that loses its link in close_socket stands in the world
   until con_pwdok gives it back the body it had, and is never also at the menu
   with another; one that is deleted was at the menu.  For every character that
   has existed since the start, while no new name is disputed; without
   immortals, whom a force rent can take from the world while they are in
   another body. *)
THEOREM PlayersComeAndGo ==
    ASSUME Gods = {}
    PROVE  Spec /\ []Undisputed => ImplementsPresence
<1>1. Init => Presences!PInit
  BY NobodyYet
<1>2. IndInv /\ Undisputed => Somewhere
  BY BodiesTell
<1>3. IndInv /\ Undisputed' /\ Somewhere /\ Somewhere' /\ [Next]_vars
        => Presences!PNext \/ Places' = Places
  BY PresenceSteps
<1>4. IndInv /\ Undisputed' /\ Somewhere /\ Somewhere' /\ [Next]_vars
        => [Presences!PNext]_([n \in Known |-> WhereIs(n)])
  BY <1>3 DEF Places
<1> QED
  BY <1>1, <1>2, <1>4, SpecIndInv, PTL DEF Spec, ImplementsPresence, Presences!PSpec
=============================================================================
