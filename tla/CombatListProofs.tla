-------------------------- MODULE CombatListProofs --------------------------
(***************************************************************************)
(* What the functions of fight.cpp make of a sound combat list, for any    *)
(* number of fighters and of attackers a victim has room for.              *)
(***************************************************************************)
EXTENDS CombatList, ListProofs

USE NullIsNoChar, CharIsFinite, AttackersAssumption

\* The list links exactly those that have an opponent, each once, the
\* remembered fighter is one of them, and no victim counts attackers it has not.
Sound(f) ==
    /\ f \in Combat
    /\ IsInjective(f.list)
    /\ ToSet(f.list) = Fighters(f)
    /\ f.next \in Fighters(f) \cup {Null}
    /\ \A v \in Char : f.attackers[v] <= Cardinality(Foes(f, v))

\* All who fight or are fought are members of a set.
Within(f, world) == \A c \in Fighters(f) : {c, f.fighting[c]} \subseteq world

(* The fields of a combat list. *)
LEMMA CombatFields ==
    ASSUME NEW f \in Combat
    PROVE  /\ f.list \in Seq(Char)
           /\ f.fighting \in [Char -> Char \cup {Null}]
           /\ f.attackers \in [Char -> 0 .. MaxAttackers]
           /\ f.next \in Char \cup {Null}
           /\ \A c \in Char : f.attackers[c] \in 0 .. MaxAttackers
                              /\ f.fighting[c] \in Char \cup {Null}
  BY DEF Combat

(* A combat list whose fields are replaced is one. *)
LEMMA CombatUpdate ==
    ASSUME NEW f \in Combat, NEW list \in Seq(Char),
           NEW fighting \in [Char -> Char \cup {Null}],
           NEW attackers \in [Char -> 0 .. MaxAttackers], NEW next \in Char \cup {Null}
    PROVE  [f EXCEPT !.list = list, !.fighting = fighting,
                     !.attackers = attackers, !.next = next] \in Combat
  BY DEF Combat

(* Every set of characters can be counted. *)
LEMMA FoesAreFinite ==
    ASSUME NEW f, NEW v
    PROVE  IsFiniteSet(Foes(f, v)) /\ Cardinality(Foes(f, v)) \in Nat
<1>1. Foes(f, v) \in SUBSET Char
  BY DEF Foes
<1> QED
  BY <1>1, FS_Subset, FS_CardinalityType

(* A game without a fight. *)
LEMMA PeaceSound == Sound(Peace) /\ Fighters(Peace) = {} /\ Peace.next = Null
<1>1. Fighters(Peace) = {}
  BY DEF Fighters, Peace
<1>2. Peace \in Combat
  BY DEF Peace, Combat
<1>3. IsInjective(Peace.list) /\ ToSet(Peace.list) = {}
  BY DEF Peace, IsInjective, ToSet
<1>4. \A v \in Char : Peace.attackers[v] <= Cardinality(Foes(Peace, v))
  <2> TAKE v \in Char
  <2>1. Peace.attackers[v] = 0
    BY DEF Peace
  <2>2. Cardinality(Foes(Peace, v)) \in Nat
    BY FoesAreFinite
  <2> QED
    BY <2>1, <2>2
<1>5. Peace.next = Null
  BY DEF Peace
<1> QED
  BY <1>1, <1>2, <1>3, <1>4, <1>5 DEF Sound

(* set_fighting links a newcomer at the head and counts it if there is room. *)
LEMMA SetFightingSound ==
    ASSUME NEW f, Sound(f), NEW ch \in Char, NEW vict \in Char
    PROVE  LET g == SetFighting(f, ch, vict)
           IN  /\ Sound(g)
               /\ g.next = f.next
               /\ g.fighting = IF ch \in Fighters(f) THEN f.fighting
                               ELSE [f.fighting EXCEPT ![ch] = vict]
<1> DEFINE g == SetFighting(f, ch, vict)
<1>0. /\ f \in Combat /\ IsInjective(f.list) /\ ToSet(f.list) = Fighters(f)
      /\ f.next \in Fighters(f) \cup {Null}
      /\ \A v \in Char : f.attackers[v] <= Cardinality(Foes(f, v))
  BY DEF Sound
<1>1. CASE ch \in Fighters(f)
  <2>1. g = f
    BY <1>1 DEF SetFighting
  <2> QED
    BY <1>1, <2>1
<1>2. CASE ch \notin Fighters(f)
  <2>1. /\ f.list \in Seq(Char)
        /\ f.fighting \in [Char -> Char \cup {Null}]
        /\ f.attackers \in [Char -> 0 .. MaxAttackers]
        /\ f.next \in Char \cup {Null}
    BY <1>0, CombatFields
  <2>2. g = [f EXCEPT !.list = << ch >> \o @,
                      !.fighting[ch] = vict,
                      !.attackers[vict] = IF @ < MaxAttackers THEN @ + 1 ELSE @]
    BY <1>2 DEF SetFighting
  <2>3. /\ g.list = << ch >> \o f.list
        /\ g.fighting = [f.fighting EXCEPT ![ch] = vict]
        /\ g.attackers = [f.attackers EXCEPT ![vict] = IF @ < MaxAttackers THEN @ + 1 ELSE @]
        /\ g.next = f.next
    BY <1>0, <2>2 DEF Combat
  <2>4. g.list \in Seq(Char) /\ IsInjective(g.list)
        /\ ToSet(g.list) = Fighters(f) \cup {ch}
    BY <1>0, <1>2, <2>1, <2>3, LinkedProps
  <2>5. g.attackers \in [Char -> 0 .. MaxAttackers]
    BY <2>1, <2>3
  <2>6. g \in Combat
    <3>1. g.fighting \in [Char -> Char \cup {Null}]
      BY <2>1, <2>3
    <3> QED
      BY <1>0, <2>2, <2>3, <2>4, <2>5, <3>1, <2>1 DEF Combat
  <2>7. Fighters(g) = Fighters(f) \cup {ch}
    BY <2>1, <2>3 DEF Fighters
  <2>8. f.fighting[ch] = Null
    BY <1>2 DEF Fighters
  <2>9. \A v \in Char : g.attackers[v] <= Cardinality(Foes(g, v))
    <3> TAKE v \in Char
    <3>1. /\ IsFiniteSet(Foes(f, v)) /\ Cardinality(Foes(f, v)) \in Nat
          /\ f.attackers[v] <= Cardinality(Foes(f, v)) /\ f.attackers[v] \in Nat
      BY <1>0, <2>1, FoesAreFinite
    <3>2. CASE v = vict
      <4>1. Foes(g, v) = Foes(f, v) \cup {ch} /\ ch \notin Foes(f, v)
        BY <2>1, <2>3, <2>8, <3>2 DEF Foes
      <4>2. Cardinality(Foes(g, v)) = Cardinality(Foes(f, v)) + 1
        BY <3>1, <4>1, FS_AddElement
      <4>3. g.attackers[v] \in {f.attackers[v], f.attackers[v] + 1}
        BY <2>1, <2>3, <3>2
      <4> QED
        BY <3>1, <4>2, <4>3
    <3>3. CASE v # vict
      <4>1. Foes(g, v) = Foes(f, v)
        BY <2>1, <2>3, <2>8, <3>3 DEF Foes
      <4>2. g.attackers[v] = f.attackers[v]
        BY <2>1, <2>3, <3>3
      <4> QED
        BY <3>1, <4>1, <4>2
    <3> QED
      BY <3>2, <3>3
  <2> HIDE DEF g
  <2>10. Sound(g)
    BY <1>0, <2>3, <2>4, <2>6, <2>7, <2>9 DEF Sound
  <2> QED
    BY <1>2, <2>3, <2>10 DEF g
<1> QED
  BY <1>1, <1>2

(* Those whose turn is to come are fighters, each once, the remembered one
   first. *)
LEMMA UpcomingProps ==
    ASSUME NEW f, Sound(f)
    PROVE  /\ Upcoming(f) \in Seq(Char)
           /\ IsInjective(Upcoming(f))
           /\ ToSet(Upcoming(f)) \subseteq Fighters(f)
           /\ f.next = Null => Upcoming(f) = << >>
           /\ f.next # Null => Upcoming(f) # << >> /\ Head(Upcoming(f)) = f.next
<1> DEFINE u == Upcoming(f)
<1>0. /\ f.list \in Seq(Char) /\ IsInjective(f.list) /\ ToSet(f.list) = Fighters(f)
      /\ f.next \in Fighters(f) \cup {Null}
  BY CombatFields DEF Sound
<1>1. CASE f.next = Null
  <2>1. u = << >>
    BY <1>1 DEF Upcoming
  <2>2. IsInjective(<< >>) /\ ToSet(<< >>) = {}
    BY DEF IsInjective, ToSet
  <2> QED
    BY <1>1, <2>1, <2>2
<1>2. CASE f.next # Null
  <2> DEFINE at == CHOOSE i \in DOMAIN f.list : f.list[i] = f.next
             n == Len(f.list)
  <2>1. \E i \in DOMAIN f.list : f.list[i] = f.next
    BY <1>0, <1>2 DEF ToSet
  <2>2. at \in DOMAIN f.list /\ f.list[at] = f.next
    BY <2>1
  <2>3. Contains(f.list, f.next)
    BY <2>1 DEF Contains
  <2>4. u = SubSeq(f.list, at, n)
    BY <1>2, <2>3 DEF Upcoming
  <2> HIDE DEF at
  <2>5. /\ n \in Nat /\ DOMAIN f.list = 1 .. n /\ at \in 1 .. n
        /\ \A i \in 1 .. n : f.list[i] \in Char
    BY <1>0, <2>2
  <2>6. /\ u \in Seq(Char) /\ Len(u) = n - at + 1
        /\ \A i \in 1 .. n - at + 1 : u[i] = f.list[at + i - 1]
    BY <2>4, <2>5
  <2> HIDE DEF u
  <2>7. DOMAIN u = 1 .. n - at + 1
    BY <2>6
  <2>8. \A i \in DOMAIN u : at + i - 1 \in DOMAIN f.list /\ u[i] = f.list[at + i - 1]
    BY <2>5, <2>6, <2>7
  <2>9. ToSet(u) \subseteq Fighters(f)
    BY <1>0, <2>8 DEF ToSet
  <2>10. IsInjective(u)
    <3> SUFFICES ASSUME NEW i \in DOMAIN u, NEW j \in DOMAIN u, u[i] = u[j] PROVE i = j
      BY DEF IsInjective
    <3>1. at + i - 1 = at + j - 1
      BY <1>0, <2>8 DEF IsInjective
    <3> QED
      BY <2>5, <2>7, <3>1
  <2>11. u # << >> /\ Head(u) = f.next
    <3>1. 1 \in DOMAIN u
      BY <2>5, <2>7
    <3>2. u[1] = f.list[at]
      BY <2>5, <2>8, <3>1
    <3> QED
      BY <2>2, <2>6, <3>1, <3>2
  <2> QED
    BY <1>2, <2>6, <2>9, <2>10, <2>11 DEF u
<1> QED
  BY <1>1, <1>2

(* The first of a sequence is one of its elements, unless it has none. *)
LEMMA FirstOfProps ==
    ASSUME NEW s \in Seq(Char)
    PROVE  /\ FirstOf(s) \in ToSet(s) \cup {Null}
           /\ FirstOf(s) = Null <=> s = << >>
<1>1. CASE s = << >>
  BY <1>1 DEF FirstOf
<1>2. CASE s # << >>
  <2>1. 1 \in DOMAIN s /\ Head(s) = s[1] /\ s[1] \in Char
    BY <1>2
  <2> QED
    BY <1>2, <2>1 DEF FirstOf, ToSet
<1> QED
  BY <1>1, <1>2

(* stop_fighting: those who leave have no opponent, the others keep theirs; the
   remembered fighter is one that stays. *)
LEMMA StopFightingSound ==
    ASSUME NEW f, Sound(f), NEW who
    PROVE  LET g == StopFighting(f, who)
           IN  /\ Sound(g)
               /\ f.next = Null => g.next = Null
               /\ g.fighting = [c \in Char |-> IF c \in who THEN Null ELSE f.fighting[c]]
               /\ g.list = Staying(f.list, who)
<1> DEFINE gone == who \cap Fighters(f)
           g == StopFighting(f, who)
           fighting == [c \in Char |-> IF c \in gone THEN Null ELSE f.fighting[c]]
           attackers == [v \in Char |->
                           Max({0, f.attackers[v] - Cardinality(gone \cap Foes(f, v))})]
<1>0. /\ f \in Combat /\ IsInjective(f.list) /\ ToSet(f.list) = Fighters(f)
      /\ f.next \in Fighters(f) \cup {Null}
      /\ \A v \in Char : f.attackers[v] <= Cardinality(Foes(f, v))
  BY DEF Sound
<1>1. /\ f.list \in Seq(Char)
      /\ f.fighting \in [Char -> Char \cup {Null}]
      /\ f.attackers \in [Char -> 0 .. MaxAttackers]
      /\ f.next \in Char \cup {Null}
  BY <1>0, CombatFields
<1>2. /\ g.list = Staying(f.list, gone) /\ g.fighting = fighting
      /\ g.attackers = attackers /\ g.next = FirstOf(Staying(Upcoming(f), gone))
      /\ g = [f EXCEPT !.list = g.list, !.fighting = g.fighting,
                       !.attackers = g.attackers, !.next = g.next]
  <2> DEFINE list == Staying(f.list, gone)
             next == FirstOf(Staying(Upcoming(f), gone))
  <2>1. g = [[f EXCEPT !.list = list, !.fighting = fighting, !.attackers = attackers]
                EXCEPT !.next = next]
    BY Zenon DEF StopFighting, Unlinked
  <2> HIDE DEF list, next, fighting, attackers, g
  <2>2. /\ g.list = list /\ g.fighting = fighting
        /\ g.attackers = attackers /\ g.next = next
        /\ g = [f EXCEPT !.list = g.list, !.fighting = g.fighting,
                         !.attackers = g.attackers, !.next = g.next]
    BY <1>0, <2>1 DEF Combat
  <2> QED
    BY <2>2 DEF list, next
<1> HIDE DEF g
<1>3. /\ g.list \in Seq(Char) /\ IsInjective(g.list)
      /\ ToSet(g.list) = Fighters(f) \ gone
  <2>1. g.list = Staying(f.list, gone)
    BY <1>2
  <2> QED
    BY <1>0, <1>1, <2>1, StayingProps
<1>4. g.fighting = fighting /\ fighting \in [Char -> Char \cup {Null}]
  BY <1>1, <1>2
<1>5. fighting = [c \in Char |-> IF c \in who THEN Null ELSE f.fighting[c]]
  BY <1>1 DEF Fighters
<1>6. Fighters(g) = Fighters(f) \ gone
  BY <1>4 DEF Fighters
<1>7. g.attackers = attackers
  BY <1>2
<1>8. ASSUME NEW v \in Char
      PROVE  g.attackers[v] \in 0 .. MaxAttackers
             /\ g.attackers[v] <= Cardinality(Foes(g, v))
  <2> DEFINE lost == gone \cap Foes(f, v)
             n == f.attackers[v] - Cardinality(lost)
  <2>1. /\ IsFiniteSet(Foes(f, v)) /\ Cardinality(Foes(f, v)) \in Nat
        /\ f.attackers[v] <= Cardinality(Foes(f, v)) /\ f.attackers[v] \in 0 .. MaxAttackers
    BY <1>0, <1>1, FoesAreFinite
  <2>2. Foes(g, v) = Foes(f, v) \ gone
    BY <1>1, <1>4 DEF Foes, Fighters
  <2>3. lost = Foes(f, v) \cap gone
    OBVIOUS
  <2>4. Cardinality(Foes(g, v)) = Cardinality(Foes(f, v)) - Cardinality(lost)
    <3>1. Cardinality(Foes(f, v) \ gone)
          = Cardinality(Foes(f, v)) - Cardinality(Foes(f, v) \cap gone)
      BY <2>1, FS_Difference
    <3> QED
      BY <2>2, <2>3, <3>1
  <2>5. Cardinality(lost) \in Nat
    BY <2>1, <2>3, FS_Intersection, FS_CardinalityType
  <2>6. Cardinality(Foes(g, v)) \in Nat
    BY FoesAreFinite
  <2> HIDE DEF lost
  <2>7. n \in Int /\ n <= MaxAttackers /\ n <= Cardinality(Foes(g, v))
    BY <2>1, <2>4, <2>5
  <2>8. Max({0, n}) \in {0, n} /\ 0 <= Max({0, n})
    <3> HIDE DEF n
    <3>1. \E x \in {0, n} : \A y \in {0, n} : x >= y
      BY <2>7
    <3> QED
      BY <2>7, <3>1 DEF Max
  <2>9. g.attackers[v] = Max({0, n})
    BY <1>7 DEF lost
  <2> HIDE DEF n
  <2> QED
    BY <2>6, <2>7, <2>8, <2>9
<1>9. /\ g.next \in Fighters(g) \cup {Null}
      /\ f.next = Null => g.next = Null
  <2> DEFINE u == Upcoming(f)
  <2>1. u \in Seq(Char) /\ ToSet(u) \subseteq Fighters(f) /\ (f.next = Null => u = << >>)
    BY UpcomingProps
  <2>2. Staying(u, gone) \in Seq(Char) /\ ToSet(Staying(u, gone)) = ToSet(u) \ gone
    BY <2>1, StayingProps
  <2>3. g.next = FirstOf(Staying(u, gone))
    BY <1>2
  <2>4. FirstOf(Staying(u, gone)) \in ToSet(Staying(u, gone)) \cup {Null}
    BY <2>2, FirstOfProps
  <2>5. u = << >> => ToSet(u) = {}
    BY DEF ToSet
  <2> QED
    BY <1>6, <2>1, <2>2, <2>3, <2>4, <2>5
<1>10. g \in Combat
  <2>1. g.attackers \in [Char -> 0 .. MaxAttackers]
    BY <1>7, <1>8
  <2>2. g.next \in Char \cup {Null}
    BY <1>9 DEF Fighters
  <2>3. g.list \in Seq(Char) /\ g.fighting \in [Char -> Char \cup {Null}]
    BY <1>3, <1>4
  <2> HIDE DEF fighting, attackers, gone
  <2>4. [f EXCEPT !.list = g.list, !.fighting = g.fighting,
                  !.attackers = g.attackers, !.next = g.next] \in Combat
    BY <1>0, <2>1, <2>2, <2>3, CombatUpdate
  <2> QED
    BY <1>2, <2>4
<1>11. Sound(g)
  BY <1>3, <1>6, <1>8, <1>9, <1>10 DEF Sound
<1>12. g.list = Staying(f.list, who)
  <2>1. Kept(f.list, who) = Kept(f.list, gone)
    BY <1>0 DEF Kept, ToSet
  <2> QED
    BY <1>2, <2>1 DEF Staying
<1> QED
  BY <1>4, <1>5, <1>9, <1>11, <1>12 DEF g

(* Another fighter is remembered, the list is what it was. *)
LEMMA RememberedSound ==
    ASSUME NEW f, Sound(f), NEW next \in Fighters(f) \cup {Null}
    PROVE  LET g == [f EXCEPT !.next = next]
           IN  /\ Sound(g) /\ g.fighting = f.fighting /\ g.list = f.list
               /\ g.next = next
<1> DEFINE g == [f EXCEPT !.next = next]
<1>1. f \in Combat /\ next \in Char \cup {Null}
  BY DEF Sound, Fighters
<1>2. /\ g \in Combat /\ g.list = f.list /\ g.fighting = f.fighting
      /\ g.attackers = f.attackers /\ g.next = next
  BY <1>1 DEF Combat
<1> HIDE DEF g
<1>3. Fighters(g) = Fighters(f) /\ \A v \in Char : Foes(g, v) = Foes(f, v)
  BY <1>2 DEF Fighters, Foes
<1>4. Sound(g)
  BY <1>2, <1>3 DEF Sound
<1> QED
  BY <1>2, <1>4 DEF g

(* The two steps of the loop of perform_violence remember a fighter, or none. *)
LEMMA AtHeadSound ==
    ASSUME NEW f, Sound(f)
    PROVE  Sound(AtHead(f)) /\ AtHead(f).fighting = f.fighting /\ AtHead(f).list = f.list
<1>1. f.list \in Seq(Char) /\ ToSet(f.list) = Fighters(f)
  BY CombatFields DEF Sound
<1>2. FirstOf(f.list) \in Fighters(f) \cup {Null}
  BY <1>1, FirstOfProps
<1> QED
  BY <1>2, RememberedSound DEF AtHead

\* The same of the step that goes on from the remembered fighter.
LEMMA PastNextSound ==
    ASSUME NEW f, Sound(f)
    PROVE  /\ Sound(PastNext(f)) /\ PastNext(f).fighting = f.fighting
           /\ PastNext(f).list = f.list
<1> DEFINE u == Upcoming(f)
           next == IF u = << >> THEN Null ELSE FirstOf(Tail(u))
<1>1. u \in Seq(Char) /\ ToSet(u) \subseteq Fighters(f)
  BY UpcomingProps
<1>2. next \in Fighters(f) \cup {Null}
  <2> HIDE DEF u
  <2>1. CASE u # << >>
    <3>1. Tail(u) \in Seq(Char)
      BY <1>1, <2>1
    <3>2. ToSet(Tail(u)) \subseteq ToSet(u)
      <4>1. \A i \in DOMAIN Tail(u) : i + 1 \in DOMAIN u /\ Tail(u)[i] = u[i + 1]
        BY <1>1, <2>1
      <4> QED
        BY <4>1 DEF ToSet
    <3> QED
      BY <1>1, <2>1, <3>1, <3>2, FirstOfProps
  <2>2. CASE u = << >>
    BY <2>2
  <2> QED
    BY <2>1, <2>2
<1>3. PastNext(f) = [f EXCEPT !.next = next]
  BY DEF PastNext
<1> HIDE DEF next
<1> QED
  BY <1>2, <1>3, RememberedSound
-----------------------------------------------------------------------------
(* A combat list within a world stays within it *)

\* What a handler may do with the list: it is sound, all on it are in the world,
\* and nobody is remembered while no round is under way.
Lawful(f, world, idle) == Sound(f) /\ Within(f, world) /\ (idle => f.next = Null)

\* set_fighting of two who are in the world, fighting already or not.
LEMMA SetFightingLawful ==
    ASSUME NEW f, NEW world \in SUBSET Char, NEW idle, Lawful(f, world, idle),
           NEW ch \in world, NEW vict \in world
    PROVE  /\ Lawful(SetFighting(f, ch, vict), world, idle)
           /\ Lawful(SetCharFighting(f, ch, vict), world, idle)
<1> DEFINE g == SetFighting(f, ch, vict)
<1>1. f.fighting \in [Char -> Char \cup {Null}]
  BY CombatFields DEF Lawful, Sound
<1>2. /\ Sound(g) /\ g.next = f.next
      /\ g.fighting = IF ch \in Fighters(f) THEN f.fighting
                      ELSE [f.fighting EXCEPT ![ch] = vict]
  BY SetFightingSound DEF Lawful
<1> HIDE DEF g
<1>3. Within(g, world)
  BY <1>1, <1>2 DEF Lawful, Within, Fighters
<1>4. Lawful(g, world, idle)
  BY <1>2, <1>3 DEF Lawful
<1> QED
  BY <1>4 DEF g, SetCharFighting

\* stop_fighting of any fighters, the remembered one among them or not.
LEMMA StopFightingLawful ==
    ASSUME NEW f, NEW world \in SUBSET Char, NEW idle, Lawful(f, world, idle), NEW who
    PROVE  Lawful(StopFighting(f, who), world, idle)
<1> DEFINE g == StopFighting(f, who)
<1>1. f.fighting \in [Char -> Char \cup {Null}]
  BY CombatFields DEF Lawful, Sound
<1>2. /\ Sound(g) /\ (f.next = Null => g.next = Null)
      /\ g.fighting = [c \in Char |-> IF c \in who THEN Null ELSE f.fighting[c]]
  BY StopFightingSound DEF Lawful
<1> HIDE DEF g
<1>3. Within(g, world)
  BY <1>1, <1>2 DEF Lawful, Within, Fighters
<1>4. Lawful(g, world, idle)
  BY <1>2, <1>3 DEF Lawful
<1> QED
  BY <1>4 DEF g

(* Once a character and all who fight it have stopped, no pointer of the list
   leads to it. *)
LEMMA StopAllFightingLeavesNone ==
    ASSUME NEW f, NEW world \in SUBSET Char, NEW idle, Lawful(f, world, idle), NEW c \in Char
    PROVE  Lawful(StopAllFighting(f, c), world \ {c}, idle)
<1> DEFINE who == {c} \cup Foes(f, c)
           g == StopFighting(f, who)
<1>1. f.fighting \in [Char -> Char \cup {Null}]
  BY CombatFields DEF Lawful, Sound
<1>2. /\ Sound(g) /\ (f.next = Null => g.next = Null)
      /\ g.fighting = [x \in Char |-> IF x \in who THEN Null ELSE f.fighting[x]]
  <2> HIDE DEF who
  <2> QED
    BY StopFightingSound DEF Lawful
<1>3. StopAllFighting(f, c) = g
  BY DEF StopAllFighting
<1> HIDE DEF g
<1>4. Within(g, world \ {c})
  BY <1>1, <1>2 DEF Lawful, Within, Fighters, Foes
<1>5. Lawful(g, world \ {c}, idle)
  BY <1>2, <1>4 DEF Lawful
<1> QED
  BY <1>3, <1>5
-----------------------------------------------------------------------------
(* What a round sees of a step: some stay, in their order, others join before *)
(* them and wait for the next round                                           *)

\* From f to g those in stay have stayed and kept their order, all others of g
\* stand before them, and those that have a turn to come had it before.
Moved(f, g, stay) ==
    /\ stay \subseteq ToSet(f.list) /\ stay \subseteq ToSet(g.list)
    /\ \A x, y \in stay : Precedes(f.list, x, y) <=> Precedes(g.list, x, y)
    /\ \A x \in stay, y \in ToSet(g.list) \ stay : Precedes(g.list, y, x)
    /\ ToSet(Upcoming(g)) = ToSet(Upcoming(f)) \cap stay

Moves(f, g) == \E stay : Moved(f, g, stay)

(* Those whose turn is to come are those from the remembered fighter on. *)
LEMMA UpcomingEnd ==
    ASSUME NEW f, Sound(f)
    PROVE  /\ ToSet(Upcoming(f)) =
                {x \in ToSet(f.list) : f.next # Null /\ Precedes(f.list, f.next, x)}
           /\ \A x, y \in ToSet(Upcoming(f)) :
                Precedes(Upcoming(f), x, y) <=> Precedes(f.list, x, y)
<1> DEFINE s == f.list
           u == Upcoming(f)
<1>0. /\ s \in Seq(Char) /\ IsInjective(s) /\ ToSet(s) = Fighters(f)
      /\ f.next \in Fighters(f) \cup {Null}
  BY CombatFields DEF Sound
<1>1. CASE f.next = Null
  <2>1. u = << >>
    BY <1>1 DEF Upcoming
  <2>2. ToSet(<< >>) = {}
    BY DEF ToSet
  <2> QED
    BY <1>1, <2>1, <2>2
<1>2. CASE f.next # Null
  <2> DEFINE at == CHOOSE i \in DOMAIN s : s[i] = f.next
             n == Len(s)
  <2>1. \E i \in DOMAIN s : s[i] = f.next
    BY <1>0, <1>2 DEF ToSet
  <2>2. at \in DOMAIN s /\ s[at] = f.next
    BY <2>1
  <2>3. Contains(s, f.next)
    BY <2>1 DEF Contains
  <2>4. u = SubSeq(s, at, n)
    BY <1>2, <2>3 DEF Upcoming
  <2> HIDE DEF at
  <2>5. n \in Nat /\ DOMAIN s = 1 .. n /\ at \in 1 .. n + 1
    BY <1>0, <2>2
  <2> HIDE DEF s
  <2>6. /\ ToSet(u) = {s[i] : i \in at .. n}
        /\ \A x, y \in ToSet(u) : Precedes(u, x, y) <=> Precedes(s, x, y)
    BY <1>0, <2>4, <2>5, EndOfList
  <2> HIDE DEF u
  <2>7. \A i \in DOMAIN s : Precedes(s, s[at], s[i]) <=> at <= i
    BY <1>0, <2>2, BeforeOrders
  <2>8. ASSUME NEW x \in ToSet(s) PROVE x \in ToSet(u) <=> Precedes(s, f.next, x)
    <3>1. PICK i \in DOMAIN s : s[i] = x
      BY DEF ToSet
    <3>2. Precedes(s, f.next, x) <=> at <= i
      BY <2>2, <2>7, <3>1
    <3>3. x \in ToSet(u) => \E j \in at .. n : s[j] = x
      BY <2>6
    <3>4. \A j \in at .. n : s[j] = x => j = i
      BY <1>0, <2>5, <3>1 DEF IsInjective
    <3>5. at <= i => i \in at .. n
      BY <2>5
    <3>6. \A j \in at .. n : at <= j
      BY <2>5
    <3> QED
      BY <2>6, <3>1, <3>2, <3>3, <3>4, <3>5, <3>6
  <2>9. ASSUME NEW x \in ToSet(u) PROVE x \in ToSet(s)
    <3>1. PICK i \in at .. n : s[i] = x
      BY <2>6
    <3> QED
      BY <2>5, <3>1 DEF ToSet
  <2>10. ToSet(u) = {x \in ToSet(s) : f.next # Null /\ Precedes(s, f.next, x)}
    BY <1>2, <2>8, <2>9
  <2> QED
    BY <2>6, <2>10 DEF s, u
<1> QED
  BY <1>1, <1>2

(* Nothing has moved. *)
LEMMA MovesNot ==
    ASSUME NEW f, Sound(f)
    PROVE  Moves(f, f)
<1>1. ToSet(Upcoming(f)) \subseteq ToSet(f.list)
  BY UpcomingProps DEF Sound
<1>2. Moved(f, f, ToSet(f.list))
  BY <1>1 DEF Moved
<1> QED
  BY <1>2 DEF Moves

(* Two functions, one after the other. *)
LEMMA MovesTwice ==
    ASSUME NEW f, NEW g, NEW h, Sound(f), Sound(g), Sound(h), Moves(f, g), Moves(g, h)
    PROVE  Moves(f, h)
<1>1. PICK s : Moved(f, g, s)
  BY DEF Moves
<1>2. PICK t : Moved(g, h, t)
  BY DEF Moves
<1>3. s \cap t \subseteq ToSet(f.list) /\ s \cap t \subseteq ToSet(h.list)
  BY <1>1, <1>2 DEF Moved
<1>4. \A x, y \in s \cap t : Precedes(f.list, x, y) <=> Precedes(h.list, x, y)
  BY <1>1, <1>2 DEF Moved
<1>5. ASSUME NEW x \in s \cap t, NEW y \in ToSet(h.list) \ (s \cap t)
      PROVE  Precedes(h.list, y, x)
  <2>1. CASE y \notin t
    BY <1>2, <2>1 DEF Moved
  <2>2. CASE y \in t
    <3>1. y \in ToSet(g.list) \ s
      BY <1>2, <2>2 DEF Moved
    <3>2. Precedes(g.list, y, x)
      BY <1>1, <3>1 DEF Moved
    <3> QED
      BY <1>2, <2>2, <3>2 DEF Moved
  <2> QED
    BY <2>1, <2>2
<1>6. ToSet(Upcoming(h)) = ToSet(Upcoming(f)) \cap (s \cap t)
  BY <1>1, <1>2 DEF Moved
<1>7. Moved(f, h, s \cap t)
  BY <1>3, <1>4, <1>5, <1>6 DEF Moved
<1> QED
  BY <1>7 DEF Moves

(* set_fighting: the newcomer has to wait. *)
LEMMA SetFightingMoves ==
    ASSUME NEW f, Sound(f), NEW ch \in Char, NEW vict \in Char
    PROVE  /\ Moves(f, SetFighting(f, ch, vict))
           /\ Moves(f, SetCharFighting(f, ch, vict))
<1> DEFINE g == SetFighting(f, ch, vict)
<1>0. /\ f.list \in Seq(Char) /\ IsInjective(f.list) /\ ToSet(f.list) = Fighters(f)
      /\ f.next \in Fighters(f) \cup {Null} /\ f \in Combat
  BY CombatFields DEF Sound
<1>1. CASE ch \in Fighters(f)
  <2>1. g = f
    BY <1>1 DEF SetFighting
  <2> QED
    BY <2>1, MovesNot DEF SetCharFighting
<1>2. CASE ch \notin Fighters(f)
  <2>1. Sound(g) /\ g.next = f.next
    BY SetFightingSound
  <2>2. g.list = << ch >> \o f.list
    BY <1>0, <1>2 DEF SetFighting, Combat
  <2> HIDE DEF g
  <2>3. /\ g.list \in Seq(Char) /\ IsInjective(g.list)
        /\ ToSet(g.list) = ToSet(f.list) \cup {ch}
    BY <1>0, <1>2, <2>2, LinkedProps
  <2>4. /\ \A x \in ToSet(f.list) : Precedes(g.list, ch, x)
        /\ \A x, y \in ToSet(f.list) : Precedes(g.list, x, y) <=> Precedes(f.list, x, y)
    BY <1>0, <1>2, <2>2, LinkedOrder
  <2>5. f.next # Null => ~Precedes(g.list, f.next, ch)
    <3> SUFFICES ASSUME f.next # Null, Precedes(g.list, f.next, ch) PROVE FALSE
      OBVIOUS
    <3>1. f.next \in ToSet(f.list) /\ f.next # ch
      BY <1>0, <1>2
    <3>2. Precedes(g.list, ch, f.next)
      BY <2>4, <3>1
    <3> QED
      BY <2>3, <3>1, <3>2, BeforeOrders
  <2>6. ToSet(Upcoming(g)) = {x \in ToSet(g.list) : g.next # Null /\ Precedes(g.list, g.next, x)}
    BY <2>1, UpcomingEnd
  <2>7. ToSet(Upcoming(f)) = {x \in ToSet(f.list) : f.next # Null /\ Precedes(f.list, f.next, x)}
    BY UpcomingEnd
  <2>8. ToSet(Upcoming(g)) = ToSet(Upcoming(f))
    <3>1. f.next # Null => f.next \in ToSet(f.list)
      BY <1>0
    <3> QED
      BY <2>1, <2>3, <2>4, <2>5, <2>6, <2>7, <3>1
  <2>9. Moved(f, g, ToSet(f.list))
    BY <2>3, <2>4, <2>7, <2>8 DEF Moved
  <2>10. Moves(f, g) /\ Moves(f, f)
    BY <2>9, MovesNot DEF Moves
  <2> QED
    BY <2>10 DEF g, SetCharFighting
<1> QED
  BY <1>1, <1>2

(* stop_fighting: those who leave lose their turn, nobody else does. *)
LEMMA StopFightingMoves ==
    ASSUME NEW f, Sound(f), NEW who
    PROVE  /\ Moved(f, StopFighting(f, who), ToSet(f.list) \ who)
           /\ Moves(f, StopFighting(f, who))
<1> DEFINE g == StopFighting(f, who)
           s == f.list
           u == Upcoming(f)
           gone == who \cap Fighters(f)
           r == Staying(u, gone)
<1>0. /\ s \in Seq(Char) /\ IsInjective(s) /\ ToSet(s) = Fighters(f)
      /\ f.next \in Fighters(f) \cup {Null} /\ f \in Combat
  BY CombatFields DEF Sound
<1>1. Sound(g) /\ g.list = Staying(s, who)
  BY StopFightingSound
<1>2. g.next = FirstOf(r)
  BY <1>0 DEF StopFighting, Unlinked, Combat
<1> HIDE DEF g
<1>3. /\ g.list \in Seq(Char) /\ IsInjective(g.list) /\ ToSet(g.list) = ToSet(s) \ who
      /\ \A x, y \in ToSet(s) \ who : Precedes(g.list, x, y) <=> Precedes(s, x, y)
  BY <1>0, <1>1, StayingProps, StayingOrder
<1>4. u \in Seq(Char) /\ IsInjective(u) /\ ToSet(u) \subseteq ToSet(s)
  BY <1>0, UpcomingProps
<1>5. /\ ToSet(u) = {x \in ToSet(s) : f.next # Null /\ Precedes(s, f.next, x)}
      /\ \A x, y \in ToSet(u) : Precedes(u, x, y) <=> Precedes(s, x, y)
  BY UpcomingEnd
<1>6. ToSet(Upcoming(g)) = {x \in ToSet(g.list) : g.next # Null /\ Precedes(g.list, g.next, x)}
  BY <1>1, UpcomingEnd
<1> HIDE DEF u
<1>7. /\ r \in Seq(Char) /\ IsInjective(r) /\ ToSet(r) = ToSet(u) \ who
      /\ \A x, y \in ToSet(u) \ who : Precedes(r, x, y) <=> Precedes(s, x, y)
  <2>1. ToSet(u) \ gone = ToSet(u) \ who
    BY <1>0, <1>4
  <2>2. r \in Seq(Char) /\ IsInjective(r) /\ ToSet(r) = ToSet(u) \ gone
    BY <1>4, StayingProps
  <2>3. \A x, y \in ToSet(u) \ gone : Precedes(r, x, y) <=> Precedes(u, x, y)
    BY <1>4, StayingOrder
  <2> QED
    BY <1>5, <2>1, <2>2, <2>3
<1> HIDE DEF r, gone
<1>8. ToSet(Upcoming(g)) = ToSet(u) \ who
  <2>1. CASE r = << >>
    <3>1. g.next = Null
      BY <1>2, <2>1 DEF FirstOf
    <3>2. ToSet(r) = {}
      BY <2>1 DEF ToSet
    <3> QED
      BY <1>6, <1>7, <3>1, <3>2
  <2>2. CASE r # << >>
    <3>1. g.next = Head(r) /\ Head(r) \in ToSet(r) /\ \A x \in ToSet(r) : Precedes(r, Head(r), x)
      <4>1. Head(r) \in ToSet(r)
        BY <1>7, <2>2 DEF ToSet
      <4> QED
        BY <1>2, <1>7, <2>2, <4>1, HeadFirst DEF FirstOf
    <3>2. /\ g.next \in ToSet(u) \ who /\ g.next \in ToSet(s) \ who
          /\ g.next # Null /\ Precedes(s, f.next, g.next) /\ f.next # Null
      BY <1>0, <1>4, <1>5, <1>7, <3>1 DEF Fighters
    <3>3. ASSUME NEW x \in ToSet(u) \ who PROVE x \in ToSet(Upcoming(g))
      <4>1. Precedes(r, g.next, x)
        BY <1>7, <3>1
      <4>2. Precedes(s, g.next, x) /\ x \in ToSet(s) \ who
        BY <1>4, <1>7, <3>2, <4>1
      <4> QED
        BY <1>3, <1>6, <3>2, <4>2
    <3>4. ASSUME NEW x \in ToSet(Upcoming(g)) PROVE x \in ToSet(u) \ who
      <4>1. x \in ToSet(s) \ who /\ Precedes(g.list, g.next, x)
        BY <1>3, <1>6
      <4>2. Precedes(s, g.next, x)
        BY <1>3, <3>2, <4>1
      <4>3. Precedes(s, f.next, x)
        BY <1>0, <3>2, <4>2, BeforeOrders
      <4> QED
        BY <1>5, <3>2, <4>1, <4>3
    <3> QED
      BY <3>3, <3>4
  <2> QED
    BY <2>1, <2>2
<1>9. ToSet(u) \ who = ToSet(u) \cap (ToSet(s) \ who)
  BY <1>4
<1>10. Moved(f, g, ToSet(s) \ who)
  BY <1>3, <1>8, <1>9 DEF Moved, u
<1> QED
  BY <1>10 DEF Moves, g

(* The loop of perform_violence begins: everybody has a turn to come. *)
LEMMA AtHeadUpcoming ==
    ASSUME NEW f, Sound(f)
    PROVE  AtHead(f).list = f.list /\ ToSet(Upcoming(AtHead(f))) = ToSet(f.list)
<1> DEFINE g == AtHead(f)
<1>1. f.list \in Seq(Char) /\ IsInjective(f.list) /\ f \in Combat
  BY CombatFields DEF Sound
<1>2. Sound(g) /\ g.list = f.list
  BY AtHeadSound
<1>3. g.next = FirstOf(f.list)
  BY <1>1 DEF AtHead, Combat
<1> HIDE DEF g
<1>4. ToSet(Upcoming(g)) = {x \in ToSet(g.list) : g.next # Null /\ Precedes(g.list, g.next, x)}
  BY <1>2, UpcomingEnd
<1>5. ASSUME NEW x \in ToSet(f.list)
      PROVE  g.next # Null /\ Precedes(g.list, g.next, x)
  <2>1. f.list # << >> /\ Head(f.list) \in ToSet(f.list) /\ Precedes(f.list, Head(f.list), x)
    BY <1>1, HeadFirst
  <2>2. g.next = Head(f.list)
    BY <1>3, <2>1 DEF FirstOf
  <2>3. ToSet(f.list) \subseteq Char
    BY <1>1 DEF ToSet
  <2> QED
    BY <1>2, <2>1, <2>2, <2>3
<1> QED
  BY <1>2, <1>4, <1>5 DEF g

(* The loop goes on: the remembered fighter is the first of those that wait, and
   waits no longer. *)
LEMMA PastNextUpcoming ==
    ASSUME NEW f, Sound(f), f.next # Null
    PROVE  /\ PastNext(f).list = f.list
           /\ f.next \in ToSet(Upcoming(f))
           /\ ToSet(Upcoming(PastNext(f))) = ToSet(Upcoming(f)) \ {f.next}
           /\ Head(Staying(f.list, ToSet(f.list) \ ToSet(Upcoming(f)))) = f.next
<1> DEFINE g == PastNext(f)
           s == f.list
           u == Upcoming(f)
           w == Staying(s, ToSet(s) \ ToSet(u))
<1>0. /\ s \in Seq(Char) /\ IsInjective(s) /\ ToSet(s) = Fighters(f)
      /\ f.next \in Fighters(f) \cup {Null} /\ f \in Combat /\ ToSet(s) \subseteq Char
  BY CombatFields DEF Sound, Fighters
<1>1. Sound(g) /\ g.list = s
  BY PastNextSound
<1>2. u \in Seq(Char) /\ IsInjective(u) /\ ToSet(u) \subseteq ToSet(s)
      /\ u # << >> /\ Head(u) = f.next
  BY <1>0, UpcomingProps
<1>3. g.next = FirstOf(Tail(u))
  BY <1>0, <1>2 DEF PastNext, Combat
<1> HIDE DEF g
<1>4. /\ ToSet(u) = {x \in ToSet(s) : Precedes(s, f.next, x)}
      /\ \A x, y \in ToSet(u) : Precedes(u, x, y) <=> Precedes(s, x, y)
  BY UpcomingEnd
<1>5. ToSet(Upcoming(g)) = {x \in ToSet(s) : g.next # Null /\ Precedes(s, g.next, x)}
  BY <1>1, UpcomingEnd
<1> HIDE DEF u, s
<1>6. f.next \in ToSet(u)
  BY <1>2 DEF ToSet
<1>7. ASSUME NEW x \in ToSet(u), x # f.next
      PROVE  g.next \in ToSet(u) /\ Precedes(s, g.next, x)
  <2>1. PICK i \in DOMAIN u : u[i] = x
    BY DEF ToSet
  <2>2. i # 1 /\ Len(u) \in Nat /\ DOMAIN u = 1 .. Len(u) /\ i \in 2 .. Len(u)
    BY <1>2, <1>7, <2>1
  <2>3. Tail(u) # << >> /\ Head(Tail(u)) = u[2] /\ 2 \in DOMAIN u /\ 2 <= i
    <3>1. 2 \in 1 .. Len(u) /\ 2 <= i
      BY <2>2
    <3>2. /\ Tail(u) \in Seq(Char) /\ Len(Tail(u)) = Len(u) - 1
          /\ \A k \in 1 .. Len(u) - 1 : Tail(u)[k] = u[k + 1]
      BY <1>2
    <3>3. Len(Tail(u)) # 0 /\ Tail(u)[1] = u[2]
      BY <3>1, <3>2
    <3> QED
      BY <2>2, <3>1, <3>2, <3>3
  <2>4. g.next = u[2] /\ u[2] \in ToSet(u)
    BY <1>3, <2>3 DEF FirstOf, ToSet
  <2>5. Precedes(u, u[2], x)
    BY <2>1, <2>3 DEF Precedes
  <2> QED
    BY <1>4, <2>4, <2>5
<1>8. ASSUME g.next # Null
      PROVE  g.next \in ToSet(u) /\ g.next # f.next
  <2>1. Tail(u) # << >> /\ g.next = Head(Tail(u))
    BY <1>3, <1>8 DEF FirstOf
  <2>2. 1 \in DOMAIN u /\ 2 \in DOMAIN u /\ g.next = u[2] /\ f.next = u[1]
    BY <1>2, <2>1
  <2>3. u[1] # u[2]
    BY <1>2, <2>2 DEF IsInjective
  <2> QED
    BY <2>2, <2>3 DEF ToSet
<1>9. ToSet(Upcoming(g)) = ToSet(u) \ {f.next}
  <2>1. ASSUME NEW x \in ToSet(u) \ {f.next} PROVE x \in ToSet(Upcoming(g))
    BY <1>0, <1>2, <1>5, <1>7
  <2>2. ASSUME NEW x \in ToSet(Upcoming(g)) PROVE x \in ToSet(u) \ {f.next}
    <3>1. x \in ToSet(s) /\ Precedes(s, g.next, x) /\ g.next \in ToSet(u) /\ g.next # f.next
      BY <1>5, <1>8
    <3>2. Precedes(s, f.next, g.next)
      BY <1>4, <3>1
    <3>3. Precedes(s, f.next, x)
      BY <1>0, <3>1, <3>2, BeforeOrders
    <3>4. x # f.next
      BY <1>0, <3>1, <3>2, BeforeOrders
    <3> QED
      BY <1>4, <3>1, <3>3, <3>4
  <2> QED
    BY <2>1, <2>2
<1>10. /\ w \in Seq(Char) /\ IsInjective(w) /\ ToSet(w) = ToSet(u)
       /\ \A x, y \in ToSet(u) : Precedes(w, x, y) <=> Precedes(s, x, y)
  <2>1. ToSet(s) \ (ToSet(s) \ ToSet(u)) = ToSet(u)
    BY <1>2
  <2>2. \A x, y \in ToSet(s) \ (ToSet(s) \ ToSet(u)) : Precedes(w, x, y) <=> Precedes(s, x, y)
    BY <1>0, StayingOrder
  <2>3. w \in Seq(Char) /\ IsInjective(w) /\ ToSet(w) = ToSet(s) \ (ToSet(s) \ ToSet(u))
    BY <1>0, StayingProps
  <2> HIDE DEF w
  <2> QED
    BY <2>1, <2>2, <2>3
<1> HIDE DEF w
<1>11. Head(w) = f.next
  <2>1. Head(w) \in ToSet(w) /\ Precedes(w, Head(w), f.next)
    BY <1>6, <1>10, HeadFirst
  <2>2. Precedes(s, Head(w), f.next) /\ Precedes(s, f.next, Head(w))
    BY <1>4, <1>6, <1>10, <2>1
  <2> QED
    BY <1>0, <2>2, BeforeOrders
<1> QED
  BY <1>1, <1>6, <1>9, <1>11 DEF g, u, s, w
=============================================================================
