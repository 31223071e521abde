---------------------------- MODULE MortalsProofs ----------------------------
(***************************************************************************)
(* Mortals for every set of addresses and any number of attackers and      *)
(* events: the combat list, the packs and the recovery stay sound, whoever *)
(* dies, flees or is freed, and in whatever order.                         *)
(***************************************************************************)
EXTENDS Mortals, CombatListProofs

USE NullIsNoChar, MaxEventsAssumption

-----------------------------------------------------------------------------
(* Recovery *)

\* The events of a character are accounted for: its pointer refers to one that
\* is queued, memory that is free is blank, there is room for the event a living
\* character may need, and only where another's may still be queued does a
\* character have more than the one its pointer refers to.
Counted(r, st, h) ==
    /\ r \in Recovery
    /\ \A c \in Char :
        /\ r.armed[c] => r.queued[c] > 0
        /\ st[c] = "free" => ~r.hurt[c] /\ ~r.armed[c]
        /\ st[c] # "free" /\ ~r.armed[c] => r.queued[c] < MaxEvents
        /\ st[c] # "free" /\ c \notin h => r.queued[c] = IF r.armed[c] THEN 1 ELSE 0

\* Whoever is in play and hurt has its event.
Heals(r, st) ==
    \A c \in Char : st[c] \in {"mob", "pc"} /\ r.hurt[c] /\ ~r.ill[c] => r.armed[c]

(* The fields of a recovery. *)
LEMMA RecoveryFields ==
    ASSUME NEW r \in Recovery
    PROVE  /\ r.hurt \in [Char -> BOOLEAN] /\ r.ill \in [Char -> BOOLEAN]
           /\ r.armed \in [Char -> BOOLEAN] /\ r.queued \in [Char -> 0 .. MaxEvents]
           /\ \A c \in Char : /\ r.hurt[c] \in BOOLEAN /\ r.ill[c] \in BOOLEAN
                              /\ r.armed[c] \in BOOLEAN /\ r.queued[c] \in 0 .. MaxEvents
  BY DEF Recovery

(* alter_hit for a set queues an event for each of them that is hurt and has
   none, and leaves the events accounted for. *)
LEMMA AlterHitsCounts ==
    ASSUME NEW r, NEW st, NEW h, Counted(r, st, h), NEW who \in SUBSET Char
    PROVE  LET q == AlterHits(r, who)
           IN  /\ Counted(q, st, h)
               /\ q.hurt = r.hurt /\ q.ill = r.ill
               /\ \A c \in Char : q.armed[c] <=> r.armed[c] \/ (c \in who /\ r.hurt[c])
<1> DEFINE new == {c \in who : r.hurt[c] /\ ~r.armed[c]}
           q == AlterHits(r, who)
           armed == [c \in Char |-> r.armed[c] \/ c \in new]
           queued == [c \in Char |-> IF c \in new THEN r.queued[c] + 1 ELSE r.queued[c]]
<1>1. /\ r \in Recovery
      /\ r.hurt \in [Char -> BOOLEAN] /\ r.ill \in [Char -> BOOLEAN]
      /\ r.armed \in [Char -> BOOLEAN] /\ r.queued \in [Char -> 0 .. MaxEvents]
  BY RecoveryFields DEF Counted
<1>2. q = [r EXCEPT !.armed = armed, !.queued = queued]
  BY Zenon DEF AlterHits, Armed
<1>3. \A c \in new : r.hurt[c] /\ ~r.armed[c] /\ c \in Char
  OBVIOUS
<1>4. \A c \in Char : c \in who /\ r.hurt[c] /\ ~r.armed[c] => c \in new
  OBVIOUS
<1>5. new \subseteq Char
  OBVIOUS
<1> HIDE DEF new, q
<1>6. armed \in [Char -> BOOLEAN] /\ \A c \in Char : armed[c] <=> r.armed[c] \/ c \in new
  OBVIOUS
<1>7. \A c \in Char : queued[c] = IF c \in new THEN r.queued[c] + 1 ELSE r.queued[c]
  OBVIOUS
<1>8. \A c \in new : st[c] # "free" /\ r.queued[c] < MaxEvents
  BY <1>3 DEF Counted
<1>9. queued \in [Char -> 0 .. MaxEvents]
  <2> SUFFICES ASSUME NEW c \in Char PROVE queued[c] \in 0 .. MaxEvents
    OBVIOUS
  <2>1. r.queued[c] \in 0 .. MaxEvents
    BY <1>1
  <2> QED
    BY <1>7, <1>8, <2>1
<1> HIDE DEF armed, queued
<1>10. /\ q \in Recovery /\ q.hurt = r.hurt /\ q.ill = r.ill
       /\ q.armed = armed /\ q.queued = queued
  BY <1>1, <1>2, <1>6, <1>9 DEF Recovery
<1>11. \A c \in Char : q.armed[c] <=> r.armed[c] \/ (c \in who /\ r.hurt[c])
  <2> TAKE c \in Char
  <2>1. q.armed[c] <=> r.armed[c] \/ c \in new
    BY <1>6, <1>10
  <2>2. c \in new <=> c \in who /\ r.hurt[c] /\ ~r.armed[c]
    BY <1>3, <1>4 DEF new
  <2> QED
    BY Zenon, <2>1, <2>2
<1>12. ASSUME NEW c \in Char
       PROVE  /\ q.armed[c] => q.queued[c] > 0
              /\ st[c] = "free" => ~q.hurt[c] /\ ~q.armed[c]
              /\ st[c] # "free" /\ ~q.armed[c] => q.queued[c] < MaxEvents
              /\ st[c] # "free" /\ c \notin h => q.queued[c] = IF q.armed[c] THEN 1 ELSE 0
  <2>1. r.queued[c] \in 0 .. MaxEvents
    BY <1>1
  <2>2. CASE c \in new
    <3>1. q.armed[c] /\ q.queued[c] = r.queued[c] + 1 /\ ~r.armed[c] /\ st[c] # "free"
      BY <1>3, <1>6, <1>7, <1>8, <1>10, <2>2
    <3>2. c \notin h => r.queued[c] = 0
      BY <3>1 DEF Counted
    <3> QED
      BY <2>1, <3>1, <3>2
  <2>3. CASE c \notin new
    <3>1. (q.armed[c] <=> r.armed[c]) /\ q.queued[c] = r.queued[c] /\ q.hurt[c] = r.hurt[c]
      BY <1>6, <1>7, <1>10, <2>3
    <3> QED
      BY <3>1 DEF Counted
  <2> QED
    BY <2>2, <2>3
<1>13. Counted(q, st, h)
  BY <1>10, <1>12 DEF Counted
<1> QED
  BY <1>10, <1>11, <1>13 DEF q

\* Whoever is in play and hurt has its event, but for one character.
HealsBut(r, st, c) ==
    \A x \in Char \ {c} : st[x] \in {"mob", "pc"} /\ r.hurt[x] /\ ~r.ill[x] => r.armed[x]

(* alter_hit for one character makes good what it lacks. *)
LEMMA AlterHitHeals ==
    ASSUME NEW r, NEW st, NEW h, NEW c \in Char, Counted(r, st, h), HealsBut(r, st, c)
    PROVE  Counted(AlterHit(r, c), st, h) /\ Heals(AlterHit(r, c), st)
<1> DEFINE q == AlterHits(r, {c})
<1>1. /\ Counted(q, st, h)
      /\ q.hurt = r.hurt /\ q.ill = r.ill
      /\ \A x \in Char : q.armed[x] <=> r.armed[x] \/ (x \in {c} /\ r.hurt[x])
  BY AlterHitsCounts
<1> HIDE DEF q
<1>2. Heals(q, st)
  BY <1>1 DEF Heals, HealsBut
<1> QED
  BY <1>1, <1>2 DEF q, AlterHit

(* alter_hit for a set of those whose effects changed. *)
LEMMA AlterHitsHeals ==
    ASSUME NEW r, NEW st, NEW h, NEW who \in SUBSET Char, Counted(r, st, h), Heals(r, st)
    PROVE  Counted(AlterHits(r, who), st, h) /\ Heals(AlterHits(r, who), st)
<1> DEFINE q == AlterHits(r, who)
<1>1. /\ Counted(q, st, h)
      /\ q.hurt = r.hurt /\ q.ill = r.ill
      /\ \A x \in Char : q.armed[x] <=> r.armed[x] \/ (x \in who /\ r.hurt[x])
  BY AlterHitsCounts
<1> HIDE DEF q
<1>2. Heals(q, st)
  BY <1>1 DEF Heals
<1> QED
  BY <1>1, <1>2 DEF q

(* The hit points of a living character change, or the sign of its gain. *)
LEMMA EditCounts ==
    ASSUME NEW r, NEW st, NEW h, NEW c \in Char, NEW b \in BOOLEAN,
           Counted(r, st, h), HealsBut(r, st, c), st[c] # "free"
    PROVE  /\ Counted([r EXCEPT !.hurt[c] = b], st, h)
           /\ HealsBut([r EXCEPT !.hurt[c] = b], st, c)
           /\ Counted([r EXCEPT !.ill[c] = b], st, h)
           /\ HealsBut([r EXCEPT !.ill[c] = b], st, c)
<1>1. /\ r \in Recovery
      /\ r.hurt \in [Char -> BOOLEAN] /\ r.ill \in [Char -> BOOLEAN]
      /\ r.armed \in [Char -> BOOLEAN] /\ r.queued \in [Char -> 0 .. MaxEvents]
  BY RecoveryFields DEF Counted
<1>2. Counted([r EXCEPT !.hurt[c] = b], st, h) /\ HealsBut([r EXCEPT !.hurt[c] = b], st, c)
  <2> DEFINE q == [r EXCEPT !.hurt[c] = b]
  <2>1. /\ q \in Recovery /\ q.hurt = [r.hurt EXCEPT ![c] = b] /\ q.ill = r.ill
        /\ q.armed = r.armed /\ q.queued = r.queued
    BY <1>1 DEF Recovery
  <2> HIDE DEF q
  <2>2. \A x \in Char : x # c => q.hurt[x] = r.hurt[x]
    BY <1>1, <2>1
  <2> QED
    BY <2>1, <2>2 DEF Counted, HealsBut, q
<1>3. Counted([r EXCEPT !.ill[c] = b], st, h) /\ HealsBut([r EXCEPT !.ill[c] = b], st, c)
  <2> DEFINE q == [r EXCEPT !.ill[c] = b]
  <2>1. /\ q \in Recovery /\ q.ill = [r.ill EXCEPT ![c] = b] /\ q.hurt = r.hurt
        /\ q.armed = r.armed /\ q.queued = r.queued
    BY <1>1 DEF Recovery
  <2> HIDE DEF q
  <2>2. \A x \in Char : x # c => q.ill[x] = r.ill[x]
    BY <1>1, <2>1
  <2> QED
    BY <2>1, <2>2 DEF Counted, HealsBut, q
<1> QED
  BY <1>2, <1>3

(* Damage to a living character leaves it with an event. *)
LEMMA WoundHeals ==
    ASSUME NEW r, NEW st, NEW h, NEW c \in Char,
           Counted(r, st, h), HealsBut(r, st, c), st[c] # "free"
    PROVE  Counted(Wound(r, c), st, h) /\ Heals(Wound(r, c), st)
<1> DEFINE q == [r EXCEPT !.hurt[c] = TRUE]
<1>1. Counted(q, st, h) /\ HealsBut(q, st, c)
  BY EditCounts
<1> HIDE DEF q
<1>2. Counted(AlterHit(q, c), st, h) /\ Heals(AlterHit(q, c), st)
  BY <1>1, AlterHitHeals
<1> QED
  BY <1>2 DEF Wound, q

(* An event of a living character begins: the character has none until it is
   given the next one, and has room for it. *)
LEMMA BegunCounts ==
    ASSUME NEW r, NEW st, NEW h, NEW c \in Char, Counted(r, st, h), Heals(r, st),
           st[c] # "free", r.queued[c] > 0
    PROVE  /\ Counted(Begun(r, c), st, h) /\ HealsBut(Begun(r, c), st, c)
           /\ Begun(r, c).hurt = r.hurt /\ Begun(r, c).ill = r.ill
<1> DEFINE q == Begun(r, c)
<1>1. /\ r \in Recovery
      /\ r.hurt \in [Char -> BOOLEAN] /\ r.ill \in [Char -> BOOLEAN]
      /\ r.armed \in [Char -> BOOLEAN] /\ r.queued \in [Char -> 0 .. MaxEvents]
  BY RecoveryFields DEF Counted
<1>2. r.queued[c] - 1 \in 0 .. MaxEvents
  BY <1>1
<1>3. /\ q \in Recovery /\ q.hurt = r.hurt /\ q.ill = r.ill
      /\ q.armed = [r.armed EXCEPT ![c] = FALSE]
      /\ q.queued = [r.queued EXCEPT ![c] = r.queued[c] - 1]
  BY <1>1, <1>2 DEF Begun, Unqueued, Recovery
<1> HIDE DEF q
<1>4. \A x \in Char : x # c => q.armed[x] = r.armed[x] /\ q.queued[x] = r.queued[x]
  BY <1>1, <1>3
<1>5. ~q.armed[c] /\ q.queued[c] = r.queued[c] - 1
  BY <1>1, <1>3
<1>6. Counted(q, st, h)
  <2> SUFFICES ASSUME NEW x \in Char
               PROVE  /\ q.armed[x] => q.queued[x] > 0
                      /\ st[x] = "free" => ~q.hurt[x] /\ ~q.armed[x]
                      /\ st[x] # "free" /\ ~q.armed[x] => q.queued[x] < MaxEvents
                      /\ st[x] # "free" /\ x \notin h
                            => q.queued[x] = IF q.armed[x] THEN 1 ELSE 0
    BY <1>3 DEF Counted
  <2>1. CASE x = c
    <3>1. c \notin h => r.queued[c] = 1
      BY DEF Counted
    <3>2. q.queued[c] < MaxEvents
      BY <1>1, <1>5
    <3> QED
      BY <1>5, <2>1, <3>1, <3>2
  <2>2. CASE x # c
    BY <1>3, <1>4, <2>2 DEF Counted
  <2> QED
    BY <2>1, <2>2
<1>7. HealsBut(q, st, c)
  BY <1>3, <1>4 DEF Heals, HealsBut
<1> QED
  BY <1>3, <1>6, <1>7 DEF q

(* An event that finds free memory is dropped. *)
LEMMA UnqueuedCounts ==
    ASSUME NEW r, NEW st, NEW h, NEW c \in Char, Counted(r, st, h), Heals(r, st),
           st[c] = "free", r.queued[c] > 0
    PROVE  Counted(Unqueued(r, c), st, h) /\ Heals(Unqueued(r, c), st)
<1> DEFINE q == Unqueued(r, c)
<1>1. /\ r \in Recovery
      /\ r.hurt \in [Char -> BOOLEAN] /\ r.ill \in [Char -> BOOLEAN]
      /\ r.armed \in [Char -> BOOLEAN] /\ r.queued \in [Char -> 0 .. MaxEvents]
  BY RecoveryFields DEF Counted
<1>2. r.queued[c] - 1 \in 0 .. MaxEvents
  BY <1>1
<1>3. /\ q \in Recovery /\ q.hurt = r.hurt /\ q.ill = r.ill /\ q.armed = r.armed
      /\ q.queued = [r.queued EXCEPT ![c] = r.queued[c] - 1]
  BY <1>1, <1>2 DEF Unqueued, Recovery
<1> HIDE DEF q
<1>4. \A x \in Char : x # c => q.queued[x] = r.queued[x]
  BY <1>1, <1>3
<1>5. ~r.armed[c]
  BY DEF Counted
<1> QED
  BY <1>3, <1>4, <1>5 DEF Counted, Heals, q

(* A character is freed: its memory is blank, whatever is queued for it. *)
LEMMA FreedCounts ==
    ASSUME NEW r, NEW st \in [Char -> Stat], NEW h, NEW c \in Char,
           Counted(r, st, h), Heals(r, st), NEW new, new = [st EXCEPT ![c] = "free"]
    PROVE  Counted(Freed(r, c), new, h \ {c}) /\ Heals(Freed(r, c), new)
<1> DEFINE q == Freed(r, c)
<1>1. /\ r \in Recovery
      /\ r.hurt \in [Char -> BOOLEAN] /\ r.ill \in [Char -> BOOLEAN]
      /\ r.armed \in [Char -> BOOLEAN] /\ r.queued \in [Char -> 0 .. MaxEvents]
  BY RecoveryFields DEF Counted
<1>2. /\ q \in Recovery /\ q.queued = r.queued
      /\ q.hurt = [r.hurt EXCEPT ![c] = FALSE] /\ q.ill = [r.ill EXCEPT ![c] = FALSE]
      /\ q.armed = [r.armed EXCEPT ![c] = FALSE]
  BY <1>1 DEF Freed, Recovery
<1> HIDE DEF q
<1>3. ~q.hurt[c] /\ ~q.armed[c] /\ new[c] = "free"
  BY <1>1, <1>2
<1>4. \A x \in Char : x # c => /\ q.hurt[x] = r.hurt[x] /\ q.ill[x] = r.ill[x]
                               /\ q.armed[x] = r.armed[x] /\ new[x] = st[x]
  BY <1>1, <1>2
<1>5. Counted(q, new, h \ {c})
  BY <1>2, <1>3, <1>4 DEF Counted
<1>6. Heals(q, new)
  BY <1>3, <1>4 DEF Heals
<1> QED
  BY <1>5, <1>6 DEF q

(* A character is born with no more events than the address still has. *)
LEMMA BornCounts ==
    ASSUME NEW r, NEW st, NEW h, NEW c \in Char,
           Counted(r, st, h), Heals(r, st), st[c] = "free", r.queued[c] < MaxEvents,
           NEW new, NEW g, h \subseteq g, c \in g \/ ~(r.queued[c] > 0),
           \A x \in Char : x # c => new[x] = st[x]
    PROVE  Counted(r, new, g) /\ Heals(r, new)
<1>1. r.queued[c] \in 0 .. MaxEvents /\ ~r.hurt[c] /\ ~r.armed[c]
  BY RecoveryFields DEF Counted
<1>2. c \notin g => r.queued[c] = 0
  BY <1>1
<1>3. \A x \in Char : x # c => new[x] = st[x] /\ (x \notin g => x \notin h)
  OBVIOUS
<1>4. Counted(r, new, g)
  BY <1>1, <1>2, <1>3 DEF Counted
<1>5. Heals(r, new)
  BY <1>1, <1>3 DEF Heals
<1> QED
  BY <1>4, <1>5

(* A living character changes its standing and stays alive. *)
LEMMA StandingCounts ==
    ASSUME NEW r, NEW st \in [Char -> Stat], NEW h, NEW c \in Char, NEW as \in Stat,
           Counted(r, st, h), HealsBut(r, st, c), st[c] # "free", as # "free",
           NEW new, new = [st EXCEPT ![c] = as]
    PROVE  /\ Counted(r, new, h) /\ HealsBut(r, new, c)
           /\ as \notin {"mob", "pc"} => Heals(r, new)
<1>1. new[c] = as /\ \A x \in Char : x # c => new[x] = st[x]
  OBVIOUS
<1>2. Counted(r, new, h)
  BY <1>1 DEF Counted
<1>3. HealsBut(r, new, c) /\ (as \notin {"mob", "pc"} => Heals(r, new))
  BY <1>1 DEF Heals, HealsBut
<1> QED
  BY <1>2, <1>3

-----------------------------------------------------------------------------
(* Packs *)

Living(st) == {c \in Char : st[c] \in {"mob", "pc", "ld"}}

\* Lists and masters agree, each follower on one list, once; both are in the
\* world; SPELL_CHARM_PERSON sets the flag, keeps a mobile with a master, and no
\* effect outlives its bearer.
PackSound(p, st) ==
    /\ p \in Pack
    /\ \A l \in Char : IsInjective(p.followers[l])
    /\ \A c, l \in Char : c \in ToSet(p.followers[l]) <=> p.master[c] = l
    /\ \A c \in Char : p.master[c] # Null => {c, p.master[c]} \subseteq Living(st)
    /\ \A c \in Char : st[c] = "mob" /\ "charm" \in p.charms[c] => p.master[c] # Null
    /\ \A c \in Char : "charm" \in p.charms[c] => p.charmed[c]
    /\ \A c \in Char : st[c] = "free" => p.charms[c] = {}

(* The fields of a pack. *)
LEMMA PackFields ==
    ASSUME NEW p \in Pack
    PROVE  /\ p.master \in [Char -> Char \cup {Null}]
           /\ p.followers \in [Char -> Seq(Char)]
           /\ p.charms \in [Char -> SUBSET Charm]
           /\ p.charmed \in [Char -> BOOLEAN]
           /\ \A c \in Char : p.master[c] \in Char \cup {Null} /\ p.followers[c] \in Seq(Char)
  BY DEF Pack

(* stop_follower: those who leave are on no list and have no master, and lose
   SPELL_CHARM_PERSON; everybody else keeps what he had. *)
LEMMA StopFollowerSound ==
    ASSUME NEW p, NEW st, PackSound(p, st), NEW who
    PROVE  LET q == StopFollower(p, who)
           IN  /\ PackSound(q, st)
               /\ q.master = [c \in Char |-> IF c \in who THEN Null ELSE p.master[c]]
<1> DEFINE leaving == {c \in who : p.master[c] # Null}
           q == StopFollower(p, who)
           master == [c \in Char |-> IF c \in leaving THEN Null ELSE p.master[c]]
           followers == [l \in Char |-> Staying(p.followers[l], leaving)]
           charms == [c \in Char |-> IF c \in leaving /\ p.charmed[c]
                                     THEN p.charms[c] \ {"charm"} ELSE p.charms[c]]
           charmed == [c \in Char |-> c \notin leaving /\ p.charmed[c]]
<1>0. /\ p \in Pack
      /\ p.master \in [Char -> Char \cup {Null}]
      /\ p.followers \in [Char -> Seq(Char)]
      /\ p.charms \in [Char -> SUBSET Charm]
      /\ p.charmed \in [Char -> BOOLEAN]
  BY PackFields DEF PackSound
<1>1. \A c \in leaving : p.master[c] # Null
  OBVIOUS
<1>2. \A c \in who : c \notin leaving => p.master[c] = Null
  OBVIOUS
<1>3. q.master = master /\ q.followers = followers /\ q.charms = charms /\ q.charmed = charmed
  BY DEF StopFollower
<1>4. q = [master |-> master, followers |-> followers, charms |-> charms, charmed |-> charmed]
  BY Zenon DEF StopFollower
<1>5. leaving \subseteq who
  OBVIOUS
<1> HIDE DEF leaving, q
<1>6. \A l \in Char : /\ followers[l] \in Seq(Char)
                      /\ ToSet(followers[l]) = ToSet(p.followers[l]) \ leaving
                      /\ IsInjective(followers[l])
  <2> TAKE l \in Char
  <2>1. p.followers[l] \in Seq(Char) /\ IsInjective(p.followers[l])
    BY <1>0 DEF PackSound
  <2>2. followers[l] = Staying(p.followers[l], leaving)
    OBVIOUS
  <2> QED
    BY <2>1, <2>2, StayingProps
<1>7. master \in [Char -> Char \cup {Null}] /\ followers \in [Char -> Seq(Char)]
  BY <1>0, <1>6
<1>8. charms \in [Char -> SUBSET Charm] /\ charmed \in [Char -> BOOLEAN]
  BY <1>0
<1>9. q \in Pack
  <2> HIDE DEF master, followers, charms, charmed
  <2> QED
    BY <1>4, <1>7, <1>8 DEF Pack
<1>10. master = [c \in Char |-> IF c \in who THEN Null ELSE p.master[c]]
  BY <1>0, <1>2, <1>5
<1>11. \A c, l \in Char : c \in ToSet(q.followers[l]) <=> q.master[c] = l
  <2> TAKE c \in Char, l \in Char
  <2>1. c \in ToSet(p.followers[l]) <=> p.master[c] = l
    BY DEF PackSound
  <2>2. c \in ToSet(q.followers[l]) <=> c \in ToSet(p.followers[l]) /\ c \notin leaving
    BY <1>3, <1>6
  <2>3. q.master[c] = IF c \in leaving THEN Null ELSE p.master[c]
    BY <1>3
  <2> QED
    BY <2>1, <2>2, <2>3
<1>12. \A c \in Char : "charm" \in q.charms[c] =>
         c \notin leaving /\ "charm" \in p.charms[c] /\ q.master[c] = p.master[c] /\ q.charmed[c]
  <2> TAKE c \in Char
  <2>1. q.charms[c] = IF c \in leaving /\ p.charmed[c] THEN p.charms[c] \ {"charm"} ELSE p.charms[c]
    BY <1>3
  <2>2. "charm" \in p.charms[c] => p.charmed[c]
    BY DEF PackSound
  <2>3. q.charmed[c] <=> c \notin leaving /\ p.charmed[c]
    BY <1>3
  <2>4. q.master[c] = IF c \in leaving THEN Null ELSE p.master[c]
    BY <1>3
  <2> QED
    BY <2>1, <2>2, <2>3, <2>4
<1>13. \A c \in Char : st[c] = "free" => q.charms[c] = {}
  BY <1>3 DEF PackSound
<1>14. \A c \in Char : q.master[c] # Null => q.master[c] = p.master[c]
  BY <1>3
<1> HIDE DEF master, followers, charms, charmed
<1>15. PackSound(q, st)
  <2>1. \A l \in Char : IsInjective(q.followers[l])
    BY <1>3, <1>6
  <2> QED
    BY <1>9, <1>11, <1>12, <1>13, <1>14, <2>1 DEF PackSound
<1> QED
  BY <1>3, <1>10, <1>15 DEF q

(* add_follower: a living character without a master gets one. *)
LEMMA AddFollowerSound ==
    ASSUME NEW p, NEW st, PackSound(p, st), NEW c \in Living(st), NEW leader \in Living(st)
    PROVE  /\ PackSound(AddFollower(p, c, leader), st)
           /\ AddFollower(p, c, leader).master[c] # Null
<1> DEFINE q == AddFollower(p, c, leader)
<1>0. /\ p \in Pack
      /\ p.master \in [Char -> Char \cup {Null}]
      /\ p.followers \in [Char -> Seq(Char)]
      /\ p.charms \in [Char -> SUBSET Charm]
      /\ p.charmed \in [Char -> BOOLEAN]
      /\ c \in Char /\ leader \in Char
  BY PackFields DEF PackSound, Living
<1>1. CASE p.master[c] # Null
  BY <1>1 DEF AddFollower
<1>2. CASE p.master[c] = Null
  <2>1. q = [p EXCEPT !.master[c] = leader, !.followers[leader] = << c >> \o @]
    BY <1>2 DEF AddFollower
  <2> HIDE DEF q
  <2>2. c \notin ToSet(p.followers[leader])
    BY <1>0, <1>2 DEF PackSound
  <2>3. /\ << c >> \o p.followers[leader] \in Seq(Char)
        /\ ToSet(<< c >> \o p.followers[leader]) = ToSet(p.followers[leader]) \cup {c}
        /\ IsInjective(<< c >> \o p.followers[leader])
    BY <1>0, <2>2, LinkedProps DEF PackSound
  <2>4. /\ q \in Pack
        /\ q.master = [p.master EXCEPT ![c] = leader]
        /\ q.followers = [p.followers EXCEPT ![leader] = << c >> \o p.followers[leader]]
        /\ q.charms = p.charms /\ q.charmed = p.charmed
    BY <1>0, <2>1, <2>3 DEF Pack
  <2>5. \A l \in Char : /\ IsInjective(q.followers[l])
                        /\ ToSet(q.followers[l]) = ToSet(p.followers[l])
                                                   \cup (IF l = leader THEN {c} ELSE {})
    BY <1>0, <2>3, <2>4 DEF PackSound
  <2>6. q.master[c] = leader /\ \A x \in Char : x # c => q.master[x] = p.master[x]
    BY <1>0, <2>4
  <2>7. \A x, l \in Char : x \in ToSet(q.followers[l]) <=> q.master[x] = l
    <3> TAKE x \in Char, l \in Char
    <3>1. x \in ToSet(p.followers[l]) <=> p.master[x] = l
      BY DEF PackSound
    <3>2. ToSet(q.followers[l]) = ToSet(p.followers[l]) \cup (IF l = leader THEN {c} ELSE {})
      BY <2>5
    <3>3. p.master[c] # l
      BY <1>2, NullIsNoChar
    <3>4. CASE x = c
      BY <2>6, <3>1, <3>2, <3>3, <3>4
    <3>5. CASE x # c
      BY <2>6, <3>1, <3>2, <3>5
    <3> QED
      BY <3>4, <3>5
  <2>8. \A x \in Char : q.master[x] # Null => {x, q.master[x]} \subseteq Living(st)
    BY <2>6 DEF PackSound
  <2>9. leader # Null
    BY <1>0
  <2>10. PackSound(q, st)
    BY <2>4, <2>5, <2>6, <2>7, <2>8, <2>9 DEF PackSound
  <2> QED
    BY <1>2, <2>4, <2>6, <2>9, <2>10 DEF q
<1> QED
  BY <1>1, <1>2

(* A character leaves whom it follows, if anybody, and follows another. *)
LEMMA NewMasterSound ==
    ASSUME NEW p, NEW st, PackSound(p, st), NEW c \in Living(st), NEW leader \in Living(st)
    PROVE  /\ PackSound(NewMaster(p, c, leader), st)
           /\ NewMaster(p, c, leader).master[c] # Null
<1> DEFINE s == StopFollower(p, {c})
<1>1. PackSound(s, st)
  BY StopFollowerSound
<1> HIDE DEF s
<1>2. PackSound(AddFollower(s, c, leader), st)
  BY <1>1, AddFollowerSound
<1>3. AddFollower(s, c, leader).master[c] # Null
  BY <1>1, AddFollowerSound
<1> QED
  BY <1>2, <1>3 DEF NewMaster, s

\* It follows nobody and nobody follows it.
Aside(p, c) == p.master[c] = Null /\ \A x \in Char : p.master[x] # c

(* Nobody follows who left its pack, and it follows nobody. *)
LEMMA DieFollowerSound ==
    ASSUME NEW p, NEW st, PackSound(p, st), NEW c \in Char
    PROVE  PackSound(DieFollower(p, c), st) /\ Aside(DieFollower(p, c), c)
<1> DEFINE who == {c} \cup ToSet(p.followers[c])
           q == StopFollower(p, who)
<1>1. PackSound(q, st) /\ q.master = [x \in Char |-> IF x \in who THEN Null ELSE p.master[x]]
  <2> HIDE DEF who
  <2> QED
    BY StopFollowerSound
<1>2. DieFollower(p, c) = q
  BY DEF DieFollower
<1>3. \A x \in Char : p.master[x] = c => x \in who
  BY DEF PackSound
<1>4. c \in who
  OBVIOUS
<1> HIDE DEF q, who
<1> QED
  BY <1>1, <1>2, <1>3, <1>4 DEF Aside

(* An effect of charm comes: of a kind that needs no master, or to one that has
   one. *)
LEMMA AffectToCharSound ==
    ASSUME NEW p, NEW st, PackSound(p, st), NEW c \in Char, NEW a \in Charm,
           st[c] # "free", a = "charm" => p.master[c] # Null
    PROVE  PackSound(AffectToChar(p, c, a), st)
<1> DEFINE q == AffectToChar(p, c, a)
<1>0. /\ p \in Pack
      /\ p.charms \in [Char -> SUBSET Charm]
      /\ p.charmed \in [Char -> BOOLEAN]
  BY PackFields DEF PackSound
<1>1. /\ q \in Pack /\ q.master = p.master /\ q.followers = p.followers
      /\ q.charms = [p.charms EXCEPT ![c] = p.charms[c] \cup {a}]
      /\ q.charmed = [p.charmed EXCEPT ![c] = TRUE]
  BY <1>0 DEF AffectToChar, Pack
<1> HIDE DEF q
<1>2. /\ q.charms[c] = p.charms[c] \cup {a} /\ q.charmed[c]
      /\ \A x \in Char : x # c => q.charms[x] = p.charms[x] /\ q.charmed[x] = p.charmed[x]
  BY <1>0, <1>1
<1>3. PackSound(q, st)
  BY <1>1, <1>2 DEF PackSound
<1> QED
  BY <1>3 DEF q

(* affect_total sets the flag for the effects that are left. *)
LEMMA AffectTotalSound ==
    ASSUME NEW p, NEW st, PackSound(p, st), NEW c \in Char
    PROVE  PackSound(AffectTotal(p, c), st)
<1> DEFINE q == AffectTotal(p, c)
<1>0. /\ p \in Pack
      /\ p.charmed \in [Char -> BOOLEAN]
  BY PackFields DEF PackSound
<1>1. /\ q \in Pack /\ q.master = p.master /\ q.followers = p.followers
      /\ q.charms = p.charms
      /\ q.charmed = [p.charmed EXCEPT ![c] = p.charmed[c] \/ p.charms[c] # {}]
  BY <1>0 DEF AffectTotal, Pack
<1> HIDE DEF q
<1>2. \A x \in Char : p.charmed[x] => q.charmed[x]
  BY <1>0, <1>1
<1>3. PackSound(q, st)
  BY <1>1, <1>2 DEF PackSound
<1> QED
  BY <1>3 DEF q

(* An effect goes: the flag is what the others make it. *)
LEMMA AffectRemoveSound ==
    ASSUME NEW p, NEW st, PackSound(p, st), NEW c \in Char, NEW a
    PROVE  PackSound(AffectRemove(p, c, a), st)
<1> DEFINE e == [p EXCEPT !.charms[c] = @ \ {a}, !.charmed[c] = FALSE]
           q == AffectRemove(p, c, a)
<1>0. /\ p \in Pack
      /\ p.charms \in [Char -> SUBSET Charm]
      /\ p.charmed \in [Char -> BOOLEAN]
  BY PackFields DEF PackSound
<1>1. /\ e \in Pack /\ e.master = p.master /\ e.followers = p.followers
      /\ e.charms = [p.charms EXCEPT ![c] = p.charms[c] \ {a}]
      /\ e.charmed = [p.charmed EXCEPT ![c] = FALSE]
  BY <1>0 DEF Pack
<1>2. q = [e EXCEPT !.charmed[c] = @ \/ e.charms[c] # {}]
  BY Zenon DEF AffectRemove, AffectTotal
<1> HIDE DEF e, q
<1>3. /\ q \in Pack /\ q.master = p.master /\ q.followers = p.followers
      /\ q.charms = e.charms
      /\ q.charmed = [e.charmed EXCEPT ![c] = e.charmed[c] \/ e.charms[c] # {}]
  BY <1>0, <1>1, <1>2 DEF Pack
<1>4. e.charms \in [Char -> SUBSET Charm] /\ e.charmed \in [Char -> BOOLEAN]
  BY <1>0, <1>1
<1>5. /\ q.charms[c] = p.charms[c] \ {a} /\ (q.charms[c] # {} => q.charmed[c])
      /\ \A x \in Char : x # c => q.charms[x] = p.charms[x] /\ q.charmed[x] = p.charmed[x]
  <2>1. q.charms[c] = p.charms[c] \ {a} /\ e.charms[c] = q.charms[c]
    BY <1>0, <1>1, <1>3
  <2>2. q.charmed[c] = (e.charmed[c] \/ e.charms[c] # {})
    BY <1>3, <1>4
  <2>3. \A x \in Char : x # c => q.charms[x] = p.charms[x] /\ q.charmed[x] = p.charmed[x]
    BY <1>0, <1>1, <1>3, <1>4
  <2> QED
    BY <2>1, <2>2, <2>3
<1>6. \A x \in Char : q.charms[x] \subseteq p.charms[x]
                      /\ ("charm" \in q.charms[x] => q.charmed[x])
  <2> TAKE x \in Char
  <2>1. CASE x = c
    BY <1>5, <2>1
  <2>2. CASE x # c
    BY <1>5, <2>2 DEF PackSound
  <2> QED
    BY <2>1, <2>2
<1>7. PackSound(q, st)
  <2>1. \A x \in Char : st[x] = "mob" /\ "charm" \in q.charms[x] => q.master[x] # Null
    BY <1>1, <1>3, <1>6 DEF PackSound
  <2>2. \A x \in Char : st[x] = "free" => q.charms[x] = {}
    <3> SUFFICES ASSUME NEW x \in Char, st[x] = "free" PROVE q.charms[x] = {}
      OBVIOUS
    <3>1. p.charms[x] = {}
      BY DEF PackSound
    <3> QED
      BY <1>6, <3>1
  <2>3. \A x \in Char : "charm" \in q.charms[x] => q.charmed[x]
    BY <1>6
  <2>4. \A l \in Char : IsInjective(q.followers[l])
    BY <1>1, <1>3 DEF PackSound
  <2>5. \A x, l \in Char : x \in ToSet(q.followers[l]) <=> q.master[x] = l
    BY <1>1, <1>3 DEF PackSound
  <2>6. \A x \in Char : q.master[x] # Null => {x, q.master[x]} \subseteq Living(st)
    BY <1>1, <1>3 DEF PackSound
  <2>7. q \in Pack
    BY <1>3
  <2> QED
    BY <2>1, <2>2, <2>3, <2>4, <2>5, <2>6, <2>7 DEF PackSound
<1> QED
  BY <1>7 DEF q

\* Nothing but the effects of one character differs, and they set its flag.
Recharmed(p, q, c) ==
    /\ q \in Pack /\ q.master = p.master /\ q.followers = p.followers
    /\ \A x \in Char \ {c} : q.charms[x] = p.charms[x] /\ q.charmed[x] = p.charmed[x]
    /\ q.charms[c] # {} => q.charmed[c]

\* The same characters live, but for one.
Elsewhere(st, new, c) == \A x \in Char \ {c} : new[x] = st[x]

(* The body is freed with all its effects. *)
LEMMA BaredFields ==
    ASSUME NEW p, NEW st, PackSound(p, st), NEW c \in Char,
           NEW q, q = [p EXCEPT !.charms[c] = {}, !.charmed[c] = FALSE]
    PROVE  Recharmed(p, q, c) /\ q.charms[c] = {}
<1>1. /\ p \in Pack
      /\ p.charms \in [Char -> SUBSET Charm]
      /\ p.charmed \in [Char -> BOOLEAN]
  BY PackFields DEF PackSound
<1>2. /\ q \in Pack /\ q.master = p.master /\ q.followers = p.followers
      /\ q.charms = [p.charms EXCEPT ![c] = {}]
      /\ q.charmed = [p.charmed EXCEPT ![c] = FALSE]
  BY <1>1 DEF Pack
<1>3. /\ q.charms[c] = {}
      /\ \A x \in Char : x # c => q.charms[x] = p.charms[x] /\ q.charmed[x] = p.charmed[x]
  BY <1>1, <1>2
<1> QED
  BY <1>2, <1>3 DEF Recharmed

(* The effects of a character that follows nobody are set anew, whether it is
   freed or at the menu: no other loses what it relies on. *)
LEMMA RecharmedSound ==
    ASSUME NEW p, NEW st, PackSound(p, st), NEW c \in Char, Aside(p, c),
           NEW new, Elsewhere(st, new, c), NEW q, Recharmed(p, q, c),
           new[c] \in {"mob", "free"} => q.charms[c] = {}
    PROVE  PackSound(q, new)
<1>1. q \in Pack /\ q.master = p.master /\ q.followers = p.followers
  BY DEF Recharmed
<1>2. /\ q.charms[c] # {} => q.charmed[c] /\ new[c] \notin {"mob", "free"}
      /\ \A x \in Char : x # c => q.charms[x] = p.charms[x] /\ q.charmed[x] = p.charmed[x]
  BY DEF Recharmed
<1>3. \A x \in Char : x # c => new[x] = st[x]
  BY DEF Elsewhere
<1>4. \A x \in Char : x # c => (x \in Living(new) <=> x \in Living(st))
  BY <1>3 DEF Living
<1>5. \A x \in Char : q.master[x] # Null => {x, q.master[x]} \subseteq Living(new)
  <2> SUFFICES ASSUME NEW x \in Char, p.master[x] # Null
               PROVE  x \in Living(new) /\ p.master[x] \in Living(new)
    BY <1>1
  <2>1. x \in Living(st) /\ p.master[x] \in Living(st) /\ x # c /\ p.master[x] # c
    BY DEF PackSound, Aside
  <2> QED
    BY <1>4, <2>1 DEF Living
<1>6. \A x \in Char : new[x] = "mob" /\ "charm" \in q.charms[x] => q.master[x] # Null
  BY <1>1, <1>2, <1>3 DEF PackSound
<1>7. \A x \in Char : /\ "charm" \in q.charms[x] => q.charmed[x]
                      /\ new[x] = "free" => q.charms[x] = {}
  BY <1>2, <1>3 DEF PackSound
<1> QED
  BY <1>1, <1>5, <1>6, <1>7 DEF PackSound

(* A character changes its standing: out of the world only when no pointer of a
   pack leads to it or from it. *)
LEMMA StandingSound ==
    ASSUME NEW p, NEW st \in [Char -> Stat], PackSound(p, st), NEW c \in Char, NEW as \in Stat,
           as = "mob" => st[c] = "free", as # "free",
           as \in {"mob", "pc", "ld"}
             \/ Aside(p, c),
           NEW new, new = [st EXCEPT ![c] = as]
    PROVE  PackSound(p, new)
<1>1. new[c] = as /\ \A x \in Char : x # c => new[x] = st[x]
  OBVIOUS
<1>2. \A x \in Living(st) : x \in Living(new) \/ (x = c /\ as \notin {"mob", "pc", "ld"})
  BY <1>1 DEF Living
<1>3. \A x \in Char : p.master[x] # Null => {x, p.master[x]} \subseteq Living(new)
  <2> SUFFICES ASSUME NEW x \in Char, p.master[x] # Null
               PROVE  x \in Living(new) /\ p.master[x] \in Living(new)
    OBVIOUS
  <2>1. x \in Living(st) /\ p.master[x] \in Living(st)
    BY DEF PackSound
  <2> QED
    BY <1>2, <2>1 DEF Aside
<1>4. \A x \in Char : /\ new[x] = "mob" /\ "charm" \in p.charms[x] => p.master[x] # Null
                      /\ new[x] = "free" => p.charms[x] = {}
  BY <1>1 DEF PackSound
<1>5. PackSound(p, new)
  BY <1>3, <1>4 DEF PackSound
<1> QED
  BY <1>5

-----------------------------------------------------------------------------
(* The invariant, and the parts that handlers share *)

\* Together they are inductive: each of the three structures is sound for who is
\* alive, and nobody is remembered between the rounds.
IndInv ==
    /\ stat \in [Char -> Stat]
    /\ phase \in {"idle", "round", "hung"}
    /\ turn \in Living(stat) \cup {Null}
    /\ Idle => turn = Null
    /\ haunted \subseteq Char
    /\ Lawful(fight, Living(stat), Idle)
    /\ PackSound(pack, stat)
    /\ Counted(regen, stat, haunted)
    /\ Heals(regen, stat)

(* The invariant says what the runs check. *)
LEMMA IndInvImplies == IndInv => TypeOK /\ CombatSound /\ FollowSound /\ RegenSound
<1> SUFFICES ASSUME IndInv PROVE TypeOK /\ CombatSound /\ FollowSound /\ RegenSound
  OBVIOUS
<1>1. World = Living(stat)
  BY DEF World, Living
<1>2. Living(stat) \subseteq Char
  BY DEF Living
<1>3. TypeOK
  BY <1>2 DEF IndInv, TypeOK, Lawful, Sound, PackSound, Counted
<1>4. CombatSound
  <2>1. ListIsTheFighters /\ AttackersAreReal
    BY DEF IndInv, Lawful, Sound, ListIsTheFighters, AttackersAreReal
  <2>2. FightersLive
    BY <1>1 DEF IndInv, Lawful, Within, FightersLive
  <2>3. RoundIsSound
    BY <1>1 DEF IndInv, Lawful, Sound, RoundIsSound, Idle
  <2> QED
    BY <2>1, <2>2, <2>3 DEF CombatSound
<1>5. FollowSound
  BY <1>1, <1>2 DEF IndInv, PackSound, FollowSound
<1>6. RegenSound
  <2>1. \A c \in Char : regen.queued[c] \in 0 .. MaxEvents
    BY RecoveryFields DEF IndInv, Counted
  <2>2. \A c \in Char : stat[c] \in {"mob", "pc"} /\ regen.hurt[c] /\ ~regen.ill[c]
                          => regen.queued[c] > 0
    BY DEF IndInv, Counted, Heals
  <2>3. \A c \in Char : regen.armed[c] => regen.queued[c] > 0
    BY DEF IndInv, Counted
  <2>4. \A c \in Char : stat[c] # "free" /\ c \notin haunted => regen.queued[c] <= 1
    BY <2>1 DEF IndInv, Counted
  <2> QED
    BY <2>2, <2>3, <2>4 DEF RegenSound
<1> QED
  BY <1>3, <1>4, <1>5, <1>6

(* The game starts without characters. *)
LEMMA InitIndInv == Init => IndInv
<1> SUFFICES ASSUME Init PROVE IndInv
  OBVIOUS
<1>1. /\ stat = [c \in Char |-> "free"] /\ fight = Peace /\ pack = Alone /\ regen = Healthy
      /\ phase = "idle" /\ turn = Null /\ haunted = {}
  BY DEF Init
<1>2. stat \in [Char -> Stat] /\ \A c \in Char : stat[c] = "free"
  BY <1>1 DEF Stat
<1>3. Lawful(fight, Living(stat), Idle)
  BY <1>1, PeaceSound DEF Lawful, Within
<1>4. PackSound(pack, stat)
  <2>1. /\ pack.master = [c \in Char |-> Null] /\ pack.followers = [c \in Char |-> << >>]
        /\ pack.charms = [c \in Char |-> {}] /\ pack.charmed = [c \in Char |-> FALSE]
    BY <1>1 DEF Alone
  <2>2. pack \in Pack
    BY <1>1 DEF Alone, Pack
  <2>3. \A l \in Char : IsInjective(pack.followers[l]) /\ ToSet(pack.followers[l]) = {}
    BY <2>1 DEF IsInjective, ToSet
  <2> QED
    BY <2>1, <2>2, <2>3 DEF PackSound
<1>5. Counted(regen, stat, haunted) /\ Heals(regen, stat)
  <2>1. /\ regen.hurt = [c \in Char |-> FALSE] /\ regen.ill = [c \in Char |-> FALSE]
        /\ regen.armed = [c \in Char |-> FALSE] /\ regen.queued = [c \in Char |-> 0]
    BY <1>1 DEF Healthy
  <2>2. regen \in Recovery
    BY <1>1 DEF Healthy, Recovery
  <2> QED
    BY <1>2, <2>1, <2>2 DEF Counted, Heals
<1> QED
  BY <1>1, <1>2, <1>3, <1>4, <1>5 DEF IndInv

(* A list that is lawful in a world is so in a larger one. *)
LEMMA LawfulInLarger ==
    ASSUME NEW f, NEW world, NEW larger, NEW idle, Lawful(f, world, idle), world \subseteq larger
    PROVE  Lawful(f, larger, idle)
  BY DEF Lawful, Within

(* A birth: nothing points at the newcomer. *)
LEMMA BornStep ==
    ASSUME IndInv, NEW c \in Char, NEW as \in {"mob", "menu"}, Born(c, as),
           PackSound(pack', stat')
    PROVE  IndInv'
<1>1. /\ stat \in [Char -> Stat] /\ stat[c] = "free" /\ regen.queued[c] < MaxEvents
      /\ stat' = [stat EXCEPT ![c] = as] /\ as \in Stat
      /\ haunted' = haunted \cup {x \in {c} : regen.queued[c] > 0}
      /\ UNCHANGED <<fight, regen, phase, turn>>
  BY DEF Born, IndInv, Stat
<1>2. Living(stat) \subseteq Living(stat')
  BY <1>1 DEF Living
<1>3. Lawful(fight', Living(stat'), Idle')
  <2>1. Lawful(fight, Living(stat), Idle) /\ Idle' = Idle /\ fight' = fight
    BY <1>1 DEF IndInv, Idle
  <2>2. Lawful(fight, Living(stat'), Idle)
    BY <1>2, <2>1, LawfulInLarger
  <2> QED
    BY <2>1, <2>2
<1>4. Counted(regen', stat', haunted') /\ Heals(regen', stat')
  <2>1. Counted(regen, stat, haunted) /\ Heals(regen, stat)
    BY DEF IndInv
  <2>2. /\ stat \in [Char -> Stat] /\ as \in Stat /\ stat[c] = "free"
        /\ regen.queued[c] < MaxEvents /\ stat' = [stat EXCEPT ![c] = as]
        /\ haunted' = haunted \cup {x \in {c} : regen.queued[c] > 0}
    BY <1>1
  <2>3. /\ \A x \in Char : x # c => stat'[x] = stat[x]
        /\ haunted \subseteq haunted' /\ (c \in haunted' \/ ~(regen.queued[c] > 0))
    BY <2>2
  <2> DEFINE r == regen
             new == stat'
             g == haunted'
  <2>4. /\ Counted(r, stat, haunted) /\ Heals(r, stat) /\ stat[c] = "free"
        /\ r.queued[c] < MaxEvents
        /\ haunted \subseteq g /\ (c \in g \/ ~(r.queued[c] > 0))
        /\ \A x \in Char : x # c => new[x] = stat[x]
    BY <2>1, <2>2, <2>3
  <2> HIDE DEF r, new, g
  <2>5. Counted(r, new, g) /\ Heals(r, new)
    BY <2>4, BornCounts
  <2> QED
    BY <1>1, <2>5 DEF r, new, g
<1>5. stat' \in [Char -> Stat]
  BY <1>1
<1>6. turn' \in Living(stat') \cup {Null} /\ (Idle' => turn' = Null)
  BY <1>1, <1>2 DEF IndInv, Idle
<1>7. haunted' \subseteq Char /\ phase' \in {"idle", "round", "hung"}
  BY <1>1 DEF IndInv
<1> QED
  BY <1>3, <1>4, <1>5, <1>6, <1>7 DEF IndInv

(* Nothing that needs a place in the world leads to a character that is
   extracted: it may be freed, or wait at the menu. *)
LEMMA ExtractedStep ==
    ASSUME IndInv, NEW c \in Living(stat), NEW f, NEW p, NEW r,
           Lawful(f, Living(stat), Idle), PackSound(p, stat),
           Counted(r, stat, haunted), Heals(r, stat),
           Extracted(c, f, p, r), phase' = phase
    PROVE  IndInv'
<1> DEFINE left == DieFollower(p, c)
           next == AlterHits(r, Touched(left))
           as == CASE stat[c] = "mob" -> "free"
                   [] stat[c] = "pc" -> "menu"
                   [] stat[c] = "ld" -> "lost"
<1>1. /\ stat \in [Char -> Stat] /\ c \in Char /\ stat[c] \in {"mob", "pc", "ld"}
      /\ Living(stat) \in SUBSET Char
  BY DEF IndInv, Living
<1>2. /\ stat' = [stat EXCEPT ![c] = as]
      /\ fight' = StopAllFighting(f, c)
      /\ pack' = IF stat[c] = "mob"
                 THEN [left EXCEPT !.charms[c] = {}, !.charmed[c] = FALSE] ELSE left
      /\ regen' = IF stat[c] = "mob" THEN Freed(next, c) ELSE next
      /\ haunted' = IF stat[c] = "mob" THEN haunted \ {c} ELSE haunted
      /\ turn' = IF turn = c THEN Null ELSE turn
  BY DEF Extracted
<1>3. PackSound(left, stat) /\ Aside(left, c)
  BY <1>1, DieFollowerSound
<1>4. Counted(next, stat, haunted) /\ Heals(next, stat)
  <2>1. Touched(left) \in SUBSET Char
    BY DEF Touched
  <2> QED
    BY <2>1, AlterHitsHeals
<1>5. /\ stat[c] = "mob" => as = "free"
      /\ stat[c] # "mob" => as \in {"menu", "lost"}
      /\ as \in Stat
  BY <1>1 DEF Stat
<1> HIDE DEF left, next, as
<1>6. stat' \in [Char -> Stat] /\ stat'[c] = as /\ \A x \in Char : x # c => stat'[x] = stat[x]
  BY <1>1, <1>2, <1>5
<1>7. Living(stat') = Living(stat) \ {c} /\ Elsewhere(stat, stat', c)
  BY <1>1, <1>5, <1>6 DEF Living, Elsewhere
<1>8. Idle' = Idle
  BY DEF Idle
<1>9. Lawful(fight', Living(stat'), Idle')
  <2>1. Lawful(StopAllFighting(f, c), Living(stat) \ {c}, Idle)
    BY <1>1, StopAllFightingLeavesNone
  <2> QED
    BY <1>2, <1>7, <1>8, <2>1
<1>10. PackSound(pack', stat')
  <2>1. CASE stat[c] = "mob"
    <3>1. Recharmed(left, pack', c) /\ pack'.charms[c] = {}
      <4>1. pack' = [left EXCEPT !.charms[c] = {}, !.charmed[c] = FALSE]
        BY <1>2, <2>1
      <4> QED
        BY <1>1, <1>3, <4>1, BaredFields
    <3> QED
      BY <1>1, <1>3, <1>7, <3>1, RecharmedSound
  <2>2. CASE stat[c] # "mob"
    <3>1. as # "mob" /\ as # "free"
      BY <1>5, <2>2
    <3>2. PackSound(left, stat')
      BY <1>1, <1>2, <1>3, <1>5, <3>1, StandingSound
    <3> QED
      BY <1>2, <2>2, <3>2
  <2> QED
    BY <2>1, <2>2
<1>11. Counted(regen', stat', haunted') /\ Heals(regen', stat')
  <2>1. CASE stat[c] = "mob"
    BY <1>1, <1>2, <1>4, <1>5, <2>1, FreedCounts
  <2>2. CASE stat[c] # "mob"
    <3>1. as # "free" /\ as \notin {"mob", "pc"} /\ stat[c] # "free"
      BY <1>1, <1>5, <2>2
    <3>2. HealsBut(next, stat, c)
      BY <1>4 DEF Heals, HealsBut
    <3> QED
      BY <1>1, <1>2, <1>4, <1>5, <2>2, <3>1, <3>2, StandingCounts
  <2> QED
    BY <2>1, <2>2
<1>12. turn' \in Living(stat') \cup {Null} /\ (Idle' => turn' = Null)
  BY <1>2, <1>7, <1>8 DEF IndInv
<1>13. haunted' \subseteq Char /\ phase' \in {"idle", "round", "hung"}
  BY <1>2 DEF IndInv
<1> QED
  BY <1>6, <1>9, <1>10, <1>11, <1>12, <1>13 DEF IndInv

(* Nobody is born, leaves or changes its standing. *)
LEMMA UnmovedStep ==
    ASSUME IndInv, UNCHANGED <<stat, phase, turn, haunted>>,
           Lawful(fight', Living(stat), Idle), PackSound(pack', stat),
           Counted(regen', stat, haunted), Heals(regen', stat)
    PROVE  IndInv'
<1>1. stat' = stat /\ phase' = phase /\ turn' = turn /\ haunted' = haunted /\ Idle' = Idle
  BY DEF Idle
<1>2. Lawful(fight', Living(stat'), Idle') /\ PackSound(pack', stat')
  BY <1>1
<1>3. Counted(regen', stat', haunted') /\ Heals(regen', stat')
  BY <1>1
<1>4. /\ stat' \in [Char -> Stat] /\ phase' \in {"idle", "round", "hung"}
      /\ turn' \in Living(stat') \cup {Null} /\ (Idle' => turn' = Null)
      /\ haunted' \subseteq Char
  BY <1>1 DEF IndInv
<1> QED
  BY <1>2, <1>3, <1>4 DEF IndInv

(* The pack changes, with the effects of some. *)
LEMMA RepackStep ==
    ASSUME IndInv, NEW p, PackSound(p, stat), NEW who \in SUBSET Char, Repack(p, who)
    PROVE  IndInv'
<1>1. /\ pack' = p /\ regen' = AlterHits(regen, who \cup Touched(p))
      /\ UNCHANGED <<stat, fight, phase, turn, haunted>>
  BY DEF Repack
<1>2. who \cup Touched(p) \in SUBSET Char
  BY DEF Touched
<1>3. Counted(regen', stat, haunted) /\ Heals(regen', stat)
  BY <1>1, <1>2, AlterHitsHeals DEF IndInv
<1>4. Lawful(fight', Living(stat), Idle) /\ PackSound(pack', stat)
  BY <1>1 DEF IndInv
<1> QED
  BY <1>1, <1>3, <1>4, UnmovedStep

(* Only the combat list changes. *)
LEMMA RefightStep ==
    ASSUME IndInv, NEW f, Lawful(f, Living(stat), Idle), Refight(f)
    PROVE  IndInv'
<1>1. fight' = f /\ UNCHANGED <<stat, pack, regen, phase, turn, haunted>>
  BY DEF Refight
<1>2. /\ Lawful(fight', Living(stat), Idle) /\ PackSound(pack', stat)
      /\ Counted(regen', stat, haunted) /\ Heals(regen', stat)
  BY <1>1 DEF IndInv
<1> QED
  BY <1>1, <1>2, UnmovedStep

(* Only the recovery changes. *)
LEMMA RecoverStep ==
    ASSUME IndInv, NEW r, Counted(r, stat, haunted), Heals(r, stat), Recover(r)
    PROVE  IndInv'
<1>1. regen' = r /\ UNCHANGED <<stat, fight, pack, phase, turn, haunted>>
  BY DEF Recover
<1>2. /\ Lawful(fight', Living(stat), Idle) /\ PackSound(pack', stat)
      /\ Counted(regen', stat, haunted) /\ Heals(regen', stat)
  BY <1>1 DEF IndInv
<1> QED
  BY <1>1, <1>2, UnmovedStep

(* Those who may flee leave a list that is still lawful. *)
LEMMA FleeingLawful ==
    ASSUME NEW f, Lawful(f, Living(stat), Idle), NEW two, NEW g \in Fleeing(f, two)
    PROVE  Lawful(g, Living(stat), Idle)
<1>1. Living(stat) \in SUBSET Char
  BY DEF Living
<1>2. PICK who : g = StopFighting(f, who)
  BY DEF Fleeing
<1>3. Lawful(StopFighting(f, who), Living(stat), Idle)
  BY <1>1, StopFightingLawful
<1> QED
  BY <1>2, <1>3

(* One of the living attacks another. *)
LEMMA BeginsLawful ==
    ASSUME NEW f, Lawful(f, Living(stat), Idle), NEW ch \in Living(stat),
           NEW v \in Living(stat), NEW g \in Begins(f, ch, v)
    PROVE  Lawful(g, Living(stat), Idle)
<1>1. Living(stat) \in SUBSET Char
  BY DEF Living
<1>2. Lawful(SetCharFighting(f, ch, v), Living(stat), Idle)
  BY <1>1, SetFightingLawful
<1>3. g = f \/ g \in Fleeing(SetCharFighting(f, ch, v), {ch, v})
  BY DEF Begins
<1> QED
  BY <1>2, <1>3, FleeingLawful

(* Damage makes the two fight, or not. *)
LEMMA EngagedLawful ==
    ASSUME IndInv, NEW ch \in Living(stat), NEW v \in Living(stat), NEW g \in Engaged(ch, v)
    PROVE  Lawful(g, Living(stat), Idle)
<1>1. Lawful(fight, Living(stat), Idle)
  BY DEF IndInv
<1>2. g = fight \/ \E f \in {fight} \cup Begins(fight, v, ch) : g \in Begins(f, ch, v)
  BY DEF Engaged
<1>3. ASSUME NEW f \in {fight} \cup Begins(fight, v, ch), g \in Begins(f, ch, v)
      PROVE  Lawful(g, Living(stat), Idle)
  <2>1. Lawful(f, Living(stat), Idle)
    BY <1>1, BeginsLawful
  <2> QED
    BY <1>3, <2>1, BeginsLawful
<1> QED
  BY <1>1, <1>2, <1>3

(* The victim leaves a master that hits it. *)
LEMMA BetrayedSound ==
    ASSUME IndInv, NEW ch, NEW v
    PROVE  PackSound(Betrayed(ch, v), stat)
<1>1. PackSound(pack, stat) /\ PackSound(StopFollower(pack, {v}), stat)
  BY StopFollowerSound DEF IndInv
<1> QED
  BY <1>1 DEF Betrayed

(* A blow that both survive. *)
LEMMA StrikeStep ==
    ASSUME IndInv, NEW ch, NEW v, NEW f, NEW r, Lawful(f, Living(stat), Idle),
           Counted(r, stat, haunted), Heals(r, stat), Strike(ch, v, f, r)
    PROVE  IndInv'
<1>1. /\ fight' = f /\ pack' = Betrayed(ch, v) /\ regen' = AlterHits(r, Touched(pack'))
      /\ UNCHANGED <<stat, phase, turn, haunted>>
  BY DEF Strike
<1>2. Touched(pack') \in SUBSET Char
  BY DEF Touched
<1>3. Counted(regen', stat, haunted) /\ Heals(regen', stat)
  BY <1>1, <1>2, AlterHitsHeals
<1>4. Lawful(fight', Living(stat), Idle) /\ PackSound(pack', stat)
  BY <1>1, BetrayedSound
<1> QED
  BY <1>1, <1>3, <1>4, UnmovedStep

-----------------------------------------------------------------------------
(* Births and departures *)

(* What IndInv says of the three structures and of the living. *)
LEMMA Parts ==
    ASSUME IndInv
    PROVE  /\ stat \in [Char -> Stat] /\ Living(stat) \in SUBSET Char
           /\ World = Living(stat)
           /\ Lawful(fight, Living(stat), Idle) /\ PackSound(pack, stat)
           /\ Counted(regen, stat, haunted) /\ Heals(regen, stat)
           /\ \A c \in Char : HealsBut(regen, stat, c)
           /\ turn \in Living(stat) \cup {Null} /\ (Idle => turn = Null)
           /\ haunted \in SUBSET Char /\ phase \in {"idle", "round", "hung"}
  BY DEF IndInv, Living, World, Heals, HealsBut

(* Nobody follows memory that is free, and it follows nobody. *)
LEMMA OutsidersStandAside ==
    ASSUME NEW p, NEW st, PackSound(p, st), NEW c \in Char, st[c] \notin {"mob", "pc", "ld"}
    PROVE  Aside(p, c)
  BY DEF PackSound, Aside, Living

(* Memory becomes a character that has no effects yet. *)
LEMMA NewbornSound ==
    ASSUME NEW p, NEW st \in [Char -> Stat], PackSound(p, st), NEW c \in Char,
           st[c] = "free", NEW as \in Stat, as # "free", NEW new, new = [st EXCEPT ![c] = as]
    PROVE  PackSound(p, new) /\ Aside(p, c)
<1>1. Aside(p, c)
  BY OutsidersStandAside
<1> QED
  BY <1>1, StandingSound

(* read_mobile. *)
LEMMA SpawnStep == ASSUME IndInv, NEW c \in Char, Spawn(c) PROVE IndInv'
<1>1. stat[c] = "free" /\ stat' = [stat EXCEPT ![c] = "mob"] /\ pack' = pack /\ Born(c, "mob")
  BY DEF Spawn, Born
<1>2. "mob" \in Stat
  BY DEF Stat
<1>3. PackSound(pack, stat')
  BY <1>1, <1>2, Parts, NewbornSound
<1> QED
  BY <1>1, <1>3, BornStep

(* A mobile that is brought and charmed. *)
LEMMA SummonStep == ASSUME IndInv, NEW ch \in Char, NEW c \in Char, Summon(ch, c) PROVE IndInv'
<1>1. /\ stat[ch] \in {"mob", "pc"} /\ stat[c] = "free" /\ stat' = [stat EXCEPT ![c] = "mob"]
      /\ pack' = AffectToChar(AddFollower(pack, c, ch), c, "charm") /\ Born(c, "mob")
  BY DEF Summon, Born
<1>2. "mob" \in Stat /\ "charm" \in Charm
  BY DEF Stat, Charm
<1>3. PackSound(pack, stat')
  BY <1>1, <1>2, Parts, NewbornSound
<1>4. stat'[c] = "mob" /\ c \in Living(stat') /\ ch \in Living(stat')
  BY <1>1, Parts DEF Living
<1>5. /\ PackSound(AddFollower(pack, c, ch), stat')
      /\ AddFollower(pack, c, ch).master[c] # Null
  BY <1>3, <1>4, AddFollowerSound
<1>6. PackSound(AffectToChar(AddFollower(pack, c, ch), c, "charm"), stat')
  BY <1>2, <1>4, <1>5, AffectToCharSound
<1> QED
  BY <1>1, <1>6, BornStep

(* The body of a player, with the effects its file kept. *)
LEMMA LoginStep == ASSUME IndInv, NEW c \in Char, Login(c) PROVE IndInv'
<1>1. stat[c] = "free" /\ stat' = [stat EXCEPT ![c] = "menu"] /\ Born(c, "menu")
  BY DEF Login, Born
<1>2. PICK kept \in SUBSET Charm :
         pack' = [pack EXCEPT !.charms[c] = kept, !.charmed[c] = kept # {}]
  BY DEF Login
<1>3. /\ pack \in Pack
      /\ pack.charms \in [Char -> SUBSET Charm]
      /\ pack.charmed \in [Char -> BOOLEAN]
  BY Parts, PackFields DEF PackSound
<1>4. /\ pack' \in Pack /\ pack'.master = pack.master /\ pack'.followers = pack.followers
      /\ pack'.charms = [pack.charms EXCEPT ![c] = kept]
      /\ pack'.charmed = [pack.charmed EXCEPT ![c] = kept # {}]
  BY <1>2, <1>3 DEF Pack
<1>5. pack'.charms[c] = kept /\ (kept # {} => pack'.charmed[c])
  BY <1>3, <1>4
<1>6. \A x \in Char \ {c} : pack'.charms[x] = pack.charms[x] /\ pack'.charmed[x] = pack.charmed[x]
  BY <1>3, <1>4
<1>7. Recharmed(pack, pack', c)
  BY <1>4, <1>5, <1>6 DEF Recharmed
<1>8. Elsewhere(stat, stat', c) /\ stat'[c] = "menu"
  BY <1>1, Parts DEF Elsewhere
<1>9. Aside(pack, c)
  BY <1>1, Parts, OutsidersStandAside
<1>10. PackSound(pack', stat')
  BY <1>7, <1>8, <1>9, Parts, RecharmedSound
<1> QED
  BY <1>1, <1>10, BornStep

(* A player's body comes to play, loses its link or finds it again. *)
LEMMA StandingStep ==
    ASSUME IndInv, NEW c \in Char, NEW as \in {"pc", "ld"}, stat[c] \in {"menu", "pc", "ld"},
           Idle, stat' = [stat EXCEPT ![c] = as], UNCHANGED <<fight, phase, turn, haunted>>,
           NEW p, PackSound(p, stat), pack' = p,
           Counted(regen', stat', haunted), Heals(regen', stat')
    PROVE  IndInv'
<1>1. /\ stat' \in [Char -> Stat] /\ stat'[c] = as /\ as \in Stat /\ as # "free" /\ as # "mob"
      /\ \A x \in Char : x # c => stat'[x] = stat[x]
  BY Parts DEF Stat
<1>2. Living(stat) \subseteq Living(stat')
  BY <1>1 DEF Living
<1>3. Lawful(fight', Living(stat'), Idle')
  <2>1. Lawful(fight, Living(stat'), Idle)
    BY <1>2, Parts, LawfulInLarger
  <2>2. Idle' = Idle /\ fight' = fight
    BY DEF Idle
  <2> QED
    BY <2>1, <2>2
<1>4. PackSound(p, stat')
  BY <1>1, Parts, StandingSound
<1>5. PackSound(pack', stat')
  BY <1>4
<1>6. turn' \in Living(stat') \cup {Null} /\ (Idle' => turn' = Null)
  BY <1>2, Parts DEF Idle
<1>7. haunted' \subseteq Char /\ phase' \in {"idle", "round", "hung"} /\ haunted' = haunted
  BY Parts
<1> QED
  BY <1>1, <1>3, <1>5, <1>6, <1>7 DEF IndInv

(* con_slct. *)
LEMMA EnterStep == ASSUME IndInv, NEW c \in Char, Enter(c) PROVE IndInv'
<1>1. /\ Idle /\ stat[c] = "menu" /\ stat' = [stat EXCEPT ![c] = "pc"]
      /\ UNCHANGED <<fight, pack, phase, turn, haunted>>
  BY DEF Enter
<1>2. PICK h \in BOOLEAN : regen' = AlterHit([regen EXCEPT !.hurt[c] = h], c)
  BY DEF Enter
<1> DEFINE q == [regen EXCEPT !.hurt[c] = h]
<1>3. Counted(q, stat, haunted) /\ HealsBut(q, stat, c)
  BY <1>1, Parts, EditCounts
<1>4. regen' = AlterHit(q, c)
  BY <1>2
<1> HIDE DEF q
<1>5. "pc" \in Stat /\ "pc" # "free" /\ stat[c] # "free"
  BY <1>1 DEF Stat
<1>6. Counted(q, stat', haunted) /\ HealsBut(q, stat', c)
  BY <1>1, <1>3, <1>5, Parts, StandingCounts
<1>7. Counted(regen', stat', haunted) /\ Heals(regen', stat')
  BY <1>4, <1>6, AlterHitHeals
<1>8. PackSound(pack, stat)
  BY Parts
<1> QED
  BY <1>1, <1>7, <1>8, StandingStep

(* close_socket at the menu. *)
LEMMA LeaveMenuStep == ASSUME IndInv, NEW c \in Char, LeaveMenu(c) PROVE IndInv'
<1>1. /\ Idle /\ stat[c] = "menu" /\ stat' = [stat EXCEPT ![c] = "free"]
      /\ pack' = [pack EXCEPT !.charms[c] = {}, !.charmed[c] = FALSE]
      /\ regen' = Freed(regen, c) /\ haunted' = haunted \ {c}
      /\ UNCHANGED <<fight, phase, turn>>
  BY DEF LeaveMenu
<1>2. /\ stat' \in [Char -> Stat] /\ Elsewhere(stat, stat', c)
      /\ Living(stat') = Living(stat) /\ stat'[c] = "free"
  BY <1>1, Parts DEF Living, Elsewhere, Stat
<1>3. Lawful(fight', Living(stat'), Idle')
  <2>1. Lawful(fight, Living(stat'), Idle)
    BY <1>2, Parts
  <2>2. Idle' = Idle /\ fight' = fight
    BY <1>1 DEF Idle
  <2> QED
    BY <2>1, <2>2
<1>4. Recharmed(pack, pack', c) /\ pack'.charms[c] = {}
  BY <1>1, Parts, BaredFields
<1>5. Aside(pack, c)
  BY <1>1, Parts, OutsidersStandAside
<1>6. PackSound(pack', stat')
  BY <1>2, <1>4, <1>5, Parts, RecharmedSound
<1>7. Counted(regen', stat', haunted') /\ Heals(regen', stat')
  <2>1. Counted(Freed(regen, c), stat', haunted \ {c}) /\ Heals(Freed(regen, c), stat')
    BY <1>1, Parts, FreedCounts
  <2> QED
    BY <1>1, <2>1
<1>8. /\ turn' \in Living(stat') \cup {Null} /\ (Idle' => turn' = Null)
      /\ haunted' \subseteq Char /\ phase' \in {"idle", "round", "hung"}
  BY <1>1, <1>2, Parts DEF Idle
<1> QED
  BY <1>2, <1>3, <1>6, <1>7, <1>8 DEF IndInv

(* A mobile, a player or a body without a link leaves with what it has. *)
LEMMA LeaveStep ==
    ASSUME IndInv, NEW c \in Living(stat), Extracted(c, fight, pack, regen), phase' = phase
    PROVE  IndInv'
<1>1. /\ Lawful(fight, Living(stat), Idle) /\ PackSound(pack, stat)
      /\ Counted(regen, stat, haunted) /\ Heals(regen, stat)
  BY Parts
<1> QED
  BY <1>1, ExtractedStep

(* Purged, a quit, a forced rent. *)
LEMMA DepartureStep ==
    ASSUME IndInv, NEW c \in Char, Vanish(c) \/ Quit(c) \/ ForceRent(c) PROVE IndInv'
<1>1. stat[c] \in {"mob", "pc", "ld"} /\ Extracted(c, fight, pack, regen) /\ phase' = phase
  BY DEF Vanish, Quit, ForceRent
<1>2. c \in Living(stat)
  BY <1>1 DEF Living
<1> QED
  BY <1>1, <1>2, LeaveStep

(* close_socket on a character in play. *)
LEMMA LoseLinkStep == ASSUME IndInv, NEW c \in Char, LoseLink(c) PROVE IndInv'
<1>1. /\ Idle /\ stat[c] = "pc" /\ stat' = [stat EXCEPT ![c] = "ld"]
      /\ pack' = IF pack.charmed[c] THEN pack ELSE StopFollower(pack, {c})
      /\ UNCHANGED <<fight, regen, phase, turn, haunted>>
  BY DEF LoseLink
<1>2. PackSound(pack, stat) /\ PackSound(StopFollower(pack, {c}), stat)
  BY Parts, StopFollowerSound
<1>3. "ld" \in Stat /\ "ld" # "free" /\ "ld" \notin {"mob", "pc"} /\ stat[c] # "free"
  BY <1>1 DEF Stat
<1>4. Counted(regen, stat', haunted) /\ Heals(regen, stat')
  BY <1>1, <1>3, Parts, StandingCounts
<1>5. Counted(regen', stat', haunted) /\ Heals(regen', stat')
  BY <1>1, <1>4
<1>6. CASE pack.charmed[c]
  BY <1>1, <1>2, <1>5, <1>6, StandingStep
<1>7. CASE ~pack.charmed[c]
  BY <1>1, <1>2, <1>5, <1>7, StandingStep
<1> QED
  BY <1>6, <1>7

(* con_pwdok finds the body. *)
LEMMA ReconnectStep == ASSUME IndInv, NEW c \in Char, Reconnect(c) PROVE IndInv'
<1>1. /\ Idle /\ stat[c] = "ld" /\ stat' = [stat EXCEPT ![c] = "pc"]
      /\ regen' = AlterHit(regen, c) /\ UNCHANGED <<fight, pack, phase, turn, haunted>>
  BY DEF Reconnect, Reconnected
<1>2. "pc" \in Stat /\ "pc" # "free" /\ stat[c] # "free"
  BY <1>1 DEF Stat
<1>3. Counted(regen, stat', haunted) /\ HealsBut(regen, stat', c)
  BY <1>1, <1>2, Parts, StandingCounts
<1>4. Counted(AlterHit(regen, c), stat', haunted) /\ Heals(AlterHit(regen, c), stat')
  BY <1>3, AlterHitHeals
<1>5. PackSound(pack, stat) /\ Counted(regen', stat', haunted) /\ Heals(regen', stat')
  BY <1>1, <1>4, Parts
<1> QED
  BY <1>1, <1>5, StandingStep

(* check_idling, first stage. *)
LEMMA VoidPullStep == ASSUME IndInv, NEW c \in Char, VoidPull(c) PROVE IndInv'
<1> DEFINE f == StopFighting(fight, {fight.fighting[c]})
<1>1. fight' = StopFighting(f, {c}) /\ UNCHANGED <<stat, pack, regen, phase, turn, haunted>>
  BY DEF VoidPull
<1>2. Lawful(f, Living(stat), Idle)
  BY Parts, StopFightingLawful
<1> HIDE DEF f
<1>3. Lawful(StopFighting(f, {c}), Living(stat), Idle)
  BY <1>2, Parts, StopFightingLawful
<1>4. Refight(StopFighting(f, {c}))
  BY <1>1 DEF Refight
<1> QED
  BY <1>3, <1>4, RefightStep

-----------------------------------------------------------------------------
(* Rounds of perform_violence *)

(* Only the round moves on, with the list. *)
LEMMA RoundStep ==
    ASSUME IndInv, UNCHANGED <<stat, pack, regen, haunted>>,
           Lawful(fight', Living(stat), Idle'), phase' \in {"idle", "round", "hung"},
           turn' \in Living(stat) \cup {Null}, Idle' => turn' = Null
    PROVE  IndInv'
<1>1. stat' = stat /\ pack' = pack /\ regen' = regen /\ haunted' = haunted
  OBVIOUS
<1>2. Lawful(fight', Living(stat'), Idle')
  BY <1>1
<1>3. PackSound(pack', stat') /\ Counted(regen', stat', haunted') /\ Heals(regen', stat')
  BY <1>1, Parts
<1>4. /\ stat' \in [Char -> Stat] /\ turn' \in Living(stat') \cup {Null}
      /\ haunted' \subseteq Char
  BY <1>1, Parts
<1> QED
  BY <1>2, <1>3, <1>4 DEF IndInv

(* A walk without an end stops the game where it is. *)
LEMMA HangsStep == ASSUME IndInv, Hangs PROVE IndInv'
<1>1. /\ phase' = "hung" /\ UNCHANGED <<stat, fight, pack, regen, turn, haunted>>
  BY DEF Hangs
<1>2. ~Idle'
  BY <1>1 DEF Idle
<1>3. Lawful(fight, Living(stat), Idle')
  BY <1>2, Parts DEF Lawful
<1>4. Lawful(fight', Living(stat), Idle') /\ turn' \in Living(stat) \cup {Null}
  BY <1>1, <1>3, Parts
<1> QED
  BY <1>1, <1>2, <1>4, RoundStep

(* Who is remembered lives. *)
LEMMA NextLives == ASSUME IndInv, NEW c \in Char, Taken(c) PROVE c \in Living(stat) /\ ~Idle
<1>1. c = fight.next /\ phase = "round"
  BY DEF Taken
<1>2. fight.next \in Fighters(fight) \cup {Null}
  BY Parts DEF Lawful, Sound
<1>3. c \in Fighters(fight)
  BY <1>1, <1>2
<1>4. c \in Living(stat)
  BY <1>3, Parts DEF Lawful, Within
<1> QED
  BY <1>1, <1>4 DEF Idle

(* The loop of perform_violence begins. *)
LEMMA BeginRoundStep == ASSUME IndInv, BeginRound PROVE IndInv'
<1>1. /\ Idle /\ phase' = "round" /\ fight' = AtHead(fight)
      /\ UNCHANGED <<stat, pack, regen, turn, haunted>>
  BY DEF BeginRound
<1>2. ~Idle'
  BY <1>1 DEF Idle
<1>3. Sound(AtHead(fight)) /\ AtHead(fight).fighting = fight.fighting
  BY Parts, AtHeadSound DEF Lawful
<1>4. Within(AtHead(fight), Living(stat))
  BY <1>3, Parts DEF Lawful, Within, Fighters
<1>5. Lawful(AtHead(fight), Living(stat), Idle')
  BY <1>2, <1>3, <1>4 DEF Lawful
<1>6. Lawful(fight', Living(stat), Idle') /\ turn' \in Living(stat) \cup {Null}
  BY <1>1, <1>5, Parts
<1> QED
  BY <1>1, <1>2, <1>6, RoundStep

(* The list while the loop of perform_violence moves on. *)
LEMMA PastNextLawful ==
    ASSUME IndInv, NEW c \in Char, Taken(c)
    PROVE  Lawful(PastNext(fight), Living(stat), Idle)
<1>1. ~Idle
  BY NextLives
<1>2. Sound(PastNext(fight)) /\ PastNext(fight).fighting = fight.fighting
  BY Parts, PastNextSound DEF Lawful
<1>3. Within(PastNext(fight), Living(stat))
  BY <1>2, Parts DEF Lawful, Within, Fighters
<1> QED
  BY <1>1, <1>2, <1>3 DEF Lawful

(* A fighter gets its turn. *)
LEMMA TakesTurnStep == ASSUME IndInv, NEW c \in Char, TakesTurn(c) PROVE IndInv'
<1>1. /\ Taken(c) /\ fight' = PastNext(fight) /\ turn' = c
      /\ UNCHANGED <<stat, pack, regen, phase, haunted>>
  BY DEF TakesTurn
<1>2. c \in Living(stat) /\ ~Idle /\ ~Idle'
  BY <1>1, NextLives DEF Idle
<1>3. Lawful(PastNext(fight), Living(stat), Idle)
  BY <1>1, PastNextLawful
<1>4. Lawful(fight', Living(stat), Idle')
  BY <1>1, <1>2, <1>3 DEF Lawful
<1>5. phase' \in {"idle", "round", "hung"}
  BY <1>1, Parts
<1> QED
  BY <1>1, <1>2, <1>4, <1>5, RoundStep

(* A fighter stops instead. *)
LEMMA DisengagesStep == ASSUME IndInv, NEW c \in Char, Disengages(c) PROVE IndInv'
<1>1. /\ Taken(c) /\ fight' = StopFighting(PastNext(fight), {c})
      /\ UNCHANGED <<stat, pack, regen, phase, turn, haunted>>
  BY DEF Disengages
<1>2. Lawful(PastNext(fight), Living(stat), Idle)
  BY <1>1, PastNextLawful
<1>3. Lawful(StopFighting(PastNext(fight), {c}), Living(stat), Idle)
  BY <1>2, Parts, StopFightingLawful
<1>4. Refight(StopFighting(PastNext(fight), {c}))
  BY <1>1 DEF Refight
<1> QED
  BY <1>3, <1>4, RefightStep

(* The attacks of a turn are over, or the round is. *)
LEMMA TurnEndsStep == ASSUME IndInv, TurnEnds PROVE IndInv'
<1>1. turn' = Null /\ UNCHANGED <<stat, fight, pack, regen, phase, haunted>>
  BY DEF TurnEnds
<1>2. Idle' = Idle /\ Lawful(fight, Living(stat), Idle)
  BY <1>1, Parts DEF Idle
<1>3. Lawful(fight', Living(stat), Idle') /\ phase' \in {"idle", "round", "hung"}
  BY <1>1, <1>2, Parts
<1> QED
  BY <1>1, <1>3, RoundStep

(* Nobody is left to take a turn. *)
LEMMA EndRoundStep == ASSUME IndInv, EndRound PROVE IndInv'
<1>1. /\ turn = Null /\ fight.next = Null /\ phase' = "idle"
      /\ UNCHANGED <<stat, fight, pack, regen, turn, haunted>>
  BY DEF EndRound
<1>2. Lawful(fight, Living(stat), Idle')
  BY <1>1, Parts DEF Lawful
<1>3. Lawful(fight', Living(stat), Idle') /\ turn' = Null
  BY <1>1, <1>2
<1> QED
  BY <1>1, <1>3, RoundStep

-----------------------------------------------------------------------------
(* Following and charms *)

(* do_follow of another. *)
LEMMA FollowStep ==
    ASSUME IndInv, NEW ch \in Char, NEW leader \in Char, Follow(ch, leader)
    PROVE  IndInv'
<1>1. ch \in Living(stat) /\ leader \in Living(stat)
  BY Parts DEF Follow
<1>2. PackSound(NewMaster(pack, ch, leader), stat)
  BY <1>1, Parts, NewMasterSound
<1>3. Hangs \/ Repack(NewMaster(pack, ch, leader), {})
  BY DEF Follow
<1>4. {} \in SUBSET Char
  OBVIOUS
<1> QED
  BY <1>2, <1>3, <1>4, HangsStep, RepackStep

(* do_follow of oneself. *)
LEMMA FollowNobodyStep == ASSUME IndInv, NEW ch \in Char, FollowNobody(ch) PROVE IndInv'
<1>1. PackSound(StopFollower(pack, {ch}), stat) /\ {} \in SUBSET Char
  BY Parts, StopFollowerSound
<1>2. Repack(StopFollower(pack, {ch}), {})
  BY DEF FollowNobody
<1> QED
  BY <1>1, <1>2, RepackStep

(* spell_charm_person: the charm comes to one that has a master. *)
LEMMA CharmPersonStep ==
    ASSUME IndInv, NEW ch \in Char, NEW victim \in Char, CharmPerson(ch, victim) PROVE IndInv'
<1> DEFINE led == NewMaster(pack, victim, ch)
           charmed == AffectToChar(led, victim, "charm")
<1>1. ch \in Living(stat) /\ victim \in Living(stat) /\ stat[victim] # "free"
  BY Parts DEF CharmPerson, Living
<1>2. Hangs \/ Repack(charmed, {victim})
  BY DEF CharmPerson
<1>3. PackSound(led, stat) /\ led.master[victim] # Null
  BY <1>1, Parts, NewMasterSound
<1> HIDE DEF led
<1>4. "charm" \in Charm /\ {victim} \in SUBSET Char
  BY DEF Charm
<1>5. PackSound(charmed, stat)
  BY <1>1, <1>3, <1>4, AffectToCharSound
<1> HIDE DEF charmed
<1> QED
  BY <1>2, <1>4, <1>5, HangsStep, RepackStep

(* do_hypnosis. *)
LEMMA HypnotiseStep ==
    ASSUME IndInv, NEW ch \in Char, NEW victim \in Char, Hypnotise(ch, victim) PROVE IndInv'
<1> DEFINE led == AddFollower(pack, victim, ch)
           charmed == AffectToChar(led, victim, "hypnosis")
<1>1. ch \in Living(stat) /\ victim \in Living(stat) /\ stat[victim] # "free"
  BY Parts DEF Hypnotise, Living
<1>2. Hangs \/ Repack(charmed, {victim})
  BY DEF Hypnotise
<1>3. PackSound(led, stat) /\ led.master[victim] # Null
  BY <1>1, Parts, AddFollowerSound
<1> HIDE DEF led
<1>4. "hypnosis" \in Charm /\ {victim} \in SUBSET Char
  BY DEF Charm
<1>5. PackSound(charmed, stat)
  BY <1>1, <1>3, <1>4, AffectToCharSound
<1> HIDE DEF charmed
<1> QED
  BY <1>2, <1>4, <1>5, HangsStep, RepackStep

(* spell_animal_friendship. *)
LEMMA BefriendStep ==
    ASSUME IndInv, NEW ch \in Char, NEW animal \in Char, Befriend(ch, animal) PROVE IndInv'
<1> DEFINE led == NewMaster(pack, animal, ch)
           charmed == AffectToChar(led, animal, "friendship")
<1>1. ch \in Living(stat) /\ animal \in Living(stat) /\ stat[animal] # "free"
  BY Parts DEF Befriend, Living
<1>2. Repack(charmed, {ch, animal})
  BY DEF Befriend
<1>3. PackSound(led, stat) /\ led.master[animal] # Null
  BY <1>1, Parts, NewMasterSound
<1> HIDE DEF led
<1>4. "friendship" \in Charm /\ {ch, animal} \in SUBSET Char
  BY DEF Charm
<1>5. PackSound(charmed, stat)
  BY <1>1, <1>3, <1>4, AffectToCharSound
<1> HIDE DEF charmed
<1> QED
  BY <1>2, <1>4, <1>5, RepackStep

(* The target of a rescue quest. *)
LEMMA EscortStep ==
    ASSUME IndInv, NEW mob \in Char, NEW rescuer \in Char, Escort(mob, rescuer) PROVE IndInv'
<1>1. mob \in Living(stat) /\ rescuer \in Living(stat) /\ {} \in SUBSET Char
  BY Parts DEF Escort, Living
<1>2. PackSound(NewMaster(pack, mob, rescuer), stat)
  BY <1>1, Parts, NewMasterSound
<1>3. Repack(NewMaster(pack, mob, rescuer), {})
  BY DEF Escort
<1> QED
  BY <1>1, <1>2, <1>3, RepackStep

(* An effect of charm runs out. *)
LEMMA WearOffStep == ASSUME IndInv, NEW c \in Char, NEW a \in Charm, WearOff(c, a) PROVE IndInv'
<1> DEFINE leaves == a # "friendship" /\ pack.master[c] # Null
           left == IF leaves THEN StopFollower(pack, {c}) ELSE pack
<1>1. /\ pack' = IF a = "charm" THEN left ELSE AffectRemove(left, c, a)
      /\ fight' = fight \/ fight' = StopAllFighting(fight, c)
      /\ regen' = AlterHits(regen, Touched(pack'))
      /\ UNCHANGED <<stat, phase, turn, haunted>>
  BY DEF WearOff
<1>2. PackSound(left, stat)
  BY Parts, StopFollowerSound
<1> HIDE DEF left
<1>3. PackSound(AffectRemove(left, c, a), stat)
  BY <1>2, AffectRemoveSound
<1>4. PackSound(pack', stat)
  BY <1>1, <1>2, <1>3
<1>5. Lawful(fight, Living(stat), Idle) /\ Lawful(StopAllFighting(fight, c), Living(stat), Idle)
  BY Parts, StopFightingLawful DEF StopAllFighting
<1>6. Lawful(fight', Living(stat), Idle)
  BY <1>1, <1>5
<1>7. Touched(pack') \in SUBSET Char
  BY DEF Touched
<1>8. Counted(regen', stat, haunted) /\ Heals(regen', stat)
  BY <1>1, <1>7, Parts, AlterHitsHeals
<1> QED
  BY <1>1, <1>4, <1>6, <1>8, UnmovedStep

(* affect_total for anything else. *)
LEMMA RefreshStep == ASSUME IndInv, NEW c \in Char, Refresh(c) PROVE IndInv'
<1>1. PackSound(AffectTotal(pack, c), stat) /\ {c} \in SUBSET Char
  BY Parts, AffectTotalSound
<1>2. Repack(AffectTotal(pack, c), {c})
  BY DEF Refresh
<1> QED
  BY <1>1, <1>2, RepackStep

-----------------------------------------------------------------------------
(* Blows *)

(* Damage to one of the living. *)
LEMMA WoundedSound ==
    ASSUME IndInv, NEW c \in Living(stat)
    PROVE  Counted(Wound(regen, c), stat, haunted) /\ Heals(Wound(regen, c), stat)
<1>1. c \in Char /\ stat[c] # "free"
  BY DEF Living
<1>2. HealsBut(regen, stat, c)
  BY <1>1, Parts
<1> QED
  BY <1>1, <1>2, Parts, WoundHeals

(* A blow that both survive, whatever the victim does then. *)
LEMMA BlowStep ==
    ASSUME IndInv, NEW ch \in Char, NEW v \in Char,
           Glances(ch, v) \/ Wounds(ch, v) \/ Stuns(ch, v) \/ Routs(ch, v)
    PROVE  IndInv'
<1>1. ch \in Living(stat) /\ v \in Living(stat)
  BY Parts DEF Glances, Wounds, Stuns, Routs, Blow
<1>2. /\ Counted(regen, stat, haunted) /\ Heals(regen, stat)
      /\ Counted(Wound(regen, v), stat, haunted) /\ Heals(Wound(regen, v), stat)
  BY <1>1, Parts, WoundedSound
<1>3. PICK f \in Engaged(ch, v) :
         \/ Strike(ch, v, f, regen)
         \/ Strike(ch, v, f, Wound(regen, v))
         \/ Strike(ch, v, StopFighting(f, {v}), Wound(regen, v))
         \/ Strike(ch, v, StopAllFighting(f, v), Wound(regen, v))
  BY DEF Glances, Wounds, Stuns, Routs
<1>4. Lawful(f, Living(stat), Idle)
  BY <1>1, EngagedLawful
<1>5. /\ Lawful(StopFighting(f, {v}), Living(stat), Idle)
      /\ Lawful(StopAllFighting(f, v), Living(stat), Idle)
  BY <1>4, Parts, StopFightingLawful DEF StopAllFighting
<1> QED
  BY <1>2, <1>3, <1>4, <1>5, StrikeStep

(* A character dies with the combat list, the pack and the recovery that what
   killed it has left. *)
LEMMA DiesStep ==
    ASSUME IndInv, NEW c \in Living(stat), NEW f, NEW p, NEW r,
           Lawful(f, Living(stat), Idle), PackSound(p, stat),
           Counted(r, stat, haunted), HealsBut(r, stat, c), Dies(c, f, p, r), phase' = phase
    PROVE  IndInv'
<1>1. Extracted(c, f, p, Wound(r, c))
  BY DEF Dies
<1>2. c \in Char /\ stat[c] # "free"
  BY DEF Living
<1>3. Counted(Wound(r, c), stat, haunted) /\ Heals(Wound(r, c), stat)
  BY <1>2, WoundHeals
<1> QED
  BY <1>1, <1>3, ExtractedStep

(* The victim dies of the blow. *)
LEMMA KillsStep == ASSUME IndInv, NEW ch \in Char, NEW v \in Char, Kills(ch, v) PROVE IndInv'
<1>1. ch \in Living(stat) /\ v \in Living(stat)
  BY Parts DEF Kills, Blow
<1>2. PICK f \in Engaged(ch, v) : Dies(v, f, Betrayed(ch, v), Wound(regen, v))
  BY DEF Kills
<1>3. Lawful(f, Living(stat), Idle) /\ PackSound(Betrayed(ch, v), stat)
  BY <1>1, EngagedLawful, BetrayedSound
<1>4. Counted(Wound(regen, v), stat, haunted) /\ HealsBut(Wound(regen, v), stat, v)
  BY <1>1, WoundedSound DEF Heals, HealsBut
<1>5. phase' = phase
  BY DEF Kills
<1> QED
  BY <1>1, <1>2, <1>3, <1>4, <1>5, DiesStep

(* A spell makes its victim fight. *)
LEMMA ProvokeStep == ASSUME IndInv, NEW ch \in Char, NEW v \in Char, Provoke(ch, v) PROVE IndInv'
<1>1. ch \in Living(stat) /\ v \in Living(stat)
  BY Parts DEF Provoke, Living
<1>2. PICK f \in Fleeing(SetFighting(fight, v, ch), {v, ch}) : Refight(f)
  BY DEF Provoke
<1>3. Lawful(SetFighting(fight, v, ch), Living(stat), Idle)
  BY <1>1, Parts, SetFightingLawful
<1>4. Lawful(f, Living(stat), Idle)
  BY <1>3, FleeingLawful
<1> QED
  BY <1>2, <1>4, RefightStep

(* do_flee. *)
LEMMA FleeStep == ASSUME IndInv, NEW c \in Char, Flee(c) PROVE IndInv'
<1>1. Lawful(StopAllFighting(fight, c), Living(stat), Idle)
  BY Parts, StopFightingLawful DEF StopAllFighting
<1> QED
  BY <1>1, RefightStep DEF Flee

(* do_rescue: three leave the list and two are linked anew. *)
LEMMA RescueStep ==
    ASSUME IndInv, NEW ch \in Char, NEW victim \in Char, Rescue(ch, victim)
    PROVE  IndInv'
<1>1. PICK foe \in Foes(fight, victim) \ {ch} :
         LET apart == StopFighting(fight, {foe, ch} \cup ({victim} \cap Foes(fight, foe)))
         IN  \E f \in Fleeing(SetFighting(SetFighting(apart, ch, foe), foe, ch), {foe}) : Refight(f)
  BY DEF Rescue
<1> DEFINE apart == StopFighting(fight, {foe, ch} \cup ({victim} \cap Foes(fight, foe)))
           first == SetFighting(apart, ch, foe)
           both  == SetFighting(first, foe, ch)
<1>2. PICK f \in Fleeing(both, {foe}) : Refight(f)
  BY <1>1
<1>3. ch \in Living(stat) /\ foe \in Living(stat)
  <2>1. foe \in Char /\ fight.fighting[foe] = victim
    BY DEF Foes
  <2>2. foe \in Fighters(fight)
    BY <2>1 DEF Fighters
  <2>3. foe \in Living(stat)
    BY <2>2, Parts DEF Lawful, Within
  <2> QED
    BY <2>3 DEF Rescue, Living
<1>4. Lawful(apart, Living(stat), Idle)
  BY Parts, StopFightingLawful
<1> HIDE DEF apart
<1>5. Lawful(first, Living(stat), Idle)
  BY <1>3, <1>4, Parts, SetFightingLawful
<1> HIDE DEF first
<1>6. Lawful(both, Living(stat), Idle)
  BY <1>3, <1>5, Parts, SetFightingLawful
<1> HIDE DEF both
<1>7. Lawful(f, Living(stat), Idle)
  BY <1>6, FleeingLawful
<1> QED
  BY <1>2, <1>7, RefightStep

-----------------------------------------------------------------------------
(* Recovery *)

(* The sign of the gain changes. *)
LEMMA SickenStep == ASSUME IndInv, NEW c \in Char, Sicken(c) \/ Cure(c) PROVE IndInv'
<1>1. stat[c] # "free"
  BY DEF Sicken, Cure, World
<1>2. PICK b \in BOOLEAN : Recover(AlterHit([regen EXCEPT !.ill[c] = b], c))
  BY DEF Sicken, Cure
<1> DEFINE q == [regen EXCEPT !.ill[c] = b]
<1>3. Counted(q, stat, haunted) /\ HealsBut(q, stat, c)
  BY <1>1, Parts, EditCounts
<1>4. Recover(AlterHit(q, c))
  BY <1>2
<1> HIDE DEF q
<1>5. Counted(AlterHit(q, c), stat, haunted) /\ Heals(AlterHit(q, c), stat)
  BY <1>3, AlterHitHeals
<1> QED
  BY <1>4, <1>5, RecoverStep

(* An event that gives no points. *)
LEMMA EventIsDroppedStep == ASSUME IndInv, NEW c \in Char, EventIsDropped(c) PROVE IndInv'
<1>1. CASE stat[c] = "free" /\ Recover(Unqueued(regen, c))
  <2>1. Counted(Unqueued(regen, c), stat, haunted) /\ Heals(Unqueued(regen, c), stat)
    BY <1>1, Parts, UnqueuedCounts DEF EventIsDropped
  <2> QED
    BY <1>1, <2>1, RecoverStep
<1>2. CASE stat[c] \in {"menu", "ld", "lost"} /\ Recover(Begun(regen, c))
  <2>1. stat[c] # "free" /\ regen.queued[c] > 0
    BY <1>2 DEF EventIsDropped
  <2>2. Counted(Begun(regen, c), stat, haunted) /\ HealsBut(Begun(regen, c), stat, c)
    BY <2>1, Parts, BegunCounts
  <2>3. Heals(Begun(regen, c), stat)
    BY <1>2, <2>2 DEF Heals, HealsBut
  <2> QED
    BY <1>2, <2>2, <2>3, RecoverStep
<1> QED
  BY <1>1, <1>2 DEF EventIsDropped

(* What an event finds when it begins. *)
LEMMA BegunSound ==
    ASSUME IndInv, NEW c \in Char, PointsEvent(c)
    PROVE  /\ stat[c] # "free"
           /\ Counted(Begun(regen, c), stat, haunted) /\ HealsBut(Begun(regen, c), stat, c)
           /\ Begun(regen, c).ill = regen.ill
<1>1. stat[c] # "free" /\ regen.queued[c] > 0
  BY DEF PointsEvent
<1> QED
  BY <1>1, Parts, BegunCounts

(* An event that gives points, and queues the next. *)
LEMMA EventHealsStep == ASSUME IndInv, NEW c \in Char, EventHeals(c) PROVE IndInv'
<1>1. PointsEvent(c)
  BY DEF EventHeals
<1>2. PICK h \in {FALSE, regen.hurt[c]} :
        Recover(AlterHit([Begun(regen, c) EXCEPT !.hurt[c] = h], c))
  BY DEF EventHeals
<1>3. h \in BOOLEAN
  BY Parts, RecoveryFields DEF Counted
<1> DEFINE begun == Begun(regen, c)
           q == [begun EXCEPT !.hurt[c] = h]
<1>4. stat[c] # "free" /\ Counted(begun, stat, haunted) /\ HealsBut(begun, stat, c)
  BY <1>1, BegunSound
<1>5. Recover(AlterHit(q, c))
  BY <1>2
<1> HIDE DEF begun
<1>6. Counted(q, stat, haunted) /\ HealsBut(q, stat, c)
  BY <1>3, <1>4, EditCounts
<1> HIDE DEF q
<1>7. Counted(AlterHit(q, c), stat, haunted) /\ Heals(AlterHit(q, c), stat)
  BY <1>6, AlterHitHeals
<1> QED
  BY <1>5, <1>7, RecoverStep

(* An event that deals damage, of which its bearer may die. *)
LEMMA EventHarmsStep == ASSUME IndInv, NEW c \in Char, EventHarms(c) PROVE IndInv'
<1> DEFINE begun == Begun(regen, c)
<1>1. /\ PointsEvent(c) /\ regen.ill[c] /\ c \in Living(stat)
  BY DEF EventHarms, PointsEvent, Living
<1>2. /\ stat[c] # "free" /\ Counted(begun, stat, haunted) /\ HealsBut(begun, stat, c)
      /\ begun.ill = regen.ill
  BY <1>1, BegunSound
<1>3. \/ Recover(begun)
      \/ /\ regen' = Wound(begun, c)
         /\ fight' \in {fight, StopFighting(fight, {c}), StopAllFighting(fight, c)}
         /\ UNCHANGED <<stat, pack, phase, turn, haunted>>
      \/ Dies(c, fight, pack, begun) /\ phase' = phase
  BY DEF EventHarms
<1> HIDE DEF begun
<1>4. CASE Recover(begun)
  <2>1. Heals(begun, stat)
    BY <1>1, <1>2 DEF Heals, HealsBut
  <2> QED
    BY <1>2, <1>4, <2>1, RecoverStep
<1>5. CASE /\ regen' = Wound(begun, c)
           /\ fight' \in {fight, StopFighting(fight, {c}), StopAllFighting(fight, c)}
           /\ UNCHANGED <<stat, pack, phase, turn, haunted>>
  <2>1. Counted(Wound(begun, c), stat, haunted) /\ Heals(Wound(begun, c), stat)
    BY <1>2, WoundHeals
  <2>2. /\ Lawful(fight, Living(stat), Idle)
        /\ Lawful(StopFighting(fight, {c}), Living(stat), Idle)
        /\ Lawful(StopAllFighting(fight, c), Living(stat), Idle)
    BY Parts, StopFightingLawful DEF StopAllFighting
  <2>3. Lawful(fight', Living(stat), Idle) /\ PackSound(pack', stat)
    BY <1>5, <2>2, Parts
  <2>4. Counted(regen', stat, haunted) /\ Heals(regen', stat)
    BY <1>5, <2>1
  <2> QED
    BY <1>5, <2>3, <2>4, UnmovedStep
<1>6. CASE Dies(c, fight, pack, begun) /\ phase' = phase
  <2>1. Lawful(fight, Living(stat), Idle) /\ PackSound(pack, stat)
    BY Parts
  <2> QED
    BY <1>1, <1>2, <1>6, <2>1, DiesStep
<1> QED
  BY <1>3, <1>4, <1>5, <1>6

-----------------------------------------------------------------------------
(* The theorems *)

(* Every step of the game keeps the three structures sound. *)
LEMMA NextIndInv == IndInv /\ [Next]_vars => IndInv'
<1> SUFFICES ASSUME IndInv, [Next]_vars PROVE IndInv'
  OBVIOUS
<1>1. ASSUME NEW c \in Char,
             Spawn(c) \/ Login(c) \/ Enter(c) \/ LeaveMenu(c) \/ Vanish(c)
      PROVE  IndInv'
  BY <1>1, SpawnStep, LoginStep, EnterStep, LeaveMenuStep, DepartureStep
<1>2. ASSUME NEW c \in Char,
             Quit(c) \/ LoseLink(c) \/ Reconnect(c) \/ VoidPull(c) \/ ForceRent(c)
      PROVE  IndInv'
  BY <1>2, DepartureStep, LoseLinkStep, ReconnectStep, VoidPullStep
<1>3. ASSUME NEW c \in Char,
             FollowNobody(c) \/ Refresh(c) \/ Flee(c) \/ Sicken(c) \/ Cure(c)
      PROVE  IndInv'
  BY <1>3, FollowNobodyStep, RefreshStep, FleeStep, SickenStep
<1>4. ASSUME NEW c \in Char, NEW a \in Charm, WearOff(c, a) PROVE IndInv'
  BY <1>4, WearOffStep
<1>5. ASSUME NEW c \in Char, NEW d \in Char,
             Summon(c, d) \/ Follow(c, d) \/ CharmPerson(c, d)
               \/ Hypnotise(c, d) \/ Befriend(c, d) \/ Escort(c, d)
      PROVE  IndInv'
  BY <1>5, SummonStep, FollowStep, CharmPersonStep, HypnotiseStep, BefriendStep, EscortStep
<1>6. ASSUME NEW c \in Char, NEW d \in Char,
             \/ Glances(c, d) \/ Wounds(c, d) \/ Stuns(c, d) \/ Routs(c, d)
             \/ Kills(c, d) \/ Provoke(c, d) \/ Rescue(c, d)
      PROVE  IndInv'
  BY <1>6, BlowStep, KillsStep, ProvokeStep, RescueStep
<1>7. ASSUME NEW c \in Char, TakesTurn(c) \/ Disengages(c) \/ TurnHangs(c) PROVE IndInv'
  BY <1>7, TakesTurnStep, DisengagesStep, HangsStep DEF TurnHangs
<1>8. CASE BeginRound \/ TurnEnds \/ EndRound
  BY <1>8, BeginRoundStep, TurnEndsStep, EndRoundStep
<1>9. ASSUME NEW c \in Char, EventIsDropped(c) \/ EventHeals(c) \/ EventHarms(c) PROVE IndInv'
  BY <1>9, EventIsDroppedStep, EventHealsStep, EventHarmsStep
<1>10. CASE UNCHANGED vars
  <2>1. UNCHANGED <<stat, pack, regen, fight, phase, turn, haunted>>
    BY <1>10 DEF vars
  <2>2. Refight(fight)
    BY <2>1 DEF Refight
  <2> QED
    BY <2>2, Parts, RefightStep
<1> QED
  BY <1>1, <1>2, <1>3, <1>4, <1>5, <1>6, <1>7, <1>8, <1>9, <1>10 DEF Next, Hung

(* The strengthened invariant holds throughout. *)
LEMMA SpecIndInv == Spec => []IndInv
<1>1. Init => IndInv
  BY InitIndInv
<1>2. IndInv /\ [Next]_vars => IndInv'
  BY NextIndInv
<1> QED
  BY <1>1, <1>2, PTL DEF Spec

(* Every variable keeps its type; in particular no count of attackers leaves
   the range that stop_fighting and set_fighting keep it in, and no address has
   more events than there is room for. *)
THEOREM TypesAreKept == Spec => []TypeOK
<1>1. IndInv => TypeOK
  BY IndInvImplies
<1> QED
  BY <1>1, SpecIndInv, PTL

(* The combat list links the fighters and nobody else, every opponent is in the
   world, perform_violence remembers a fighter that is still there, and no
   victim counts attackers it has not: whoever dies, flees or is freed, in the
   middle of a round or not. *)
THEOREM CombatStaysSound == Spec => []CombatSound
<1>1. IndInv => CombatSound
  BY IndInvImplies
<1> QED
  BY <1>1, SpecIndInv, PTL

(* Masters and lists of followers agree, both ends are in the world, and a
   mobile under SPELL_CHARM_PERSON has a master. *)
THEOREM PacksStaySound == Spec => []FollowSound
<1>1. IndInv => FollowSound
  BY IndInvImplies
<1> QED
  BY <1>1, SpecIndInv, PTL

(* Whoever is in play and hurt has an event that will heal it, no pointer refers
   to an event that is gone, and only memory that was reused while an event of
   its former owner was queued can have two. *)
THEOREM RecoveryStaysSound == Spec => []RegenSound
<1>1. IndInv => RegenSound
  BY IndInvImplies
<1> QED
  BY <1>1, SpecIndInv, PTL

-----------------------------------------------------------------------------
(* Rounds of turns *)

(* The fighters before and after a step are a sound list. *)
LEMMA SoundFights ==
    ASSUME IndInv
    PROVE  Sound(fight) /\ Lawful(fight, Living(stat), Idle) /\ Living(stat) \in SUBSET Char
  BY Parts DEF Lawful

(* Those who leave after another change. *)
LEMMA ThenStop ==
    ASSUME NEW f, NEW g, NEW world \in SUBSET Char, NEW idle,
           Sound(f), Lawful(g, world, idle), Moves(f, g), NEW who
    PROVE  Moves(f, StopFighting(g, who))
<1>1. Sound(g) /\ Sound(StopFighting(g, who))
  BY StopFightingLawful DEF Lawful
<1>2. Moves(g, StopFighting(g, who))
  BY <1>1, StopFightingMoves
<1> QED
  BY <1>1, <1>2, MovesTwice

(* Those who may flee only leave. *)
LEMMA FleeingMoves ==
    ASSUME NEW f, NEW g, Sound(f), Lawful(g, Living(stat), Idle), Moves(f, g),
           NEW two, NEW h \in Fleeing(g, two)
    PROVE  Moves(f, h)
<1>1. Living(stat) \in SUBSET Char
  BY DEF Living
<1>2. PICK who : h = StopFighting(g, who)
  BY DEF Fleeing
<1> QED
  BY <1>1, <1>2, ThenStop

(* One of the living attacks another. *)
LEMMA BeginsMoves ==
    ASSUME NEW f, Lawful(f, Living(stat), Idle), NEW ch \in Living(stat),
           NEW v \in Living(stat), NEW g \in Begins(f, ch, v)
    PROVE  Moves(f, g)
<1>1. Living(stat) \in SUBSET Char /\ ch \in Char /\ v \in Char /\ Sound(f)
  BY DEF Living, Lawful
<1>2. Lawful(SetCharFighting(f, ch, v), Living(stat), Idle)
  BY <1>1, SetFightingLawful
<1>3. Moves(f, SetCharFighting(f, ch, v)) /\ Moves(f, f)
  BY <1>1, SetFightingMoves, MovesNot
<1>4. g = f \/ g \in Fleeing(SetCharFighting(f, ch, v), {ch, v})
  BY DEF Begins
<1> QED
  BY <1>1, <1>2, <1>3, <1>4, FleeingMoves

(* Damage makes the two fight, or not. *)
LEMMA EngagedMoves ==
    ASSUME IndInv, NEW ch \in Living(stat), NEW v \in Living(stat), NEW g \in Engaged(ch, v)
    PROVE  Moves(fight, g)
<1>1. Lawful(fight, Living(stat), Idle) /\ Sound(fight) /\ Moves(fight, fight)
  BY SoundFights, MovesNot
<1>2. g = fight \/ \E f \in {fight} \cup Begins(fight, v, ch) : g \in Begins(f, ch, v)
  BY DEF Engaged
<1>3. ASSUME NEW f \in {fight} \cup Begins(fight, v, ch), g \in Begins(f, ch, v)
      PROVE  Moves(fight, g)
  <2>1. Lawful(f, Living(stat), Idle) /\ Moves(fight, f)
    BY <1>1, BeginsLawful, BeginsMoves
  <2>2. Lawful(g, Living(stat), Idle) /\ Moves(f, g)
    BY <1>3, <2>1, BeginsLawful, BeginsMoves
  <2> QED
    BY <1>1, <2>1, <2>2, MovesTwice DEF Lawful
<1> QED
  BY <1>1, <1>2, <1>3

(* A blow: those it makes fight wait, those it takes off the list leave. *)
LEMMA BlowMoves ==
    ASSUME IndInv, NEW ch \in Char, NEW v \in Char,
           Glances(ch, v) \/ Wounds(ch, v) \/ Stuns(ch, v) \/ Routs(ch, v) \/ Kills(ch, v)
    PROVE  Moves(fight, fight')
<1>1. ch \in Living(stat) /\ v \in Living(stat)
  BY Parts DEF Glances, Wounds, Stuns, Routs, Kills, Blow
<1>2. PICK f \in Engaged(ch, v) : \/ fight' = f
                                  \/ fight' = StopFighting(f, {v})
                                  \/ fight' = StopAllFighting(f, v)
  BY DEF Glances, Wounds, Stuns, Routs, Strike, Kills, Dies, Extracted
<1>3. Sound(fight) /\ Lawful(f, Living(stat), Idle) /\ Moves(fight, f)
  BY <1>1, SoundFights, EngagedLawful, EngagedMoves
<1> QED
  BY <1>2, <1>3, SoundFights, ThenStop DEF StopAllFighting

(* Some leave the list, or nobody does. *)
LEMMA LeavingMoves ==
    ASSUME IndInv, \/ fight' = fight
                   \/ \E who : fight' = StopFighting(fight, who)
                   \/ \E c : fight' = StopAllFighting(fight, c)
    PROVE  Moves(fight, fight')
<1>1. Sound(fight) /\ Moves(fight, fight)
  BY SoundFights, MovesNot
<1>2. \A who : Moves(fight, StopFighting(fight, who))
  BY <1>1, StopFightingMoves
<1> QED
  BY <1>1, <1>2 DEF StopAllFighting

(* check_idling, first stage. *)
LEMMA VoidPullMoves ==
    ASSUME IndInv, NEW c \in Char, VoidPull(c)
    PROVE  Moves(fight, fight')
<1> DEFINE f == StopFighting(fight, {fight.fighting[c]})
<1>1. fight' = StopFighting(f, {c})
  BY DEF VoidPull
<1>2. Sound(fight) /\ Lawful(f, Living(stat), Idle) /\ Moves(fight, f)
  BY SoundFights, StopFightingLawful, StopFightingMoves
<1> HIDE DEF f
<1> QED
  BY <1>1, <1>2, SoundFights, ThenStop

(* A spell makes its victim fight. *)
LEMMA ProvokeMoves ==
    ASSUME IndInv, NEW ch \in Char, NEW v \in Char, Provoke(ch, v)
    PROVE  Moves(fight, fight')
<1>1. ch \in Living(stat) /\ v \in Living(stat)
  BY Parts DEF Provoke, Living
<1>2. fight' \in Fleeing(SetFighting(fight, v, ch), {v, ch})
  BY DEF Provoke, Refight
<1>3. /\ Sound(fight) /\ Lawful(SetFighting(fight, v, ch), Living(stat), Idle)
      /\ Moves(fight, SetFighting(fight, v, ch))
  BY <1>1, SoundFights, SetFightingLawful, SetFightingMoves
<1> QED
  BY <1>2, <1>3, FleeingMoves

(* do_rescue: two leave and join again, so that they lose their turn. *)
LEMMA RescueMoves ==
    ASSUME IndInv, NEW ch \in Char, NEW victim \in Char, Rescue(ch, victim)
    PROVE  Moves(fight, fight')
<1>1. PICK foe \in Foes(fight, victim) \ {ch} :
         LET apart == StopFighting(fight, {foe, ch} \cup ({victim} \cap Foes(fight, foe)))
         IN  \E f \in Fleeing(SetFighting(SetFighting(apart, ch, foe), foe, ch), {foe}) : Refight(f)
  BY DEF Rescue
<1> DEFINE apart == StopFighting(fight, {foe, ch} \cup ({victim} \cap Foes(fight, foe)))
           first == SetFighting(apart, ch, foe)
           both  == SetFighting(first, foe, ch)
<1>2. fight' \in Fleeing(both, {foe})
  BY <1>1 DEF Refight
<1>3. ch \in Living(stat) /\ foe \in Living(stat)
  <2>1. foe \in Char /\ fight.fighting[foe] = victim
    BY DEF Foes
  <2>2. foe \in Fighters(fight)
    BY <2>1 DEF Fighters
  <2>3. foe \in Living(stat)
    BY <2>2, Parts DEF Lawful, Within
  <2> QED
    BY <2>3 DEF Rescue, Living
<1>4. Sound(fight) /\ Lawful(apart, Living(stat), Idle) /\ Moves(fight, apart)
  BY SoundFights, StopFightingLawful, StopFightingMoves
<1> HIDE DEF apart
<1>5. Lawful(first, Living(stat), Idle) /\ Moves(apart, first)
  BY <1>3, <1>4, SoundFights, SetFightingLawful, SetFightingMoves DEF Lawful
<1> HIDE DEF first
<1>6. Lawful(both, Living(stat), Idle) /\ Moves(first, both)
  BY <1>3, <1>5, SoundFights, SetFightingLawful, SetFightingMoves DEF Lawful
<1> HIDE DEF both
<1>7. Moves(fight, both)
  BY <1>4, <1>5, <1>6, MovesTwice DEF Lawful
<1> QED
  BY <1>2, <1>4, <1>6, <1>7, FleeingMoves

(* Whatever happens between two turns or during one, those who stay keep their
   places and their turns, and who joins waits for the next round. *)
LEMMA OthersMove ==
    ASSUME IndInv, Next, ~BeginRound,
           \A c \in Char : ~TakesTurn(c) /\ ~Disengages(c)
    PROVE  Moves(fight, fight')
<1> DEFINE P == Moves(fight, fight')
<1>1. ASSUME NEW c \in Char, Spawn(c) \/ Login(c) \/ Enter(c) \/ LeaveMenu(c) PROVE P
  BY <1>1, LeavingMoves DEF Spawn, Login, Enter, LeaveMenu, Born
<1>2. ASSUME NEW c \in Char, Vanish(c) \/ Quit(c) \/ ForceRent(c) PROVE P
  BY <1>2, LeavingMoves DEF Vanish, Quit, ForceRent, Extracted
<1>3. ASSUME NEW c \in Char, LoseLink(c) \/ Reconnect(c) PROVE P
  BY <1>3, LeavingMoves DEF LoseLink, Reconnect
<1>4. ASSUME NEW c \in Char, VoidPull(c) PROVE P
  BY <1>4, VoidPullMoves
<1>5. ASSUME NEW c \in Char, FollowNobody(c) \/ Refresh(c) \/ Sicken(c) \/ Cure(c) PROVE P
  BY <1>5, LeavingMoves DEF FollowNobody, Refresh, Sicken, Cure, Repack, Recover
<1>6. ASSUME NEW c \in Char, Flee(c) PROVE P
  BY <1>6, LeavingMoves DEF Flee, Refight
<1>7. ASSUME NEW c \in Char, NEW a \in Charm, WearOff(c, a) PROVE P
  BY <1>7, LeavingMoves DEF WearOff
<1>8. ASSUME NEW c \in Char, NEW d \in Char,
             Summon(c, d) \/ Follow(c, d) \/ CharmPerson(c, d)
               \/ Hypnotise(c, d) \/ Befriend(c, d) \/ Escort(c, d)
      PROVE  P
  <2>1. fight' = fight
    BY <1>8 DEF Summon, Born, Follow, CharmPerson, Hypnotise, Befriend, Escort,
                Hangs, Repack
  <2> QED
    BY <2>1, LeavingMoves
<1>9. ASSUME NEW c \in Char, NEW d \in Char,
             \/ Glances(c, d) \/ Wounds(c, d) \/ Stuns(c, d) \/ Routs(c, d)
             \/ Kills(c, d) \/ Provoke(c, d) \/ Rescue(c, d)
      PROVE  P
  BY <1>9, BlowMoves, ProvokeMoves, RescueMoves
<1>10. ASSUME NEW c \in Char, TurnHangs(c) PROVE P
  BY <1>10, LeavingMoves DEF TurnHangs, Hangs
<1>11. ASSUME TurnEnds \/ EndRound \/ Hung PROVE P
  BY <1>11, LeavingMoves DEF TurnEnds, EndRound, Hung, vars
<1>12. ASSUME NEW c \in Char, EventIsDropped(c) \/ EventHeals(c) PROVE P
  BY <1>12, LeavingMoves DEF EventIsDropped, EventHeals, Recover
<1>13. ASSUME NEW c \in Char, EventHarms(c) PROVE P
  BY <1>13, LeavingMoves DEF EventHarms, Recover, Dies, Extracted
<1> HIDE DEF P
<1>14. ASSUME NEW c \in Char, TakesTurn(c) \/ Disengages(c) \/ TurnHangs(c) PROVE P
  BY <1>10, <1>14
<1>15. ASSUME BeginRound \/ TurnEnds \/ EndRound PROVE P
  BY <1>11, <1>15
<1>16. ASSUME NEW c \in Char, Quit(c) \/ LoseLink(c) \/ Reconnect(c) \/ VoidPull(c) \/ ForceRent(c)
       PROVE  P
  BY <1>2, <1>3, <1>4, <1>16
<1>17. ASSUME NEW c \in Char, Spawn(c) \/ Login(c) \/ Enter(c) \/ LeaveMenu(c) \/ Vanish(c)
       PROVE  P
  BY <1>1, <1>2, <1>17
<1>18. ASSUME NEW c \in Char, FollowNobody(c) \/ Refresh(c) \/ Flee(c) \/ Sicken(c) \/ Cure(c)
       PROVE  P
  BY <1>5, <1>6, <1>18
<1>19. ASSUME NEW c \in Char, EventIsDropped(c) \/ EventHeals(c) \/ EventHarms(c) PROVE P
  BY <1>12, <1>13, <1>19
<1>20. P
  BY <1>7, <1>8, <1>9, <1>11, <1>14, <1>15, <1>16, <1>17, <1>18, <1>19 DEF Next
<1> QED
  BY <1>20 DEF P

(* TurnRounds reads lists as this module does. *)
LEMMA RoundsLists ==
    ASSUME NEW s, NEW t, NEW who
    PROVE  /\ Rounds!ToSet(s) = ToSet(s)
           /\ Rounds!Staying(s, who) = Staying(s, who)
           /\ Rounds!IsSuffix(s, t) <=> IsSuffix(s, t)
<1>1. Rounds!ToSet(s) = ToSet(s)
  BY DEF Rounds!ToSet, ToSet
<1>2. Rounds!Staying(s, who) = Staying(s, who)
  BY DEF Rounds!Staying, Staying, Rounds!Kept, Kept, Rounds!Rank, Rank,
         Rounds!Cardinality, Cardinality
<1>3. Rounds!IsSuffix(s, t) <=> IsSuffix(s, t)
  BY DEF Rounds!IsSuffix, IsSuffix, Rounds!IsPrefix, IsPrefix, Rounds!Reverse, Reverse
<1> QED
  BY <1>1, <1>2, <1>3

(* What the two modules call the fighters that still have a turn after a step. *)
LEMMA RoundsNext ==
    (ToSet(Upcoming(fight)))' = ToSet(Upcoming(fight'))
BY DEF ToSet, Upcoming

(* Such a step is a change of TurnRounds. *)
LEMMA MovesIsChange ==
    ASSUME IndInv, IndInv', Moves(fight, fight')
    PROVE  Rounds!Change
<1>1. PICK stay : Moved(fight, fight', stay)
  BY DEF Moves
<1>2. /\ fight.list \in Seq(Char) /\ IsInjective(fight.list)
      /\ fight'.list \in Seq(Char) /\ IsInjective(fight'.list)
  BY SoundFights, CombatFields DEF IndInv, Lawful, Sound
<1>3. IsSuffix(Staying(fight.list, ToSet(fight.list) \ stay), fight'.list)
  BY <1>1, <1>2, StayingIsSuffix DEF Moved
<1>4. stay \in SUBSET ToSet(fight.list)
      /\ ToSet(Upcoming(fight')) = ToSet(Upcoming(fight)) \cap stay
  BY <1>1 DEF Moved
<1>5. Rounds!IsSuffix(Rounds!Those(fight.list, stay), fight'.list)
  BY <1>3, RoundsLists DEF Rounds!Those
<1>6. stay \in SUBSET Rounds!ToSet(fight.list)
      /\ (ToSet(Upcoming(fight)))' = ToSet(Upcoming(fight)) \cap stay
  BY <1>4, RoundsLists, RoundsNext
<1> QED
  BY <1>5, <1>6 DEF Rounds!Change

(* A fighter that takes its turn, or stops instead, is the newest of those that
   wait, and waits no longer. *)
LEMMA TurnIsTurn ==
    ASSUME IndInv, NEW c \in Char, TakesTurn(c) \/ Disengages(c)
    PROVE  Rounds!Turn
<1>1. /\ c = fight.next /\ Sound(fight) /\ fight.next # Null
      /\ \/ fight' = PastNext(fight)
         \/ fight' = StopFighting(PastNext(fight), {c})
  BY SoundFights DEF TakesTurn, Disengages, Taken
<1> DEFINE f == PastNext(fight)
<1>2. /\ f.list = fight.list
      /\ c \in ToSet(Upcoming(fight))
      /\ ToSet(Upcoming(f)) = ToSet(Upcoming(fight)) \ {c}
      /\ Head(Staying(fight.list, ToSet(fight.list) \ ToSet(Upcoming(fight)))) = c
      /\ Sound(f)
  BY <1>1, PastNextUpcoming, PastNextSound
<1> HIDE DEF f
<1>3. CASE fight' = f
  BY <1>2, <1>3, RoundsLists, RoundsNext DEF Rounds!Turn, Rounds!Those
<1>4. CASE fight' = StopFighting(f, {c})
  <2>1. fight'.list = Staying(fight.list, {c})
    <3> DEFINE g == StopFighting(f, {c})
    <3>1. g.list = Staying(f.list, {c})
      BY <1>2, StopFightingSound
    <3> QED
      BY <1>2, <1>4, <3>1
  <2>2. Moved(f, fight', ToSet(f.list) \ {c})
    BY <1>2, <1>4, StopFightingMoves
  <2>3. ToSet(Upcoming(f)) \subseteq ToSet(f.list)
    BY <1>2, UpcomingProps DEF Sound
  <2>4. ToSet(Upcoming(fight')) = ToSet(Upcoming(fight)) \ {c}
    BY <1>2, <2>2, <2>3 DEF Moved
  <2>5. Staying(fight.list, {c})
        = Staying(fight.list, ToSet(fight.list) \ (ToSet(fight.list) \ {c}))
    <3>1. ToSet(fight.list) \ (ToSet(fight.list) \ {c}) = {c}
      BY <1>1, <1>2, UpcomingProps DEF Sound
    <3> QED
      BY <3>1
  <2> QED
    BY <1>2, <2>1, <2>4, <2>5, RoundsLists, RoundsNext DEF Rounds!Turn, Rounds!Those
<1> QED
  BY <1>1, <1>3, <1>4 DEF f

(* Every fighter gets a turn when the loop of perform_violence begins. *)
LEMMA BeginIsBegin ==
    ASSUME IndInv, BeginRound
    PROVE  Rounds!Begin
<1>1. Sound(fight) /\ fight.next = Null /\ fight' = AtHead(fight)
  BY SoundFights DEF BeginRound, Lawful
<1>2. Upcoming(fight) = << >>
  BY <1>1, UpcomingProps
<1>3. ToSet(Upcoming(fight)) = {}
  BY <1>2 DEF ToSet
<1>4. fight'.list = fight.list /\ ToSet(Upcoming(fight')) = ToSet(fight.list)
  BY <1>1, AtHeadUpcoming
<1> QED
  BY <1>3, <1>4, RoundsLists, RoundsNext DEF Rounds!Begin

(* Every step of the game is a step of the rounds, or none. *)
LEMMA TurnsStep ==
    ASSUME IndInv, IndInv', [Next]_vars
    PROVE  [Rounds!TNext]_(Rounds!tvars)
<1>1. CASE UNCHANGED vars
  BY <1>1 DEF vars, Rounds!tvars
<1>2. CASE BeginRound
  BY <1>2, BeginIsBegin DEF Rounds!TNext
<1>3. ASSUME NEW c \in Char, TakesTurn(c) \/ Disengages(c)
      PROVE  Rounds!TNext
  BY <1>3, TurnIsTurn DEF Rounds!TNext
<1>4. CASE /\ Next /\ ~BeginRound
           /\ \A c \in Char : ~TakesTurn(c) /\ ~Disengages(c)
  BY <1>4, OthersMove, MovesIsChange DEF Rounds!TNext
<1> QED
  BY <1>1, <1>2, <1>3, <1>4

(* perform_violence implements the rounds: each fighter that stays in the fight
   gets one turn in a round, the newest first, whoever else joins, stops or dies
   meanwhile; who joins waits for the next round. *)
THEOREM CombatRefinesTurns == Spec => ImplementsTurns
<1>1. Init => Rounds!TInit
  <2> SUFFICES ASSUME Init PROVE Rounds!TInit
    OBVIOUS
  <2>1. fight.list = << >> /\ fight.next = Null
    BY DEF Init, Peace
  <2>2. Upcoming(fight) = << >>
    BY <2>1 DEF Upcoming
  <2>3. ToSet(Upcoming(fight)) = {}
    BY <2>2 DEF ToSet
  <2> QED
    BY <2>1, <2>3 DEF Rounds!TInit
<1>2. IndInv /\ IndInv' /\ [Next]_vars => [Rounds!TNext]_(Rounds!tvars)
  BY TurnsStep
<1> QED
  BY <1>1, <1>2, SpecIndInv, PTL DEF Spec, ImplementsTurns, Rounds!TSpec
-----------------------------------------------------------------------------
(* Circles of followers *)

\* The walk of circle_follow, as a function on the steps it takes.
Walk(p, c, n) ==
    {at \in [0 .. n -> Char \cup {Null}] :
        /\ at[0] = c
        /\ \A k \in 1 .. n : at[k] = IF at[k - 1] = Null THEN Null ELSE p.master[at[k - 1]]}

(* The walk starts at the character and goes from master to master. *)
LEMMA ClimbWalks ==
    ASSUME NEW p \in Pack, NEW c \in Char
    PROVE  Climb(p, c) \in Walk(p, c, Cardinality(Char))
<1> DEFINE N == Cardinality(Char)
           C == {k \in 0 .. N : Walk(p, c, k) # {}}
<1>0. N \in Nat
  BY CharIsFinite, FS_CardinalityType
<1> HIDE DEF N
<1>1. 0 \in C
  <2>1. [k \in 0 .. 0 |-> c] \in Walk(p, c, 0)
    BY DEF Walk
  <2> QED
    BY <1>0, <2>1
<1>2. ASSUME NEW k \in 0 .. N - 1, k \in C PROVE k + 1 \in C
  <2>1. PICK f \in [0 .. k -> Char \cup {Null}] :
          /\ f[0] = c
          /\ \A i \in 1 .. k : f[i] = IF f[i - 1] = Null THEN Null ELSE p.master[f[i - 1]]
    BY <1>2 DEF Walk
  <2> DEFINE last == IF f[k] = Null THEN Null ELSE p.master[f[k]]
             g == [i \in 0 .. k + 1 |-> IF i = k + 1 THEN last ELSE f[i]]
  <2>2. k \in Nat /\ k + 1 \in 0 .. N
    BY <1>0
  <2>3. last \in Char \cup {Null}
    BY <2>1, <2>2, PackFields
  <2> HIDE DEF last
  <2>4. g \in [0 .. k + 1 -> Char \cup {Null}] /\ g[0] = c
    BY <2>1, <2>2, <2>3
  <2>5. ASSUME NEW i \in 1 .. k + 1
        PROVE  g[i] = IF g[i - 1] = Null THEN Null ELSE p.master[g[i - 1]]
    <3>1. g[i - 1] = f[i - 1]
      BY <2>2
    <3>2. CASE i = k + 1
      BY <2>2, <3>1, <3>2 DEF last
    <3>3. CASE i \in 1 .. k
      <4>1. g[i] = f[i]
        BY <2>2, <3>3
      <4> QED
        BY <2>1, <3>1, <3>3, <4>1
    <3> QED
      BY <2>2, <3>2, <3>3
  <2> HIDE DEF g
  <2>6. g \in Walk(p, c, k + 1)
    BY <2>4, <2>5 DEF Walk
  <2> QED
    BY <2>2, <2>6
<1> HIDE DEF C
<1>3. N \in C
  <2>1. \A k \in 0 .. N : k \in C
    BY <1>0, <1>1, <1>2, Counting
  <2> QED
    BY <1>0, <2>1
<1>4. PICK f : f \in Walk(p, c, N)
  BY <1>3 DEF C
<1> DEFINE Goes(at) == at = [n \in 0 .. N |->
                  IF n = 0 THEN c ELSE IF at[n - 1] = Null THEN Null ELSE p.master[at[n - 1]]]
<1>5. Goes(f)
  <2>1. f \in [0 .. N -> Char \cup {Null}] /\ f[0] = c
        /\ \A n \in 1 .. N : f[n] = IF f[n - 1] = Null THEN Null ELSE p.master[f[n - 1]]
    BY <1>4 DEF Walk
  <2>2. \A n \in 0 .. N : n = 0 \/ n \in 1 .. N
    BY <1>0
  <2> QED
    BY <2>1, <2>2
<1>6. Climb(p, c) = CHOOSE at : Goes(at)
  BY DEF Climb, N
<1> HIDE DEF Goes
<1>7. Goes(Climb(p, c))
  BY <1>5, <1>6
<1> DEFINE a == Climb(p, c)
<1>8. a = [n \in 0 .. N |->
            IF n = 0 THEN c ELSE IF a[n - 1] = Null THEN Null ELSE p.master[a[n - 1]]]
  BY <1>7 DEF Goes
<1> HIDE DEF a
<1> DEFINE D == {k \in 0 .. N : a[k] \in Char \cup {Null}}
<1>9. /\ DOMAIN a = 0 .. N /\ a[0] = c
      /\ \A n \in 1 .. N : a[n] = IF a[n - 1] = Null THEN Null ELSE p.master[a[n - 1]]
  <2>1. 0 \in 0 .. N /\ \A n \in 1 .. N : n \in 0 .. N /\ n # 0
    BY <1>0
  <2> QED
    BY <1>8, <2>1
<1>10. 0 \in D
  BY <1>0, <1>9
<1>11. ASSUME NEW k \in 0 .. N - 1, k \in D PROVE k + 1 \in D
  <2>1. k + 1 \in 1 .. N /\ (k + 1) - 1 = k /\ k + 1 \in 0 .. N
    BY <1>0
  <2>2. a[k + 1] = IF a[k] = Null THEN Null ELSE p.master[a[k]]
    BY <1>9, <2>1
  <2> QED
    BY <1>11, <2>1, <2>2, PackFields
<1> HIDE DEF D
<1>12. \A k \in 0 .. N : k \in D
  BY <1>0, <1>10, <1>11, Counting
<1>13. a \in [0 .. N -> Char \cup {Null}]
  <2>1. a = [n \in 0 .. N |-> a[n]]
    BY <1>8
  <2> QED
    BY <1>12, <2>1 DEF D
<1> QED
  BY <1>9, <1>13 DEF a, Walk, N

(* What the walk finds: as long as there is a master, the next one is its. *)
LEMMA ClimbGoes ==
    ASSUME NEW p \in Pack, NEW c \in Char
    PROVE  /\ Cardinality(Char) \in Nat
           /\ Climb(p, c) \in [0 .. Cardinality(Char) -> Char \cup {Null}]
           /\ Climb(p, c)[0] = c
           /\ \A k \in 0 .. Cardinality(Char) - 1 :
                /\ Climb(p, c)[k] = Null => Climb(p, c)[k + 1] = Null
                /\ Climb(p, c)[k] # Null => Climb(p, c)[k + 1] = p.master[Climb(p, c)[k]]
<1> DEFINE N == Cardinality(Char)
           a == Climb(p, c)
<1>1. N \in Nat
  BY CharIsFinite, FS_CardinalityType
<1>2. a \in Walk(p, c, N)
  BY ClimbWalks
<1> HIDE DEF N, a
<1>3. a \in [0 .. N -> Char \cup {Null}] /\ a[0] = c
      /\ \A k \in 1 .. N : a[k] = IF a[k - 1] = Null THEN Null ELSE p.master[a[k - 1]]
  BY <1>2 DEF Walk
<1>4. ASSUME NEW k \in 0 .. N - 1
      PROVE  /\ a[k] = Null => a[k + 1] = Null
             /\ a[k] # Null => a[k + 1] = p.master[a[k]]
  <2>1. k + 1 \in 1 .. N /\ (k + 1) - 1 = k
    BY <1>1
  <2> QED
    BY <1>3, <2>1
<1> QED
  BY <1>1, <1>3, <1>4 DEF N, a

\* Characters whose masters are among them: nobody climbs out of it.
Trap(p, S) == S \in SUBSET Char /\ S # {} /\ \A x \in S : p.master[x] \in S

(* Who is in a trap climbs without end. *)
LEMMA TrapIsEndless ==
    ASSUME NEW p \in Pack, NEW S, Trap(p, S), NEW c \in S
    PROVE  Circular(p)
<1> DEFINE N == Cardinality(Char)
           a == Climb(p, c)
           C == {k \in 0 .. N : a[k] \in S}
<1>1. c \in Char /\ Null \notin S
  BY NullIsNoChar DEF Trap
<1>2. /\ N \in Nat /\ a[0] = c
      /\ \A k \in 0 .. N - 1 : a[k] # Null => a[k + 1] = p.master[a[k]]
  BY <1>1, ClimbGoes
<1> HIDE DEF N, a
<1>3. 0 \in C
  BY <1>2
<1>4. ASSUME NEW k \in 0 .. N - 1, k \in C PROVE k + 1 \in C
  <2>1. k + 1 \in 0 .. N /\ a[k] \in S
    BY <1>2, <1>4
  <2> QED
    BY <1>1, <1>2, <2>1 DEF Trap
<1> HIDE DEF C
<1>5. \A k \in 0 .. N : k \in C
  BY <1>2, <1>3, <1>4, Counting
<1>6. a[N] \in S
  BY <1>2, <1>5 DEF C
<1> QED
  BY <1>1, <1>6 DEF N, a, Endless, Circular

(* Who climbs without end is led into a trap: among more steps than there are
   characters it meets one of them twice, and those it meets between are one. *)
LEMMA EndlessIsTrap ==
    ASSUME NEW p \in Pack, Circular(p)
    PROVE  \E S : Trap(p, S)
<1> DEFINE N == Cardinality(Char)
<1>1. PICK c \in Char : Climb(p, c)[N] # Null
  BY DEF Circular, Endless
<1> DEFINE a == Climb(p, c)
<1>2. /\ N \in Nat /\ a \in [0 .. N -> Char \cup {Null}] /\ a[N] # Null
      /\ \A k \in 0 .. N - 1 : /\ a[k] = Null => a[k + 1] = Null
                               /\ a[k] # Null => a[k + 1] = p.master[a[k]]
  BY <1>1, ClimbGoes
<1>3. IsFiniteSet(0 .. N) /\ Cardinality(0 .. N) = N + 1 /\ Cardinality(Char) = N
  BY <1>2, FS_Interval
<1> HIDE DEF N, a
<1>4. ASSUME NEW n \in 0 .. N PROVE a[n] # Null
  <2> SUFFICES ASSUME a[n] = Null PROVE FALSE
    OBVIOUS
  <2> DEFINE C == {k \in 0 .. N - n : a[n + k] = Null}
  <2>1. N - n \in Nat /\ n \in Nat
    BY <1>2
  <2>2. 0 \in C
    BY <2>1
  <2>3. ASSUME NEW k \in 0 .. (N - n) - 1, k \in C PROVE k + 1 \in C
    <3>1. n + k \in 0 .. N - 1 /\ k + 1 \in 0 .. N - n /\ (n + k) + 1 = n + (k + 1)
      BY <1>2, <2>1
    <3> QED
      BY <1>2, <2>3, <3>1
  <2> HIDE DEF C
  <2>4. \A k \in 0 .. N - n : k \in C
    BY <2>1, <2>2, <2>3, Counting
  <2>5. N - n \in C /\ n + (N - n) = N
    BY <1>2, <2>1, <2>4
  <2> QED
    BY <1>2, <2>5 DEF C
<1>5. a \in [0 .. N -> Char]
  BY <1>2, <1>4
<1>6. PICK x \in 0 .. N, y \in 0 .. N : x # y /\ a[x] = a[y]
  <2> DEFINE T == 0 .. N
  <2>1. IsFiniteSet(T) /\ Cardinality(Char) < Cardinality(T) /\ a \in [T -> Char]
    BY <1>2, <1>3, <1>5
  <2> HIDE DEF T
  <2>2. \E x, y \in T : x # y /\ a[x] = a[y]
    BY <2>1, CharIsFinite, FS_PigeonHole
  <2> QED
    BY <2>2 DEF T
<1>7. PICK i \in 0 .. N, j \in 0 .. N : i < j /\ a[i] = a[j]
  <2>1. x < y \/ y < x
    BY <1>2, <1>6
  <2> QED
    BY <1>6, <2>1
<1> DEFINE S == {a[k] : k \in i .. j - 1}
<1>8. S \in SUBSET Char /\ S # {}
  <2>1. i \in i .. j - 1 /\ i .. j - 1 \subseteq 0 .. N
    BY <1>2, <1>7
  <2> QED
    BY <1>5, <2>1
<1>9. ASSUME NEW z \in S PROVE p.master[z] \in S
  <2>1. PICK k \in i .. j - 1 : z = a[k]
    BY <1>9
  <2>2. k \in 0 .. N - 1 /\ (k + 1 \in i .. j - 1 \/ k + 1 = j) /\ i \in i .. j - 1
        /\ k \in 0 .. N
    BY <1>2, <1>7
  <2>3. p.master[z] = a[k + 1]
    BY <1>2, <1>4, <2>1, <2>2
  <2> QED
    BY <1>7, <2>2, <2>3
<1> HIDE DEF S
<1>10. Trap(p, S)
  BY <1>8, <1>9 DEF Trap
<1> QED
  BY <1>10

(* Leaving a master closes no circle. *)
LEMMA LeavingIsOpen ==
    ASSUME NEW p \in Pack, NEW q \in Pack, ~Circular(p),
           \A x \in Char : q.master[x] \in {p.master[x], Null}
    PROVE  ~Circular(q)
<1> SUFFICES ASSUME Circular(q) PROVE FALSE
  OBVIOUS
<1>1. PICK S : Trap(q, S)
  BY EndlessIsTrap
<1>2. \A x \in S : x \in Char /\ q.master[x] \in S /\ q.master[x] # Null
  BY <1>1, NullIsNoChar DEF Trap
<1>3. Trap(p, S)
  BY <1>1, <1>2 DEF Trap
<1>4. \E c : c \in S
  BY <1>1 DEF Trap
<1> QED
  BY <1>3, <1>4, TrapIsEndless

(* Nor does a new master that circle_follow has not found below c. *)
LEMMA CheckedIsOpen ==
    ASSUME NEW p \in Pack, NEW q \in Pack, ~Circular(p), NEW c \in Char, NEW leader \in Char,
           ~CircleFollow(p, c, leader),
           \A x \in Char : \/ q.master[x] \in {p.master[x], Null}
                           \/ x = c /\ q.master[x] = leader
    PROVE  ~Circular(q)
<1> SUFFICES ASSUME Circular(q) PROVE FALSE
  OBVIOUS
<1>1. PICK S : Trap(q, S)
  BY EndlessIsTrap
<1>2. \A x \in S : x \in Char /\ q.master[x] \in S /\ q.master[x] # Null
  BY <1>1, NullIsNoChar DEF Trap
<1>3. c \in S /\ q.master[c] = leader
  <2> SUFFICES ASSUME ~(c \in S /\ q.master[c] = leader) PROVE FALSE
    OBVIOUS
  <2>1. Trap(p, S)
    BY <1>1, <1>2 DEF Trap
  <2>2. \E x : x \in S
    BY <1>1 DEF Trap
  <2> QED
    BY <2>1, <2>2, TrapIsEndless
<1>4. leader \in S
  BY <1>2, <1>3
<1> DEFINE N == Cardinality(Char)
           a == Climb(p, leader)
           C == {k \in 0 .. N : a[k] \in S}
<1>5. /\ N \in Nat /\ a[0] = leader
      /\ \A k \in 0 .. N - 1 : a[k] # Null => a[k + 1] = p.master[a[k]]
  BY ClimbGoes
<1>6. \A k \in 0 .. N : a[k] # c
  BY NullIsNoChar DEF CircleFollow, Leaders
<1>7. a[N] = Null
  BY DEF Circular, Endless
<1> HIDE DEF N, a
<1>8. 0 \in C
  BY <1>4, <1>5
<1>9. ASSUME NEW k \in 0 .. N - 1, k \in C PROVE k + 1 \in C
  <2>1. k \in 0 .. N /\ k + 1 \in 0 .. N /\ a[k] \in S
    BY <1>5, <1>9
  <2>2. a[k] # c /\ a[k] \in Char /\ a[k] # Null
    BY <1>2, <1>6, <2>1, NullIsNoChar
  <2>3. p.master[a[k]] = q.master[a[k]]
    BY <1>2, <2>1, <2>2
  <2> QED
    BY <1>2, <1>5, <2>1, <2>2, <2>3
<1> HIDE DEF C
<1>10. \A k \in 0 .. N : k \in C
  BY <1>5, <1>8, <1>9, Counting
<1>11. a[N] \in S
  BY <1>5, <1>10 DEF C
<1> QED
  BY <1>1, <1>7, <1>11, NullIsNoChar DEF Trap

(* Nor does the master of one whom nobody follows yet. *)
LEMMA NewbornIsOpen ==
    ASSUME NEW p \in Pack, NEW q \in Pack, ~Circular(p), NEW c \in Char, NEW leader \in Char,
           leader # c, \A x \in Char : p.master[x] # c,
           \A x \in Char : \/ q.master[x] \in {p.master[x], Null}
                           \/ x = c /\ q.master[x] = leader
    PROVE  ~Circular(q)
<1> SUFFICES ASSUME Circular(q) PROVE FALSE
  OBVIOUS
<1>1. PICK S : Trap(q, S)
  BY EndlessIsTrap
<1>2. \A x \in S : x \in Char /\ q.master[x] \in S /\ q.master[x] # Null
  BY <1>1, NullIsNoChar DEF Trap
<1>3. S \ {c} # {}
  <2>1. PICK x : x \in S
    BY <1>1 DEF Trap
  <2>2. q.master[x] # c \/ x # c
    BY <1>2, <2>1
  <2> QED
    BY <1>2, <2>1, <2>2
<1>4. ASSUME NEW x \in S \ {c} PROVE p.master[x] \in S \ {c}
  BY <1>2
<1>5. Trap(p, S \ {c})
  BY <1>1, <1>3, <1>4 DEF Trap
<1> QED
  BY <1>3, <1>5, TrapIsEndless

(* What the functions of the pack do to masters. *)
LEMMA Masters ==
    ASSUME NEW p \in Pack, NEW c \in Char, NEW who
    PROVE  /\ \A x \in Char : StopFollower(p, who).master[x] = IF x \in who THEN Null ELSE p.master[x]
           /\ \A a : /\ AffectToChar(p, c, a).master = p.master
                     /\ AffectRemove(p, c, a).master = p.master
           /\ AffectTotal(p, c).master = p.master
           /\ \A leader \in Char, x \in Char :
                /\ AddFollower(p, c, leader).master[x] =
                        IF x = c /\ p.master[c] = Null THEN leader ELSE p.master[x]
                /\ NewMaster(p, c, leader).master[x] = IF x = c THEN leader ELSE p.master[x]
<1>1. /\ p.master \in [Char -> Char \cup {Null}]
      /\ DOMAIN p = {"master", "followers", "charms", "charmed"}
  BY DEF Pack
<1>2. \A x \in Char : StopFollower(p, who).master[x] = IF x \in who THEN Null ELSE p.master[x]
  BY <1>1 DEF StopFollower
<1>3. \A a : AffectToChar(p, c, a).master = p.master
  BY <1>1 DEF AffectToChar
<1>4. \A a : AffectRemove(p, c, a).master = p.master
  BY <1>1 DEF AffectRemove, AffectTotal
<1>5. AffectTotal(p, c).master = p.master
  BY <1>1 DEF AffectTotal
<1>6. ASSUME NEW leader \in Char, NEW x \in Char
      PROVE  AddFollower(p, c, leader).master[x] =
                IF x = c /\ p.master[c] = Null THEN leader ELSE p.master[x]
  BY <1>1 DEF AddFollower
<1>7. ASSUME NEW leader \in Char, NEW x \in Char
      PROVE  NewMaster(p, c, leader).master[x] = IF x = c THEN leader ELSE p.master[x]
  <2> DEFINE s == StopFollower(p, {c})
  <2>1. /\ DOMAIN s = {"master", "followers", "charms", "charmed"}
        /\ s.master = [y \in Char |-> IF y \in {z \in {c} : p.master[z] # Null} THEN Null
                                      ELSE p.master[y]]
    BY DEF StopFollower
  <2>2. s.master[c] = Null /\ \A y \in Char : y # c => s.master[y] = p.master[y]
    BY <2>1
  <2> HIDE DEF s
  <2>3. AddFollower(s, c, leader).master = [s.master EXCEPT ![c] = leader]
    BY <2>1, <2>2 DEF AddFollower
  <2> QED
    BY <2>1, <2>2, <2>3 DEF NewMaster, s
<1> QED
  BY <1>2, <1>3, <1>4, <1>5, <1>6, <1>7

\* Nobody has a master whom he had not before.
Loosens(p, q) == \A x \in Char : q.master[x] \in {p.master[x], Null}

(* Whoever leaves the world frees its followers. *)
LEMMA ExtractedLoosens ==
    ASSUME NEW c \in Char, NEW p \in Pack, NEW f, NEW r, Extracted(c, f, p, r)
    PROVE  Loosens(p, pack')
<1> DEFINE left == DieFollower(p, c)
<1>1. \A x \in Char : left.master[x] \in {p.master[x], Null}
  BY Masters DEF DieFollower
<1>2. DOMAIN left = {"master", "followers", "charms", "charmed"}
  BY DEF DieFollower, StopFollower
<1>3. \/ pack' = left
      \/ pack' = [left EXCEPT !.charms[c] = {}, !.charmed[c] = FALSE]
  BY DEF Extracted
<1> HIDE DEF left
<1>4. pack'.master = left.master
  BY <1>2, <1>3
<1> QED
  BY <1>1, <1>4 DEF Loosens

(* A blow frees the victim from a master that hits it, and all if it dies. *)
LEMMA BlowLoosens ==
    ASSUME IndInv, NEW ch \in Char, NEW v \in Char,
           Glances(ch, v) \/ Wounds(ch, v) \/ Stuns(ch, v) \/ Routs(ch, v) \/ Kills(ch, v)
    PROVE  Loosens(pack, pack')
<1>1. pack \in Pack /\ Betrayed(ch, v) \in Pack
  BY Parts, BetrayedSound DEF PackSound
<1>2. Loosens(pack, Betrayed(ch, v))
  BY <1>1, Masters DEF Betrayed, Loosens
<1>3. CASE pack' = Betrayed(ch, v)
  BY <1>2, <1>3
<1>4. ASSUME NEW f, NEW r, Extracted(v, f, Betrayed(ch, v), r)
      PROVE  Loosens(pack, pack')
  <2>1. Loosens(Betrayed(ch, v), pack')
    BY <1>1, <1>4, ExtractedLoosens
  <2> QED
    BY <1>2, <2>1 DEF Loosens
<1> QED
  BY <1>3, <1>4 DEF Glances, Wounds, Stuns, Routs, Strike, Kills, Dies

(* What wears off may free its bearer. *)
LEMMA WearOffLoosens ==
    ASSUME IndInv, NEW c \in Char, NEW a, WearOff(c, a)
    PROVE  Loosens(pack, pack')
<1> DEFINE left == IF a # "friendship" /\ pack.master[c] # Null
                   THEN StopFollower(pack, {c}) ELSE pack
<1>1. pack' = left \/ pack' = AffectRemove(left, c, a)
  BY DEF WearOff
<1>2. pack \in Pack /\ left \in Pack
  BY Parts, StopFollowerSound DEF PackSound
<1>3. Loosens(pack, left)
  BY <1>2, Masters DEF Loosens
<1> HIDE DEF left
<1>4. AffectRemove(left, c, a).master = left.master
  BY <1>2, Masters
<1> QED
  BY <1>1, <1>3, <1>4 DEF Loosens

(* The callers of add_follower that look for a circle, and the spells whose
   mobile is new. *)
LEMMA CheckedStepIsOpen ==
    ASSUME IndInv, IndInv', ~Circular(pack), NEW c \in Char, NEW d \in Char,
           Summon(c, d) \/ Follow(c, d) \/ CharmPerson(c, d) \/ Hypnotise(c, d)
    PROVE  ~Circular(pack')
<1>1. pack \in Pack /\ pack' \in Pack
  BY DEF IndInv, PackSound
<1>2. ~Endless(pack, c) /\ ~Endless(pack, d)
  BY DEF Circular
<1>3. CASE Summon(c, d)
  <2>1. /\ stat[c] \in {"mob", "pc"} /\ stat[d] = "free"
        /\ pack' = AffectToChar(AddFollower(pack, d, c), d, "charm")
    BY <1>3 DEF Summon, Born
  <2>2. PackSound(pack, stat)
    BY Parts
  <2>3. c # d /\ \A x \in Char : pack.master[x] # d
    BY <2>1, <2>2, NullIsNoChar DEF PackSound, Living
  <2>4. AddFollower(pack, d, c) \in Pack
    <3>1. pack.master[d] = Null
      BY <2>1, <2>2 DEF PackSound, Living
    <3>2. pack.followers \in [Char -> Seq(Char)] /\ << d >> \o pack.followers[c] \in Seq(Char)
      BY <1>1, PackFields
    <3> QED
      BY <1>1, <3>1, <3>2 DEF AddFollower, Pack
  <2>5. pack'.master = AddFollower(pack, d, c).master
    BY <2>1, <2>4, Masters
  <2>6. \A x \in Char : \/ AddFollower(pack, d, c).master[x] = pack.master[x]
                        \/ x = d /\ AddFollower(pack, d, c).master[x] = c
    BY <1>1, Masters
  <2> QED
    BY <1>1, <2>3, <2>5, <2>6, NewbornIsOpen
<1>4. CASE Follow(c, d)
  <2>1. \/ ~CircleFollow(pack, c, d) /\ pack' = NewMaster(pack, c, d)
        \/ UNCHANGED pack
    BY <1>4 DEF Follow, MayFollow, Hangs, Repack
  <2>2. \A x \in Char : NewMaster(pack, c, d).master[x] = IF x = c THEN d ELSE pack.master[x]
    BY <1>1, Masters
  <2> QED
    BY <1>1, <2>1, <2>2, CheckedIsOpen
<1>5. CASE CharmPerson(c, d)
  <2>1. \/ /\ ~CircleFollow(pack, d, c)
           /\ pack' = AffectToChar(NewMaster(pack, d, c), d, "charm")
        \/ UNCHANGED pack
    BY <1>5 DEF CharmPerson, Hangs, Repack
  <2>2. c \in Living(stat) /\ d \in Living(stat)
    BY <1>5, Parts DEF CharmPerson, Living
  <2>3. NewMaster(pack, d, c) \in Pack
    BY <2>2, Parts, NewMasterSound DEF PackSound
  <2>4. AffectToChar(NewMaster(pack, d, c), d, "charm").master = NewMaster(pack, d, c).master
    BY <2>3, Masters
  <2>5. \A x \in Char : NewMaster(pack, d, c).master[x] = IF x = d THEN c ELSE pack.master[x]
    BY <1>1, Masters
  <2> QED
    BY <1>1, <2>1, <2>4, <2>5, CheckedIsOpen
<1>6. CASE Hypnotise(c, d)
  <2>1. \/ /\ ~CircleFollow(pack, d, c)
           /\ pack' = AffectToChar(AddFollower(pack, d, c), d, "hypnosis")
        \/ UNCHANGED pack
    BY <1>6 DEF Hypnotise, Hangs, Repack
  <2>2. c \in Living(stat) /\ d \in Living(stat)
    BY <1>6, Parts DEF Hypnotise, Living
  <2>3. AddFollower(pack, d, c) \in Pack
    BY <2>2, Parts, AddFollowerSound DEF PackSound
  <2>4. AffectToChar(AddFollower(pack, d, c), d, "hypnosis").master = AddFollower(pack, d, c).master
    BY <2>3, Masters
  <2>5. \A x \in Char : \/ AddFollower(pack, d, c).master[x] = pack.master[x]
                        \/ x = d /\ AddFollower(pack, d, c).master[x] = c
    BY <1>1, Masters
  <2> QED
    BY <1>1, <2>1, <2>4, <2>5, CheckedIsOpen
<1> QED
  BY <1>3, <1>4, <1>5, <1>6

(* A circle is closed only where nobody looks for one. *)
LEMMA NextIsOpen ==
    ASSUME IndInv, IndInv', [Next]_vars, ~Circular(pack),
           \A c, d \in Char : ~Befriend(c, d) /\ ~Escort(c, d)
    PROVE  ~Circular(pack')
<1> DEFINE P == ~Circular(pack')
<1>1. pack \in Pack /\ pack' \in Pack
  BY DEF IndInv, PackSound
<1>2. ASSUME Loosens(pack, pack') PROVE P
  BY <1>1, <1>2, LeavingIsOpen DEF Loosens
<1>3. ASSUME UNCHANGED pack PROVE P
  BY <1>3
<1>4. ASSUME NEW c \in Char, Spawn(c) \/ Login(c) \/ Enter(c) \/ LeaveMenu(c) PROVE P
  <2>1. pack'.master = pack.master
    <3>1. DOMAIN pack = {"master", "followers", "charms", "charmed"}
      BY <1>1 DEF Pack
    <3> QED
      BY <1>4, <3>1 DEF Spawn, Login, Enter, LeaveMenu
  <2> QED
    BY <1>2, <2>1 DEF Loosens
<1>5. ASSUME NEW c \in Char, Vanish(c) \/ Quit(c) \/ ForceRent(c) PROVE P
  BY <1>1, <1>2, <1>5, ExtractedLoosens DEF Vanish, Quit, ForceRent
<1>6. ASSUME NEW c \in Char, LoseLink(c) PROVE P
  <2>1. Loosens(pack, pack')
    BY <1>1, <1>6, Masters DEF LoseLink, Loosens
  <2> QED
    BY <1>2, <2>1
<1>7. ASSUME NEW c \in Char, Reconnect(c) \/ VoidPull(c) \/ Flee(c) \/ Sicken(c) \/ Cure(c) PROVE P
  BY <1>3, <1>7 DEF Reconnect, VoidPull, Flee, Sicken, Cure, Refight, Recover
<1>8. ASSUME NEW c \in Char, FollowNobody(c) \/ Refresh(c) PROVE P
  <2>1. Loosens(pack, pack')
    BY <1>1, <1>8, Masters DEF FollowNobody, Refresh, Repack, Loosens
  <2> QED
    BY <1>2, <2>1
<1>9. ASSUME NEW c \in Char, NEW a \in Charm, WearOff(c, a) PROVE P
  BY <1>2, <1>9, WearOffLoosens
<1>10. ASSUME NEW c \in Char, NEW d \in Char,
              Summon(c, d) \/ Follow(c, d) \/ CharmPerson(c, d) \/ Hypnotise(c, d)
       PROVE  P
  BY <1>10, CheckedStepIsOpen
<1>11. ASSUME NEW c \in Char, NEW d \in Char,
              \/ Glances(c, d) \/ Wounds(c, d) \/ Stuns(c, d) \/ Routs(c, d)
              \/ Kills(c, d) \/ Provoke(c, d) \/ Rescue(c, d)
       PROVE  P
  <2>1. CASE Provoke(c, d) \/ Rescue(c, d)
    BY <1>3, <2>1 DEF Provoke, Rescue, Refight
  <2> QED
    BY <1>2, <1>11, <2>1, BlowLoosens
<1>12. ASSUME NEW c \in Char, TakesTurn(c) \/ Disengages(c) \/ TurnHangs(c) PROVE P
  BY <1>3, <1>12 DEF TakesTurn, Disengages, TurnHangs, Hangs
<1>13. ASSUME BeginRound \/ TurnEnds \/ EndRound \/ Hung \/ UNCHANGED vars PROVE P
  BY <1>3, <1>13 DEF BeginRound, TurnEnds, EndRound, Hung, vars
<1>14. ASSUME NEW c \in Char, EventIsDropped(c) \/ EventHeals(c) \/ EventHarms(c) PROVE P
  <2>1. ASSUME Dies(c, fight, pack, Begun(regen, c)) PROVE P
    BY <1>1, <1>2, <2>1, ExtractedLoosens DEF Dies
  <2> QED
    BY <1>3, <1>14, <2>1 DEF EventIsDropped, EventHeals, EventHarms, Recover
<1> HIDE DEF P
<1>15. ASSUME NEW c \in Char, Spawn(c) \/ Login(c) \/ Enter(c) \/ LeaveMenu(c) \/ Vanish(c)
       PROVE  P
  BY <1>4, <1>5, <1>15
<1>16. ASSUME NEW c \in Char, Quit(c) \/ LoseLink(c) \/ Reconnect(c) \/ VoidPull(c) \/ ForceRent(c)
       PROVE  P
  BY <1>5, <1>6, <1>7, <1>16
<1>17. ASSUME NEW c \in Char, FollowNobody(c) \/ Refresh(c) \/ Flee(c) \/ Sicken(c) \/ Cure(c)
       PROVE  P
  BY <1>7, <1>8, <1>17
<1>18. P
  BY <1>9, <1>10, <1>11, <1>12, <1>13, <1>14, <1>15, <1>16, <1>17 DEF Next
<1> QED
  BY <1>18 DEF P

(* A circle of followers, from which circle_follow never returns, is closed by
   spell_animal_friendship or by the target of a rescue quest: do_follow, the
   charms and hypnosis find every circle they would close, and nothing that
   makes somebody leave a master closes one. *)
THEOREM CheckedCallersCloseNoCircle == Spec => CirclesAreUnchecked
<1>1. IndInv /\ IndInv' /\ [Next]_vars =>
        [~Circular(pack) /\ Circular(pack') =>
            \E c, d \in Char : Befriend(c, d) \/ Escort(c, d)]_vars
  BY NextIsOpen
<1> QED
  BY <1>1, SpecIndInv, PTL DEF Spec, CirclesAreUnchecked
=============================================================================
