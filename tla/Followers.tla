------------------------------ MODULE Followers ------------------------------
(***************************************************************************)
(* Who follows whom: the master of a character and the list of followers   *)
(* of its master (spell_parser.cpp), and the charms that make a character  *)
(* follow: effects that carry AFF_CHARM, and the flag itself, which        *)
(* affect_total recomputes from the effects that are left.                 *)
(***************************************************************************)
EXTENDS Characters, Lists

\* The effects that carry AFF_CHARM: SPELL_CHARM_PERSON (also of the summoning
\* spells), SPELL_CHARM_MONSTER (hypnosis), SPELL_ANIMAL_FRIENDSHIP.
Charm == {"charm", "hypnosis", "friendship"}

Pack == [master : [Char -> Char \cup {Null}],
         followers : [Char -> Seq(Char)],
         charms : [Char -> SUBSET Charm],
         charmed : [Char -> BOOLEAN]]

Alone == [master |-> [c \in Char |-> Null],
          followers |-> [c \in Char |-> << >>],
          charms |-> [c \in Char |-> {}],
          charmed |-> [c \in Char |-> FALSE]]

\* circle_follow walks from a character up its masters until there is none:
\* after as many steps as there are characters it has been somewhere twice.
Climb(p, c) ==
    LET at[n \in 0 .. Cardinality(Char)] ==
            IF n = 0 THEN c ELSE IF at[n - 1] = Null THEN Null ELSE p.master[at[n - 1]]
    IN  at
Leaders(p, c) == {Climb(p, c)[n] : n \in 0 .. Cardinality(Char)} \ {Null}
Endless(p, c) == Climb(p, c)[Cardinality(Char)] # Null
CircleFollow(p, ch, victim) == ch \in Leaders(p, victim)
Circular(p) == \E c \in Char : Endless(p, c)

\* affect_total: any effect that is left sets the flag again; without one the
\* flag stays as it is.
AffectTotal(p, c) == [p EXCEPT !.charmed[c] = @ \/ p.charms[c] # {}]

AffectToChar(p, c, a) == [p EXCEPT !.charms[c] = @ \cup {a}, !.charmed[c] = TRUE]
AffectRemove(p, c, a) ==
    AffectTotal([p EXCEPT !.charms[c] = @ \ {a}, !.charmed[c] = FALSE], c)

\* stop_follower for each of a set: the effect of a charm goes only when the
\* flag is set, and only SPELL_CHARM_PERSON; the flag is cleared in any case.
StopFollower(p, who) ==
    LET leaving == {c \in who : p.master[c] # Null}
    IN  [master |-> [c \in Char |-> IF c \in leaving THEN Null ELSE p.master[c]],
         followers |-> [l \in Char |-> Staying(p.followers[l], leaving)],
         charms |-> [c \in Char |->
            IF c \in leaving /\ p.charmed[c] THEN p.charms[c] \ {"charm"}
            ELSE p.charms[c]],
         charmed |-> [c \in Char |-> c \notin leaving /\ p.charmed[c]]]

\* fault: its own followers keep it.
DieFollowerAlone(p, c) == StopFollower(p, {c})
DieFollower(p, c) == StopFollower(p, {c} \cup ToSet(p.followers[c]))

\* It refuses a character that has a master, and does not look for circles.
AddFollower(p, c, leader) ==
    IF p.master[c] # Null THEN p
    ELSE [p EXCEPT !.master[c] = leader, !.followers[leader] = << c >> \o @]
=============================================================================
