-------------------------------- MODULE Regen --------------------------------
(***************************************************************************)
(* The recovery of hit points (regen.cpp), a client of the event queue: a  *)
(* character below its maximum has an event that will add some and queue   *)
(* the next one.  The event carries the address of the character; neither  *)
(* extracting nor freeing the character cancels it, so it may run for      *)
(* memory that is free or that has become another character.               *)
(***************************************************************************)
EXTENDS Characters

CONSTANT MaxEvents          \* bound: events one address may have in the queue

ASSUME MaxEventsAssumption == MaxEvents \in Nat \ {0}

\* armed is points_event[REGEN_HIT] # NULL: which of the events it points at
\* makes no difference, for any of them clears it.
Recovery == [hurt : [Char -> BOOLEAN],              \* below the maximum
             ill : [Char -> BOOLEAN],               \* hit_gain is negative
             armed : [Char -> BOOLEAN],
             queued : [Char -> 0 .. MaxEvents]]     \* events that carry the address

Healthy == [hurt |-> [c \in Char |-> FALSE],
            ill |-> [c \in Char |-> FALSE],
            armed |-> [c \in Char |-> FALSE],
            queued |-> [c \in Char |-> 0]]

Armed(r, who) ==
    [r EXCEPT !.armed = [c \in Char |-> @[c] \/ c \in who],
              !.queued = [c \in Char |-> IF c \in who THEN @[c] + 1 ELSE @[c]]]

\* fault: an event is queued beside the one there is.
AlterHitsAlways(r, who) == Armed(r, {c \in who : r.hurt[c]})

\* alter_hit(c, 0) for each of a set: an event is created unless there is one.
AlterHits(r, who) == Armed(r, {c \in who : r.hurt[c] /\ ~r.armed[c]})
AlterHit(r, c) == AlterHits(r, {c})

Wound(r, c) == AlterHit([r EXCEPT !.hurt[c] = TRUE], c)

\* points_event begins: the event has left the queue, and whoever lives at the
\* address now has no event.
Unqueued(r, c) == [r EXCEPT !.queued[c] = @ - 1]
Begun(r, c) == [Unqueued(r, c) EXCEPT !.armed[c] = FALSE]

\* free_char: whatever is allocated at the address next begins with zeroes.
Freed(r, c) ==
    [r EXCEPT !.hurt[c] = FALSE, !.ill[c] = FALSE, !.armed[c] = FALSE]
=============================================================================
