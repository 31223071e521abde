---------------------------- MODULE TimerService ----------------------------
(***************************************************************************)
(* What the event subsystem promises its users, without buckets or lists:  *)
(* a set of armed timers, each with the pulse it is due at.  Time does not *)
(* pass while a timer is due, so no timer is ever late, and a timer runs   *)
(* only in the pulse it is due at, so none is early.                       *)
(***************************************************************************)
EXTENDS Integers

CONSTANTS Event,        \* identities of timers: the addresses of struct event
          Time          \* the instants a timer may be armed for, natural numbers

VARIABLES now,          \* the current pulse
          due           \* the armed timers, each mapped to its due pulse

tvars == <<now, due>>

Armed == DOMAIN due

\* Arms e for a later pulse.
Arm(e, t) ==
    /\ e \notin Armed
    /\ t > now
    /\ due' = [x \in Armed \cup {e} |-> IF x = e THEN t ELSE due[x]]
    /\ UNCHANGED now

Without(e) == [x \in Armed \ {e} |-> due[x]]

Disarm(e) ==
    /\ e \in Armed
    /\ due' = Without(e)
    /\ UNCHANGED now

\* Runs e, which is armed for exactly this pulse.
Fire(e) ==
    /\ e \in Armed
    /\ due[e] = now
    /\ due' = Without(e)
    /\ UNCHANGED now

\* Time passes once nothing is left to run in this pulse.
Advance ==
    /\ \A e \in Armed : due[e] > now
    /\ now' = now + 1
    /\ UNCHANGED due

TInit ==
    /\ now = 0
    /\ due = [x \in {} |-> 0]

TNext ==
    \/ \E e \in Event, t \in Time : Arm(e, t)
    \/ \E e \in Event : Disarm(e) \/ Fire(e)
    \/ Advance

TSpec == TInit /\ [][TNext]_tvars
=============================================================================
