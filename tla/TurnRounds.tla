----------------------------- MODULE TurnRounds -----------------------------
(***************************************************************************)
(* What a round of combat promises the fighters: whoever fights when the   *)
(* round begins and fights on gets one turn, the newest first, however     *)
(* many others join, stop or die meanwhile; who joins during a round, or   *)
(* stops and joins again, waits for the next.                              *)
(***************************************************************************)
EXTENDS Lists

VARIABLES members,          \* those who fight, the newest first
          waiting           \* those that still have a turn in this round

tvars == <<members, waiting>>

Those(s, who) == Staying(s, ToSet(s) \ who)

\* Between two turns, or during one: some leave, others join before the rest.
Change ==
    \E stay \in SUBSET ToSet(members) :
        /\ IsSuffix(Those(members, stay), members')
        /\ waiting' = waiting \cap stay

\* The newest of those that wait gets its turn, which may end its fight.
Turn ==
    /\ waiting # {}
    /\ LET c == Head(Those(members, waiting))
       IN  /\ waiting' = waiting \ {c}
           /\ members' \in {members, Those(members, ToSet(members) \ {c})}

Begin ==
    /\ waiting = {}
    /\ waiting' = ToSet(members)
    /\ UNCHANGED members

TInit == members = << >> /\ waiting = {}
TNext == Begin \/ Change \/ Turn
TSpec == TInit /\ [][TNext]_tvars
=============================================================================
