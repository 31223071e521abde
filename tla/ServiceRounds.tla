---------------------------- MODULE ServiceRounds ----------------------------
(***************************************************************************)
(* What the game loop promises its connections: it works in rounds, and in *)
(* a round every connection that is open at the start and stays open gets  *)
(* its turn exactly once, however many others close meanwhile.             *)
(***************************************************************************)
CONSTANT Desc               \* the connections

VARIABLES open,             \* the connections that are open
          waiting           \* those that still have a turn in this round

svars == <<open, waiting>>

\* Between rounds; others may have to make room for the newcomer.
Accept(d) ==
    /\ waiting = {}
    /\ d \notin open
    /\ \E kept \in SUBSET open : open' = kept \/ open' = kept \cup {d}
    /\ UNCHANGED waiting

Close(d) ==
    /\ d \in open
    /\ open' = open \ {d}
    /\ waiting' = waiting \ {d}

Serve(d) ==
    /\ d \in waiting
    /\ waiting' = waiting \ {d}
    /\ UNCHANGED open

BeginRound ==
    /\ waiting = {}
    /\ waiting' = open
    /\ UNCHANGED open

SInit == open = {} /\ waiting = {}
SNext == BeginRound \/ \E d \in Desc : Accept(d) \/ Close(d) \/ Serve(d)
SSpec == SInit /\ [][SNext]_svars
=============================================================================
