CONSTANTS
    Desc = {d1, d2, d3, d4}
    Null = Null
SPECIFICATION FairSpec
INVARIANTS
    TypeOK
    NextIsLive
PROPERTIES
    ImplementsRounds
    EveryoneIsServed
