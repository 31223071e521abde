SPECIFICATION Spec
CONSTANTS
    c1 = c1
    c2 = c2
    c3 = c3
    Char <- AllChars
    Null = Null
    MaxAttackers = 1
    MaxEvents = 2
    Players = 1
    Absent = 1
SYMMETRY Addresses
CONSTRAINT FewTies
INVARIANTS
    TypeOK
    CombatSound
    FollowSound
    RegenSound
PROPERTIES
    CirclesAreUnchecked
    ImplementsTurns
