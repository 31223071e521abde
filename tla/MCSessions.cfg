CONSTANTS
    p = p
    acc = acc
    Desc = {d1, d2, d3}
    Body = {b1, b2, b3, b4}
    Null = Null
    Name = {p, q}
    Known = {p}
    Account = {}
    OwnerAtStart <- OwnerMC
    Gods = {}
    Mob = {}
    MaxConnects = 3
SYMMETRY Symmetry
SPECIFICATION Spec
CONSTRAINT Undisputed
INVARIANTS
    TypeOK
    LinksAgree
    OneDriver
    ListsSound
    PlayersAreInTheWorld
    OneBodyPerName
PROPERTIES
    ImplementsPresence
CHECK_DEADLOCK FALSE
