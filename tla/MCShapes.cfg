CONSTANTS
    p = p
    acc = acc
    Desc = {d1, d2}
    Body = {b1, b2, b3, b4}
    Null = Null
    Name = {p, q}
    Known = {p, q}
    Account = {}
    OwnerAtStart <- OwnerMC
    Gods = {p}
    Mob = {b4}
    MaxConnects = 3
SYMMETRY Symmetry
SPECIFICATION Spec
INVARIANTS
    LinksAgree
    ListsSound
    SnoopIsMutual
PROPERTIES
    LinkIsNotStolen
CHECK_DEADLOCK FALSE
