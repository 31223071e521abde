CONSTANTS
    p = p
    acc = acc
    Desc = {d1, d2}
    Body = {b1, b2, b3}
    Null = Null
    Name = {p, q}
    Known = {p, q}
    Account = {acc}
    OwnerAtStart <- OwnerMC
    Gods = {}
    Mob = {}
    MaxConnects = 3
SYMMETRY Symmetry
SPECIFICATION Spec
CONSTRAINT Undisputed
INVARIANTS
    LinksAgree
    OneDriver
    OneBodyPerName
CHECK_DEADLOCK FALSE
