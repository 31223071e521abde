CONSTANTS
    p = p
    acc = acc
    Desc = {d1, d2}
    Body = {b1, b2, b3}
    Null = Null
    Name = {p}
    Known = {p}
    Account = {}
    OwnerAtStart <- OwnerMC
    Gods = {}
    Mob = {}
    MaxConnects = 3
SYMMETRY Symmetry
SPECIFICATION Spec
INVARIANTS
    NoShapeLeftBehind
CHECK_DEADLOCK FALSE
