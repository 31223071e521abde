CONSTANTS
    anna = anna
    bruno = bruno
    Name = {anna, bruno}
    Body = {b1, b2, b3}
    Item = {sword}
    Null = Null
    Purse <- PurseMC
    MinBid = 1
    Reserve = {0}
    Offer = {1, 2, 3}
    WaitTicks = 2
    CallTicks = 1
SYMMETRY Symmetry
SPECIFICATION Spec
PROPERTIES
    ConnectedLoseNothing
CHECK_DEADLOCK FALSE
