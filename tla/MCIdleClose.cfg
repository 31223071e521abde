CONSTANTS
    Desc = {d1, d2}
    Null = Null
SPECIFICATION Spec
INVARIANT PointIsLive
