CONSTANTS
    NQ = 3
    Event = {e1, e2, e3}
    NoEvent = NoEvent
    Delay <- DelayMC
    MaxPulse = 8
SPECIFICATION FairSpec
INVARIANTS
    TypeOK
    NothingOverdue
    RunningIsNotQueued
PROPERTIES
    FiresOnTime
    EveryEventLeaves
    ImplementsTimers
CHECK_DEADLOCK FALSE
