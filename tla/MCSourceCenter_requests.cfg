CONSTANTS
    Sources = {s1, s2}
    SelfStarting = {}
    Slow = {s1, s2}
    Deaf = {}
    StandbyOnStop = {}
    Wakeable = {}
    Generic = Generic
    Foreign = Foreign
    Other = Other
    Off = Off
    Wakers = {}
    AutoWake = TRUE
    WakeOn = FALSE
    StopPolls = 1
    MaxAttempts = 2
    MaxInbox = 2
    Tracking = FALSE
    Lossy = FALSE
    Restarts = FALSE
SPECIFICATION Spec
INVARIANTS
    OneSourceAtATime
SYMMETRY SourceSymmetry
