CONSTANTS
    Sources = {s1, s2}
    SelfStarting = {s1}
    Slow = {}
    Deaf = {s2}
    StandbyOnStop = {}
    Wakeable = {}
    Generic = Generic
    Foreign = Foreign
    Other = Other
    Off = Off
    Wakers = {}
    AutoWake = TRUE
    WakeOn = FALSE
    StopPolls = 1
    MaxAttempts = 2
    MaxInbox = 1
    Tracking = FALSE
    Lossy = TRUE
    Restarts = TRUE
SPECIFICATION Spec
INVARIANTS
    TypeOK
    GrantSound
    ClaimIsGranted
    SilencedFirst
