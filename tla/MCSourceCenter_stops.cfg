CONSTANTS
    Sources = {s1, s2}
    SelfStarting = {s1}
    Slow = {}
    Deaf = {}
    StandbyOnStop = {s1}
    Wakeable = {}
    Generic = Generic
    Foreign = Foreign
    Other = Other
    Off = Off
    Wakers = {}
    AutoWake = TRUE
    WakeOn = FALSE
    StopPolls = 5
    MaxAttempts = 2
    MaxInbox = 1
    Tracking = FALSE
    Lossy = FALSE
    Restarts = FALSE
SPECIFICATION Spec
PROPERTIES
    StopsDeadSourceOnly
