CONSTANTS
    Sources = {s1}
    SelfStarting = {s1}
    Slow = {s1}
    Deaf = {}
    StandbyOnStop = {}
    Wakeable = {s1}
    Generic = Generic
    Foreign = Foreign
    Other = Other
    Off = Off
    Wakers = {w1}
    AutoWake = TRUE
    WakeOn = TRUE
    StopPolls = 1
    MaxAttempts = 2
    MaxInbox = 1
    Tracking = TRUE
    Lossy = FALSE
    Restarts = FALSE
SPECIFICATION FairSpec
PROPERTIES
    WakeEnds
    ReleaseObeyed
