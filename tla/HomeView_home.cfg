CONSTANTS
    Sources = {s1}
    Titles = {t1, t2}
    Nothing = Nothing
    MaxEvents = 3
    MaxFaults = 1
    MaxInbox = 2
    Debounce = 0
    IdleDebounce = 1
    Retry = 1
    Keepalive = TRUE
    MaxTroubles = 1
SPECIFICATION Spec
INVARIANTS
    TypeOK
    NothingLost
    SentIsHeld
PROPERTIES
    HaFollows
