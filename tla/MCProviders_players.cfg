CONSTANTS
    air = air
    spin = spin
    Subs = {air, spin}
    Sendspin = {spin}
    NoName = NoName
    MaxName = 1
    Order <- ConfiguredOrder
    Default = air
    NoSub = NoSub
    Sweepers = {poll, watcher}
    Bus = bus
    Scenarios <- HouseScenarios
    MaxRx = 3
    MaxSessions = 3
    Presses = 5
    Refusals = 2
SPECIFICATION Spec
INVARIANTS
    MultiTypeOK
    TurntableTypeOK
PROPERTIES
    SettlesOnOne
    FollowsDeck
    TitleOfThisSession
CHECK_DEADLOCK FALSE
