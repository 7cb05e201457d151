CONSTANTS
    Timers = {t1, t2, t3}
    NoTimer = NoTimer
    Providers = {a, b}
    Generic = Generic
    Foreign = Foreign
    Off = Off
    Scenarios <- HouseScenarios
    MaxInbox = 3
SPECIFICATION Spec
INVARIANTS
    TypeOK
    
PROPERTIES
    Settles
    LightCloses
CHECK_DEADLOCK FALSE
