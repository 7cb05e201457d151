CONSTANTS
    air = air
    spin = spin
    Subs = {air, spin}
    Sendspin = {spin}
    NoName = NoName
    MaxName = 1
    Order <- ConfiguredOrder
    Default = air
    NoSub = NoSub
    Sweepers = {poll, watcher}
    Bus = bus
    Scenarios <- SwitchScenarios
SPECIFICATION MultiSpec
PROPERTIES
    KeepsTheNewOne
CHECK_DEADLOCK FALSE
