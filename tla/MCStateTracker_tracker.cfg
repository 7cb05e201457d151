CONSTANTS
    Audio = {a1, a2}
    Video = {v1, v2}
    None = None
    AM = "am"
    VM = "vm"
    Other = Other
    Links = {"n1"}
    Sweepers = {"w0", "w1"}
    Startup = "w0"
    SweepOrder <- Order
    Attempts = 2
    DoGoto = TRUE
    QueryAddrs = {"n1"}
    Scenarios <- DaemonScenarios
    MaxInbox = 3
SPECIFICATION Spec
INVARIANTS
    TypeOK
    SlotsFollow
    OneSweep
    NoPhantoms
PROPERTIES
    NoRefire
    SweepsEnd
    StartupFills
CHECK_DEADLOCK FALSE
