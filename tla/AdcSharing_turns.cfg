CONSTANTS
    Callers = {main, snoop}
    Players = {main}
    Procs = {p1, p2, p3}
    Srcs = {cd, radio}
    NoProc = NoProc
    NoSrc = NoSrc
    Dies = TRUE
    Refuses = TRUE
SPECIFICATION FairSpec
INVARIANTS
    TypeOK
    OneRecorderUnlessOvertaken
    OnlyWantedShown
    AdcReturned
PROPERTIES
    ImplementsArbiter
    CallersReturn
    ListenerReturns
