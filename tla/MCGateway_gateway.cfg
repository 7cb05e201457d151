CONSTANTS
    MaxPayload = 8
    Sessions = {1, 2}
    Extended = TRUE
    Savers = {"w1", "w2"}
    Telegrams <- DeviceTelegrams
    PiSends <- BridgeTelegrams
    Spoiled <- SpoiledBytes
    Files <- TwoFiles
    Settings <- ThreeSettings
    Scenarios <- SomeScenarios
SPECIFICATION Spec
CHECK_DEADLOCK FALSE
INVARIANTS
    StandbyIsReal
    
PROPERTY
    ConfigFollows
