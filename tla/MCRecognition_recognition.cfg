CONSTANTS
    NoSong <- Silence
    MaxInbox = 3
    Sources = {"cd", "tape"}
    Discs = {"d1", "d2"}
    Scenarios <- SomeScenarios
SPECIFICATION Spec
CHECK_DEADLOCK FALSE
INVARIANTS
    TypeOK
    ShownIsCurrent
    OfThisTrack
PROPERTY
    RightInTheEnd
