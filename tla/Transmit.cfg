SPECIFICATION FairSpec
CONSTANTS
    Parts = 2
    ParaParts = 1
    MaxItems = 2
    Slots = 2
    MaxPosts = 2
    Commands = {"LMX2571_TX", "LMX2571_RX", "TX_CH"}
    Attributes <- MCAttributes
INVARIANTS
    TypeOK
    QuietWhenReceiving
    ParametersSent
PROPERTIES
    NothingSkipped
    RepeatedByAttribute
    PipeDrained
