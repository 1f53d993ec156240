SPECIFICATION Spec
CONSTANTS
    LinkSets = 4
    Faults = {"bind", "config", "rate", "transfer", "address", "setup", "disable", "free"}
    Commands = {"CHAN_RESET", "DEVICE_RESET", "STOP", "START", "SRGR_START", "SRGR_STOP", "CONFIG_SRGR", "SET_CLKMODE", "SAMPLE_RATE_CHANGE"}
CHECK_DEADLOCK FALSE
INVARIANTS
    TypeOK
    ReleasedAtUnbind
    ClosedHoldsNothing
    SilentWhenUnbound
