SPECIFICATION CompetingSpec
CONSTANTS
    LinkSets = 4
    Faults = {}
    Commands = {}
CHECK_DEADLOCK FALSE
INVARIANT PortServed
