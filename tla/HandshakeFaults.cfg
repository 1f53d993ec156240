SPECIFICATION FairSpec
CONSTANT Faults = {"slk", "syncbuf", "syncbox", "attach", "msgq", "rpe", "wait", "app"}
CHECK_DEADLOCK FALSE
INVARIANTS
    TypeOK
    RunningMeansRemoteUp
    NothingLost
    HeapSuffices
    PrepareNeverStarves
PROPERTIES
    ClosingEnds
