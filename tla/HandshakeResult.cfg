SPECIFICATION Spec
CONSTANT Faults = {"rpe"}
CHECK_DEADLOCK FALSE
INVARIANTS
    PreparedMeansUp
