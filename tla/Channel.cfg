SPECIFICATION SpecAll
CONSTANTS
    f1 = f1
    f2 = f2
    f3 = f3
    Frames = {f1, f2, f3}
    Mode = "OUTPUT"
    Controls = {"PAUSE", "MUTE", "RATE", "EVENT_MISS"}
    MaxLate = 3
    LoopBuf = LoopBuf
    MuteBuf = MuteBuf
    NoBuf = NoBuf
SYMMETRY Symmetry
INVARIANTS
    TypeOK
    EdmaTouchesOnlyHeld
    OutputCompletedIsIdle
    HandlerCalled
    NeverBackToLoop
