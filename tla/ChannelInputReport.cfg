SPECIFICATION SpecOne
CONSTANTS
    f1 = f1
    f2 = f2
    f3 = f3
    Frames = {f1, f2, f3}
    Mode = "INPUT"
    Controls = {}
    MaxLate = 1
    LoopBuf = LoopBuf
    MuteBuf = MuteBuf
    NoBuf = NoBuf
SYMMETRY Symmetry
INVARIANTS
    CompletedIsIdle
