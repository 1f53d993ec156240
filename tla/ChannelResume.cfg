SPECIFICATION FairOne
CONSTANTS
    f1 = f1
    f2 = f2
    f3 = f3
    Frames = {f1, f2, f3}
    Mode = "OUTPUT"
    Controls = {"PAUSE"}
    MaxLate = 1
    LoopBuf = LoopBuf
    MuteBuf = MuteBuf
    NoBuf = NoBuf
PROPERTIES
    Streams
