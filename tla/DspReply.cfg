SPECIFICATION Spec
CONSTANTS
    Sample <- MCSample
    Size = 2
    Block = 1
    Chunk = 1
    Slots = 1
    MaxCapture = 1
    Commands <- MCAllCommands
INVARIANT ReplyQueuedOnce
