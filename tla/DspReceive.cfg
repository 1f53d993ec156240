SPECIFICATION FairSpec
CONSTANTS
    Sample <- MCSample
    Size = 5
    Block = 2
    Chunk = 3
    Slots = 1
    MaxCapture = 3
    Commands <- MCCommands
INVARIANTS TypeOK TxRxExclusive OnTimeMeansOnce
PROPERTIES SamplesInOrder QueueIsFifo NoOtherStarvation
