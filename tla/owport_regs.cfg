SPECIFICATION Spec
CONSTANTS
    Periods = 3
    MaxArr = 3
    ByteBits = 1
    LongStage = 2
    ResetTime = 2
    Tables <- MCTables
    Bytes = {0, 3, 4}
    Waits <- MCWaits
INVARIANTS PulsesAsAsked CapturesComplete WaitCovers
PROPERTIES ImplementsTimer OperationReported
