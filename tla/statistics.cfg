SPECIFICATION Spec
CONSTANTS
    Devices = {1, 2}
    MaxSensors = 2
    Sweeps = 2
    RingSize = 8
    Frames <- MCFrames
INVARIANTS RecordsOfReads ReadingTrue WholeBatchDumped
PROPERTIES BatchesRecur
CHECK_DEADLOCK FALSE
