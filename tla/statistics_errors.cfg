SPECIFICATION Spec
CONSTANTS
    Devices = {1, 2}
    MaxSensors = 2
    Sweeps = 2
    RingSize = 8
    Frames <- TwoFrames
INVARIANTS ErrorsOnTheRightSensor
CHECK_DEADLOCK FALSE
