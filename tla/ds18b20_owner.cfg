SPECIFICATION Spec
CONSTANTS
    Devices = {d1}
    NoRom = NoRom
    MaxDevices = 1
    Resolutions = {12}
    DefaultRes = 12
    Parasitic = {d1}
    ParasiteArgs = {TRUE}
    Calls <- OwnerCalls
    CallbackCalls = {"select", "start_measure"}
    HotPlug = TRUE
    Noise = FALSE
INVARIANTS OneOwner TimerServesOwner PulsesServeOwner PullupAsNeeded
PROPERTIES PullupBetweenOperations
