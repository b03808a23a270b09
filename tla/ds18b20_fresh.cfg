SPECIFICATION FairSpec
CONSTANTS
    Devices = {d1}
    NoRom = NoRom
    MaxDevices = 1
    Resolutions = {9, 12}
    DefaultRes = 12
    Parasitic = {}
    ParasiteArgs = {}
    Calls <- CommandCalls
    CallbackCalls = {}
    HotPlug = FALSE
    Noise = TRUE
INVARIANTS FreshReadings
PROPERTIES EnginesEnd
