SPECIFICATION FairSpec
CONSTANTS
    Devices = {d1, d2}
    NoRom = NoRom
    MaxDevices = 2
    Resolutions = {12}
    DefaultRes = 12
    Parasitic = {}
    ParasiteArgs = {}
    Calls <- ScanCalls
    CallbackCalls = {}
    HotPlug = TRUE
    Noise = FALSE
INVARIANTS TypeOK ReportsOfAskedDevices
PROPERTIES RoundReports EnginesEnd
