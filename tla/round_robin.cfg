SPECIFICATION RRFairSpec
CONSTANTS
    Devices = {d1, d2}
    NoRom = NoRom
    MaxDevices = 2
    Resolutions = {9, 10, 11, 12}
    DefaultRes = 12
    Parasitic = {}
    ParasiteArgs = {FALSE}
    Calls <- LoopCalls
    CallbackCalls = {"select"}
    HotPlug = FALSE
    Noise = TRUE
    ResCycle <- Rising
INVARIANTS PrintedIsOwnAndFresh
PROPERTIES TurnsGoOn
