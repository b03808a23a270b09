SPECIFICATION Spec
CONSTANTS
    Devices = {d1, d2}
    NoRom = NoRom
    MaxDevices = 2
    Resolutions = {12}
    DefaultRes = 12
    Parasitic = {d1, d2}
    ParasiteArgs = {TRUE}
    Calls = {"start_measure", "scan_start", "search_start", "set_parasite"}
    CallbackCalls = {}
    HotPlug = FALSE
    Noise = FALSE
PROPERTIES FinishedRoundParks
