SPECIFICATION Spec
CONSTANTS
    Sensors = 2
    MaxDevices = 2
    TempsOf <- MCTemps
    Tables <- MCTables
    ScanRounds = 1
    DrainRounds = 0
    MaxRestarts = 1
INVARIANTS OneDriverAtATime RecordOfItsSensor KnownIsStored NoWriteAfterGivingUp
PROPERTIES RecordsMoveOneWay RomBeforeRecord RoundsGoOn
CHECK_DEADLOCK FALSE
