SPECIFICATION DemoFairSpec
CONSTANTS
    e1 = e1
    e2 = e2
    b1 = b1
    b2 = b2
    Devices = {e1, e2}
    NoRom = NoRom
    Blocks = {b1, b2}
    Values = {"zeros"}
    Parasitic = {e1}
    Scenarios <- CycleScenarios
    DemoScenes <- DemoBuses
    Boots = 1
INVARIANTS TypeOK2431 TimerServesPhase PendingBelongsToSelected PullupForProgramming MatchAfterBaseline
PROPERTIES CommitsVerified OkMeansDone OperationsGoOn
