SPECIFICATION DemoSpec
CONSTANTS
    e1 = e1
    e2 = e2
    b1 = b1
    b2 = b2
    Devices = {e1, e2}
    NoRom = NoRom
    Blocks = {b1, b2}
    Values = {"zeros"}
    Parasitic = {e1}
    Scenarios <- StrayScenarios
    DemoScenes = {}
    Boots = 0
INVARIANTS CommandAsAccepted
