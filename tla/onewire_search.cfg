SPECIFICATION Spec
CONSTANTS
    Bits = 4
    Legal <- MCLegal
    Devices <- MCDevices
    Scenarios <- MCScenarios
INVARIANTS WalkFollowsRom
PROPERTIES FindsEveryDevice SearchEnds
