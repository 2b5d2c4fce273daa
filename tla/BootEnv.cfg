SPECIFICATION FairSpec
CONSTANTS
    Predefined = {"HWA_0", "CPUFREQ"}
    Dynamic = {"MTD4"}
    Values = {"short", "long"}
    ReadOnly = {"CPUFREQ"}
    Permanent = {"HWA_0"}
    CellsOf <- MCCellsOf
    SpaceCells = 4
    TornCells = 3
    MaxFaults = 1
    None = None
INVARIANTS TypeOK BlocksContiguous OneLiveBlock DamageBounded
PROPERTIES ImplementsStore SetReturnsIfRoom
