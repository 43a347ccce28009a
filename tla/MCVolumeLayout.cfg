SPECIFICATION Spec
CONSTANTS
    Disks <- MCDisks
    Names = {1, 2, 3, 4, 5, 6}
    SectorSizes = {512, 4096}
    None = None
    MaxGpt = 3
    MaxMbr = 6
    Sizes = {0, 1, 512, 1025}
INVARIANTS
    PartitionsDisjoint
    PartitionsFit
    LogicalsNested
    NumbersAgree
    EveryItemHasALine
CHECK_DEADLOCK FALSE
