SPECIFICATION Spec
CONSTANTS
    Documents <- MCDocuments
    Platforms = {"pc", "pi"}
    VolumeName = "v"
    Names = {"efi", "rootfs", "boot", "save", "seed"}
    Devices <- MCDevices
    None = None
INVARIANTS
    TypeOK
    RootIsDefault
    MountsMatchLoopPaths
    EveryItemHasADirectory
    LayoutAccepts
CHECK_DEADLOCK FALSE
