SPECIFICATION FairSpec
CONSTANTS
    Filesystems <- MCFilesystems
    Kernel <- MCKernel
    Faults = {"mount", "umount", "losetup", "command", "kill", "interrupt"}
INVARIANTS
    TypeOK
    TargetInFullChroot
    LeftMountsReported
    CleanAfterwards
    AllOrNothing
    MissingDirectoryQuiet
PROPERTIES
    MissingDirectoryIgnored
    SetupEnds
    FollowsTheStages
CHECK_DEADLOCK FALSE
