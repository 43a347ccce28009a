SPECIFICATION FairSpec
CONSTANTS
    Images = {A, B}
    gpt1 = gpt1
    gpt2 = gpt2
    other = other
    mbr = mbr
    Inodes = {gpt1, gpt2, other, mbr}
    Devices = {d1, d2}
    Names = {"efi", "rootfs", "data"}
    Layout <- MCLayout
    MpRoot = MpRoot
    None = None
INVARIANTS
    TypeOK
    MountsKeepTheirDevice
    DirectoriesShowTheirPartition
    MountIsComplete
    UmountIsComplete
PROPERTY RepeatedUmountReleases
