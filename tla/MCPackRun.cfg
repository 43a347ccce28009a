SPECIFICATION ProgramSpec
CONSTANTS
    Volumes = {disk}
    Hybrid = {}
    Devices = {d1, d2, d3}
    Inodes = {i1, i2, i3}
    Partitions = {efi, rootfs}
    Parts = {bootloader}
    Grub = Grub
    Payloads = {efi, rootfs, Grub, bootloader}
    Faults = {"sfdisk", "attach", "detach", "move"}
    CrossDevice = FALSE
    MaxTries = 2
    Table = Table
    None = None
    Foreign = Foreign
SYMMETRY Symmetry
INVARIANTS
    ProgramTypeOK
    PublishedImageComplete
    WritesReachTheImage
PROPERTIES
    PublishesWhole
    OthersKeepTheirDevices
