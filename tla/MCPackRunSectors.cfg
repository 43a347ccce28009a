SPECIFICATION OrderlySpec
CONSTANTS
    Volumes = {disk}
    Hybrid = {}
    Devices = {d1, d2}
    Inodes = {i1, i2}
    Partitions = {efi, rootfs}
    Parts = {bootloader}
    Grub = Grub
    Payloads = {efi, rootfs, Grub, bootloader}
    Faults = {}
    CrossDevice = FALSE
    MaxTries = 2
    Table = Table
    None = None
    Foreign = Foreign
INVARIANT SectorWritesPreserved
CHECK_DEADLOCK FALSE
