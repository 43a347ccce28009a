SPECIFICATION ProgramSpec
CONSTANTS
    Volumes = {disk}
    Hybrid = {}
    Devices = {d1, d2, d3}
    Inodes = {i1, i2, i3, i4}
    Partitions = {efi, rootfs}
    Parts = {bootloader, firmware}
    Grub = Grub
    Payloads = {efi, rootfs, Grub, bootloader, firmware}
    Faults = {"sfdisk", "attach", "move"}
    CrossDevice = TRUE
    MaxTries = 2
    Table = Table
    None = None
    Foreign = Foreign
SYMMETRY Symmetry
INVARIANTS
    SuccessfulPack
    PackReleasesDevices
