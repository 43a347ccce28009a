SPECIFICATION Spec
CONSTANTS
    Volumes = {v1, v2}
    Hybrid = {}
    Devices = {d1, d2, d3}
    Inodes = {i1, i2, i3, i4}
    Payloads = {}
    Faults = {"sfdisk", "attach", "detach", "move"}
    CrossDevice = TRUE
    MaxTries = 2
    Table = Table
    None = None
    Foreign = Foreign
SYMMETRY Symmetry
INVARIANTS
    TypeOK
    DevicesExclusive
    HeldDevicesBound
    NoImageLost
PROPERTY NeverDetachOthers
