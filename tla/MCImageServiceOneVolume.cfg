SPECIFICATION FairSpec
CONSTANTS
    Volumes = {v1, v2}
    Hybrid = {v2}
    Devices = {d1, d2}
    Inodes = {i1, i2}
    Payloads = {p}
    Faults = {"sfdisk", "attach", "detach", "move"}
    CrossDevice = FALSE
    MaxTries = 2
    Table = Table
    None = None
    Foreign = Foreign
INVARIANT
    ImagesArePartitioned
PROPERTY CallsReturn
