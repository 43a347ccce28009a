SPECIFICATION AloneSpec
CONSTANTS
    Volumes = {v1}
    Hybrid = {}
    Devices = {d1, d2}
    Inodes = {i1, i2}
    Payloads = {p}
    Faults = {}
    CrossDevice = FALSE
    MaxTries = 2
    Table = Table
    None = None
    Foreign = Foreign
PROPERTY StaleDevicesCleaned
