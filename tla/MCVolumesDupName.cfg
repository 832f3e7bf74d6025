\* Two concurrent creates of the same name (no faults).
CONSTANTS
    Clients = {c1, c2}
    VolNames <- MCDistinctNames
    PVCPrefix <- MCPrefix
    PVCNameLimit = 3
    MaxVolumeIDs = 3
    PlatformFaults = FALSE
SPECIFICATION Spec
INVARIANT VolumeNameUnique
