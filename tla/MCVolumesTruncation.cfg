\* One request at a time; two names that share a truncated PVC name.
CONSTANTS
    Clients = {c1}
    VolNames <- MCLongNames
    PVCPrefix <- MCPrefix
    PVCNameLimit = 3
    MaxVolumeIDs = 3
    PlatformFaults = FALSE
SPECIFICATION Spec
INVARIANT QuiescentVolumesBacked
