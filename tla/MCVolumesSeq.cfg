\* One request at a time, with Kubernetes faults, distinct PVC names.
CONSTANTS
    Clients = {c1}
    VolNames <- MCDistinctNames
    PVCPrefix <- MCPrefix
    PVCNameLimit = 3
    MaxVolumeIDs = 4
    PlatformFaults = TRUE
SPECIFICATION Spec
INVARIANT TypeOK
INVARIANT QuiescentVolumesBacked
PROPERTY VolumeServiceRefinement
