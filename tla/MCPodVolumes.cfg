\* Three mount paths over names up to three characters, some of which the
\* PVC name truncates; every map from a subset of the paths to the names.
\* addNamedVolumes returns when every pair is done: a final state.
CONSTANTS
    MountPaths = {m1, m2, m3}
    VolNames <- MCLongNames
    PVCPrefix <- MCPrefix
    PVCNameLimit = 3
    PodVolumePrefix <- MCPodPrefix
SPECIFICATION Spec
CHECK_DEADLOCK FALSE
INVARIANT TypeOK
