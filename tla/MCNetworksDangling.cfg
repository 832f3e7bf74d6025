\* Two concurrent requests: a delete and a connect of the same network.
CONSTANTS
    k1 = k1
    k2 = k2
    Clients = {c1, c2}
    Containers <- MCContainers1
    NetNames = {"bridge", "n1"}
    PredefinedNames = {"bridge"}
    AliasInputs <- MCAliasInputs
    ToLower <- MCToLower
    MaxAliasesPerConnect = 2
    MaxNetworkIDs = 3
SPECIFICATION Spec
SYMMETRY MCClientSymmetry
INVARIANT NoDanglingMembership
