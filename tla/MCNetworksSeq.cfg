\* One request at a time, two containers, up to two aliases per connect:
\* membership, deletion and the alias merge.
CONSTANTS
    k1 = k1
    k2 = k2
    Clients = {c1}
    Containers <- MCContainers2
    NetNames = {"bridge", "n1"}
    PredefinedNames = {"bridge"}
    AliasInputs <- MCAliasInputs
    ToLower <- MCToLower
    MaxAliasesPerConnect = 2
    MaxNetworkIDs = 3
SPECIFICATION Spec
INVARIANT TypeOK
INVARIANT NoDanglingMembership
PROPERTY NetworkServiceRefinement
