\* Two concurrent connects on one container, with different aliases.
CONSTANTS
    k1 = k1
    k2 = k2
    Clients = {c1, c2}
    Containers <- MCContainers1
    NetNames = {"bridge", "n1"}
    PredefinedNames = {"bridge"}
    AliasInputs <- MCRaceAliasInputs
    ToLower <- MCRaceToLower
    MaxAliasesPerConnect = 1
    MaxNetworkIDs = 3
SPECIFICATION Spec
SYMMETRY MCClientSymmetry
PROPERTY AliasesNeverLost
