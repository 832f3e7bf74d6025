\* Names up to 2 characters and name filter keys up to 3, over two letters
\* and the metacharacters; one label key with an empty and a non-empty value.
CONSTANTS
    Letters = {"a", "b"}
    MaxNameLen = 2
    MaxPatternLen = 3
    Drivers <- MCDrivers
    LabelKeys <- MCLabelKeys
    LabelValues <- MCLabelValues
SPECIFICATION Spec
INVARIANT MatchMeetsContract
