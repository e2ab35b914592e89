CONSTANTS
    g1 = g1
    g2 = g2
    g3 = g3
    Endpoint = {g1, g2, g3}
    Self = g1
    Weights <- Configured
    KMaxWeight = 100
    MaxWord = 65535
    MaxEntries = 2
SPECIFICATION Spec
CHECK_DEADLOCK FALSE
INVARIANT HonorsRelativeWeights
