CONSTANTS
    g1 = g1
    g2 = g2
    g3 = g3
    g4 = g4
    g5 = g5
    g6 = g6
    g7 = g7
    Stranger = Stranger
    NoPreference = NoPreference
    Weighted <- Seven
    BaseBlacklist = 2
    MaxBlacklist = 3
    MaxFailures = 2
    ApiWeighted <- Three
    Endpoint = {g1, g2, g3}
    Self = g1
    Weights = {1, 2, 4, 9}
    KMaxWeight = 3
    MaxWord = 7
    MaxEntries = 3
SPECIFICATION PartsSpec
INVARIANTS NothingBlacklisted PreferenceHonored WeightedShare PenaltySound ListMeetsReference
PROPERTIES BlacklistedOnlyIfAll
