CONSTANTS
    h1 = h1
    h2 = h2
    Row = {1, 2, 3}
    Handle = {h1, h2}
    NoHandle = NoHandle
    MaxFaults = 2
    Name = {"a", "b"}
    Value = {"1", "2"}
    MaxTokens = 4
    s1 = s1
    s2 = s2
    ann = ann
    bob = bob
    c1 = c1
    c2 = c2
    NoClient = NoClient
SPECIFICATION PartsSpec
INVARIANTS RowsSound ChangesOnce TextSound
PROPERTIES LoopEnds Settles
