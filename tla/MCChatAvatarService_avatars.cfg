CONSTANTS
    a1 = a1
    a2 = a2
    n1 = n1
    n2 = n2
    n3 = n3
    NoName = NoName
    Mangled = Mangled
    Avatar = {a1, a2}
    OwnerOf <- Owners
    Name = {n1, n2, n3}
    RoundTrips = {n1, n2}
    DatabaseFaults = TRUE
    MaxObjects = 2
SPECIFICATION SmallSpec
INVARIANTS OnlineSound OnlineFlagMatchesList FriendsPersisted FriendXorIgnored PresenceCoherent WebFollowsPresence
