CONSTANTS
    a1 = a1
    a2 = a2
    n1 = n1
    n2 = n2
    n3 = n3
    NoName = NoName
    Mangled = Mangled
    Avatar = {a1, a2}
    OwnerOf <- Owners
    Name = {n1, n2}
    RoundTrips = {n1, n2}
    DatabaseFaults = FALSE
    MaxObjects = 1
SPECIFICATION Spec
INVARIANT WebShowsOnlinePlayers
