CONSTANTS
    a1 = a1
    a2 = a2
    r1 = r1
    r2 = r2
    n1 = n1
    n2 = n2
    Avatar = {a1, a2}
    Address = {r1, r2}
    Node = {n1, n2}
    NodeOf <- TwoNodes
    PipesAsConcat = TRUE
    Kind <- AllKinds
    MaxRoomId = 2
    MaxDbId = 2
    MaxMessageId = 1
SYMMETRY Avatars
SPECIFICATION SmallSpec
INVARIANTS Consistent NoDuplicates ReloadedUnstaffed UniqueAddress RowOwnership
PROPERTIES BanKeepsOut ImplementsDirectory RoomIdsKeepMeaning RowsGoWithTheirRoom
