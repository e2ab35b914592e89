\* Three gateways, two players.
SPECIFICATION PartsSpec
CONSTANTS
    Gateway = {east, west, north}
    Avatar = {ann, bob}
    NoAttributes = NoAttributes
    NoObject = NoObject
    Stopped = Stopped
    NoWebRow = NoWebRow
    Null = Null
    Schemas <- SomeSchemas
    MaxClock = 4
    IntMax = 3
SYMMETRY GatewaysAndAvatars
INVARIANTS OneIdPerAvatar InSyncWhereChanged AttributesSound
PROPERTIES WebsiteSound
