SPECIFICATION Spec
CONSTANTS
    Required = 2
    NoLocation = NoLocation
    start = start
    origin = origin
    gateA = gateA
    StartLocation = start
    OriginLocation = origin
    Locations <- MCLocations
    BlockSpawn <- MCBlockSpawn
    CurrentTransform <- MCCurrentTransform
    ClearOnContact = FALSE
    MaxLaps = 2
    MaxContacts = 6
    MaxTick = 2
    CloneTicks = {1}
INVARIANTS
    LapCounterInv
    CompletionInv
    JournalInv
    RespawnInv
PROPERTIES
    CompletedRaceIsClosed
    ImplementsLapRace
