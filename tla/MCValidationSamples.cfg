SPECIFICATION Spec
CONSTANTS
    Replays <- MCReplays
    Requested = {1}
    Tick = 10
    Prestart = 10
    Period = 10
    Tolerance = 10
    Distances <- MCDistances
    Threshold = 2
    NotFinite = 99
    NsPerMs = 10
    RespawnLimit = 2
    MaxRespawns = 1
    Scores = {0, 3}
    StuntsLimit = 10
    PenaltyUnit = 5
INVARIANT SamplesKeepOutcome
CHECK_DEADLOCK FALSE
