SPECIFICATION Spec
CONSTANTS
    Overflow = Overflow
    Searches <- MCSearches
    Origin = 8
    Tick = 4
    Full = 2
    DeadZone = 1
    GasThreshold = 2
    Draws <- MCDraws
    Weighted <- MCWeighted
INVARIANTS
    CapacitySuffices
    CandidateIsCanonical
    OnlyWindowsChange
    UnselectedTicksFollowBaseline
    PruningIsInvisible
