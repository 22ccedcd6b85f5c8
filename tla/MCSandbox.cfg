SPECIFICATION Spec
CONSTANTS
    MaxTime = 8
    Tick = 2
    Prestart = 1
    Canonical = TRUE
    Scenarios <- MCScenarios
    LoadedInputs <- MCCanonical
    Duration <- MCShortDurations
    InitialHorizon = 3
    Horizons = {1}
    EditActions = {"Steer"}
    EditTimes = {6}
    MaxEdits = 1
    Edits <- MCEdits
    Windows <- MCWindows
    MaxCount = 2
    MaxFailures = 1
INVARIANTS
    RuntimeFollowsPlan
    PositionInPlan
    WindowPlanIsRebuiltPlan
PROPERTIES
    TornUntilLoaded
