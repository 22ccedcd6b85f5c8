SPECIFICATION Spec
CONSTANTS
    Candidates = {0, 1}
    Baseline = 99
    Kinds = {"finish"}
    Runs <- MCRuns
    Ticks = 3
    PollPeriod = 2
    TickMs = 1
    NsPerMs = 4
    Prestart = 3
    KeepsFinishState = FALSE
    InitialCapacity = 1
    MaxCapacity = 2
    MaxBatches = 2
    MaxFailures = 0
PROPERTIES
    FinishIncumbentNeverLater
