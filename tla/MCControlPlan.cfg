SPECIFICATION Spec
CONSTANTS
    MaxTime = 5
    InputLists <- MCInputLists
    Requests <- MCRequests
INVARIANTS
    TicksSampleTheInputs
    RespawnsDeliveredOnce
    TargetsComparedExactly
CHECK_DEADLOCK FALSE
