SPECIFICATION Spec
CONSTANTS
    Period = 3
    Splits <- MCSplits
    MaxTicks = 2
    MaxFailures = 1
CHECK_DEADLOCK FALSE
INVARIANTS
    NoTraceWithoutFailure
    RerunsTheFinishingSubstep
    BoundsAreReruns
    FinishTimeOfCompletingSubstep
    ReadyRuntimeUnobserved
PROPERTIES
    StepReturns
