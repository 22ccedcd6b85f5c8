SPECIFICATION BracketSpec
CONSTANT MaxTime = 9
CHECK_DEADLOCK FALSE
INVARIANTS
    BoundsAreProbes
    MonotoneSearchIsExact
    ValidUnlessRefused
PROPERTIES
    ProbesHalve
