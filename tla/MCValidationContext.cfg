SPECIFICATION Spec
CONSTANTS
    Contexts = {context}
    Sandboxes = {sandbox}
    Replays <- MCReplays
    Routes <- MCRoutes
    Blocks <- MCBlocks
    Randoms <- MCRandoms
    RandomRange = 8
    Roundings = {nearest, upward}
    Nearest = nearest
    MaxRequests = 2
    MaxCalls = 5
    MaxFaults = 1
CHECK_DEADLOCK FALSE
INVARIANTS
    ValidatesAsFirstCall
    
PROPERTIES
    CallerIsUndisturbed
