SPECIFICATION Spec
CONSTANTS
    dim = 5
    max_two_m = 2
    RowCounts = {2}
    Refusable = {"gemmP"}
    MaxCalls = 1
INVARIANT FailureLeavesState
