SPECIFICATION Spec
CONSTANTS
    Procs = {p1}
    Slots = {s1}
    Pages <- OnePage
    JobTags <- JobT
    Calls <- TagCalls
    FLOOR_NAMES = 2
    MaxData = 1
    MaxCalls = 1
    MaxWork = 3
    MaxRequests = 2
    MaxFaults = 0
CHECK_DEADLOCK FALSE
INVARIANT PageJobFresh
SYMMETRY Symmetry

