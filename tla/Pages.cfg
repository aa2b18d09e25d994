SPECIFICATION Spec
CONSTANTS
    Procs = {p1, p2}
    Slots = {s1}
    Pages <- OnePage
    JobTags <- JobT
    Calls <- TagAndPrefixCalls
    FLOOR_NAMES = 2
    MaxData = 1
    MaxCalls = 2
    MaxWork = 3
    MaxRequests = 2
    MaxFaults = 1
CHECK_DEADLOCK FALSE
INVARIANTS TypeOK StoreGuarded StoreClean LoaderFresh JobFresh ComputedFresh ReplayedRejected
SYMMETRY Symmetry
CONSTRAINT Combined
