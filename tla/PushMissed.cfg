\* Two pages, two events, two connections.
SPECIFICATION Spec
CONSTANTS
    Pages = {p, q}
    MaxAttempts = 2
    MaxOwed = 0
    MaxLog = 2
SYMMETRY PageSymmetry
INVARIANT MissedEventsCleared
