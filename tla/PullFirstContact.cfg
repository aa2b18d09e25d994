\* One page; the first answer is adopted.
SPECIFICATION Spec
CONSTANTS
    Pages = {p}
    CapEntries = 2
    MAX_REPLAY = 1
    FLOOR_NAMES = 1
    MaxOwed = 1
    MaxLog = 2
    MaxGen = 1
INVARIANT FirstContactFresh
