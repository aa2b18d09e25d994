\* Two pages, a floor of one name, a ring of two events, one restart of the object.
SPECIFICATION FairSpec
CONSTANTS
    Pages = {p, q}
    CapEntries = 2
    MAX_REPLAY = 1
    FLOOR_NAMES = 1
    MaxOwed = 1
    MaxLog = 2
    MaxGen = 2
INVARIANTS
    TypeOK
    SyncedPagesFresh
    FloorCovers
PROPERTY EventsArrive
CONSTRAINT OneRendered
