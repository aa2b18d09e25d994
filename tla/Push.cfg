\* One page, three events (one of them its own), two connections.
SPECIFICATION FairSpec
CONSTANTS
    Pages = {p}
    MaxAttempts = 2
    MaxOwed = 1
    MaxLog = 3
INVARIANTS
    TypeOK
    SettledFresh
PROPERTY EventsHeard
