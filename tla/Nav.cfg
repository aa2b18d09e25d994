SPECIFICATION Spec
CONSTANTS
    Pages <- MCPages
    First = "a"
    Redirect <- Redirected
    NoStore = {"b"}
    CACHE_SIZE = 1
    MaxNavs = 3
    MaxFetches = 3
    MaxIds = 1
    MaxVersion = 1
    None = None
CHECK_DEADLOCK FALSE
INVARIANTS TypeOK SettledOnEntry LoadingShown StyledPage ReadsItsWrites NoStoreRefetched
PROPERTY NewestWins
CONSTRAINT Combined
