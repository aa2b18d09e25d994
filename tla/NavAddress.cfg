SPECIFICATION Spec
CONSTANTS
    Pages <- TwoPages
    First = "a"
    Redirect <- Straight
    NoStore = {}
    CACHE_SIZE = 1
    MaxNavs = 3
    MaxFetches = 3
    MaxIds = 0
    MaxVersion = 0
    None = None
CHECK_DEADLOCK FALSE
INVARIANT ShowsAddress
