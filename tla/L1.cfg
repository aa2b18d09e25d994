\* One page, two threads, every kind of call: pages stay fresh, calls return.
SPECIFICATION FairSpec
CONSTANTS
    Threads = {t1, t2}
    Maintenance = moka
    Tags = {a}
    Keys <- MCKeys
    SHARDS = 1
    INVAL_SLOTS = 1
    shard_of <- MCshard_of
    tag_slot <- MCtag_slot
    path_slot <- MCpath_slot
    prefix_slot <- MCprefix_slot
    TagSets <- MCTagSets
    Calls <- MCCalls
    MaxClock = 2
    MaxGeneration = 2
    MaxData = 1
INVARIANTS
    TypeOK
    NoStaleHit
    FrontFollowsMoka
    LiveEntriesIndexed
    IndexBounded
PROPERTY CallsReturn
