CONSTANTS
    Blocks = {b1, b2}
    Types = {"finalizable", "array"}
    Owner = owner
    Tasks = {owner, worker}
    NoTask = NoTask
    Nil = Nil
    Foreign = foreign
    Multicore = TRUE
    EpochMax = 1
    CountMax = 3
    MaxRefs = 1
    MaxRoots = 2
SPECIFICATION FairSpec
INVARIANT Bookkeeping
PROPERTIES NoLiveReclaimed CollectionReturns GarbageReclaimed
