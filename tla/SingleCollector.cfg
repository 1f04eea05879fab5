CONSTANTS
    Blocks = {b1, b2, b3}
    Types = {"finalizable", "array"}
    Owner = owner
    Tasks = {owner}
    NoTask = NoTask
    Nil = Nil
    Foreign = foreign
    Multicore = FALSE
    EpochMax = 1
    CountMax = 3
    MaxRefs = 1
    MaxRoots = 1
SPECIFICATION Spec
SYMMETRY BlockSymmetry
INVARIANT MarkExact
PROPERTIES NoLiveReclaimed FinalizedOnceBeforeReclaimed
