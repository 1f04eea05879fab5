CONSTANTS
    Blocks = {b1, b2}
    Types = {"array"}
    Owner = owner
    Tasks = {owner}
    NoTask = NoTask
    Nil = Nil
    Foreign = foreign
    Multicore = FALSE
    EpochMax = 2
    CountMax = 3
    MaxRefs = 1
    MaxRoots = 2
SPECIFICATION Spec
INVARIANT AllLiveMeansNoGarbage
