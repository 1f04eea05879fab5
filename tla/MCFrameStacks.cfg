CONSTANTS
    Contexts = {owner, worker}
    Owner = owner
    SlotCounts = {1}
    Depth <- MCDepth
    Nil = Nil
SPECIFICATION Spec
INVARIANTS ChainsExact ActiveMeansOnStack
