CONSTANTS
    Owner = owner
    Worker = worker
    Tasks = {owner, worker}
    NoTask = NoTask
    NoSlot = NoSlot
    Capacity = 2
    EpochMax = 4
    Unbounded = Unbounded
    Budgets = {0, 1}
    AttemptBudget = 1
    MaxStops = 4
SPECIFICATION LifeFairSpec
INVARIANTS ContextsOK IdleMeansGone NormalResultMeansRan PanicOnlyAfterBudget
PROPERTY StartedJobEnds
