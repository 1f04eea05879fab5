CONSTANTS
    Tasks = {t1, t2}
    NoTask = NoTask
    NoSlot = NoSlot
    Capacity = 2
    EpochMax = 2
    Unbounded = Unbounded
    Budgets = {0, 1, Unbounded}
SPECIFICATION FairSpec
INVARIANTS TypeOK NoMutatorWhileStopped AckMeansParked
PROPERTIES NoEntryDuringRequest ImplementsStopTheWorld
PROPERTIES EveryStopEnds WaitingTasksResume RendezvousSucceeds
