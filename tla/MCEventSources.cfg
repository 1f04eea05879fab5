CONSTANTS
    Capacity = 1
    GenMax = 3
    Objects = {o1, o2}
    Nil = Nil
    QueueMax = 2
    MaxDepth = 3
SPECIFICATION FairSpec
INVARIANTS EventTypeOK DeliveredToOwner OneShotGoneUnlessThrown
PROPERTIES AutoReleaseIsOwn PollsReturn
