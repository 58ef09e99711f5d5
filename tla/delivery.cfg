SPECIFICATION FairSpec
CONSTANTS
    Workers = {w1, w2}
    Senders = {s1}
    Main = main
    Mailboxes = {m1, m2}
    Messages = {x1, x2, x3}
    Throwing = {}
    ThrowingHooks = {}
    Free = Free
    NoBox = NoBox
    NoMsg = NoMsg
    nMaxThread = 0
    HardwareConcurrency = 1
    Deletable = {}
    MayDestroy = FALSE
INVARIANTS TypeOK AcceptedInOrder ScheduledOnce SomeoneAwake
PROPERTIES EveryMessageHandled
