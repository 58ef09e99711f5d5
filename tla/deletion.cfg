SPECIFICATION FairSpec
CONSTANTS
    Workers = {w1, w2}
    Senders = {s1}
    Main = main
    Mailboxes = {m1, m2}
    Messages = {x1, x2}
    Throwing = {}
    ThrowingHooks = {}
    Free = Free
    NoBox = NoBox
    NoMsg = NoMsg
    nMaxThread = 1
    HardwareConcurrency = 1
    Deletable = {m1}
    MayDestroy = TRUE
INVARIANTS DeadIsQuiet
PROPERTIES ImplementsMail DeleteReturns DestroyReturns
CHECK_DEADLOCK FALSE
