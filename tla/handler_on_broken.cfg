SPECIFICATION Spec
CONSTANTS
    Workers = {w1, w2}
    Senders = {s1}
    Main = main
    Mailboxes = {m1}
    Messages = {x1, x2}
    Throwing = {}
    ThrowingHooks = {}
    Free = Free
    NoBox = NoBox
    NoMsg = NoMsg
    nMaxThread = 0
    HardwareConcurrency = 1
    Deletable = {m1}
    MayDestroy = FALSE
INVARIANT NoHandlerOnBroken
CHECK_DEADLOCK FALSE
