SPECIFICATION FairSpec
CONSTANTS
    t1 = t1
    Loads <- MCLoads
    Tables = {t1, t2}
    Keys = {k1}
    MaxActor = 2
    MaxRead = 1
    MaxMessages = 2
    MaxOdd = 1
CHECK_DEADLOCK FALSE
INVARIANTS TypeOK KeysSubscribed NothingMissed HeardInOrder
PROPERTIES HeardInTheEnd
