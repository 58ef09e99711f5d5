SPECIFICATION FairSpec
CONSTANTS
    Entities = {e1, e2}
    NoEntity = NoEntity
    MaxTime = 1
    MaxAdds = 3
CHECK_DEADLOCK FALSE
INVARIANTS TypeOK NoUseAfterFree CalledInOrder FirstRegistered
PROPERTIES NoneAfterDestroyed RegisteredIsCalled
