SPECIFICATION FairSpec
CONSTANTS
    MAX_PAGES = 3
    ENTRIES_PER_PAGE = 1
    Actors = {a1, a2, a3}
    Proxies = {p1}
    NoActor = NoActor
    Remote = {2}
    Senders = {s1}
    Messages = {x1}
    NoMsg = NoMsg
    MaxList = 2
CHECK_DEADLOCK FALSE
INVARIANTS TypeOK OneOwner EntriesReady NotMisdelivered
PROPERTIES SentIsHandled
