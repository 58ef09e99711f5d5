SPECIFICATION Spec
CONSTANTS
    MAX_PAGES = 3
    ENTRIES_PER_PAGE = 1
    Actors = {a1, a2, a3}
    Proxies = {}
    NoActor = NoActor
    Remote = {}
    Senders = {s1}
    Messages = {x1}
    NoMsg = NoMsg
    MaxList = 1
CHECK_DEADLOCK FALSE
PROPERTIES ReuseFree
