SPECIFICATION FairSpec
CONSTANTS
    Senders = {s1, s2}
    MaxPackets = 3
    MaxErrors = 1
    MaxConnects = 3
CHECK_DEADLOCK FALSE
INVARIANTS TypeOK Conserved NoneStranded
PROPERTIES ShutDownIsFinal SentInTheEnd
