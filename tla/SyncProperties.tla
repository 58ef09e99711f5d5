----------------------------- MODULE SyncProperties -----------------------------
(* What must hold between the listeners, the subscriptions and the stream.  *)
EXTENDS RedisSubMgr

Numbers == 1 .. MaxMessages
In(s) == {s[i] : i \in DOMAIN s}

\* Every variable keeps its type (RedisSubMgr.h:28, RedisListen.h:25).
TypeOK ==
    /\ listen \subseteq Actors
    /\ allRedisKey \subseteq Tables /\ listRedisKey \in Seq(Tables)
    /\ vKey \in [Actors -> SUBSET Keys] /\ vRedisKey \in [Actors -> SUBSET Tables]
    /\ listSyncData \in [Actors -> Seq(Numbers)]
    /\ reader \in {"get", "write", "read", "walk", "exit"}
    /\ listTemp \in Seq(Tables) /\ listData \in Seq(Numbers)
    /\ at \in 0 .. MaxActor /\ lastRead \in 0 .. MaxMessages
    /\ spoiled \subseteq Numbers
    /\ phase \in {"up", "destroyed", "stopping"}
    /\ connected \in BOOLEAN /\ crashed \in BOOLEAN
    /\ wire \in Seq(Tables) /\ subscribed \subseteq Tables
    /\ stream \in Seq(0 .. MaxMessages)
    /\ published \in Seq([want : Wants, form : Forms, pushed : BOOLEAN])
    /\ pc \in [Actors -> {"new", "idle", "merge", "ask", "gone"}]
    /\ loading \in [Actors -> SUBSET Wants]
    /\ since \in [Actors -> [Wants -> 0 .. MaxMessages + 1]]

\* A table that was ever asked for is subscribed or on its way there for as
\* long as there is a connection: nobody asks again, since m_AllRedisKey
\* remembers it (RedisSubMgr.cpp:74, 87).
KeysSubscribed ==
    connected => allRedisKey = In(listRedisKey) \cup In(listTemp) \cup In(wire) \cup subscribed

\* A listener has every message that Parse takes, that the server sent after the
\* listener asked for its table and that the thread has gone past, unless the walk
\* over the listeners has not come to it: a change of the map costs no other message
\* than the ones it meets, and a message that Parse refuses costs only itself
\* (RedisListen.cpp:16, RedisSubMgr.cpp:38, RedisWrap.cpp:236).
NothingMissed ==
    \A a \in listen, n \in (1 .. lastRead) \ spoiled :
        /\ published[n].pushed /\ Kept(n)
        /\ since[a][published[n].want] \in 1 .. n
        /\ ~(n \in In(listData) /\ a > at)
        => n \in In(listSyncData[a])

\* A listener hears of changes in the order of their publication and of none
\* twice, however they were split into reads (RedisWrap.cpp:216).
HeardInOrder ==
    \A a \in Actors : \A i, j \in DOMAIN listSyncData[a] :
        i < j => \/ listSyncData[a][i] < listSyncData[a][j]
                 \/ {listSyncData[a][i], listSyncData[a][j]} \subseteq spoiled

Broken == crashed \/ phase # "up" \/ ~connected

Outstanding(n) ==
    /\ n \in DOMAIN published \ spoiled
    /\ published[n].pushed /\ Kept(n)
    /\ \E a \in listen :
          since[a][published[n].want] \in 1 .. n /\ n \notin In(listSyncData[a])

\* What the server sends and Parse takes reaches every listener that asked for it in
\* the end, whatever Parse refuses beside it, while the connection and the thread
\* last: a message on which Parse throws ends the program (RedisSubMgr.cpp:27,
\* RedisWrap.cpp:236).
HeardInTheEnd ==
    \A n \in Numbers : Outstanding(n) ~> (~Outstanding(n) \/ Broken)
=============================================================================
