------------------------------ MODULE RedisSubMgr ------------------------------
(***************************************************************************)
(* DataHandle/RedisAdapter: RedisSubMgr with the thread of its RedisWrap,   *)
(* the RedisListen of each adapter, and the Redis server as the thread sees *)
(* it: a connection that may break, subscriptions, a stream of replies.     *)
(*                                                                         *)
(* A message is its number in the order of publication.  Its form is what   *)
(* RedisSyncData::Parse makes of it: it takes a plain one, refuses one with *)
(* a text value that is empty or has a ':' in it, and std::stoull throws on *)
(* a key that is no number, std::stoi on what follows a '|' in a text.      *)
(* The m_listSyncData of a listener is never drained: nothing calls         *)
(* ExportSyncData.                                                         *)
(***************************************************************************)
EXTENDS Integers, Sequences, FiniteSets

CONSTANTS
    Tables,      \* Redis keys, one for the fields of a table
    Keys,        \* first keys
    MaxActor,    \* actors are 1 .. MaxActor, in the order of m_mListen
    Loads(_),    \* bound on Load: what each actor loads, once
    MaxRead,     \* messages a ReadSyncData takes; 10 in the code
    MaxMessages, \* bound on what is published
    MaxOdd       \* bound on the messages among them that are not plain

ASSUME SubAssumption ==
    MaxActor \in Nat /\ MaxRead \in Nat \ {0} /\ MaxMessages \in Nat /\ MaxOdd \in Nat

VARIABLES
    listen,        \* m_mListen
    allRedisKey,   \* m_AllRedisKey
    listRedisKey,  \* m_listRedisKey
    vKey,          \* m_vKey, m_vRedisKey and m_listSyncData of each listener
    vRedisKey,
    listSyncData,
    reader,        \* where the thread is
    listTemp,      \* its locals: the keys of the command, the messages read,
    listData,
    at,            \* the last actor visited
    phase,         \* of the RedisSubMgr: up, destroyed, stopping
    connected,
    wire,          \* tables of the SUBSCRIBE commands the server has not read
    subscribed,
    stream,        \* replies the thread has not read; 0 acknowledges a table
    published,     \* history: every message, and whether it came to the stream
                   \* (its form and its number stand for its text)
    lastRead,      \* history: the last message the thread has read
    spoiled,       \* history: messages whose walk a change of m_mListen met
    crashed,       \* undefined behaviour or an exception has ended the program
    pc,            \* where the RedisAdapter of each actor is
    loading,       \* the table and key of its Load
    since          \* history: the first message after it asked for a table

keyVars == <<allRedisKey, listRedisKey>>
listenerVars == <<vKey, vRedisKey>>
readerVars == <<listTemp, listData, at, lastRead, spoiled>>
serverVars == <<connected, wire, subscribed, stream, published>>
actorVars == <<pc, loading, since>>
vars == <<listen, keyVars, listenerVars, listSyncData, reader, readerVars,
          phase, serverVars, crashed, actorVars>>

Actors == 1 .. MaxActor
Wants == Tables \X Keys
Forms == {"plain", "refused", "throws"}

IsOrder(p, D) ==
    /\ {p[i] : i \in DOMAIN p} = D
    /\ \A i, j \in DOMAIN p : i < j => p[i] < p[j]

(* What a loop keeps of a list that passes over all but the positions D.    *)
Select(s, D) ==
    LET p == CHOOSE p \in [1 .. Cardinality(D) -> D] : IsOrder(p, D)
    IN  [i \in 1 .. Cardinality(D) |-> s[p[i]]]

Init ==
    /\ listen = {}
    /\ allRedisKey = {} /\ listRedisKey = <<>>
    /\ vKey = [a \in Actors |-> {}] /\ vRedisKey = [a \in Actors |-> {}]
    /\ listSyncData = [a \in Actors |-> <<>>]
    /\ reader = "get" /\ listTemp = <<>> /\ listData = <<>>
    /\ at = 0 /\ lastRead = 0 /\ spoiled = {}
    /\ phase = "up"
    /\ connected = TRUE /\ wire = <<>> /\ subscribed = {} /\ stream = <<>>
    /\ published = <<>>
    /\ crashed = FALSE
    /\ pc = [a \in Actors |-> "new"]
    /\ loading = [a \in Actors |-> {}]
    /\ since = [a \in Actors |-> [w \in Wants |-> 0]]

-----------------------------------------------------------------------------
(* Calls of the actors' threads: RedisAdapter::Init, Load and ~RedisAdapter. *)

Goto(a, l) == pc' = [pc EXCEPT ![a] = l]

(* The thread walks m_mListen without the mutex that guards the changes: if *)
(* one meets the walk, the walk goes on anywhere in the map, or the program *)
(* ends.                                                                   *)
Race ==
    \/ reader # "walk" /\ UNCHANGED <<crashed, at, spoiled>>
    \/ reader = "walk" /\ crashed' = TRUE /\ UNCHANGED <<at, spoiled>>
    \/ /\ reader = "walk" /\ UNCHANGED crashed
       /\ at' \in 0 .. MaxActor
       /\ spoiled' = spoiled \cup {listData[i] : i \in DOMAIN listData}

AddListen(a) ==
    /\ pc[a] = "new" /\ Goto(a, "idle")
    /\ phase = "up"
    /\ listen' = listen \cup {a}
    /\ Race
    /\ UNCHANGED <<keyVars, listenerVars, listSyncData, reader, listTemp, listData, lastRead, phase, serverVars, loading, since>>

RemoveListen(a) ==
    /\ pc[a] = "idle" /\ Goto(a, "gone")
    /\ listen' = listen \ {a}
    /\ Race
    /\ UNCHANGED <<keyVars, listenerVars, listSyncData, reader, listTemp, listData, lastRead, phase, serverVars, loading, since>>

\* Variant: the table is asked for before the listener wants it.
AskFirst == <<"ask", "merge">>

MergeOrder == <<"merge", "ask">>

After(l) == IF l = MergeOrder[1] THEN MergeOrder[2] ELSE "idle"
Keep(a, l) == loading' = [loading EXCEPT ![a] = IF After(l) = "idle" THEN {} ELSE @]

(* HMGET reads the row before the listener is to hear of its changes.       *)
Load(a, w) ==
    /\ pc[a] = "idle" /\ Goto(a, MergeOrder[1])
    /\ w \in Loads(a) /\ since[a][w] = 0
    /\ loading' = [loading EXCEPT ![a] = {w}]
    /\ UNCHANGED <<listen, keyVars, listenerVars, listSyncData, reader, readerVars, phase, serverVars, crashed, since>>

Merge(a, w) ==
    /\ pc[a] = "merge" /\ Goto(a, After("merge"))
    /\ w \in loading[a] /\ Keep(a, "merge")
    /\ vRedisKey' = [vRedisKey EXCEPT ![a] = @ \cup {w[1]}]
    /\ vKey' = [vKey EXCEPT ![a] = @ \cup {w[2]}]
    /\ UNCHANGED <<listen, keyVars, listSyncData, reader, readerVars, phase, serverVars, crashed, since>>

AddRediskey(a, w) ==
    /\ pc[a] = "ask" /\ Goto(a, After("ask"))
    /\ w \in loading[a] /\ Keep(a, "ask")
    /\ allRedisKey' = allRedisKey \cup {w[1]}
    /\ listRedisKey' = IF w[1] \in allRedisKey THEN listRedisKey ELSE Append(listRedisKey, w[1])
    /\ since' = [since EXCEPT ![a][w] = IF @ = 0 THEN Len(published) + 1 ELSE @]
    /\ UNCHANGED <<listen, listenerVars, listSyncData, reader, readerVars, phase, serverVars, crashed>>

(* ~RedisSubMgr: the map, the lists and the mutexes go before ~RedisWrap    *)
(* stops the thread that uses them.  Adapters are destroyed before.         *)
DestroyMembers ==
    /\ phase = "up" /\ phase' = "destroyed"
    /\ \A a \in Actors : pc[a] \in {"new", "gone"}
    /\ Race
    /\ UNCHANGED <<listen, keyVars, listenerVars, listSyncData, reader, listTemp, listData, lastRead, serverVars, actorVars>>

Stop ==
    /\ phase = "destroyed" /\ phase' = "stopping"
    /\ UNCHANGED <<listen, keyVars, listenerVars, listSyncData, reader, readerVars, serverVars, crashed, actorVars>>

-----------------------------------------------------------------------------
(* The server.                                                             *)

(* Anyone may publish: an adapter of this process or of another, or no      *)
(* adapter at all.  What is sent to nobody may have any form: call it plain. *)
Publish(w, form) ==
    LET push == connected /\ w[1] \in subscribed
    IN  /\ Len(published) < MaxMessages
        /\ form # "plain" => push /\ Cardinality({n \in DOMAIN published : published[n].form # "plain"}) < MaxOdd
        /\ published' = Append(published, [want |-> w, form |-> form, pushed |-> push])
        /\ stream' = IF push THEN Append(stream, Len(published) + 1) ELSE stream
        /\ UNCHANGED <<listen, keyVars, listenerVars, listSyncData, reader, readerVars, phase, connected, wire, subscribed, crashed, actorVars>>

ServerSubscribe ==
    /\ wire # <<>>
    /\ wire' = Tail(wire)
    /\ subscribed' = subscribed \cup {Head(wire)}
    /\ stream' = Append(stream, 0)
    /\ UNCHANGED <<listen, keyVars, listenerVars, listSyncData, reader, readerVars, phase, connected, published, crashed, actorVars>>

(* Nothing connects again.  What has arrived may still be read.             *)
Disconnect ==
    /\ connected /\ connected' = FALSE
    /\ wire' = <<>>
    /\ \E n \in 0 .. Len(stream) : stream' = SubSeq(stream, 1, n)
    /\ UNCHANGED <<listen, keyVars, listenerVars, listSyncData, reader, readerVars, phase, subscribed, published, crashed, actorVars>>

-----------------------------------------------------------------------------
(* The thread.                                                             *)

\* Variant: one table a command, and the rest of the list is lost.
TakeOne(list) == IF list = <<>> THEN <<>> ELSE <<Head(list)>>

TakeAll(list) == list

UseAfterDestroy == IF phase = "up" THEN UNCHANGED crashed ELSE crashed' \in BOOLEAN

GetSubString ==
    /\ reader = "get" /\ phase # "stopping"
    /\ listTemp' = TakeAll(listRedisKey)
    /\ listRedisKey' = <<>>
    /\ reader' = IF listRedisKey = <<>> THEN "read" ELSE "write"
    /\ UseAfterDestroy
    /\ UNCHANGED <<listen, allRedisKey, listenerVars, listSyncData, listData, at, lastRead, spoiled, phase, serverVars, actorVars>>

(* The loop ends when all is written or the connection is lost; the keys    *)
(* are forgotten either way.                                               *)
AsyncCommand ==
    /\ reader = "write" /\ reader' = "read"
    /\ wire' = IF connected THEN wire \o listTemp ELSE wire
    /\ listTemp' = <<>>
    /\ UNCHANGED <<listen, keyVars, listenerVars, listSyncData, listData, at, lastRead, spoiled, phase, connected, subscribed, stream, published, crashed, actorVars>>

\* Variant: every reply counts, that to SUBSCRIBE too.
EveryReply(n) == TRUE

Kept(n) == n # 0 /\ published[n].form = "plain"

Throws(n) == n # 0 /\ published[n].form = "throws"

ReadNothing ==
    /\ reader = "read" /\ reader' = "get"
    /\ stream = <<>>
    /\ UNCHANGED <<listen, keyVars, listenerVars, listSyncData, readerVars, phase, serverVars, crashed, actorVars>>

\* Variant: the last message that was read is read again.
RestAgain(s, n) == SubSeq(s, n, Len(s))

\* Variant: messages beyond those that were read are dropped.
RestDropped(s, n) == <<>>

Rest(s, n) == SubSeq(s, n + 1, Len(s))

(* The loop comes to reply n: none before it threw, and it returns with the *)
(* message that makes MaxRead of them.                                     *)
Reaches(n) ==
    /\ \A i \in 1 .. n - 1 : ~Throws(stream[i])
    /\ Cardinality({i \in 1 .. n - 1 : Kept(stream[i])}) < MaxRead

ReadSyncData ==
    /\ reader = "read"
    /\ \E n \in 1 .. Len(stream) :
          LET read == Select(stream, {i \in 1 .. n : Kept(stream[i])})
          IN  /\ Reaches(n) /\ ~Throws(stream[n])
              /\ stream' = Rest(stream, n)
              /\ listData' = read
              /\ IF read = <<>> THEN reader' = "get" /\ UNCHANGED lastRead
                 ELSE reader' = "walk" /\ lastRead' = read[Len(read)]
    /\ UNCHANGED <<listen, keyVars, listenerVars, listSyncData, listTemp, at, spoiled, phase, connected, wire, subscribed, published, crashed, actorVars>>

(* Nothing catches the exception: it leaves the function of the thread.     *)
ParseThrows ==
    /\ reader = "read"
    /\ \E n \in 1 .. Len(stream) : Reaches(n) /\ Throws(stream[n])
    /\ crashed' = TRUE
    /\ UNCHANGED <<listen, keyVars, listenerVars, listSyncData, reader, readerVars, phase, serverVars, actorVars>>

Wanted(a, n) ==
    published[n].want[1] \in vRedisKey[a] /\ published[n].want[2] \in vKey[a]

(* The iterator follows the map as it is now.                              *)
IsNext(a) == a \in listen /\ a > at /\ \A b \in listen : b > at => a <= b

AddSyncData(a) ==
    /\ reader = "walk"
    /\ IsNext(a)
    /\ at' = a
    /\ LET heard == {i \in DOMAIN listData : Wanted(a, listData[i])}
       IN  listSyncData' = [listSyncData EXCEPT ![a] = @ \o Select(listData, heard)]
    /\ UseAfterDestroy
    /\ UNCHANGED <<listen, keyVars, listenerVars, reader, listTemp, listData, lastRead, spoiled, phase, serverVars, actorVars>>

ListenEnd ==
    /\ reader = "walk" /\ reader' = "get"
    /\ \A a \in listen : a <= at
    /\ listData' = <<>> /\ at' = 0
    /\ UseAfterDestroy
    /\ UNCHANGED <<listen, keyVars, listenerVars, listSyncData, listTemp, lastRead, spoiled, phase, serverVars, actorVars>>

ThreadExit ==
    /\ reader = "get" /\ phase = "stopping" /\ reader' = "exit"
    /\ UNCHANGED <<listen, keyVars, listenerVars, listSyncData, readerVars, phase, serverVars, crashed, actorVars>>

Thread ==
    \/ GetSubString \/ AsyncCommand \/ ReadNothing \/ ReadSyncData \/ ParseThrows
    \/ \E a \in Actors : AddSyncData(a)
    \/ ListenEnd \/ ThreadExit

Next ==
    /\ ~crashed
    /\ \/ \E a \in Actors :
             \/ AddListen(a) \/ RemoveListen(a)
             \/ \E w \in Wants : Load(a, w) \/ Merge(a, w) \/ AddRediskey(a, w)
       \/ \E w \in Wants, form \in Forms : Publish(w, form)
       \/ DestroyMembers \/ Stop
       \/ ServerSubscribe \/ Disconnect \/ Thread

Spec == Init /\ [][Next]_vars

(* The thread and the server go on.                                        *)
FairSpec == Spec /\ WF_vars(~crashed /\ Thread) /\ WF_vars(~crashed /\ ServerSubscribe)
=============================================================================
