------------------------------- MODULE SyncProofs -------------------------------
(***************************************************************************)
(* Proofs about RedisSubMgr for every number of actors, tables, keys and    *)
(* messages.                                                               *)
(***************************************************************************)
EXTENDS SyncProperties, ListProofs, FiniteSetTheorems, WellFoundedInduction, SequenceTheorems, TLAPS

USE SubAssumption

\* The keys on their way, and the local list of the command, which is empty
\* when no command is being written.
Underway ==
    /\ listRedisKey \in Seq(Tables) /\ listTemp \in Seq(Tables) /\ wire \in Seq(Tables)
    /\ reader # "write" => listTemp = <<>>

SyncInv == Underway /\ KeysSubscribed

keys == <<allRedisKey, listRedisKey, listTemp, wire, subscribed>>

-----------------------------------------------------------------------------
(* What a list holds.                                                      *)

\* The entries of a list with a new one at the end.
LEMMA InAppend ==
    ASSUME NEW s \in Seq(Tables), NEW t \in Tables
    PROVE  Append(s, t) \in Seq(Tables) /\ In(Append(s, t)) = In(s) \cup {t}
<1>1. /\ Append(s, t) \in Seq(Tables) /\ Len(s) \in Nat
      /\ DOMAIN Append(s, t) = DOMAIN s \cup {Len(s) + 1}
      /\ Append(s, t)[Len(s) + 1] = t
      /\ \A i \in DOMAIN s : Append(s, t)[i] = s[i]
  OBVIOUS
<1> QED
  BY <1>1 DEF In

\* The entries of two lists, one behind the other.
LEMMA InConcat ==
    ASSUME NEW s \in Seq(Tables), NEW u \in Seq(Tables)
    PROVE  s \o u \in Seq(Tables) /\ In(s \o u) = In(s) \cup In(u)
<1>1. /\ s \o u \in Seq(Tables) /\ Len(s) \in Nat /\ Len(u) \in Nat /\ Len(s \o u) = Len(s) + Len(u)
      /\ DOMAIN s = 1 .. Len(s) /\ DOMAIN u = 1 .. Len(u) /\ DOMAIN (s \o u) = 1 .. Len(s) + Len(u)
      /\ \A i \in DOMAIN s : (s \o u)[i] = s[i]
      /\ \A i \in DOMAIN u : (s \o u)[i + Len(s)] = u[i]
  OBVIOUS
<1>2. In(s \o u) \subseteq In(s) \cup In(u)
  <2> SUFFICES ASSUME NEW i \in DOMAIN (s \o u) PROVE (s \o u)[i] \in In(s) \cup In(u)
    BY DEF In
  <2>1. CASE i <= Len(s)
    BY <1>1, <2>1 DEF In
  <2>2. CASE i > Len(s)
    <3>1. i - Len(s) \in DOMAIN u /\ (i - Len(s)) + Len(s) = i
      BY <1>1, <2>2
    <3>2. (s \o u)[i] = u[i - Len(s)]
      BY <1>1, <3>1
    <3> QED
      BY <3>1, <3>2 DEF In
  <2> QED
    BY <1>1, <2>1, <2>2
<1>3. In(s) \cup In(u) \subseteq In(s \o u)
  <2>1. \A i \in DOMAIN s : i \in DOMAIN (s \o u)
    BY <1>1
  <2>2. \A i \in DOMAIN u : i + Len(s) \in DOMAIN (s \o u)
    BY <1>1
  <2> QED
    BY <1>1, <2>1, <2>2 DEF In
<1> QED
  BY <1>1, <1>2, <1>3

\* The entries of a list and of its rest.
LEMMA InTail ==
    ASSUME NEW s \in Seq(Tables), s # <<>>
    PROVE  Tail(s) \in Seq(Tables) /\ In(s) = {Head(s)} \cup In(Tail(s))
<1>1. /\ Tail(s) \in Seq(Tables) /\ Len(s) \in Nat /\ Len(s) > 0
      /\ DOMAIN s = 1 .. Len(s) /\ DOMAIN Tail(s) = 1 .. Len(s) - 1
      /\ Head(s) = s[1]
      /\ \A i \in DOMAIN Tail(s) : Tail(s)[i] = s[i + 1]
  OBVIOUS
<1>2. \A i \in DOMAIN s : i = 1 \/ (i - 1 \in DOMAIN Tail(s) /\ Tail(s)[i - 1] = s[i])
  BY <1>1
<1>3. \A i \in DOMAIN Tail(s) : i + 1 \in DOMAIN s
  BY <1>1
<1>4. 1 \in DOMAIN s
  BY <1>1
<1>5. In(s) \subseteq {Head(s)} \cup In(Tail(s))
  <2> SUFFICES ASSUME NEW i \in DOMAIN s PROVE s[i] \in {Head(s)} \cup In(Tail(s))
    BY DEF In
  <2> QED
    BY <1>1, <1>2 DEF In
<1>6. {Head(s)} \cup In(Tail(s)) \subseteq In(s)
  BY <1>1, <1>3, <1>4 DEF In
<1> QED
  BY <1>1, <1>5, <1>6

\* The empty list has no entries.
LEMMA InEmpty == <<>> \in Seq(Tables) /\ In(<<>>) = {}
BY DEF In

-----------------------------------------------------------------------------
(* The steps.                                                              *)

\* AddRediskey: a table that is new to the set goes into the list.
LEMMA AddRediskeyInv ==
    ASSUME SyncInv, NEW a \in Actors, NEW w \in Wants, AddRediskey(a, w)
    PROVE  SyncInv'
<1>1. /\ w[1] \in Tables
      /\ allRedisKey' = allRedisKey \cup {w[1]}
      /\ listRedisKey' = IF w[1] \in allRedisKey THEN listRedisKey ELSE Append(listRedisKey, w[1])
      /\ UNCHANGED <<listTemp, wire, subscribed, connected, reader>>
  BY DEF AddRediskey, Wants, readerVars, serverVars
<1>2. listRedisKey \in Seq(Tables)
  BY DEF SyncInv, Underway
<1>3. CASE w[1] \in allRedisKey
  BY <1>1, <1>3 DEF SyncInv, Underway, KeysSubscribed
<1>4. CASE w[1] \notin allRedisKey
  <2>1. listRedisKey' \in Seq(Tables) /\ In(listRedisKey)' = In(listRedisKey) \cup {w[1]}
    BY <1>1, <1>2, <1>4, InAppend
  <2>2. Underway'
    BY <1>1, <2>1 DEF SyncInv, Underway
  <2>3. KeysSubscribed'
    BY <1>1, <2>1 DEF SyncInv, KeysSubscribed
  <2> QED
    BY <2>2, <2>3 DEF SyncInv
<1> QED
  BY <1>3, <1>4

\* GetSubString: the list goes to the thread.
LEMMA GetSubStringInv ==
    ASSUME SyncInv, GetSubString
    PROVE  SyncInv'
<1>1. /\ listTemp = <<>> /\ listTemp' = listRedisKey /\ listRedisKey' = <<>>
      /\ reader' = IF listRedisKey = <<>> THEN "read" ELSE "write"
      /\ UNCHANGED <<allRedisKey, wire, subscribed, connected>>
  BY DEF GetSubString, TakeAll, SyncInv, Underway, serverVars
<1>2. Underway'
  BY <1>1, InEmpty DEF SyncInv, Underway
<1>3. KeysSubscribed'
  BY <1>1 DEF SyncInv, KeysSubscribed
<1> QED
  BY <1>2, <1>3 DEF SyncInv

\* AsyncCommand: what the thread has goes to the connection.
LEMMA AsyncCommandInv ==
    ASSUME SyncInv, AsyncCommand
    PROVE  SyncInv'
<1>1. /\ wire' = IF connected THEN wire \o listTemp ELSE wire
      /\ listTemp' = <<>> /\ UNCHANGED <<allRedisKey, listRedisKey, subscribed, connected>>
      /\ wire \in Seq(Tables) /\ listTemp \in Seq(Tables)
  BY DEF AsyncCommand, SyncInv, Underway, keyVars
<1>2. CASE connected
  <2>1. wire' \in Seq(Tables) /\ In(wire)' = In(wire) \cup In(listTemp)
    BY <1>1, <1>2, InConcat
  <2>2. Underway'
    BY <1>1, <2>1, InEmpty DEF SyncInv, Underway
  <2>3. KeysSubscribed'
    BY <1>1, <2>1, InEmpty DEF SyncInv, KeysSubscribed
  <2> QED
    BY <2>2, <2>3 DEF SyncInv
<1>3. CASE ~connected
  BY <1>1, <1>3, InEmpty DEF SyncInv, Underway, KeysSubscribed
<1> QED
  BY <1>2, <1>3

\* The server subscribes to what the connection brings.
LEMMA ServerSubscribeInv ==
    ASSUME SyncInv, ServerSubscribe
    PROVE  SyncInv'
<1>1. /\ wire # <<>> /\ wire' = Tail(wire) /\ subscribed' = subscribed \cup {Head(wire)}
      /\ UNCHANGED <<allRedisKey, listRedisKey, listTemp, connected, reader>>
      /\ wire \in Seq(Tables)
  BY DEF ServerSubscribe, SyncInv, Underway, keyVars, readerVars
<1>2. wire' \in Seq(Tables) /\ In(wire) = {Head(wire)} \cup In(wire)'
  BY <1>1, InTail
<1>3. Underway'
  BY <1>1, <1>2 DEF SyncInv, Underway
<1>4. KeysSubscribed'
  BY <1>1, <1>2 DEF SyncInv, KeysSubscribed
<1> QED
  BY <1>3, <1>4 DEF SyncInv

\* No other step touches the keys, but for the loss of the connection.
LEMMA SyncStep == ASSUME SyncInv, [Next]_vars PROVE SyncInv'
<1>1. ASSUME UNCHANGED keys, UNCHANGED connected, reader = "write" => reader' = "write" PROVE SyncInv'
  BY <1>1 DEF SyncInv, Underway, KeysSubscribed, keys
<1>2. CASE UNCHANGED vars
  BY <1>1, <1>2 DEF vars, keys, keyVars, readerVars, serverVars
<1>3. ASSUME NEW a \in Actors, AddListen(a) \/ RemoveListen(a) \/ AddSyncData(a) PROVE SyncInv'
  BY <1>1, <1>3 DEF AddListen, RemoveListen, AddSyncData, keys, keyVars, serverVars
<1>4. ASSUME NEW a \in Actors, NEW w \in Wants, Load(a, w) \/ Merge(a, w) PROVE SyncInv'
  BY <1>1, <1>4 DEF Load, Merge, keys, keyVars, readerVars, serverVars
<1>5. ASSUME NEW w \in Wants, NEW form \in Forms, Publish(w, form) PROVE SyncInv'
  BY <1>1, <1>5 DEF Publish, keys, keyVars, readerVars
<1>6. CASE DestroyMembers \/ Stop \/ ReadNothing \/ ParseThrows \/ ListenEnd \/ ThreadExit
  BY <1>1, <1>6 DEF DestroyMembers, Stop, ReadNothing, ParseThrows, ListenEnd, ThreadExit, keys, keyVars, readerVars, serverVars
<1>7. CASE ReadSyncData
  BY <1>1, <1>7 DEF ReadSyncData, keys, keyVars
<1>8. CASE Disconnect
  BY <1>8, InEmpty DEF Disconnect, SyncInv, Underway, KeysSubscribed, keyVars, readerVars
<1> QED
  BY <1>2, <1>3, <1>4, <1>5, <1>6, <1>7, <1>8, AddRediskeyInv, GetSubStringInv, AsyncCommandInv,
     ServerSubscribeInv DEF Next, Thread

\* A table that was ever asked for is subscribed or on its way there for as
\* long as there is a connection: nobody asks again, since m_AllRedisKey
\* remembers it (RedisSubMgr.cpp:74, 87).
THEOREM SubscribedCorrect == Spec => []KeysSubscribed
<1>1. Init => SyncInv
  BY InEmpty DEF Init, SyncInv, Underway, KeysSubscribed
<1>2. SyncInv => KeysSubscribed
  BY DEF SyncInv
<1> QED
  BY <1>1, <1>2, SyncStep, PTL DEF Spec

-----------------------------------------------------------------------------
(* What a loop keeps of a list.                                            *)

\* The least-number principle, for sets.
LEMMA NatInSet ==
    ASSUME NEW T \in SUBSET Nat, 0 \in T, \A n \in T : n + 1 \in T
    PROVE  T = Nat
<1> SUFFICES ASSUME Nat \ T # {} PROVE FALSE
  OBVIOUS
<1>1. PICK m \in Nat \ T : \A k \in Nat \ T : ~(<<k, m>> \in OpToRel(<, Nat))
  BY NatLessThanWellFounded, WFMin
<1>2. \A k \in Nat \ T : ~(k < m)
  BY <1>1 DEF OpToRel
<1>3. m \in Nat /\ m # 0
  BY <1>1
<1>4. m - 1 \in Nat /\ m - 1 < m /\ (m - 1) + 1 = m
  BY <1>3
<1> QED
  BY <1>1, <1>2, <1>4

\* Positions can be put in order.
Orderable(D) == \E p \in [1 .. Cardinality(D) -> D] : IsOrder(p, D)

\* A set with an order has one with a new greatest element too.
LEMMA OrderMore ==
    ASSUME NEW m \in Nat, NEW D \in SUBSET (1 .. m + 1), m + 1 \in D, Orderable(D \ {m + 1})
    PROVE  Orderable(D)
<1> DEFINE E == D \ {m + 1}
           k == Cardinality(E)
<1>1. IsFiniteSet(E) /\ E \subseteq 1 .. m /\ D = E \cup {m + 1} /\ m + 1 \notin E
  <2>1. E \subseteq 1 .. m
    OBVIOUS
  <2>2. 1 \in Int /\ m \in Int
    OBVIOUS
  <2>3. IsFiniteSet(1 .. m)
    BY <2>2, FS_Interval
  <2>4. IsFiniteSet(E)
    BY <2>1, <2>3, FS_Subset
  <2> QED
    BY <2>1, <2>4
<1>2. k \in Nat /\ Cardinality(D) = k + 1
  BY <1>1, FS_AddElement, FS_CardinalityType
<1>3. PICK p \in [1 .. k -> E] : IsOrder(p, E)
  BY DEF Orderable
<1> HIDE DEF k
<1>4. PICK q : q = [i \in 1 .. k + 1 |-> IF i = k + 1 THEN m + 1 ELSE p[i]]
  OBVIOUS
<1>5. /\ DOMAIN q = 1 .. k + 1 /\ q[k + 1] = m + 1
      /\ \A i \in 1 .. k + 1 : i # k + 1 => i \in 1 .. k /\ q[i] = p[i]
      /\ \A i \in 1 .. k : i \in 1 .. k + 1 /\ i # k + 1
  <2>1. k + 1 \in 1 .. k + 1 /\ \A i \in 1 .. k : i \in 1 .. k + 1 /\ i # k + 1
    BY <1>2
  <2>2. \A i \in 1 .. k + 1 : i # k + 1 => i \in 1 .. k
    BY <1>2
  <2> QED
    BY <1>4, <2>1, <2>2
<1>6. \A i \in 1 .. k : p[i] \in E /\ p[i] < m + 1 /\ p[i] \in Nat
  <2>1. \A e \in E : e < m + 1 /\ e \in Nat
    BY <1>1
  <2>2. \A i \in 1 .. k : p[i] \in E
    BY <1>3
  <2> QED
    BY <2>1, <2>2
<1>7. q \in [1 .. k + 1 -> D]
  BY <1>1, <1>4, <1>5, <1>6
<1>8. {q[i] : i \in DOMAIN q} = D
  <2>1. \A d \in E : \E i \in 1 .. k : p[i] = d
    BY <1>3 DEF IsOrder
  <2>2. \A d \in D : \E i \in 1 .. k + 1 : q[i] = d
    BY <1>1, <1>2, <1>5, <2>1
  <2>3. \A i \in 1 .. k + 1 : q[i] \in D
    BY <1>7
  <2>4. {q[i] : i \in 1 .. k + 1} = D
    BY <2>2, <2>3
  <2> QED
    BY <1>5, <2>4
<1>9. ASSUME NEW i \in 1 .. k + 1, NEW j \in 1 .. k + 1, i < j PROVE q[i] < q[j]
  <2>1. i \in 1 .. k /\ q[i] = p[i]
    BY <1>2, <1>5, <1>9
  <2>2. CASE j = k + 1
    BY <1>5, <1>6, <2>1, <2>2
  <2>3. CASE j # k + 1
    <3>1. j \in 1 .. k /\ q[j] = p[j]
      BY <1>5, <2>3
    <3> QED
      BY <1>3, <1>9, <2>1, <3>1 DEF IsOrder
  <2> QED
    BY <2>2, <2>3
<1> QED
  BY <1>2, <1>5, <1>7, <1>8, <1>9 DEF Orderable, IsOrder

\* Every set of positions of a list has an order.
LEMMA OrderExists == ASSUME NEW m \in Nat, NEW D \in SUBSET (1 .. m) PROVE Orderable(D)
<1> DEFINE T == {n \in Nat : \A S \in SUBSET (1 .. n) : Orderable(S)}
<1>1. 0 \in T
  <2>1. ASSUME NEW S \in SUBSET (1 .. 0) PROVE Orderable(S)
    <3>1. 1 .. 0 = {}
      OBVIOUS
    <3>2. S = {}
      BY <3>1
    <3>3. Cardinality(S) = 0
      BY <3>2, FS_EmptySet
    <3>4. PICK p \in [{} -> S] : DOMAIN p = {}
      <4>1. [i \in {} |-> 1] \in [{} -> S]
        OBVIOUS
      <4> QED
        BY <4>1
    <3>5. IsOrder(p, S)
      BY <3>2, <3>4 DEF IsOrder
    <3>6. p \in [1 .. Cardinality(S) -> S]
      BY <3>1, <3>3, <3>4
    <3> QED
      BY <3>5, <3>6 DEF Orderable
  <2> QED
    BY <2>1
<1>2. ASSUME NEW n \in T PROVE n + 1 \in T
  <2>1. ASSUME NEW S \in SUBSET (1 .. n + 1) PROVE Orderable(S)
    <3>1. S \ {n + 1} \in SUBSET (1 .. n)
      BY <1>2
    <3>2. Orderable(S \ {n + 1})
      BY <1>2, <3>1
    <3>3. CASE n + 1 \in S
      BY <3>2, <3>3, OrderMore
    <3>4. CASE n + 1 \notin S
      <4>1. S \ {n + 1} = S
        BY <3>4
      <4> QED
        BY <3>2, <4>1
    <3> QED
      BY <3>3, <3>4
  <2> QED
    BY <2>1
<1>3. T = Nat
  <2> HIDE DEF T
  <2>1. T \in SUBSET Nat
    BY DEF T
  <2> QED
    BY <1>1, <1>2, <2>1, NatInSet
<1> QED
  BY <1>3

\* Select keeps what is at the positions, in the order of the list.
Selected(u, s, D) ==
    /\ \A i \in DOMAIN u : \E k \in D : u[i] = s[k]
    /\ \A k \in D : \E i \in DOMAIN u : u[i] = s[k]
    /\ \A i, j \in DOMAIN u : i < j => \E k, l \in D : k < l /\ u[i] = s[k] /\ u[j] = s[l]

\* A loop that passes over entries keeps the others, in their order.
LEMMA SelectKeeps ==
    ASSUME NEW S, NEW s \in Seq(S), NEW D \in SUBSET (DOMAIN s)
    PROVE  Select(s, D) \in Seq(S) /\ Selected(Select(s, D), s, D)
<1>1. Len(s) \in Nat /\ DOMAIN s = 1 .. Len(s)
  BY LenProperties
<1>2. IsFiniteSet(D) /\ Cardinality(D) \in Nat
  <2>1. 1 \in Int /\ Len(s) \in Int
    BY <1>1
  <2>2. IsFiniteSet(DOMAIN s)
    BY <1>1, <2>1, FS_Interval
  <2>3. IsFiniteSet(D)
    BY <2>2, FS_Subset
  <2> QED
    BY <2>3, FS_CardinalityType
<1>3. Orderable(D)
  BY <1>1, OrderExists
<1> DEFINE c == Cardinality(D)
           p == CHOOSE p \in [1 .. c -> D] : IsOrder(p, D)
<1>4. p \in [1 .. c -> D] /\ IsOrder(p, D)
  BY <1>3 DEF Orderable
<1>5. Select(s, D) = [i \in 1 .. c |-> s[p[i]]]
  BY DEF Select
<1> HIDE DEF p, c
<1>6. PICK u : u = [i \in 1 .. c |-> s[p[i]]]
  OBVIOUS
<1>7. /\ DOMAIN u = 1 .. c /\ DOMAIN p = 1 .. c
      /\ \A i \in 1 .. c : u[i] = s[p[i]] /\ p[i] \in D
  BY <1>4, <1>6
<1>8. u \in Seq(S)
  <2>1. \A i \in 1 .. c : s[p[i]] \in S
    BY <1>1, <1>7, ElementOfSeq
  <2>2. u \in [1 .. c -> S]
    BY <1>6, <2>1
  <2> QED
    BY <1>2, <2>2 DEF c
<1>9. \A k \in D : \E i \in DOMAIN u : u[i] = s[k]
  BY <1>4, <1>7 DEF IsOrder
<1>10. \A i, j \in DOMAIN u : i < j => \E k, l \in D : k < l /\ u[i] = s[k] /\ u[j] = s[l]
  BY <1>4, <1>7 DEF IsOrder
<1>11. \A i \in DOMAIN u : \E k \in D : u[i] = s[k]
  BY <1>7
<1>12. Selected(u, s, D)
  BY <1>9, <1>10, <1>11 DEF Selected
<1> QED
  BY <1>5, <1>6, <1>8, <1>12

-----------------------------------------------------------------------------
(* The messages.                                                           *)

\* The messages of the stream, in the order of their publication, and only what
\* the thread has not read; what it has read is in listData while it walks.
Streaming ==
    /\ Len(published) <= MaxMessages /\ lastRead <= Len(published)
    /\ \A i \in DOMAIN stream : stream[i] <= Len(published) /\ (stream[i] # 0 => lastRead < stream[i])
    /\ \A i, j \in DOMAIN stream : i < j /\ stream[i] # 0 /\ stream[j] # 0 => stream[i] < stream[j]
    /\ \A i \in DOMAIN listData : listData[i] <= lastRead
    /\ \A i, j \in DOMAIN listData : i < j => listData[i] < listData[j]
    /\ reader # "walk" => listData = <<>> /\ at = 0

\* What the server has pushed and Parse takes is read, or in the stream, or lost
\* behind it with the connection.
Pushed ==
    \A n \in DOMAIN published : published[n].pushed /\ Kept(n) /\ lastRead < n =>
        \/ n \in In(stream)
        \/ ~connected /\ \A i \in DOMAIN stream : stream[i] < n

\* An actor asks for the table of its load once its listener wants the key.
Asked ==
    \A a \in Actors :
        /\ pc[a] \in {"merge", "ask"} => \E w \in Wants : loading[a] = {w}
        /\ pc[a] \notin {"merge", "ask"} => loading[a] = {}
        /\ \A w \in Wants :
              /\ since[a][w] <= Len(published) + 1
              /\ since[a][w] # 0 => pc[a] # "new"
              /\ \/ since[a][w] # 0
                 \/ pc[a] = "ask" /\ w \in loading[a]
                 => w[1] \in vRedisKey[a] /\ w[2] \in vKey[a]

\* A listener has what was read before, or of the present messages those that the
\* walk has given it; it comes to the walk again only when a change of the map has
\* sent the walk back, which spoils the messages.
Given ==
    \A a \in Actors :
        /\ \A i \in DOMAIN listSyncData[a] :
              /\ listSyncData[a][i] <= lastRead
              /\ \/ listSyncData[a][i] \in In(listData)
                 \/ \A j \in DOMAIN listData : listSyncData[a][i] < listData[j]
        /\ a > at /\ In(listSyncData[a]) \cap In(listData) # {} => In(listData) \subseteq spoiled

MessageInv == Streaming /\ Pushed /\ Asked /\ Given /\ HeardInOrder /\ NothingMissed

AllInv == SyncInv /\ TypeOK /\ MessageInv

\* The initial state satisfies the invariant.
LEMMA InitMessages == Init => AllInv
<1> SUFFICES ASSUME Init PROVE AllInv
  OBVIOUS
<1>1. /\ listRedisKey = <<>> /\ listTemp = <<>> /\ wire = <<>> /\ stream = <<>> /\ listData = <<>>
      /\ published = <<>> /\ lastRead = 0 /\ at = 0 /\ spoiled = {} /\ listen = {}
      /\ \A a \in Actors : listSyncData[a] = <<>>
      /\ DOMAIN <<>> = {} /\ Len(<<>>) = 0
  BY EmptySeq DEF Init
<1>2. SyncInv
  BY InEmpty DEF Init, SyncInv, Underway, KeysSubscribed
<1>3. TypeOK
  <2>1. <<>> \in Seq(Tables) /\ <<>> \in Seq(Numbers) /\ <<>> \in Seq(0 .. MaxMessages)
        /\ <<>> \in Seq([want : Wants, form : Forms, pushed : BOOLEAN])
    BY EmptySeq
  <2>2. 0 \in 0 .. MaxActor /\ 0 \in 0 .. MaxMessages /\ 0 \in 0 .. MaxMessages + 1
    OBVIOUS
  <2> QED
    BY <2>1, <2>2 DEF Init, TypeOK
<1>4. Streaming /\ Pushed /\ Given /\ HeardInOrder /\ NothingMissed
  BY <1>1 DEF Streaming, Pushed, Given, HeardInOrder, NothingMissed, In
<1>5. Asked
  BY <1>1 DEF Init, Asked
<1> QED
  BY <1>2, <1>3, <1>4, <1>5 DEF AllInv, MessageInv

\* Positions and numbers.
LEMMA Ranges ==
    ASSUME AllInv
    PROVE  /\ Len(published) \in Nat /\ DOMAIN published = 1 .. Len(published) /\ lastRead \in Nat
           /\ DOMAIN stream = 1 .. Len(stream) /\ Len(stream) \in Nat
           /\ \A i \in DOMAIN stream : stream[i] \in Nat
           /\ \A i \in DOMAIN listData : listData[i] \in Numbers
           /\ \A n \in DOMAIN published : published[n].want \in Wants
<1>1. /\ published \in Seq([want : Wants, form : Forms, pushed : BOOLEAN]) /\ stream \in Seq(0 .. MaxMessages)
      /\ listData \in Seq(Numbers) /\ lastRead \in 0 .. MaxMessages
  BY DEF AllInv, TypeOK
<1>2. \A i \in DOMAIN stream : stream[i] \in 0 .. MaxMessages
  BY <1>1, LenProperties, ElementOfSeq
<1>3. \A i \in DOMAIN listData : listData[i] \in Numbers
  BY <1>1, LenProperties, ElementOfSeq
<1>4. \A n \in DOMAIN published : published[n] \in [want : Wants, form : Forms, pushed : BOOLEAN]
  BY <1>1, LenProperties, ElementOfSeq
<1> QED
  BY <1>1, <1>2, <1>3, <1>4, LenProperties

\* Steps that move no message: the keys that listeners want only grow, and what
\* is asked for now is after all messages.
LEMMA NoMessage ==
    ASSUME AllInv, Asked', reader' = "walk" <=> reader = "walk",
           UNCHANGED <<listen, listSyncData, listData, at, lastRead, spoiled, connected, stream, published>>,
           \A a \in Actors, w \in Wants : since'[a][w] # since[a][w] => since'[a][w] > lastRead
    PROVE  MessageInv'
<1>1. Streaming'
  BY DEF AllInv, MessageInv, Streaming
<1>2. Pushed'
  BY DEF AllInv, MessageInv, Pushed, Kept
<1>3. Given' /\ HeardInOrder'
  BY DEF AllInv, MessageInv, Given, HeardInOrder
<1>4. NothingMissed'
  <2> SUFFICES ASSUME NEW a \in listen, NEW n \in (1 .. lastRead) \ spoiled, published[n].pushed, Kept(n),
                      since'[a][published[n].want] \in 1 .. n, ~(n \in In(listData) /\ a > at)
               PROVE  n \in In(listSyncData[a])
    BY DEF NothingMissed, Kept
  <2>1. a \in Actors
    BY DEF AllInv, TypeOK
  <2>2. n \in DOMAIN published /\ n <= lastRead /\ published[n].want \in Wants
    BY Ranges DEF AllInv, MessageInv, Streaming
  <2>3. ~(since'[a][published[n].want] > lastRead)
    BY <2>2, Ranges
  <2>4. since[a][published[n].want] \in 1 .. n
    BY <2>1, <2>2, <2>3
  <2> QED
    BY <2>4 DEF AllInv, MessageInv, NothingMissed
<1> QED
  BY <1>1, <1>2, <1>3, <1>4 DEF MessageInv, AllInv

\* Load and what follows of it keep the invariant of the messages.
LEMMA LoadKeeps ==
    ASSUME AllInv, NEW a \in Actors, NEW w \in Wants, Load(a, w) \/ Merge(a, w) \/ AddRediskey(a, w)
    PROVE  MessageInv'
<1>1. /\ UNCHANGED <<listen, listSyncData, listData, at, lastRead, spoiled, connected, stream, published, reader>>
      /\ pc \in [Actors -> {"new", "idle", "merge", "ask", "gone"}]
      /\ loading \in [Actors -> SUBSET Wants] /\ since \in [Actors -> [Wants -> 0 .. MaxMessages + 1]]
      /\ vKey \in [Actors -> SUBSET Keys] /\ vRedisKey \in [Actors -> SUBSET Tables]
  BY DEF Load, Merge, AddRediskey, readerVars, serverVars, AllInv, TypeOK
<1>2. /\ Len(published) \in Nat /\ lastRead \in Nat /\ lastRead <= Len(published)
  BY Ranges DEF AllInv, MessageInv, Streaming
<1>3. CASE Load(a, w)
  <2>1. /\ pc[a] = "idle" /\ pc' = [pc EXCEPT ![a] = "merge"] /\ loading' = [loading EXCEPT ![a] = {w}]
        /\ UNCHANGED <<vKey, vRedisKey, since>>
    BY <1>3 DEF Load, Goto, MergeOrder, listenerVars
  <2>2. Asked'
    BY <1>1, <1>2, <2>1 DEF AllInv, MessageInv, Asked
  <2> QED
    BY <1>1, <2>1, <2>2, NoMessage
<1>4. CASE Merge(a, w)
  <2>1. /\ pc[a] = "merge" /\ pc' = [pc EXCEPT ![a] = "ask"] /\ w \in loading[a]
        /\ vRedisKey' = [vRedisKey EXCEPT ![a] = @ \cup {w[1]}]
        /\ vKey' = [vKey EXCEPT ![a] = @ \cup {w[2]}]
        /\ loading' = [loading EXCEPT ![a] = @]
        /\ UNCHANGED since
    BY <1>4 DEF Merge, Goto, MergeOrder, After, Keep
  <2>2. loading' = loading /\ loading[a] = {w}
    BY <1>1, <2>1 DEF AllInv, MessageInv, Asked
  <2>3. /\ pc'[a] = "ask" /\ w[1] \in vRedisKey'[a] /\ w[2] \in vKey'[a]
        /\ \A b \in Actors : b # a => pc'[b] = pc[b]
        /\ \A b \in Actors : vRedisKey[b] \subseteq vRedisKey'[b] /\ vKey[b] \subseteq vKey'[b]
    BY <1>1, <2>1
  <2>4. Asked'
    BY <1>1, <2>1, <2>2, <2>3 DEF AllInv, MessageInv, Asked
  <2> QED
    BY <1>1, <2>1, <2>4, NoMessage
<1>5. CASE AddRediskey(a, w)
  <2>1. /\ pc[a] = "ask" /\ pc' = [pc EXCEPT ![a] = "idle"] /\ w \in loading[a]
        /\ loading' = [loading EXCEPT ![a] = {}]
        /\ since' = [since EXCEPT ![a][w] = IF @ = 0 THEN Len(published) + 1 ELSE @]
        /\ UNCHANGED <<vKey, vRedisKey>>
    BY <1>5 DEF AddRediskey, Goto, MergeOrder, After, Keep, listenerVars
  <2>2. /\ \A b \in Actors, v \in Wants : b # a \/ v # w => since'[b][v] = since[b][v]
        /\ since'[a][w] = IF since[a][w] = 0 THEN Len(published) + 1 ELSE since[a][w]
    BY <1>1, <2>1
  <2>3. \A b \in Actors, v \in Wants : since'[b][v] # since[b][v] => since'[b][v] = Len(published) + 1
    BY <2>2
  <2>4. /\ pc'[a] = "idle" /\ loading'[a] = {}
        /\ \A b \in Actors : b # a => pc'[b] = pc[b] /\ loading'[b] = loading[b]
    BY <1>1, <2>1
  <2>5. Asked'
    <3>1. ASSUME NEW b \in Actors, NEW v \in Wants
          PROVE  /\ since'[b][v] <= Len(published) + 1
                 /\ since'[b][v] # 0 => pc'[b] # "new"
                 /\ since'[b][v] # 0 \/ (pc'[b] = "ask" /\ v \in loading'[b])
                       => v[1] \in vRedisKey[b] /\ v[2] \in vKey[b]
      <4>1. CASE b = a /\ v = w
        BY <1>2, <2>1, <2>2, <2>4, <4>1 DEF AllInv, MessageInv, Asked
      <4>2. CASE b = a /\ v # w
        BY <2>1, <2>2, <2>4, <4>2 DEF AllInv, MessageInv, Asked
      <4>3. CASE b # a
        BY <2>2, <2>4, <4>3 DEF AllInv, MessageInv, Asked
      <4> QED
        BY <4>1, <4>2, <4>3
    <3>2. ASSUME NEW b \in Actors
          PROVE  /\ pc'[b] \in {"merge", "ask"} => \E v \in Wants : loading'[b] = {v}
                 /\ pc'[b] \notin {"merge", "ask"} => loading'[b] = {}
      BY <2>4 DEF AllInv, MessageInv, Asked
    <3> QED
      BY <1>1, <2>1, <3>1, <3>2 DEF Asked
  <2>6. Len(published) + 1 > lastRead
    BY <1>2
  <2>7. \A b \in Actors, v \in Wants : since'[b][v] # since[b][v] => since'[b][v] > lastRead
    BY <2>3, <2>6
  <2> QED
    BY <1>1, <2>5, <2>7, NoMessage
<1> QED
  BY <1>3, <1>4, <1>5

\* The steps of the thread that read no message keep it.
LEMMA ThreadKeeps ==
    ASSUME AllInv, GetSubString \/ AsyncCommand \/ ReadNothing \/ ParseThrows \/ ThreadExit \/ Stop
    PROVE  MessageInv'
<1>1. /\ UNCHANGED <<listen, listSyncData, listData, at, lastRead, spoiled, connected, stream, published,
                     pc, loading, since, vKey, vRedisKey>>
      /\ reader' = "walk" <=> reader = "walk"
  BY DEF GetSubString, AsyncCommand, ReadNothing, ParseThrows, ThreadExit, Stop, listenerVars, readerVars, serverVars, actorVars
<1>2. Asked'
  BY <1>1 DEF AllInv, MessageInv, Asked
<1> QED
  BY <1>1, <1>2, NoMessage

\* A change of the map moves the walk only together with the messages it spoils.
LEMMA RaceKeeps ==
    ASSUME AllInv, Race, Asked', listen' \subseteq Actors,
           \A a \in listen' : a \in listen \/ \A w \in Wants : since[a][w] = 0,
           UNCHANGED <<listSyncData, listData, reader, lastRead, connected, stream, published, since>>
    PROVE  MessageInv'
<1>1. \/ UNCHANGED <<at, spoiled>>
      \/ reader = "walk" /\ spoiled' = spoiled \cup In(listData)
  BY DEF Race, In
<1>2. spoiled \subseteq spoiled'
  BY <1>1
<1>3. Streaming'
  BY <1>1 DEF AllInv, MessageInv, Streaming
<1>4. Pushed'
  BY DEF AllInv, MessageInv, Pushed, Kept
<1>5. Given'
  BY <1>1 DEF AllInv, MessageInv, Given
<1>6. HeardInOrder'
  BY <1>2 DEF AllInv, MessageInv, HeardInOrder
<1>7. NothingMissed'
  <2> SUFFICES ASSUME NEW a \in listen', NEW n \in (1 .. lastRead) \ spoiled', published[n].pushed, Kept(n),
                      since[a][published[n].want] \in 1 .. n, ~(n \in In(listData) /\ a > at')
               PROVE  n \in In(listSyncData[a])
    BY DEF NothingMissed, Kept
  <2>1. n \in DOMAIN published /\ published[n].want \in Wants
    BY Ranges DEF AllInv, MessageInv, Streaming
  <2>2. a \in listen
    BY <2>1
  <2>3. n \notin spoiled /\ ~(n \in In(listData) /\ a > at)
    BY <1>1, <1>2
  <2> QED
    BY <2>2, <2>3 DEF AllInv, MessageInv, NothingMissed
<1> QED
  BY <1>3, <1>4, <1>5, <1>6, <1>7 DEF AllInv, MessageInv

\* AddListen and RemoveListen keep it.
LEMMA ListenersKeep ==
    ASSUME AllInv, DestroyMembers \/ \E a \in Actors : AddListen(a) \/ RemoveListen(a)
    PROVE  MessageInv'
<1>1. CASE DestroyMembers
  <2>1. /\ Race
        /\ UNCHANGED <<listen, listSyncData, listData, reader, lastRead, connected, stream, published,
                       since, pc, loading, vKey, vRedisKey>>
    BY <1>1 DEF DestroyMembers, serverVars, actorVars, listenerVars
  <2>2. Asked' /\ listen' \subseteq Actors
    BY <2>1 DEF AllInv, MessageInv, Asked, TypeOK
  <2> QED
    BY <2>1, <2>2, RaceKeeps
<1>2. ASSUME NEW a \in Actors, AddListen(a) \/ RemoveListen(a) PROVE MessageInv'
  <2>1. /\ Race /\ listen \subseteq Actors /\ listen' \subseteq listen \cup {a}
        /\ UNCHANGED <<listSyncData, listData, reader, lastRead, connected, stream, published,
                       since, loading, vKey, vRedisKey>>
        /\ pc[a] \in {"new", "idle"} /\ (pc[a] = "new" \/ listen' \subseteq listen)
        /\ pc'[a] \in {"idle", "gone"} /\ \A b \in Actors : b # a => pc'[b] = pc[b]
    BY <1>2 DEF AddListen, RemoveListen, Goto, serverVars, listenerVars, AllInv, TypeOK
  <2>2. Asked'
    BY <2>1 DEF AllInv, MessageInv, Asked
  <2>3. pc[a] = "new" => \A w \in Wants : since[a][w] = 0
    BY DEF AllInv, MessageInv, Asked
  <2>4. listen' \subseteq Actors /\ \A b \in listen' : b \in listen \/ \A w \in Wants : since[b][w] = 0
    BY <2>1, <2>3
  <2> QED
    BY <2>1, <2>2, <2>4, RaceKeeps
<1> QED
  BY <1>1, <1>2

\* A new message is later than all others.
LEMMA PublishKeeps ==
    ASSUME AllInv, NEW w \in Wants, NEW form \in Forms, Publish(w, form)
    PROVE  MessageInv'
<1> DEFINE next == Len(published) + 1
<1>1. PICK m : m = [want |-> w, form |-> form, pushed |-> connected /\ w[1] \in subscribed]
  OBVIOUS
<1>2. /\ published' = Append(published, m) /\ Len(published) < MaxMessages
      /\ stream' = IF m.pushed THEN Append(stream, next) ELSE stream
      /\ m.pushed => connected
      /\ UNCHANGED <<listen, listSyncData, reader, listData, at, lastRead, spoiled, connected,
                     pc, loading, since, vKey, vRedisKey>>
  BY <1>1 DEF Publish, listenerVars, readerVars, actorVars
<1>3. /\ Len(published) \in Nat /\ DOMAIN published = 1 .. Len(published)
      /\ published \in Seq([want : Wants, form : Forms, pushed : BOOLEAN]) /\ stream \in Seq(0 .. MaxMessages)
      /\ m \in [want : Wants, form : Forms, pushed : BOOLEAN] /\ next \in 0 .. MaxMessages /\ next \in Nat
      /\ lastRead \in Nat /\ lastRead <= Len(published)
  BY <1>1, <1>2, Ranges DEF AllInv, TypeOK, MessageInv, Streaming
<1>4. /\ DOMAIN published' = DOMAIN published \cup {next} /\ Len(published') = next
      /\ published'[next] = m /\ \A n \in DOMAIN published : published'[n] = published[n]
  BY <1>2, <1>3, AppendParts
<1>5. ASSUME m.pushed PROVE Streaming' /\ Pushed'
  <2>1. /\ DOMAIN stream' = DOMAIN stream \cup {Len(stream) + 1}
        /\ stream'[Len(stream) + 1] = next /\ \A i \in DOMAIN stream : stream'[i] = stream[i]
        /\ \A i \in DOMAIN stream : i < Len(stream) + 1 /\ i \in Nat
        /\ Len(stream) \in Nat
    BY <1>2, <1>3, <1>5, AppendParts
  <2>2. /\ \A i \in DOMAIN stream : stream[i] \in Nat /\ stream[i] <= Len(published) /\ stream[i] < next
        /\ \A i \in DOMAIN stream : stream[i] # 0 => lastRead < stream[i]
    BY <1>3, Ranges DEF AllInv, MessageInv, Streaming
  <2>3. ASSUME NEW i \in DOMAIN stream'
        PROVE  stream'[i] <= next /\ (stream'[i] # 0 => lastRead < stream'[i])
    <3>1. CASE i \in DOMAIN stream
      BY <1>3, <2>1, <2>2, <3>1
    <3>2. CASE i = Len(stream) + 1
      BY <1>3, <2>1, <3>2
    <3> QED
      BY <2>1, <3>1, <3>2
  <2>4. ASSUME NEW i \in DOMAIN stream', NEW j \in DOMAIN stream', i < j, stream'[i] # 0, stream'[j] # 0
        PROVE  stream'[i] < stream'[j]
    <3>1. i \in DOMAIN stream
      BY <2>1, <2>4
    <3>2. CASE j \in DOMAIN stream
      BY <2>1, <2>4, <3>1, <3>2 DEF AllInv, MessageInv, Streaming
    <3>3. CASE j = Len(stream) + 1
      BY <2>1, <2>2, <3>1, <3>3
    <3> QED
      BY <2>1, <3>2, <3>3
  <2>5. In(stream') = In(stream) \cup {next}
    BY <2>1 DEF In
  <2>6. Pushed'
    BY <1>2, <1>4, <1>5, <2>5 DEF AllInv, MessageInv, Pushed, Kept
  <2>7. Streaming'
    BY <1>2, <1>3, <1>4, <2>3, <2>4 DEF AllInv, MessageInv, Streaming
  <2> QED
    BY <2>6, <2>7
<1>6. ASSUME ~m.pushed PROVE Streaming' /\ Pushed'
  <2>1. stream' = stream
    BY <1>2, <1>6
  <2>2. Streaming'
    <3>1. \A i \in DOMAIN stream : stream[i] <= next
      BY <1>3, Ranges DEF AllInv, MessageInv, Streaming
    <3>2. Len(published') <= MaxMessages /\ lastRead <= Len(published')
      BY <1>2, <1>3, <1>4
    <3> QED
      BY <1>2, <1>4, <2>1, <3>1, <3>2 DEF AllInv, MessageInv, Streaming
  <2>3. Pushed'
    BY <1>2, <1>4, <1>6, <2>1 DEF AllInv, MessageInv, Pushed, Kept
  <2> QED
    BY <2>2, <2>3
<1>7. Asked'
  <2>1. \A a \in Actors, v \in Wants : since[a][v] <= Len(published') + 1
    <3>1. \A a \in Actors, v \in Wants : since[a][v] \in Nat /\ since[a][v] <= Len(published) + 1
      BY DEF AllInv, TypeOK, MessageInv, Asked
    <3> QED
      BY <1>3, <1>4, <3>1
  <2> QED
    BY <1>2, <2>1 DEF AllInv, MessageInv, Asked
<1>8. Given' /\ HeardInOrder'
  BY <1>2 DEF AllInv, MessageInv, Given, HeardInOrder
<1>9. NothingMissed'
  <2>1. \A n \in 1 .. lastRead : n \in DOMAIN published
    BY <1>3
  <2> QED
    BY <1>2, <1>4, <2>1 DEF AllInv, MessageInv, NothingMissed, Kept
<1>10. Streaming' /\ Pushed'
  BY <1>5, <1>6
<1> QED
  BY <1>7, <1>8, <1>9, <1>10 DEF MessageInv

\* A subscription comes into the stream behind the messages; the connection ends it.
LEMMA ServerKeeps == ASSUME AllInv, ServerSubscribe \/ Disconnect PROVE MessageInv'
<1>1. /\ UNCHANGED <<listen, listSyncData, reader, listData, at, lastRead, spoiled, published,
                     pc, loading, since, vKey, vRedisKey>>
      /\ stream \in Seq(0 .. MaxMessages)
  BY DEF ServerSubscribe, Disconnect, listenerVars, readerVars, actorVars, AllInv, TypeOK
<1>2. Asked' /\ Given' /\ HeardInOrder' /\ NothingMissed'
  BY <1>1 DEF AllInv, MessageInv, Asked, Given, HeardInOrder, NothingMissed, Kept
<1>3. CASE ServerSubscribe
  <2>1. stream' = Append(stream, 0) /\ UNCHANGED connected /\ 0 \in 0 .. MaxMessages
    BY <1>3 DEF ServerSubscribe
  <2>2. /\ DOMAIN stream' = DOMAIN stream \cup {Len(stream) + 1}
        /\ stream'[Len(stream) + 1] = 0 /\ \A i \in DOMAIN stream : stream'[i] = stream[i]
    BY <1>1, <2>1, AppendParts
  <2>3. Streaming'
    <3>1. 0 <= Len(published)
      BY Ranges
    <3> QED
      BY <1>1, <2>2, <3>1 DEF AllInv, MessageInv, Streaming
  <2>4. Pushed'
    <3>1. \A n \in In(stream) : n \in In(stream')
      BY <2>2 DEF In
    <3>2. \A n \in DOMAIN published : 0 < n
      BY Ranges
    <3> QED
      BY <1>1, <2>1, <2>2, <3>1, <3>2 DEF AllInv, MessageInv, Pushed, Kept
  <2> QED
    BY <1>2, <2>3, <2>4 DEF MessageInv
<1>4. CASE Disconnect
  <2>1. PICK n \in 0 .. Len(stream) : stream' = SubSeq(stream, 1, n)
    BY <1>4 DEF Disconnect
  <2>2. /\ DOMAIN stream' = 1 .. n /\ 1 .. n \subseteq DOMAIN stream /\ n \in Nat
        /\ \A i \in 1 .. n : stream'[i] = stream[i]
    BY <1>1, <2>1, PrefixParts, Ranges
  <2>3. Streaming'
    BY <1>1, <2>2 DEF AllInv, MessageInv, Streaming
  <2>4. connected' = FALSE
    BY <1>4 DEF Disconnect
  <2>5. Pushed'
    <3> SUFFICES ASSUME NEW m \in DOMAIN published, published[m].pushed, Kept(m), lastRead < m, m \notin In(stream')
                 PROVE  \A i \in 1 .. n : stream[i] < m
      BY <1>1, <2>2, <2>4 DEF Pushed, Kept
    <3>1. CASE m \in In(stream)
      <4>1. PICK k \in DOMAIN stream : stream[k] = m
        BY <3>1 DEF In
      <4>2. k \in Nat /\ ~(k \in 1 .. n) /\ m # 0 /\ m \in Nat
        BY <2>2, <4>1, Ranges DEF In
      <4>3. \A i \in 1 .. n : i < k /\ i \in DOMAIN stream
        BY <2>2, <4>1, <4>2, Ranges
      <4>4. \A i \in 1 .. n : stream[i] # 0 => stream[i] < m
        BY <4>1, <4>2, <4>3 DEF AllInv, MessageInv, Streaming
      <4>5. 0 < m
        BY <4>2
      <4> QED
        BY <4>4, <4>5
    <3>2. CASE m \notin In(stream)
      BY <2>2, <3>2 DEF AllInv, MessageInv, Pushed
    <3> QED
      BY <3>1, <3>2
  <2> QED
    BY <1>2, <2>3, <2>5 DEF MessageInv
<1> QED
  BY <1>3, <1>4

-----------------------------------------------------------------------------
(* The reads and the walk.                                                 *)

\* What a read gives is the messages among the replies it takes.
LEMMA ReadParts ==
    ASSUME AllInv, ReadSyncData
    PROVE  \E n \in 1 .. Len(stream), u \in Seq(0 .. MaxMessages), v \in Seq(0 .. MaxMessages) :
              /\ Selected(u, stream, {i \in 1 .. n : Kept(stream[i])})
              /\ listData' = u /\ stream' = v
              /\ Behind(stream, n, v)
              /\ 1 .. n \subseteq DOMAIN stream
              /\ IF u = <<>> THEN reader' = "get" /\ UNCHANGED lastRead
                 ELSE reader' = "walk" /\ lastRead' = u[Len(u)]
<1>1. PICK n \in 1 .. Len(stream) :
         LET read == Select(stream, {i \in 1 .. n : Kept(stream[i])})
         IN  /\ stream' = Rest(stream, n)
             /\ listData' = read
             /\ IF read = <<>> THEN reader' = "get" /\ UNCHANGED lastRead
                ELSE reader' = "walk" /\ lastRead' = read[Len(read)]
  BY DEF ReadSyncData
<1> DEFINE D == {i \in 1 .. n : Kept(stream[i])}
<1>3. stream \in Seq(0 .. MaxMessages) /\ Len(stream) \in Nat /\ DOMAIN stream = 1 .. Len(stream)
  BY Ranges DEF AllInv, TypeOK
<1>4. D \in SUBSET (DOMAIN stream) /\ 1 .. n \subseteq DOMAIN stream /\ n \in 0 .. Len(stream)
  BY <1>3
<1> HIDE DEF D
<1>2. PICK u \in Seq(0 .. MaxMessages) : u = Select(stream, D) /\ Selected(u, stream, D)
  BY <1>3, <1>4, SelectKeeps
<1>6. PICK v \in Seq(0 .. MaxMessages) : v = SubSeq(stream, n + 1, Len(stream)) /\ Behind(stream, n, v)
  BY <1>3, <1>4, RestParts
<1>7. /\ listData' = u /\ stream' = v
      /\ IF u = <<>> THEN reader' = "get" /\ UNCHANGED lastRead
         ELSE reader' = "walk" /\ lastRead' = u[Len(u)]
  BY <1>1, <1>2, <1>6 DEF Rest, D
<1> QED
  BY <1>4, <1>2, <1>6, <1>7 DEF D

\* ReadSyncData takes messages from the front of the stream, in order.
LEMMA ReadKeeps == ASSUME AllInv, ReadSyncData PROVE MessageInv'
<1>1. PICK n \in 1 .. Len(stream), u \in Seq(0 .. MaxMessages), v \in Seq(0 .. MaxMessages) :
         /\ Selected(u, stream, {i \in 1 .. n : Kept(stream[i])})
         /\ listData' = u /\ stream' = v
         /\ Behind(stream, n, v)
         /\ 1 .. n \subseteq DOMAIN stream
         /\ IF u = <<>> THEN reader' = "get" /\ UNCHANGED lastRead
            ELSE reader' = "walk" /\ lastRead' = u[Len(u)]
  BY ReadParts
<1>2. /\ \A i \in DOMAIN v : i \in Nat /\ n + i \in DOMAIN stream /\ n < n + i /\ v[i] = stream[n + i]
      /\ \A i \in DOMAIN stream : i > n => \E j \in DOMAIN v : i = n + j
  BY <1>1 DEF Behind
<1>3. /\ listData = <<>> /\ at = 0 /\ at' = 0 /\ n \in Nat
      /\ UNCHANGED <<listen, listSyncData, vKey, vRedisKey, spoiled, connected, published, pc, loading, since>>
  BY Ranges DEF ReadSyncData, listenerVars, actorVars, AllInv, MessageInv, Streaming
<1>4. /\ Len(published) \in Nat /\ DOMAIN published = 1 .. Len(published) /\ lastRead \in Nat
      /\ \A i \in DOMAIN stream : stream[i] \in Nat /\ i \in Nat /\ stream[i] <= Len(published)
      /\ \A i \in DOMAIN stream : stream[i] # 0 => lastRead < stream[i]
      /\ \A i, j \in DOMAIN stream : i < j /\ stream[i] # 0 /\ stream[j] # 0 => stream[i] < stream[j]
      /\ lastRead <= Len(published) /\ Len(published) <= MaxMessages
  BY Ranges DEF AllInv, MessageInv, Streaming
<1>5. \A i \in DOMAIN u : \E k \in 1 .. n : k \in DOMAIN stream /\ stream[k] # 0 /\ u[i] = stream[k]
  BY <1>1 DEF Selected, Kept
<1>6. \A k \in 1 .. n : Kept(stream[k]) => \E i \in DOMAIN u : u[i] = stream[k]
  BY <1>1 DEF Selected
<1>7. \A i, j \in DOMAIN u : i < j => u[i] < u[j]
  <2> SUFFICES ASSUME NEW i \in DOMAIN u, NEW j \in DOMAIN u, i < j PROVE u[i] < u[j]
    OBVIOUS
  <2>1. PICK k \in 1 .. n, l \in 1 .. n :
           k < l /\ stream[k] # 0 /\ stream[l] # 0 /\ u[i] = stream[k] /\ u[j] = stream[l]
    BY <1>1 DEF Selected, Kept
  <2> QED
    BY <1>1, <1>4, <2>1
<1>8. /\ lastRead' \in Nat /\ lastRead <= lastRead' /\ lastRead' <= Len(published)
      /\ \A i \in DOMAIN u : u[i] <= lastRead'
      /\ lastRead' = lastRead \/ \E k \in 1 .. n : stream[k] # 0 /\ lastRead' = stream[k]
  <2>1. CASE u = <<>>
    <3>1. DOMAIN u = {} /\ lastRead' = lastRead
      BY <1>1, <2>1, EmptySeq
    <3> QED
      BY <1>4, <3>1
  <2>2. CASE u # <<>>
    <3>1. lastRead' = u[Len(u)] /\ Len(u) \in Nat /\ DOMAIN u = 1 .. Len(u)
      BY <1>1, <2>2, LenProperties
    <3>2. Len(u) \in DOMAIN u
      BY <2>2, <3>1, EmptySeq
    <3>3. PICK k \in 1 .. n : k \in DOMAIN stream /\ stream[k] # 0 /\ lastRead' = stream[k]
      BY <1>5, <3>1, <3>2
    <3>4. \A i \in DOMAIN u : i = Len(u) \/ i < Len(u)
      BY <3>1
    <3>5. \A i \in DOMAIN u : u[i] <= lastRead'
      <4>1. \A i \in DOMAIN u : u[i] = lastRead' \/ u[i] < lastRead'
        BY <1>7, <3>1, <3>2, <3>4
      <4>2. \A i \in DOMAIN u : u[i] \in Nat
        BY <1>4, <1>5
      <4>3. lastRead' \in Nat
        BY <1>4, <3>3
      <4> QED
        BY <4>1, <4>2, <4>3
    <3>6. lastRead' \in Nat /\ lastRead < lastRead' /\ lastRead' <= Len(published)
      BY <1>4, <3>3
    <3> QED
      BY <1>4, <3>3, <3>5, <3>6
  <2> QED
    BY <2>1, <2>2
<1>9. ASSUME NEW i \in DOMAIN stream, i > n, stream[i] # 0 PROVE lastRead' < stream[i]
  <2>1. CASE lastRead' = lastRead
    BY <1>4, <1>9, <2>1
  <2>2. ASSUME NEW k \in 1 .. n, stream[k] # 0, lastRead' = stream[k] PROVE lastRead' < stream[i]
    <3>1. k \in DOMAIN stream /\ k < i
      <4>1. k \in DOMAIN stream
        BY <1>1
      <4>2. i \in Nat /\ k <= n /\ k \in Nat
        BY <1>3, <1>4
      <4> QED
        BY <1>3, <1>9, <4>1, <4>2
    <3> QED
      BY <1>4, <1>9, <2>2, <3>1
  <2> QED
    BY <1>8, <2>1, <2>2
<1>10. \A k \in 1 .. n : Kept(stream[k]) => stream[k] \in In(u) /\ stream[k] <= lastRead'
  BY <1>6, <1>8 DEF In
<1>11. Streaming'
  <2>1. \A i \in DOMAIN v : v[i] <= Len(published) /\ (v[i] # 0 => lastRead' < v[i])
    <3> SUFFICES ASSUME NEW i \in DOMAIN v PROVE v[i] <= Len(published) /\ (v[i] # 0 => lastRead' < v[i])
      OBVIOUS
    <3>1. n + i \in DOMAIN stream /\ v[i] = stream[n + i] /\ i \in Nat /\ n < n + i
      BY <1>2
    <3>2. n + i > n
      BY <1>3, <3>1
    <3> QED
      BY <1>4, <1>9, <3>1, <3>2
  <2>2. \A i, j \in DOMAIN v : i < j /\ v[i] # 0 /\ v[j] # 0 => v[i] < v[j]
    <3> SUFFICES ASSUME NEW i \in DOMAIN v, NEW j \in DOMAIN v, i < j, v[i] # 0, v[j] # 0
                 PROVE  v[i] < v[j]
      OBVIOUS
    <3>1. /\ n + i \in DOMAIN stream /\ v[i] = stream[n + i] /\ i \in Nat
          /\ n + j \in DOMAIN stream /\ v[j] = stream[n + j] /\ j \in Nat
      BY <1>2
    <3>2. n + i < n + j
      BY <1>3, <3>1
    <3> QED
      BY <1>4, <3>1, <3>2
  <2>3. reader' # "walk" => listData' = <<>> /\ at' = 0
    BY <1>1, <1>3
  <2> QED
    BY <1>1, <1>3, <1>4, <1>7, <1>8, <2>1, <2>2, <2>3 DEF Streaming
<1>12. Pushed'
  <2> SUFFICES ASSUME NEW m \in DOMAIN published, published[m].pushed, Kept(m), lastRead' < m
               PROVE  m \in In(v) \/ (~connected /\ \A i \in DOMAIN v : v[i] < m)
    BY <1>1, <1>3 DEF Pushed, Kept
  <2>1. m \in Nat /\ lastRead < m
    BY <1>4, <1>8
  <2>2. CASE m \in In(stream)
    <3>1. PICK i \in DOMAIN stream : stream[i] = m
      BY <2>2 DEF In
    <3>2. ASSUME i \in 1 .. n PROVE FALSE
      <4>1. m <= lastRead' /\ m \in Nat /\ lastRead' \in Nat
        BY <1>8, <1>10, <2>1, <3>1, <3>2
      <4> QED
        BY <4>1
    <3>3. i > n
      BY <1>3, <1>4, <3>2, Ranges
    <3>4. PICK j \in DOMAIN v : i = n + j
      BY <1>2, <3>3
    <3>5. v[j] = m
      BY <1>2, <3>1, <3>4
    <3> QED
      BY <3>5 DEF In
  <2>3. CASE m \notin In(stream)
    <3>1. ~connected /\ \A i \in DOMAIN stream : stream[i] < m
      BY <2>1, <2>3 DEF AllInv, MessageInv, Pushed
    <3> QED
      BY <1>2, <3>1
  <2> QED
    BY <2>2, <2>3
<1>13. Given'
  <2>1. ASSUME NEW a \in Actors, NEW i \in DOMAIN listSyncData[a]
        PROVE  /\ listSyncData[a][i] \in Nat /\ listSyncData[a][i] <= lastRead
    <3>1. listSyncData[a] \in Seq(Numbers)
      BY DEF AllInv, TypeOK
    <3>2. listSyncData[a][i] \in Numbers
      BY <3>1, LenProperties, ElementOfSeq
    <3> QED
      BY <3>2 DEF Numbers, AllInv, MessageInv, Given
  <2>2. \A j \in DOMAIN u : lastRead < u[j] /\ u[j] \in Nat
    BY <1>4, <1>5
  <2>3. ASSUME NEW a \in Actors, NEW i \in DOMAIN listSyncData[a]
        PROVE  listSyncData[a][i] <= lastRead' /\ \A j \in DOMAIN u : listSyncData[a][i] < u[j]
    BY <1>4, <1>8, <2>1, <2>2
  <2>4. ASSUME NEW a \in Actors PROVE In(listSyncData[a]) \cap In(u) = {}
    <3> SUFFICES ASSUME NEW i \in DOMAIN listSyncData[a], NEW j \in DOMAIN u
                 PROVE  listSyncData[a][i] # u[j]
      BY DEF In
    <3>1. listSyncData[a][i] \in Nat /\ u[j] \in Nat /\ listSyncData[a][i] < u[j]
      BY <2>1, <2>2, <2>3
    <3> QED
      BY <3>1
  <2> QED
    BY <1>1, <1>3, <2>3, <2>4 DEF Given
<1>14. Asked' /\ HeardInOrder'
  BY <1>3 DEF AllInv, MessageInv, Asked, HeardInOrder
<1>15. NothingMissed'
  <2> SUFFICES ASSUME NEW a \in listen, NEW m \in (1 .. lastRead') \ spoiled, published[m].pushed, Kept(m),
                      since[a][published[m].want] \in 1 .. m, ~(m \in In(u) /\ a > 0)
               PROVE  m \in In(listSyncData[a])
    BY <1>1, <1>3 DEF NothingMissed, Kept
  <2>1. m \notin In(u)
    BY DEF AllInv, TypeOK, Actors
  <2>2. m \in DOMAIN published /\ m \in Nat /\ m # 0 /\ m <= lastRead'
    BY <1>4, <1>8
  <2>3. m <= lastRead
    <3> SUFFICES ASSUME m > lastRead PROVE FALSE
      BY <1>4, <2>2
    <3>1. PICK k \in 1 .. n : stream[k] # 0 /\ lastRead' = stream[k] /\ k \in DOMAIN stream
      BY <1>1, <1>4, <1>8, <2>2
    <3>2. m \in In(stream)
      <4>1. ~(stream[k] < m)
        BY <1>8, <2>2, <3>1
      <4> QED
        BY <2>2, <3>1, <4>1 DEF AllInv, MessageInv, Pushed
    <3>3. PICK i \in DOMAIN stream : stream[i] = m
      BY <3>2 DEF In
    <3>4. i \notin 1 .. n
      BY <1>10, <2>1, <2>2, <3>3
    <3>5. i > n
      BY <1>3, <1>4, <3>4, Ranges
    <3> QED
      BY <1>8, <1>9, <2>2, <3>3, <3>5
  <2>4. m \in (1 .. lastRead) \ spoiled /\ m \notin In(listData)
    <3>1. In(listData) = {}
      BY <1>3, EmptySeq DEF In
    <3> QED
      BY <1>4, <2>2, <2>3, <3>1
  <2> QED
    BY <2>4 DEF AllInv, MessageInv, NothingMissed
<1> QED
  BY <1>11, <1>12, <1>13, <1>14, <1>15 DEF MessageInv

\* What a listener takes of the messages is what it wants of them.
LEMMA HearParts ==
    ASSUME AllInv, NEW a \in Actors, AddSyncData(a)
    PROVE  \E u \in Seq(Numbers), v \in Seq(Numbers) :
              /\ Selected(u, listData, {i \in DOMAIN listData : Wanted(a, listData[i])})
              /\ Joined(listSyncData[a], u, v)
              /\ listSyncData' = [listSyncData EXCEPT ![a] = v]
<1> DEFINE D == {i \in DOMAIN listData : Wanted(a, listData[i])}
<1>1. listSyncData' = [listSyncData EXCEPT ![a] = @ \o Select(listData, D)]
  BY DEF AddSyncData
<1>2. listData \in Seq(Numbers) /\ listSyncData[a] \in Seq(Numbers) /\ D \in SUBSET (DOMAIN listData)
  BY DEF AllInv, TypeOK
<1> HIDE DEF D
<1>3. PICK u \in Seq(Numbers) : u = Select(listData, D) /\ Selected(u, listData, D)
  BY <1>2, SelectKeeps
<1>4. PICK v \in Seq(Numbers) : v = listSyncData[a] \o u
  BY <1>2, ConcatProperties
<1>5. Joined(listSyncData[a], u, v)
  BY <1>2, <1>4, ConcatParts
<1>6. listSyncData' = [listSyncData EXCEPT ![a] = v]
  BY <1>1, <1>3, <1>4
<1> QED
  BY <1>3, <1>5, <1>6 DEF D

\* A listener hears the messages of a walk behind all it heard before.
LEMMA HearKeeps == ASSUME AllInv, NEW a \in Actors, AddSyncData(a) PROVE MessageInv'
<1>1. PICK u \in Seq(Numbers), v \in Seq(Numbers) :
         /\ Selected(u, listData, {i \in DOMAIN listData : Wanted(a, listData[i])})
         /\ Joined(listSyncData[a], u, v)
         /\ listSyncData' = [listSyncData EXCEPT ![a] = v]
  BY HearParts
<1> DEFINE s == listSyncData[a]
<1>2. /\ reader = "walk" /\ a \in listen /\ a > at /\ at' = a /\ \A b \in listen : b > at => a <= b
      /\ at \in Nat
      /\ UNCHANGED <<listen, listData, reader, vKey, vRedisKey, lastRead, spoiled, connected, published,
                     stream, pc, loading, since>>
  BY DEF AddSyncData, IsNext, listenerVars, serverVars, actorVars, AllInv, TypeOK
<1>3. /\ v = listSyncData'[a] /\ \A b \in Actors : b # a => listSyncData'[b] = listSyncData[b]
      /\ s \in Seq(Numbers) /\ DOMAIN s = 1 .. Len(s) /\ Len(s) \in Nat
      /\ DOMAIN u \subseteq Nat \ {0}
  BY <1>1, LenProperties DEF AllInv, TypeOK
<1> HIDE DEF s
<1>4. /\ \A i \in DOMAIN s : i \in DOMAIN v /\ v[i] = s[i]
      /\ \A i \in DOMAIN u : Len(s) + i \in DOMAIN v /\ v[Len(s) + i] = u[i]
      /\ \A i \in DOMAIN v : \/ i \in DOMAIN s /\ v[i] = s[i]
                            \/ \E j \in DOMAIN u : i = Len(s) + j /\ v[i] = u[j]
  BY <1>1 DEF Joined, s
<1>5. \A i \in DOMAIN u : u[i] \in In(listData)
  BY <1>1 DEF Selected, In
<1>6. \A i, j \in DOMAIN u : i < j => u[i] < u[j]
  <2> SUFFICES ASSUME NEW i \in DOMAIN u, NEW j \in DOMAIN u, i < j PROVE u[i] < u[j]
    OBVIOUS
  <2>1. PICK k \in DOMAIN listData, l \in DOMAIN listData :
           k < l /\ u[i] = listData[k] /\ u[j] = listData[l]
    BY <1>1 DEF Selected
  <2> QED
    BY <2>1 DEF AllInv, MessageInv, Streaming
<1>7. Streaming' /\ Pushed' /\ Asked'
  BY <1>2 DEF AllInv, MessageInv, Streaming, Pushed, Asked, Kept
<1>8. \A i \in DOMAIN s : /\ s[i] <= lastRead
                         /\ (s[i] \in In(listData) \/ \A j \in DOMAIN listData : s[i] < listData[j])
  BY DEF AllInv, MessageInv, Given, s
<1>9. Given'
  <2>1. \A n \in In(listData) : n <= lastRead
    BY DEF AllInv, MessageInv, Streaming, In
  <2>2. \A i \in DOMAIN v : /\ v[i] <= lastRead
                           /\ (v[i] \in In(listData) \/ \A j \in DOMAIN listData : v[i] < listData[j])
    BY <1>4, <1>5, <1>8, <2>1
  <2>3. ~(a > at')
    BY <1>2 DEF Actors
  <2>4. \A b \in Actors : b > at' => b > at
    BY <1>2 DEF Actors
  <2> QED
    BY <1>2, <1>3, <2>2, <2>3, <2>4 DEF AllInv, MessageInv, Given
<1>10. HeardInOrder'
  <2>1. ASSUME NEW i \in DOMAIN v, NEW j \in DOMAIN v, i < j
        PROVE  v[i] < v[j] \/ {v[i], v[j]} \subseteq spoiled
    <3>1. CASE i \in DOMAIN s /\ j \in DOMAIN s
      BY <1>4, <2>1, <3>1 DEF AllInv, MessageInv, HeardInOrder, s
    <3>2. ASSUME NEW k \in DOMAIN u, j = Len(s) + k, v[j] = u[k], i \in DOMAIN s
          PROVE  v[i] < v[j] \/ {v[i], v[j]} \subseteq spoiled
      <4>1. CASE s[i] \in In(listData)
        <5>1. In(s) \cap In(listData) # {}
          BY <3>2, <4>1 DEF In
        <5>2. In(listData) \subseteq spoiled
          BY <1>2, <5>1 DEF AllInv, MessageInv, Given, s
        <5> QED
          BY <1>4, <1>5, <3>2, <4>1, <5>2
      <4>2. CASE s[i] \notin In(listData)
        <5>1. \A n \in In(listData) : s[i] < n
          BY <1>8, <3>2, <4>2 DEF In
        <5> QED
          BY <1>4, <1>5, <3>2, <5>1
      <4> QED
        BY <4>1, <4>2
    <3>3. ASSUME NEW k \in DOMAIN u, i = Len(s) + k, v[i] = u[k]
          PROVE  v[i] < v[j]
      <4>1. k \in Nat /\ k > 0 /\ Len(s) \in Nat
        BY <1>3
      <4>2. j \notin DOMAIN s
        BY <1>3, <2>1, <3>3, <4>1
      <4>3. PICK l \in DOMAIN u : j = Len(s) + l /\ v[j] = u[l]
        BY <1>4, <4>2
      <4>4. k < l
        BY <1>3, <2>1, <3>3, <4>1, <4>3
      <4> QED
        BY <1>6, <3>3, <4>3, <4>4
    <3> QED
      BY <1>4, <3>1, <3>2, <3>3
  <2> QED
    BY <1>2, <1>3, <2>1 DEF AllInv, MessageInv, HeardInOrder
<1>11. NothingMissed'
  <2> SUFFICES ASSUME NEW b \in listen, NEW n \in (1 .. lastRead) \ spoiled, published[n].pushed, Kept(n),
                      since[b][published[n].want] \in 1 .. n, ~(n \in In(listData) /\ b > a)
               PROVE  n \in In(listSyncData'[b])
    BY <1>2 DEF NothingMissed, Kept
  <2>1. n \in DOMAIN published /\ published[n].want \in Wants
    BY Ranges DEF AllInv, MessageInv, Streaming
  <2>2. b \in Actors
    BY DEF AllInv, TypeOK
  <2>3. In(s) \subseteq In(v)
    BY <1>4 DEF In
  <2>4. CASE ~(n \in In(listData) /\ b > at)
    <3>1. n \in In(listSyncData[b])
      BY <2>4 DEF AllInv, MessageInv, NothingMissed
    <3> QED
      BY <1>3, <2>2, <2>3, <3>1 DEF s
  <2>5. CASE n \in In(listData) /\ b > at
    <3>1. b = a
      BY <1>2, <2>2, <2>5 DEF Actors
    <3>2. Wanted(a, n)
      BY <2>1, <3>1 DEF Wanted, AllInv, MessageInv, Asked
    <3>3. PICK k \in DOMAIN listData : listData[k] = n
      BY <2>5 DEF In
    <3>4. \E i \in DOMAIN u : u[i] = n
      BY <1>1, <3>2, <3>3 DEF Selected
    <3>5. n \in In(v)
      BY <1>4, <3>4 DEF In
    <3> QED
      BY <1>3, <3>1, <3>5
  <2> QED
    BY <2>4, <2>5
<1> QED
  BY <1>7, <1>9, <1>10, <1>11 DEF MessageInv

\* The walk ends when every listener has had its turn.
LEMMA ListenEndKeeps == ASSUME AllInv, ListenEnd PROVE MessageInv'
<1>1. /\ reader' = "get" /\ listData' = <<>> /\ at' = 0 /\ \A a \in listen : a <= at
      /\ UNCHANGED <<listen, listSyncData, vKey, vRedisKey, lastRead, spoiled, connected, published,
                     stream, pc, loading, since>>
      /\ DOMAIN <<>> = {}
  BY EmptySeq DEF ListenEnd, listenerVars, serverVars, actorVars
<1>2. Streaming' /\ Pushed' /\ Asked' /\ HeardInOrder'
  BY <1>1 DEF AllInv, MessageInv, Streaming, Pushed, Asked, HeardInOrder, Kept
<1>3. Given'
  BY <1>1 DEF AllInv, MessageInv, Given, In
<1>4. NothingMissed'
  <2>1. \A a \in listen : ~(a > at)
    BY <1>1 DEF AllInv, TypeOK, Actors
  <2> QED
    BY <1>1, <2>1 DEF AllInv, MessageInv, NothingMissed, Kept
<1> QED
  BY <1>2, <1>3, <1>4 DEF MessageInv

-----------------------------------------------------------------------------
(* The types.                                                              *)

\* A race on the map keeps the types.
LEMMA RaceTypes ==
    ASSUME TypeOK, Race PROVE at' \in 0 .. MaxActor /\ spoiled' \subseteq Numbers /\ crashed' \in BOOLEAN
<1>1. \A i \in DOMAIN listData : listData[i] \in Numbers
  BY LenProperties, ElementOfSeq DEF TypeOK
<1> QED
  BY <1>1 DEF Race, TypeOK

\* AddListen and RemoveListen keep the types.
LEMMA ListenersTypes ==
    ASSUME TypeOK, DestroyMembers \/ \E a \in Actors : AddListen(a) \/ RemoveListen(a)
    PROVE  TypeOK'
<1>1. Race
  BY DEF DestroyMembers, AddListen, RemoveListen
<1>2. at' \in 0 .. MaxActor /\ spoiled' \subseteq Numbers /\ crashed' \in BOOLEAN
  BY <1>1, RaceTypes
<1>3. CASE DestroyMembers
  BY <1>2, <1>3 DEF DestroyMembers, TypeOK, keyVars, listenerVars, serverVars, actorVars
<1>4. ASSUME NEW a \in Actors, AddListen(a) \/ RemoveListen(a) PROVE TypeOK'
  <2>1. listen' \subseteq Actors /\ pc' \in [Actors -> {"new", "idle", "merge", "ask", "gone"}]
    BY <1>4 DEF AddListen, RemoveListen, Goto, TypeOK
  <2> QED
    BY <1>2, <1>4, <2>1 DEF AddListen, RemoveListen, TypeOK, keyVars, listenerVars, serverVars
<1> QED
  BY <1>3, <1>4

\* Load and what follows of it keep the types.
LEMMA LoadTypes ==
    ASSUME AllInv, NEW a \in Actors, NEW w \in Wants, Load(a, w) \/ Merge(a, w) \/ AddRediskey(a, w)
    PROVE  TypeOK'
<1>1. w[1] \in Tables /\ w[2] \in Keys /\ TypeOK
  BY DEF Wants, AllInv
<1>2. CASE Load(a, w)
  <2>1. /\ pc' \in [Actors -> {"new", "idle", "merge", "ask", "gone"}]
        /\ loading' \in [Actors -> SUBSET Wants]
    BY <1>1, <1>2 DEF Load, Goto, MergeOrder, TypeOK
  <2> QED
    BY <1>1, <1>2, <2>1 DEF Load, TypeOK, keyVars, listenerVars, readerVars, serverVars
<1>3. CASE Merge(a, w)
  <2>1. /\ pc' \in [Actors -> {"new", "idle", "merge", "ask", "gone"}]
        /\ loading' \in [Actors -> SUBSET Wants]
        /\ vKey' \in [Actors -> SUBSET Keys] /\ vRedisKey' \in [Actors -> SUBSET Tables]
    BY <1>1, <1>3 DEF Merge, Goto, MergeOrder, After, Keep, TypeOK
  <2> QED
    BY <1>1, <1>3, <2>1 DEF Merge, TypeOK, keyVars, readerVars, serverVars
<1>4. CASE AddRediskey(a, w)
  <2>1. /\ pc' \in [Actors -> {"new", "idle", "merge", "ask", "gone"}]
        /\ loading' \in [Actors -> SUBSET Wants]
    BY <1>1, <1>4 DEF AddRediskey, Goto, MergeOrder, After, Keep, TypeOK
  <2>2. Len(published) + 1 \in 0 .. MaxMessages + 1
    BY Ranges DEF AllInv, MessageInv, Streaming
  <2>3. since' \in [Actors -> [Wants -> 0 .. MaxMessages + 1]]
    BY <1>1, <1>4, <2>2 DEF AddRediskey, TypeOK
  <2>4. allRedisKey' \subseteq Tables /\ listRedisKey' \in Seq(Tables)
    BY <1>1, <1>4, AppendParts DEF AddRediskey, TypeOK
  <2> QED
    BY <1>1, <1>4, <2>1, <2>3, <2>4 DEF AddRediskey, TypeOK, listenerVars, readerVars, serverVars
<1> QED
  BY <1>2, <1>3, <1>4

\* The server keeps the types.
LEMMA ServerTypes ==
    ASSUME AllInv, ServerSubscribe \/ Disconnect \/ \E w \in Wants, form \in Forms : Publish(w, form)
    PROVE  TypeOK'
<1>1. TypeOK /\ wire \in Seq(Tables) /\ stream \in Seq(0 .. MaxMessages)
  BY DEF AllInv, TypeOK
<1>2. CASE ServerSubscribe
  <2>1. wire' \in Seq(Tables) /\ Head(wire) \in Tables
    BY <1>1, <1>2, HeadTailProperties DEF ServerSubscribe
  <2>2. stream' \in Seq(0 .. MaxMessages)
    <3>1. 0 \in 0 .. MaxMessages
      OBVIOUS
    <3>2. Append(stream, 0) \in Seq(0 .. MaxMessages)
      BY <1>1, <3>1, AppendParts
    <3> QED
      BY <1>2, <3>2 DEF ServerSubscribe
  <2> QED
    BY <1>1, <1>2, <2>1, <2>2 DEF ServerSubscribe, TypeOK, keyVars, listenerVars, readerVars, actorVars
<1>3. CASE Disconnect
  <2>1. PICK n \in 0 .. Len(stream) : stream' = SubSeq(stream, 1, n)
    BY <1>3 DEF Disconnect
  <2>2. stream' \in Seq(0 .. MaxMessages)
    BY <1>1, <2>1, PrefixParts
  <2>3. wire' \in Seq(Tables) /\ connected' \in BOOLEAN
    BY <1>3, EmptySeq DEF Disconnect
  <2> QED
    BY <1>1, <1>3, <2>2, <2>3 DEF Disconnect, TypeOK, keyVars, listenerVars, readerVars, actorVars
<1>4. ASSUME NEW w \in Wants, NEW form \in Forms, Publish(w, form) PROVE TypeOK'
  <2>1. PICK m \in [want : Wants, form : Forms, pushed : BOOLEAN] : m = [want |-> w, form |-> form, pushed |-> connected /\ w[1] \in subscribed]
    <3>1. PICK b \in BOOLEAN : b = (connected /\ w[1] \in subscribed)
      OBVIOUS
    <3>2. [want |-> w, form |-> form, pushed |-> b] \in [want : Wants, form : Forms, pushed : BOOLEAN]
      OBVIOUS
    <3> QED
      BY <3>1, <3>2
  <2>2. published' = Append(published, m) /\ Len(published) < MaxMessages
    BY <1>4, <2>1 DEF Publish
  <2>3. published' \in Seq([want : Wants, form : Forms, pushed : BOOLEAN])
    BY <1>1, <2>2, AppendParts DEF TypeOK
  <2>4. Len(published) + 1 \in 0 .. MaxMessages
    BY <2>2, Ranges
  <2>5. Append(stream, Len(published) + 1) \in Seq(0 .. MaxMessages)
    BY <1>1, <2>4, AppendParts
  <2>6. stream' \in Seq(0 .. MaxMessages)
    BY <1>1, <1>4, <2>5 DEF Publish
  <2> QED
    BY <1>1, <1>4, <2>3, <2>6 DEF Publish, TypeOK, keyVars, listenerVars, readerVars, actorVars
<1> QED
  BY <1>2, <1>3, <1>4

\* ReadSyncData keeps the types.
LEMMA ReadTypes == ASSUME AllInv, ReadSyncData PROVE TypeOK'
<1>1. PICK n \in 1 .. Len(stream), u \in Seq(0 .. MaxMessages), v \in Seq(0 .. MaxMessages) :
         /\ Selected(u, stream, {i \in 1 .. n : Kept(stream[i])})
         /\ listData' = u /\ stream' = v
         /\ IF u = <<>> THEN reader' = "get" /\ UNCHANGED lastRead
            ELSE reader' = "walk" /\ lastRead' = u[Len(u)]
  BY ReadParts
<1>2. DOMAIN u = 1 .. Len(u) /\ Len(u) \in Nat /\ \A i \in 1 .. Len(u) : u[i] \in 0 .. MaxMessages
  BY LenProperties, ElementOfSeq
<1>3. \A i \in 1 .. Len(u) : u[i] \in Numbers
  <2>1. \A i \in DOMAIN u : u[i] # 0
    <3>1. \A i \in DOMAIN u : \E k \in 1 .. n : Kept(stream[k]) /\ u[i] = stream[k]
      BY <1>1 DEF Selected
    <3>2. \A k \in 1 .. n : Kept(stream[k]) => stream[k] # 0
      BY DEF Kept
    <3> QED
      BY <3>1, <3>2
  <2>2. \A x \in 0 .. MaxMessages : x # 0 => x \in Numbers
    BY DEF Numbers
  <2> QED
    BY <1>2, <2>1, <2>2
<1>4. u \in Seq(Numbers)
  <2>1. u \in [1 .. Len(u) -> Numbers]
    BY <1>2, <1>3
  <2> QED
    BY <1>2, <2>1
<1>5. lastRead' \in 0 .. MaxMessages /\ reader' \in {"get", "walk"}
  <2>1. CASE u = <<>>
    BY <1>1, <2>1 DEF AllInv, TypeOK
  <2>2. CASE u # <<>>
    <3>1. Len(u) \in 1 .. Len(u)
      BY <1>2, <2>2, EmptySeq
    <3> QED
      BY <1>1, <1>2, <2>2, <3>1
  <2> QED
    BY <2>1, <2>2
<1>6. TypeOK
  BY DEF AllInv
<1> QED
  BY <1>1, <1>4, <1>5, <1>6 DEF ReadSyncData, TypeOK, keyVars, listenerVars, actorVars

\* The walk over the listeners keeps the types.
LEMMA WalkTypes == ASSUME AllInv, ListenEnd \/ \E a \in Actors : AddSyncData(a) PROVE TypeOK'
<1>1. TypeOK
  BY DEF AllInv
<1>2. CASE ListenEnd
  <2>1. listData' \in Seq(Numbers) /\ at' \in 0 .. MaxActor /\ reader' = "get" /\ crashed' \in BOOLEAN
    BY <1>1, <1>2, EmptySeq DEF ListenEnd, UseAfterDestroy, TypeOK
  <2> QED
    BY <1>1, <1>2, <2>1 DEF ListenEnd, TypeOK, keyVars, listenerVars, serverVars, actorVars
<1>3. ASSUME NEW a \in Actors, AddSyncData(a) PROVE TypeOK'
  <2>1. PICK v \in Seq(Numbers) : listSyncData' = [listSyncData EXCEPT ![a] = v]
    BY <1>3, HearParts
  <2>2. listSyncData' \in [Actors -> Seq(Numbers)]
    BY <1>1, <2>1 DEF TypeOK
  <2>3. at' \in 0 .. MaxActor /\ crashed' \in BOOLEAN
    BY <1>1, <1>3 DEF AddSyncData, UseAfterDestroy, TypeOK, Actors
  <2> QED
    BY <1>1, <1>3, <2>2, <2>3 DEF AddSyncData, TypeOK, keyVars, listenerVars, serverVars, actorVars
<1> QED
  BY <1>2, <1>3

\* The other steps of the thread keep the types.
LEMMA ThreadTypes ==
    ASSUME AllInv, GetSubString \/ AsyncCommand \/ ReadNothing \/ ParseThrows \/ ThreadExit \/ Stop
    PROVE  TypeOK'
<1>1. TypeOK
  BY DEF AllInv
<1>2. <<>> \in Seq(Tables)
  BY EmptySeq
<1>3. CASE GetSubString
  <2>1. crashed' \in BOOLEAN
    BY <1>1, <1>3 DEF GetSubString, UseAfterDestroy, TypeOK
  <2> QED
    BY <1>1, <1>2, <1>3, <2>1 DEF GetSubString, TakeAll, TypeOK, listenerVars, serverVars, actorVars
<1>4. CASE AsyncCommand
  <2>1. wire' \in Seq(Tables)
    BY <1>1, <1>4, ConcatProperties DEF AsyncCommand, TypeOK
  <2> QED
    BY <1>1, <1>2, <1>4, <2>1 DEF AsyncCommand, TypeOK, keyVars, listenerVars, actorVars
<1>5. CASE ReadNothing \/ ParseThrows \/ ThreadExit \/ Stop
  BY <1>1, <1>5 DEF ReadNothing, ParseThrows, ThreadExit, Stop, TypeOK, keyVars, listenerVars, readerVars, serverVars, actorVars
<1> QED
  BY <1>3, <1>4, <1>5

-----------------------------------------------------------------------------
(* The theorems.                                                           *)

\* Every step keeps the whole invariant.
LEMMA AllStep == ASSUME AllInv, [Next]_vars PROVE AllInv'
<1>1. SyncInv'
  BY SyncStep DEF AllInv
<1>2. CASE UNCHANGED vars
  <2>1. TypeOK'
    BY <1>2 DEF AllInv, vars, keyVars, listenerVars, readerVars, serverVars, actorVars, TypeOK
  <2>2. Asked'
    BY <1>2 DEF AllInv, MessageInv, vars, listenerVars, actorVars, serverVars, Asked
  <2>3. MessageInv'
    BY <1>2, <2>2, NoMessage DEF vars, readerVars, serverVars, actorVars
  <2> QED
    BY <1>1, <2>1, <2>3 DEF AllInv
<1>3. CASE DestroyMembers \/ \E a \in Actors : AddListen(a) \/ RemoveListen(a)
  BY <1>1, <1>3, ListenersKeep, ListenersTypes DEF AllInv
<1>4. ASSUME NEW a \in Actors, NEW w \in Wants, Load(a, w) \/ Merge(a, w) \/ AddRediskey(a, w) PROVE AllInv'
  <2>1. MessageInv'
    BY <1>4, LoadKeeps
  <2>2. TypeOK'
    BY <1>4, LoadTypes
  <2> QED
    BY <1>1, <2>1, <2>2 DEF AllInv
<1>5. CASE ServerSubscribe \/ Disconnect \/ \E w \in Wants, form \in Forms : Publish(w, form)
  <2>1. TypeOK'
    BY <1>5, ServerTypes
  <2>2. MessageInv'
    BY <1>5, ServerKeeps, PublishKeeps
  <2> QED
    BY <1>1, <2>1, <2>2 DEF AllInv
<1>6. CASE ReadSyncData
  BY <1>1, <1>6, ReadKeeps, ReadTypes DEF AllInv
<1>7. CASE ListenEnd \/ \E a \in Actors : AddSyncData(a)
  <2>1. TypeOK'
    BY <1>7, WalkTypes
  <2>2. MessageInv'
    BY <1>7, HearKeeps, ListenEndKeeps
  <2> QED
    BY <1>1, <2>1, <2>2 DEF AllInv
<1>8. CASE GetSubString \/ AsyncCommand \/ ReadNothing \/ ParseThrows \/ ThreadExit \/ Stop
  BY <1>1, <1>8, ThreadKeeps, ThreadTypes DEF AllInv
<1> HIDE DEF AllInv
<1> QED
  BY <1>2, <1>3, <1>4, <1>5, <1>6, <1>7, <1>8 DEF Next, Thread

\* Every variable keeps its type (RedisSubMgr.h:28, RedisListen.h:25).
THEOREM SyncTypes == Spec => []TypeOK
<1>1. AllInv => TypeOK
  BY DEF AllInv
<1> QED
  BY <1>1, InitMessages, AllStep, PTL DEF Spec

\* A listener has every message that Parse takes, that the server sent after it asked
\* for the table and that the thread has gone past, but for those whose walk a change
\* of the map met: what Parse refuses costs no other message (RedisListen.cpp:16,
\* RedisSubMgr.cpp:38, RedisWrap.cpp:236).
THEOREM NothingMissedCorrect == Spec => []NothingMissed
<1>1. AllInv => NothingMissed
  BY DEF AllInv, MessageInv
<1> QED
  BY <1>1, InitMessages, AllStep, PTL DEF Spec

\* A listener hears of changes in the order of their publication and of none twice,
\* however they were split into reads, but for the messages that a change of the map
\* spoiled (RedisWrap.cpp:216, RedisListen.cpp:26).
THEOREM HeardInOrderCorrect == Spec => []HeardInOrder
<1>1. AllInv => HeardInOrder
  BY DEF AllInv, MessageInv
<1> QED
  BY <1>1, InitMessages, AllStep, PTL DEF Spec
=============================================================================
