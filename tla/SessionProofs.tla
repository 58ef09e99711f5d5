----------------------------- MODULE SessionProofs -----------------------------
(***************************************************************************)
(* Proofs about TCPSession for every number of senders, packets, errors and *)
(* connects.                                                               *)
(***************************************************************************)
EXTENDS SessionProperties, ListProofs, SequenceTheorems, FiniteSetTheorems, TLAPS

USE SessionAssumption

-----------------------------------------------------------------------------
(* The inductive invariant.                                                *)

\* A completed write has a packet, and nothing else has.
Sound == {d \in Completion : IF d.op = "write" THEN d.packet \in Packets ELSE d.packet = NoPacket}

\* Where each thread can be, and the packet it has taken out of the list.
Placed ==
    /\ pc["io"] \in {"idle", "send", "write", "reconnect"}
    /\ pc["owner"] \in {"idle", "connected", "closed", "down"}
    /\ \A t \in Senders : pc[t] \in {"idle", "send", "write"}
    /\ \A t \in Threads : pc[t] = "write" => pSend[t] \in Packets

Down == m_bShutDown <=> pc["owner"] = "down"

Closed == connecting => ~open

FailedConnect(d) == d.op = "connect" /\ ~d.ok

\* A failed connect does not lead to DoSend, so it does not count.
Active ==
    \/ \E t \in Threads : pc[t] \in {"send", "write"}
    \/ writing # <<>>
    \/ \E i \in DOMAIN ready : ~FailedConnect(ready[i])

Pushing == open /\ sendList # <<>> => Active

Types == TypeOK /\ ready \in Seq(Sound) /\ Placed

SessionInv == Types /\ Down /\ Closed /\ Pushing

-----------------------------------------------------------------------------
(* Lemmas about the operators.                                             *)

Bounded == MaxPackets \in Nat /\ MaxErrors \in Nat /\ MaxConnects \in Nat

\* The bounds of the session are numbers (SessionAssumption).
LEMMA Bounds == Bounded
BY DEF Bounded

\* A completion that has a packet exactly when it is a write is sound.
LEMMA DoneSound ==
    ASSUME NEW op \in {"read", "write", "connect"}, NEW ok \in BOOLEAN, NEW p \in 0 .. MaxPackets,
           IF op = "write" THEN p \in Packets ELSE p = NoPacket
    PROVE  Done(op, ok, p) \in Sound
BY DEF Done, Sound, Completion

\* The completion of a write is sound.
LEMMA DoneWritten == ASSUME NEW ok \in BOOLEAN, NEW p \in Packets PROVE Done("write", ok, p) \in Sound
<1>1. p \in 0 .. MaxPackets
  BY DEF Packets
<1> QED
  BY <1>1, DoneSound

\* Sound completions are completions.
LEMMA SoundComplete == ASSUME NEW s \in Seq(Sound) PROVE s \in Seq(Completion)
<1>1. Sound \subseteq Completion
  BY DEF Sound
<1> QED
  BY <1>1, SeqMonotonic

\* A function over 1 .. n is a sequence.
LEMMA FunctionSequence ==
    ASSUME NEW S, NEW n \in Nat, NEW s \in [1 .. n -> S] PROVE s \in Seq(S)
BY SeqDef

\* A list of one entry.
LEMMA Single == ASSUME NEW S, NEW e \in S PROVE <<e>> \in Seq(S)
OBVIOUS

\* What the socket completes when it is closed is sound.
LEMMA AbortedSound ==
    ASSUME Types
    PROVE  Aborted \in Seq(Sound)
<1> DEFINE R == [i \in 1 .. reading |-> Done("read", FALSE, NoPacket)]
           C == IF connecting THEN <<Done("connect", FALSE, NoPacket)>> ELSE <<>>
           W == [i \in DOMAIN writing |-> Done("write", FALSE, writing[i])]
<1>1. NoPacket \in 0 .. MaxPackets /\ Packets \subseteq 0 .. MaxPackets
  BY DEF NoPacket, Packets
<1>2. reading \in Nat /\ writing \in Seq(Packets)
  BY DEF Types, TypeOK
<1>3. Done("read", FALSE, NoPacket) \in Sound /\ Done("connect", FALSE, NoPacket) \in Sound
  BY <1>1, DoneSound
<1>4. R \in Seq(Sound)
  <2>1. R \in [1 .. reading -> Sound]
    BY <1>3
  <2> QED
    BY <1>2, <2>1, FunctionSequence
<1>5. C \in Seq(Sound)
  <2>1. <<Done("connect", FALSE, NoPacket)>> \in Seq(Sound) /\ <<>> \in Seq(Sound)
    BY <1>3, Single, EmptySeq
  <2> QED
    BY <2>1
<1>6. W \in Seq(Sound)
  <2>1. DOMAIN writing = 1 .. Len(writing) /\ Len(writing) \in Nat
    BY <1>2
  <2>2. \A i \in 1 .. Len(writing) : writing[i] \in Packets
    BY <1>2, ElementOfSeq
  <2>3. \A i \in 1 .. Len(writing) : Done("write", FALSE, writing[i]) \in Sound
    BY <1>1, <2>2, DoneSound
  <2>4. W \in [1 .. Len(writing) -> Sound]
    BY <2>1, <2>3
  <2> QED
    BY <2>1, <2>4, FunctionSequence
<1>7. Aborted = R \o C \o W
  BY DEF Aborted
<1> HIDE DEF R, C, W
<1> QED
  BY <1>4, <1>5, <1>6, <1>7, ConcatProperties

\* What is left when a write completes.
LEMMA WithoutType ==
    ASSUME NEW s \in Seq(Packets), NEW i \in DOMAIN s
    PROVE  Without(s, i) \in Seq(Packets)
<1>1. SubSeq(s, 1, i - 1) \in Seq(Packets)
  OBVIOUS
<1>2. SubSeq(s, i + 1, Len(s)) \in Seq(Packets)
  OBVIOUS
<1> QED
  BY <1>1, <1>2, ConcatProperties DEF Without

\* Closing the socket, to connect again or not.
LEMMA CloseSound ==
    ASSUME Types, NEW rest \in Seq(Sound), ready' = rest \o Aborted
    PROVE  ready' \in Seq(Sound)
BY AbortedSound, ConcatProperties

\* The completion whose handler runs, and those that wait.
LEMMA HandlerSound ==
    ASSUME Types, ready # <<>>
    PROVE  /\ Tail(ready) \in Seq(Sound) /\ Head(ready) \in Sound
           /\ Head(ready).op = "write" => Head(ready).packet \in Packets
           /\ ready[1] = Head(ready) /\ 1 \in DOMAIN ready
           /\ \A i \in DOMAIN ready : i # 1 => i - 1 \in DOMAIN Tail(ready) /\ Tail(ready)[i - 1] = ready[i]
<1>1. ready \in Seq(Sound)
  BY DEF Types
<1>2. Tail(ready) \in Seq(Sound) /\ Head(ready) \in Sound
  BY <1>1, HeadTailProperties
<1>3. Len(ready) \in Nat \ {0} /\ DOMAIN ready = 1 .. Len(ready)
  BY <1>1
<1>4. Len(Tail(ready)) = Len(ready) - 1 /\ DOMAIN Tail(ready) = 1 .. Len(Tail(ready))
  BY <1>1, <1>2
<1> QED
  BY <1>1, <1>2, <1>3, <1>4 DEF Sound

\* A completion that is added counts, unless a connect failed.
LEMMA AppendSound ==
    ASSUME NEW s \in Seq(Sound), NEW d \in Sound
    PROVE  /\ Append(s, d) \in Seq(Sound)
           /\ Len(s) + 1 \in DOMAIN Append(s, d) /\ Append(s, d)[Len(s) + 1] = d
           /\ \A i \in DOMAIN s : i \in DOMAIN Append(s, d) /\ Append(s, d)[i] = s[i]
BY AppendProperties

-----------------------------------------------------------------------------
(* One lemma per action.                                                   *)

\* The initial state satisfies the invariant.
LEMMA InitInv == Init => SessionInv
<1> SUFFICES ASSUME Init PROVE SessionInv
  OBVIOUS
<1>1. Bounded
  BY Bounds
<1>2. pc = [t \in Threads |-> "idle"] /\ "io" \in Threads /\ "owner" \in Threads /\ Senders \subseteq Threads
  BY DEF Init, Threads
<1>3. Placed
  BY <1>2 DEF Placed
<1>4. TypeOK /\ ready \in Seq(Sound)
  <2>1. <<>> \in Seq(Sound) /\ <<>> \in Seq(Completion) /\ <<>> \in Seq(Packets)
    BY EmptySeq
  <2>2. 0 \in 0 .. MaxPackets /\ 0 \in 0 .. MaxErrors /\ 0 \in 0 .. MaxConnects
    BY <1>1 DEF Bounded
  <2> QED
    BY <1>2, <2>1, <2>2 DEF Init, TypeOK, NoPacket
<1> QED
  BY <1>2, <1>3, <1>4 DEF Init, SessionInv, Types, Down, Closed, Pushing

\* What the operations of the network have in common: a completion is added,
\* nothing else changes but what is under way.
LEMMA CompletionInv ==
    ASSUME SessionInv, NEW d \in Sound, ready' = Append(ready, d),
           UNCHANGED <<sendList, localVars, ownerVars, accepted, crashed>>,
           writing' \in Seq(Packets), reading' \in Nat, connecting' \in BOOLEAN, open' \in BOOLEAN,
           written' \subseteq Packets, errors' \in 0 .. MaxErrors, connects' \in 0 .. MaxConnects,
           connecting' => ~open', FailedConnect(d) => ~open'
    PROVE  SessionInv'
<1>1. /\ ready \in Seq(Sound) /\ ready' \in Seq(Sound)
      /\ Len(ready) + 1 \in DOMAIN ready' /\ ready'[Len(ready) + 1] = d
  BY AppendSound DEF SessionInv, Types
<1>2. Types'
  BY <1>1, SoundComplete DEF SessionInv, Types, TypeOK, Placed, localVars, ownerVars
<1>3. Down' /\ Closed'
  BY DEF SessionInv, Down, Closed, localVars, ownerVars
<1>4. Pushing'
  BY <1>1 DEF Pushing, Active, FailedConnect
<1> QED
  BY <1>2, <1>3, <1>4 DEF SessionInv

\* The network keeps the invariant.
LEMMA NetworkInv ==
    ASSUME SessionInv, Connected \/ Error \/ \E i \in 1 .. MaxPackets : Written(i)
    PROVE  SessionInv'
<1>1. /\ NoPacket \in 0 .. MaxPackets /\ Packets \subseteq 0 .. MaxPackets
      /\ \A i \in DOMAIN writing : writing[i] \in Packets
      /\ writing \in Seq(Packets) /\ TypeOK /\ (connecting => ~open)
  BY ElementOfSeq, LenProperties DEF SessionInv, Types, TypeOK, NoPacket, Packets, Closed
<1>2. CASE Connected
  <2> DEFINE d == Done("connect", TRUE, NoPacket)
  <2>1. d \in Sound /\ ~FailedConnect(d)
    BY <1>1, DoneSound DEF FailedConnect, Done
  <2>2. /\ ready' = Append(ready, d)
        /\ UNCHANGED <<sendList, localVars, ownerVars, accepted, crashed, writing, reading, written, errors, connects>>
        /\ connecting' = FALSE /\ open' = TRUE
    BY <1>2 DEF Connected, history, counters
  <2> HIDE DEF d
  <2> QED
    BY <1>1, <2>1, <2>2, CompletionInv DEF TypeOK
<1>3. ASSUME NEW i \in 1 .. MaxPackets, Written(i) PROVE SessionInv'
  <2> DEFINE d == Done("write", TRUE, writing[i])
  <2>1. i \in DOMAIN writing /\ writing[i] \in Packets /\ writing' = Without(writing, i)
    BY <1>1, <1>3 DEF Written
  <2>2. d \in Sound /\ ~FailedConnect(d)
    BY <1>1, <2>1, DoneSound DEF FailedConnect, Done
  <2>3. /\ ready' = Append(ready, d) /\ written' = written \cup {writing[i]}
        /\ UNCHANGED <<sendList, localVars, ownerVars, accepted, crashed, reading, open, connecting, errors, connects>>
    BY <1>3 DEF Written, counters
  <2>4. writing' \in Seq(Packets)
    BY <1>1, <2>1, WithoutType
  <2> HIDE DEF d
  <2> QED
    BY <1>1, <2>1, <2>2, <2>3, <2>4, CompletionInv DEF TypeOK
<1>4. CASE Error
  <2>1. /\ errors' \in 0 .. MaxErrors
        /\ UNCHANGED <<sendList, localVars, ownerVars, accepted, crashed, open, written, connects>>
    BY <1>1, <1>4 DEF Error, TypeOK
  <2>2. CASE reading > 0 /\ reading' = reading - 1 /\ UNCHANGED <<connecting, writing>>
             /\ ready' = Append(ready, Done("read", FALSE, NoPacket))
    <3> DEFINE d == Done("read", FALSE, NoPacket)
    <3>1. d \in Sound /\ ~FailedConnect(d)
      BY <1>1, DoneSound DEF FailedConnect, Done
    <3>3. reading' \in Nat
      BY <1>1, <2>2 DEF TypeOK
    <3>2. ready' = Append(ready, d)
      BY <2>2
    <3> HIDE DEF d
    <3> QED
      BY <1>1, <2>1, <2>2, <3>1, <3>2, <3>3, CompletionInv DEF TypeOK
  <2>3. CASE connecting /\ connecting' = FALSE /\ UNCHANGED <<reading, writing>>
             /\ ready' = Append(ready, Done("connect", FALSE, NoPacket))
    <3> DEFINE d == Done("connect", FALSE, NoPacket)
    <3>1. d \in Sound
      BY <1>1, DoneSound
    <3>2. ready' = Append(ready, d)
      BY <2>3
    <3> HIDE DEF d
    <3> QED
      BY <1>1, <2>1, <2>3, <3>1, <3>2, CompletionInv DEF TypeOK
  <2>4. ASSUME NEW i \in DOMAIN writing, writing' = Without(writing, i), UNCHANGED <<reading, connecting>>,
               ready' = Append(ready, Done("write", FALSE, writing[i]))
        PROVE  SessionInv'
    <3> DEFINE d == Done("write", FALSE, writing[i])
    <3>1. d \in Sound /\ ~FailedConnect(d)
      BY <1>1, DoneSound DEF FailedConnect, Done
    <3>2. ready' = Append(ready, d) /\ writing' \in Seq(Packets)
      BY <1>1, <2>4, WithoutType
    <3> HIDE DEF d
    <3> QED
      BY <1>1, <2>1, <2>4, <3>1, <3>2, CompletionInv DEF TypeOK
  <2> QED
    BY <1>4, <2>2, <2>3, <2>4 DEF Error
<1> QED
  BY <1>2, <1>3, <1>4

\* The senders' steps leave the socket's variables alone but for what they name.
LEMMA SendPacketsInv ==
    ASSUME SessionInv, NEW t \in Senders, NEW n \in 1 .. 2, SendPackets(t, n)
    PROVE  SessionInv'
<1> DEFINE added == [i \in 1 .. n |-> accepted + i]
<1>1. /\ sendList' = sendList \o added /\ sendList \in Seq(Packets)
      /\ accepted' = accepted + n /\ accepted + n <= MaxPackets /\ accepted \in 0 .. MaxPackets
      /\ pc' = [pc EXCEPT ![t] = IF bDoSend THEN "send" ELSE "idle"] /\ pc[t] = "idle"
      /\ UNCHANGED <<pSend, socketVars, ownerVars, written, counters, crashed>>
      /\ t \in Threads /\ t # "io" /\ t # "owner"
  BY DEF SendPackets, Goto, SessionInv, Types, TypeOK, Threads
<1>2. Bounded
  BY Bounds
<1>3. added \in Seq(Packets)
  <2>1. n \in Nat /\ \A i \in 1 .. n : accepted + i \in Packets
    BY <1>1, <1>2 DEF Packets, Bounded
  <2>2. added \in [1 .. n -> Packets]
    BY <2>1
  <2> QED
    BY <2>1, <2>2, FunctionSequence
<1> HIDE DEF added
<1>4. sendList' \in Seq(Packets)
  BY <1>1, <1>3, ConcatProperties
<1>5. accepted' \in 0 .. MaxPackets
  BY <1>1, <1>2 DEF Bounded
<1>6. Types'
  <2>1. pc' \in [Threads -> {"idle", "send", "write", "reconnect", "connected", "closed", "down"}]
        /\ \A u \in Threads : u # t => pc'[u] = pc[u]
    BY <1>1 DEF SessionInv, Types, TypeOK
  <2>2. pc'[t] \in {"idle", "send"}
    BY <1>1 DEF SessionInv, Types, TypeOK
  <2>3. Placed'
    BY <1>1, <2>1, <2>2 DEF SessionInv, Types, Placed, Threads
  <2> QED
    BY <1>1, <1>4, <1>5, <2>1, <2>3 DEF SessionInv, Types, TypeOK, socketVars, ownerVars, counters
<1>7. Down' /\ Closed'
  BY <1>1 DEF SessionInv, Types, TypeOK, Down, Closed, socketVars, ownerVars
<1>8. Pushing'
  <2>1. CASE sendList = <<>>
    BY <1>1, <2>1 DEF bDoSend, Pushing, Active, SessionInv, Types, TypeOK
  <2>2. CASE sendList # <<>>
    BY <1>1, <2>2 DEF Pushing, Active, SessionInv, Types, TypeOK, socketVars
  <2> QED
    BY <2>1, <2>2
<1> QED
  BY <1>6, <1>7, <1>8 DEF SessionInv

\* DoSend keeps the invariant: it takes a packet only from a list that has one.
LEMMA DoSendInv ==
    ASSUME SessionInv, NEW t \in Threads, DoSend(t)
    PROVE  SessionInv'
<1>1. /\ pc[t] = "send" /\ UNCHANGED <<socketVars, ownerVars, history>>
      /\ pc \in [Threads -> {"idle", "send", "write", "reconnect", "connected", "closed", "down"}]
      /\ pSend \in [Threads -> 0 .. MaxPackets] /\ sendList \in Seq(Packets) /\ crashed \in BOOLEAN
      /\ t # "owner"
  BY DEF DoSend, SessionInv, Types, TypeOK, Placed
<1>2. CASE /\ sendList # <<>> /\ pc' = [pc EXCEPT ![t] = "write"]
           /\ pSend' = [pSend EXCEPT ![t] = Head(sendList)]
           /\ sendList' = Tail(sendList) /\ UNCHANGED crashed
  <2>1. Head(sendList) \in Packets /\ sendList' \in Seq(Packets)
    BY <1>1, <1>2, HeadTailProperties
  <2>2. Head(sendList) \in 0 .. MaxPackets
    BY <2>1 DEF Packets
  <2>3. pc' \in [Threads -> {"idle", "send", "write", "reconnect", "connected", "closed", "down"}]
        /\ pSend' \in [Threads -> 0 .. MaxPackets] /\ pc'[t] = "write" /\ pSend'[t] \in Packets
        /\ \A u \in Threads : u # t => pc'[u] = pc[u] /\ pSend'[u] = pSend[u]
    BY <1>1, <1>2, <2>1, <2>2
  <2>4. Placed'
    BY <1>1, <2>3 DEF SessionInv, Types, Placed, Threads
  <2>5. Types'
    BY <1>1, <1>2, <2>1, <2>3, <2>4 DEF SessionInv, Types, TypeOK, socketVars, ownerVars, history, counters
  <2>6. Down' /\ Closed' /\ Pushing'
    BY <1>1, <2>3 DEF SessionInv, Down, Closed, Pushing, Active, socketVars, ownerVars, Threads
  <2> QED
    BY <2>5, <2>6 DEF SessionInv
<1>3. CASE /\ sendList = <<>> /\ pc' = [pc EXCEPT ![t] = "idle"]
           /\ crashed' \in BOOLEAN /\ UNCHANGED <<pSend, sendList>>
  <2>1. pc' \in [Threads -> {"idle", "send", "write", "reconnect", "connected", "closed", "down"}]
        /\ pc'[t] = "idle" /\ \A u \in Threads : u # t => pc'[u] = pc[u]
    BY <1>1, <1>3
  <2>2. Placed'
    BY <1>1, <1>3, <2>1 DEF SessionInv, Types, Placed, Threads
  <2>3. Types'
    BY <1>1, <1>3, <2>1, <2>2 DEF SessionInv, Types, TypeOK, socketVars, ownerVars, history, counters
  <2>4. Down' /\ Closed' /\ Pushing'
    BY <1>1, <1>3, <2>1 DEF SessionInv, Down, Closed, Pushing, socketVars, ownerVars, Threads
  <2> QED
    BY <2>3, <2>4 DEF SessionInv
<1> QED
  BY <1>2, <1>3 DEF DoSend, Goto

\* WriteData keeps the invariant.
LEMMA WriteDataInv ==
    ASSUME SessionInv, NEW t \in Threads, WriteData(t)
    PROVE  SessionInv'
<1> DEFINE d == Done("write", FALSE, pSend[t])
<1>1. /\ pc[t] = "write" /\ pc' = [pc EXCEPT ![t] = "idle"]
      /\ pSend' = [pSend EXCEPT ![t] = NoPacket]
      /\ IF open THEN writing' = Append(writing, pSend[t]) /\ UNCHANGED ready
         ELSE ready' = Append(ready, d) /\ UNCHANGED writing
      /\ UNCHANGED <<sendList, open, reading, connecting, ownerVars, history, crashed>>
      /\ pc \in [Threads -> {"idle", "send", "write", "reconnect", "connected", "closed", "down"}]
      /\ pSend \in [Threads -> 0 .. MaxPackets] /\ writing \in Seq(Packets)
      /\ ready \in Seq(Sound) /\ pSend[t] \in Packets /\ t # "owner"
  BY DEF WriteData, Goto, SessionInv, Types, TypeOK, Placed
<1>2. d \in Sound
  BY <1>1, DoneSound
<1> HIDE DEF d
<1>3. /\ writing' \in Seq(Packets) /\ ready' \in Seq(Sound)
      /\ open => writing' # <<>>
  <2>1. CASE open
    <3>1. writing' = Append(writing, pSend[t]) /\ ready' = ready
      BY <1>1, <2>1
    <3>2. writing \in Seq(Packets) /\ pSend[t] \in Packets /\ ready \in Seq(Sound)
      BY <1>1
    <3>3. Append(writing, pSend[t]) \in Seq(Packets) /\ Append(writing, pSend[t]) # <<>>
      BY <3>2, AppendProperties
    <3> QED
      BY <3>1, <3>2, <3>3
  <2>2. CASE ~open
    <3>1. ready' = Append(ready, d) /\ writing' = writing
      BY <1>1, <2>2
    <3>2. writing \in Seq(Packets) /\ ready \in Seq(Sound)
      BY <1>1
    <3>3. Append(ready, d) \in Seq(Sound)
      BY <1>2, <3>2, AppendProperties
    <3> QED
      BY <2>2, <3>1, <3>2, <3>3
  <2> QED
    BY <2>1, <2>2
<1>4. /\ pc' \in [Threads -> {"idle", "send", "write", "reconnect", "connected", "closed", "down"}]
      /\ pc'[t] = "idle" /\ \A u \in Threads : u # t => pc'[u] = pc[u] /\ pSend'[u] = pSend[u]
  BY <1>1
<1>5. pSend' \in [Threads -> 0 .. MaxPackets]
  <2>1. NoPacket \in 0 .. MaxPackets
    BY Bounds DEF NoPacket, Bounded
  <2> QED
    BY <1>1, <2>1
<1>6. Placed'
  BY <1>1, <1>4 DEF SessionInv, Types, Placed, Threads
<1>7. Types'
  BY <1>1, <1>3, <1>4, <1>5, <1>6, SoundComplete DEF SessionInv, Types, TypeOK, ownerVars, history, counters
<1>8. Down' /\ Closed'
  BY <1>1, <1>4 DEF SessionInv, Down, Closed, ownerVars, Threads
<1>9. Pushing'
  BY <1>1, <1>3 DEF Pushing, Active
<1> QED
  BY <1>7, <1>8, <1>9 DEF SessionInv

\* A step of the io thread, or of the owner, that closes the socket.
LEMMA CloseInv ==
    ASSUME SessionInv, NEW t \in {"io", "owner"}, NEW l, NEW rest \in Seq(Sound),
           Goto(t, l), t = "io" => l \in {"idle", "reconnect"},
           t = "owner" => l \in {"connected", "closed"} /\ ~m_bShutDown,
           pc[t] # "write", ready' = rest \o Aborted,
           open' = FALSE, reading' = 0, connecting' \in BOOLEAN, writing' = <<>>,
           sendList' \in Seq(Packets), handles' \in BOOLEAN, connects' \in 0 .. MaxConnects,
           UNCHANGED <<pSend, m_bShutDown, accepted, written, errors, crashed>>
    PROVE  SessionInv'
<1>1. ready' \in Seq(Sound)
  BY CloseSound DEF SessionInv
<1>2. t \in Threads /\ l \in {"idle", "reconnect", "connected", "closed"}
      /\ pc \in [Threads -> {"idle", "send", "write", "reconnect", "connected", "closed", "down"}]
  BY DEF Threads, SessionInv, Types, TypeOK
<1>3. pc' \in [Threads -> {"idle", "send", "write", "reconnect", "connected", "closed", "down"}]
      /\ pc'[t] = l /\ \A u \in Threads : u # t => pc'[u] = pc[u]
  BY <1>2 DEF Goto
<1>4. Placed'
  BY <1>2, <1>3 DEF SessionInv, Types, Placed, Threads
<1>5. <<>> \in Seq(Packets)
  BY EmptySeq
<1>6. Types'
  BY <1>1, <1>3, <1>4, <1>5, SoundComplete DEF SessionInv, Types, TypeOK
<1>7. Down' /\ Closed' /\ Pushing'
  BY <1>2, <1>3 DEF SessionInv, Down, Closed, Pushing, Threads
<1> QED
  BY <1>6, <1>7 DEF SessionInv

\* A step of the io thread in which it calls a handler that leaves the socket
\* as it is, or its connection.
LEMMA KeepInv ==
    ASSUME SessionInv, NEW l \in {"idle", "send", "reconnect"}, Goto("io", l), pc["io"] = "idle",
           ready' \in Seq(Sound), reading' \in Nat, open /\ sendList # <<>> => Active',
           UNCHANGED <<sendList, pSend, open, connecting, writing, ownerVars, history, crashed>>
    PROVE  SessionInv'
<1>1. "io" \in Threads
      /\ pc \in [Threads -> {"idle", "send", "write", "reconnect", "connected", "closed", "down"}]
  BY DEF Threads, SessionInv, Types, TypeOK
<1>2. pc' \in [Threads -> {"idle", "send", "write", "reconnect", "connected", "closed", "down"}]
      /\ pc'["io"] = l /\ \A u \in Threads : u # "io" => pc'[u] = pc[u]
  BY <1>1 DEF Goto
<1>3. Placed'
  BY <1>1, <1>2 DEF SessionInv, Types, Placed, Threads
<1>4. Types'
  BY <1>2, <1>3, SoundComplete DEF SessionInv, Types, TypeOK, ownerVars, history, counters
<1>5. Down' /\ Closed' /\ Pushing'
  BY <1>2 DEF SessionInv, Down, Closed, Pushing, Threads, ownerVars
<1> QED
  BY <1>4, <1>5 DEF SessionInv

\* The completion handlers keep the invariant.
LEMMA HandlersInv == ASSUME SessionInv, Handlers PROVE SessionInv'
<1>1. Types /\ "io" \in Threads /\ Pushing
      /\ pc \in [Threads -> {"idle", "send", "write", "reconnect", "connected", "closed", "down"}]
  BY DEF SessionInv, Types, TypeOK, Threads
<1>2. CASE WriteFailed \/ ReadFailed
  <2>1. pc["io"] = "idle" /\ ready # <<>> /\ Disconnected /\ UNCHANGED <<pSend, ownerVars, history, crashed>>
    BY <1>2 DEF WriteFailed, ReadFailed, Handler
  <2>2. Tail(ready) \in Seq(Sound) /\ (Head(ready).op = "write" => Head(ready).packet \in Packets)
    BY <1>1, <2>1, HandlerSound
  <2>3. sendList' \in Seq(Packets)
    <3>1. CASE ReadFailed
      BY <3>1 DEF ReadFailed, SessionInv, Types, TypeOK
    <3>2. CASE WriteFailed
      <4>1. sendList \in Seq(Packets) /\ sendList' = <<Head(ready).packet>> \o sendList
        BY <3>2 DEF WriteFailed, PushFront, SessionInv, Types, TypeOK
      <4>2. <<Head(ready).packet>> \in Seq(Packets)
        BY <2>2, <3>2, Single DEF WriteFailed, Handler
      <4> QED
        BY <4>1, <4>2, ConcatProperties
    <3> QED
      BY <1>2, <3>1, <3>2
  <2>4. /\ \E l \in {"idle", "reconnect"} : Goto("io", l)
        /\ ready' = Tail(ready) \o Aborted /\ open' = FALSE /\ reading' = 0 /\ connecting' = FALSE /\ writing' = <<>>
    BY <2>1 DEF Disconnected, Close
  <2> QED
    BY <2>1, <2>2, <2>3, <2>4, CloseInv DEF ownerVars, history, counters, SessionInv, Types, TypeOK
<1>3. CASE DoConnect
  <2>1. /\ pc["io"] = "reconnect" /\ Goto("io", "idle")
        /\ ready' = ready \o Aborted /\ open' = FALSE /\ reading' = 0 /\ connecting' = TRUE /\ writing' = <<>>
        /\ connects' = connects + 1 /\ connects < MaxConnects
        /\ UNCHANGED <<sendList, pSend, ownerVars, accepted, written, errors, crashed>>
    BY <1>3 DEF DoConnect, Connect
  <2>2. connects' \in 0 .. MaxConnects
    BY <2>1, Bounds DEF SessionInv, Types, TypeOK, Bounded
  <2> QED
    BY <2>1, <2>2, CloseInv DEF ownerVars, SessionInv, Types, TypeOK
<1>4. CASE WriteSucceeded
  <2>1. /\ pc["io"] = "idle" /\ ready # <<>> /\ Goto("io", "send") /\ ready' = Tail(ready)
        /\ UNCHANGED <<sendList, pSend, open, reading, connecting, writing, ownerVars, history, crashed>>
    BY <1>4 DEF WriteSucceeded, Handler
  <2>2. ready' \in Seq(Sound)
    BY <1>1, <2>1, HandlerSound
  <2>3. Active'
    BY <1>1, <2>1 DEF Active, Goto
  <2> QED
    BY <2>1, <2>2, <2>3, KeepInv DEF SessionInv, Types, TypeOK
<1>5. CASE ConnectSucceeded
  <2> DEFINE d == Done("read", FALSE, NoPacket)
  <2>1. /\ pc["io"] = "idle" /\ ready # <<>> /\ Goto("io", "send")
        /\ IF open THEN reading' = reading + 1 /\ ready' = Tail(ready)
           ELSE ready' = Append(Tail(ready), d) /\ UNCHANGED reading
        /\ UNCHANGED <<sendList, pSend, open, connecting, writing, ownerVars, history, crashed>>
    BY <1>5 DEF ConnectSucceeded, Handler, Resend
  <2>2. d \in Sound
    <3>1. NoPacket \in 0 .. MaxPackets
      BY Bounds DEF NoPacket, Bounded
    <3> QED
      BY <3>1, DoneSound
  <2> HIDE DEF d
  <2>3. Tail(ready) \in Seq(Sound)
    BY <1>1, <2>1, HandlerSound
  <2>4. ready' \in Seq(Sound)
    <3>1. CASE open
      BY <2>1, <2>3, <3>1
    <3>2. CASE ~open
      BY <2>1, <2>2, <2>3, <3>2, AppendProperties
    <3> QED
      BY <3>1, <3>2
  <2>5. reading' \in Nat
    <3>1. reading \in Nat
      BY <1>1 DEF Types, TypeOK
    <3> QED
      BY <2>1, <3>1
  <2>6. Active'
    BY <1>1, <2>1 DEF Active, Goto
  <2> QED
    BY <2>1, <2>4, <2>5, <2>6, KeepInv
<1>6. CASE ConnectFailed
  <2>1. /\ pc["io"] = "idle" /\ ready # <<>> /\ ready' = Tail(ready)
        /\ Head(ready).op = "connect" /\ Head(ready).ok = FALSE
        /\ \E l \in {"idle", "reconnect"} : Goto("io", l)
        /\ UNCHANGED <<sendList, pSend, open, reading, connecting, writing, ownerVars, history, crashed>>
    BY <1>6 DEF ConnectFailed, Handler
  <2>2. ready' \in Seq(Sound)
    BY <1>1, <2>1, HandlerSound
  <2>3. FailedConnect(ready[1])
    BY <1>1, <2>1, HandlerSound DEF FailedConnect
  <2>4. open /\ sendList # <<>> => Active'
    BY <1>1, <2>1, <2>3, HandlerSound DEF Pushing, Active, Goto
  <2> QED
    BY <2>1, <2>2, <2>4, KeepInv DEF SessionInv, Types, TypeOK
<1> QED
  BY <1>2, <1>3, <1>4, <1>5, <1>6 DEF Handlers

\* Connect and DisConnect of the owner keep the invariant.
LEMMA OwnerInv ==
    ASSUME SessionInv, OwnerConnect \/ SessionDisConnect \/ SetShutDown
    PROVE  SessionInv'
<1>1. /\ ready \in Seq(Sound) /\ sendList \in Seq(Packets) /\ handles \in BOOLEAN
      /\ connects \in 0 .. MaxConnects /\ (m_bShutDown => pc["owner"] = "down")
  BY DEF SessionInv, Types, TypeOK, Down
<1>2. CASE OwnerConnect
  <2>1. /\ pc["owner"] = "idle" /\ Goto("owner", "connected")
        /\ ready' = ready \o Aborted /\ open' = FALSE /\ reading' = 0 /\ connecting' = TRUE /\ writing' = <<>>
        /\ connects' = connects + 1 /\ connects < MaxConnects
        /\ UNCHANGED <<sendList, pSend, ownerVars, accepted, written, errors, crashed>>
    BY <1>2 DEF OwnerConnect, Connect
  <2>2. connects' \in 0 .. MaxConnects
    BY <1>1, <2>1, Bounds DEF Bounded
  <2> QED
    BY <1>1, <2>1, <2>2, CloseInv DEF ownerVars
<1>3. CASE SessionDisConnect
  <2>1. /\ pc["owner"] = "connected" /\ Goto("owner", "closed") /\ handles' = FALSE
        /\ ready' = ready \o Aborted /\ open' = FALSE /\ reading' = 0 /\ connecting' = FALSE /\ writing' = <<>>
        /\ UNCHANGED <<sendList, pSend, m_bShutDown, history, crashed>>
    BY <1>3 DEF SessionDisConnect, Close
  <2> QED
    BY <1>1, <2>1, CloseInv DEF history, counters
<1>4. CASE SetShutDown
  <2>1. /\ pc["owner"] = "closed" /\ pc' = [pc EXCEPT !["owner"] = "down"] /\ m_bShutDown' = TRUE
        /\ UNCHANGED <<sendList, pSend, socketVars, handles, history, crashed>>
        /\ pc \in [Threads -> {"idle", "send", "write", "reconnect", "connected", "closed", "down"}]
        /\ "owner" \in Threads
    BY <1>4 DEF SetShutDown, Goto, SessionInv, Types, TypeOK, Threads
  <2>2. pc' \in [Threads -> {"idle", "send", "write", "reconnect", "connected", "closed", "down"}]
        /\ pc'["owner"] = "down" /\ \A u \in Threads : u # "owner" => pc'[u] = pc[u]
    BY <2>1
  <2>3. Placed'
    BY <2>1, <2>2 DEF SessionInv, Types, Placed, Threads
  <2>4. Types'
    BY <2>1, <2>2, <2>3 DEF SessionInv, Types, TypeOK, socketVars, history, counters
  <2>5. Down' /\ Closed'
    BY <2>1, <2>2 DEF SessionInv, Down, Closed, socketVars
  <2>6. Pushing'
    BY <2>1, <2>2 DEF SessionInv, Pushing, Active, socketVars
  <2> QED
    BY <2>4, <2>5, <2>6 DEF SessionInv
<1> QED
  BY <1>2, <1>3, <1>4

\* Every step keeps the invariant.
LEMMA SessionStep == ASSUME SessionInv, [Next]_vars PROVE SessionInv'
<1>1. CASE UNCHANGED vars
  BY <1>1 DEF vars, localVars, socketVars, ownerVars, history, counters, SessionInv, Types, TypeOK,
              Placed, Down, Closed, Pushing, Active
<1>2. ASSUME NEW t \in Threads, Sending(t) PROVE SessionInv'
  BY <1>2, DoSendInv, WriteDataInv DEF Sending
<1>3. CASE Connected \/ Error \/ Taken
  BY <1>3, NetworkInv DEF Taken
<1>4. CASE ResolveFails
  BY <1>4 DEF ResolveFails, localVars, socketVars, ownerVars, history, counters, SessionInv, Types, TypeOK,
              Placed, Down, Closed, Pushing, Active
<1> QED
  BY <1>1, <1>2, <1>3, <1>4, SendPacketsInv, HandlersInv, OwnerInv DEF Next

-----------------------------------------------------------------------------
(* The theorems.                                                           *)

\* The invariant holds in every reachable state: types, where the threads can
\* be, m_bShutDown exactly after DisConnect, no connection while one is asked for.
THEOREM SessionInvariance == Spec => []SessionInv
BY InitInv, SessionStep, PTL DEF Spec

\* Every variable keeps its type (TCPSession.h:49).
THEOREM SessionTypes == Spec => []TypeOK
<1>1. SessionInv => TypeOK
  BY DEF SessionInv, Types
<1> QED
  BY <1>1, SessionInvariance, PTL

\* While there is a connection, packets in the list are on their way to DoSend:
\* SendPacket leaves them to others when the list is not empty (TCPSession.cpp:85).
THEOREM StrandedCorrect == Spec => []NoneStranded
<1>1. SessionInv => NoneStranded
  <2> SUFFICES ASSUME SessionInv, open, sendList # <<>> PROVE SomeoneSends
    BY DEF NoneStranded
  <2>1. Active
    BY DEF SessionInv, Pushing
  <2>2. ASSUME NEW i \in DOMAIN ready PROVE ready # <<>>
    BY <2>2
  <2> QED
    BY <2>1, <2>2 DEF Active, SomeoneSends
<1> QED
  BY <1>1, SessionInvariance, PTL

\* Once EndPoint::DisConnect has returned, no connection is asked for any more,
\* but for one whose test of m_bShutDown came before (EndPoint.cpp:47, 57, 72).
THEOREM ShutDownCorrect == Spec => ShutDownIsFinal
<1>1. ASSUME SessionInv, [Next]_vars, m_bShutDown, pc["io"] # "reconnect"
      PROVE  pc'["io"] # "reconnect" /\ connects' = connects
  <2>1. pc["owner"] = "down" /\ "io" \in Threads /\ ~TryAgain
        /\ pc \in [Threads -> {"idle", "send", "write", "reconnect", "connected", "closed", "down"}]
    BY <1>1 DEF SessionInv, Down, Types, TypeOK, Threads, TryAgain
  <2>2. CASE UNCHANGED vars
    BY <1>1, <2>2 DEF vars, localVars, history, counters
  <2>3. CASE Connected \/ Error \/ Taken
    BY <1>1, <2>3 DEF Connected, Error, Taken, Written, localVars, history, counters
  <2>4. ASSUME NEW t \in Threads, Sending(t) \/ \E n \in 1 .. 2 : SendPackets(t, n)
        PROVE  pc'["io"] # "reconnect" /\ connects' = connects
    BY <1>1, <2>1, <2>4 DEF Sending, DoSend, WriteData, SendPackets, Goto, history, counters
  <2>5. CASE OwnerConnect \/ SessionDisConnect \/ SetShutDown
    BY <2>1, <2>5 DEF OwnerConnect, SessionDisConnect, SetShutDown
  <2>6. CASE Handlers
    BY <1>1, <2>1, <2>6 DEF Handlers, WriteSucceeded, WriteFailed, ReadFailed, ConnectSucceeded,
                            ConnectFailed, DoConnect, Disconnected, Resend, Goto, history, counters
  <2>7. ~ResolveFails
    BY <1>1 DEF ResolveFails
  <2> QED
    BY <1>1, <2>2, <2>3, <2>4, <2>5, <2>6, <2>7 DEF Next, Threads
<1>2. SessionInv /\ [Next]_vars =>
          [m_bShutDown /\ pc["io"] # "reconnect" =>
               pc'["io"] # "reconnect" /\ connects' = connects]_vars
  BY <1>1
<1> QED
  BY <1>2, SessionInvariance, PTL DEF Spec, ShutDownIsFinal

-----------------------------------------------------------------------------
(* Lists without repetition.                                               *)

Elems(s) == {s[i] : i \in DOMAIN s}

Once(s) == \A i, j \in DOMAIN s : s[i] = s[j] => i = j

\* Of completions, the packets of the failed ones.
Fails(s) == {i \in DOMAIN s : ~s[i].ok /\ s[i].packet # NoPacket}

FailElems(s) == {s[i].packet : i \in Fails(s)}

FailOnce(s) == \A i, j \in Fails(s) : s[i].packet = s[j].packet => i = j

\* Two lists that share nothing, one behind the other.
LEMMA ElemsConcat ==
    ASSUME NEW S, NEW s \in Seq(S), NEW u \in Seq(S), Once(s), Once(u), Elems(s) \cap Elems(u) = {}
    PROVE  Elems(s \o u) = Elems(s) \cup Elems(u) /\ Once(s \o u)
<1> DEFINE v == s \o u
<1>1. Joined(s, u, v)
  BY ConcatParts
<1> HIDE DEF v
<1>2. Elems(v) = Elems(s) \cup Elems(u)
  BY <1>1 DEF Elems, Joined
<1>3. \A i \in DOMAIN s, j \in DOMAIN u : s[i] # u[j]
  BY DEF Elems
<1>4. Once(v)
  BY <1>1, <1>3 DEF Once, Joined
<1> QED
  BY <1>2, <1>4 DEF v

\* A new entry at the end.
LEMMA ElemsAppend ==
    ASSUME NEW S, NEW s \in Seq(S), NEW e \in S, Once(s), e \notin Elems(s)
    PROVE  Elems(Append(s, e)) = Elems(s) \cup {e} /\ Once(Append(s, e))
<1>1. <<e>> \in Seq(S) /\ DOMAIN <<e>> = {1} /\ <<e>>[1] = e
  BY Single
<1>2. Elems(<<e>>) = {e} /\ Once(<<e>>)
  BY <1>1 DEF Elems, Once
<1>3. Append(s, e) = s \o <<e>>
  BY AppendIsConcat
<1>4. Elems(s) \cap Elems(<<e>>) = {}
  BY <1>2
<1>5. Elems(s \o <<e>>) = Elems(s) \cup Elems(<<e>>) /\ Once(s \o <<e>>)
  BY <1>1, <1>2, <1>4, ElemsConcat
<1> QED
  BY <1>2, <1>3, <1>5

\* The positions of a list without its head.
LEMMA TailParts ==
    ASSUME NEW S, NEW s \in Seq(S), s # <<>>
    PROVE  /\ 1 \in DOMAIN s /\ Head(s) = s[1] /\ Tail(s) \in Seq(S)
           /\ \A i \in DOMAIN Tail(s) : i + 1 \in DOMAIN s /\ i + 1 # 1 /\ Tail(s)[i] = s[i + 1]
           /\ \A i \in DOMAIN s : i # 1 => \E j \in DOMAIN Tail(s) : i = j + 1
           /\ DOMAIN Tail(s) \subseteq Nat
<1>1. /\ Len(s) \in Nat \ {0} /\ Tail(s) \in Seq(S) /\ Len(Tail(s)) = Len(s) - 1
      /\ \A i \in 1 .. Len(Tail(s)) : Tail(s)[i] = s[i + 1]
  BY HeadTailProperties, EmptySeq
<1>2. DOMAIN s = 1 .. Len(s) /\ DOMAIN Tail(s) = 1 .. Len(s) - 1
  BY <1>1, LenProperties
<1>3. Head(s) = s[1]
  OBVIOUS
<1>4. \A i \in DOMAIN s : i # 1 => i - 1 \in DOMAIN Tail(s) /\ i = (i - 1) + 1
  BY <1>1, <1>2
<1> QED
  BY <1>1, <1>2, <1>3, <1>4

\* A list without repetition has its head nowhere else.
LEMMA ElemsTail ==
    ASSUME NEW S, NEW s \in Seq(S), s # <<>>, Once(s)
    PROVE  /\ Head(s) \in Elems(s) /\ Elems(Tail(s)) = Elems(s) \ {Head(s)}
           /\ Once(Tail(s))
<1> DEFINE u == Tail(s)
<1>1. /\ 1 \in DOMAIN s /\ Head(s) = s[1] /\ DOMAIN u \subseteq Nat
      /\ \A i \in DOMAIN u : i + 1 \in DOMAIN s /\ i + 1 # 1 /\ u[i] = s[i + 1]
      /\ \A i \in DOMAIN s : i # 1 => \E j \in DOMAIN u : i = j + 1
  BY TailParts
<1> HIDE DEF u
<1>2. Head(s) \in Elems(s)
  BY <1>1 DEF Elems
<1>3. ASSUME NEW i \in DOMAIN u PROVE u[i] \in Elems(s) /\ u[i] # Head(s)
  BY <1>1 DEF Elems, Once
<1>4. ASSUME NEW i \in DOMAIN s, s[i] # Head(s) PROVE \E j \in DOMAIN u : u[j] = s[i]
  BY <1>1, <1>4
<1>5. Elems(u) = Elems(s) \ {Head(s)}
  BY <1>3, <1>4 DEF Elems
<1>6. ASSUME NEW i \in DOMAIN u, NEW j \in DOMAIN u, u[i] = u[j] PROVE i = j
  <2>1. i + 1 = j + 1
    BY <1>1, <1>6 DEF Once
  <2> QED
    BY <1>1, <2>1
<1>7. Once(u)
  BY <1>6 DEF Once
<1> QED
  BY <1>2, <1>5, <1>7 DEF u

\* A list without repetition has a removed entry nowhere else.
LEMMA ElemsWithout ==
    ASSUME NEW s \in Seq(Packets), NEW i \in DOMAIN s, Once(s)
    PROVE  /\ s[i] \in Elems(s) /\ Elems(Without(s, i)) = Elems(s) \ {s[i]}
           /\ Once(Without(s, i))
<1> DEFINE a == SubSeq(s, 1, i - 1)
           b == SubSeq(s, i + 1, Len(s))
<1>1. Len(s) \in Nat /\ DOMAIN s = 1 .. Len(s)
  BY LenProperties
<1>2. /\ a \in Seq(Packets) /\ Len(a) = i - 1 /\ DOMAIN a = 1 .. i - 1
      /\ \A j \in 1 .. i - 1 : a[j] = s[j]
  BY <1>1
<1>3. /\ b \in Seq(Packets) /\ Len(b) = Len(s) - i /\ DOMAIN b = 1 .. Len(s) - i
      /\ \A j \in 1 .. Len(s) - i : b[j] = s[i + j]
  <2>1. /\ b \in Seq(Packets) /\ Len(b) = Len(s) - i /\ DOMAIN b = 1 .. Len(s) - i
    BY <1>1
  <2>2. ASSUME NEW j \in 1 .. Len(s) - i PROVE b[j] = s[i + j]
    <3>1. b[j] = s[(i + 1) + j - 1] /\ (i + 1) + j - 1 = i + j
      BY <1>1
    <3> QED
      BY <3>1
  <2> QED
    BY <2>1, <2>2
<1> HIDE DEF a, b
<1>4. Once(a) /\ Once(b) /\ Elems(a) \cap Elems(b) = {}
  <2>1. ASSUME NEW j \in DOMAIN a, NEW k \in DOMAIN a, a[j] = a[k] PROVE j = k
    <3>1. j \in DOMAIN s /\ k \in DOMAIN s /\ s[j] = s[k]
      BY <1>1, <1>2, <2>1
    <3> QED
      BY <3>1 DEF Once
  <2>2. ASSUME NEW j \in DOMAIN b, NEW k \in DOMAIN b, b[j] = b[k] PROVE j = k
    <3>1. i + j \in DOMAIN s /\ i + k \in DOMAIN s
      BY <1>1, <1>3, <2>2
    <3>2. s[i + j] = s[i + k]
      BY <1>3, <2>2
    <3>3. i + j = i + k
      BY <3>1, <3>2 DEF Once
    <3> QED
      BY <1>1, <1>3, <3>3
  <2>3. ASSUME NEW j \in DOMAIN a, NEW k \in DOMAIN b PROVE a[j] # b[k]
    <3>1. j \in DOMAIN s /\ i + k \in DOMAIN s /\ j # i + k
      BY <1>1, <1>2, <1>3
    <3>2. a[j] = s[j] /\ b[k] = s[i + k]
      BY <1>2, <1>3
    <3> QED
      BY <3>1, <3>2 DEF Once
  <2> QED
    BY <2>1, <2>2, <2>3 DEF Elems, Once
<1>5. Elems(a) \cup Elems(b) = Elems(s) \ {s[i]}
  <2>1. ASSUME NEW j \in DOMAIN a PROVE a[j] \in Elems(s) \ {s[i]}
    BY <1>1, <1>2 DEF Elems, Once
  <2>2. ASSUME NEW j \in DOMAIN b PROVE b[j] \in Elems(s) \ {s[i]}
    BY <1>1, <1>3 DEF Elems, Once
  <2>3. ASSUME NEW j \in DOMAIN s, s[j] # s[i] PROVE s[j] \in Elems(a) \cup Elems(b)
    <3>1. CASE j < i
      BY <1>1, <1>2, <3>1 DEF Elems
    <3>2. CASE j > i
      <4>1. j - i \in 1 .. Len(s) - i /\ i + (j - i) = j
        BY <1>1, <3>2
      <4> QED
        BY <1>3, <4>1 DEF Elems
    <3> QED
      BY <1>1, <2>3, <3>1, <3>2
  <2> QED
    BY <2>1, <2>2, <2>3 DEF Elems
<1>6. Without(s, i) = a \o b
  BY DEF Without, a, b
<1>7. Elems(a \o b) = Elems(a) \cup Elems(b) /\ Once(a \o b)
  BY <1>2, <1>3, <1>4, ElemsConcat
<1> QED
  BY <1>5, <1>6, <1>7 DEF Elems

\* Two lists of completions that share no packet, one behind the other.
LEMMA FailsConcat ==
    ASSUME NEW s \in Seq(Sound), NEW u \in Seq(Sound), FailOnce(s), FailOnce(u),
           FailElems(s) \cap FailElems(u) = {}
    PROVE  FailElems(s \o u) = FailElems(s) \cup FailElems(u) /\ FailOnce(s \o u)
<1> DEFINE v == s \o u
<1>1. Joined(s, u, v)
  BY ConcatParts
<1> HIDE DEF v
<1>2. /\ \A i \in Fails(s) : i \in Fails(v) /\ v[i] = s[i]
      /\ \A i \in Fails(u) : Len(s) + i \in Fails(v) /\ v[Len(s) + i] = u[i]
      /\ \A i \in Fails(v) : \/ i \in Fails(s) /\ v[i] = s[i]
                            \/ \E j \in Fails(u) : i = Len(s) + j /\ v[i] = u[j]
  BY <1>1 DEF Fails, Joined
<1>3. FailElems(v) = FailElems(s) \cup FailElems(u)
  BY <1>2 DEF FailElems
<1>4. \A i \in Fails(s), j \in Fails(u) : s[i].packet # u[j].packet
  BY DEF FailElems
<1>5. FailOnce(v)
  BY <1>2, <1>4 DEF FailOnce
<1> QED
  BY <1>3, <1>5 DEF v

\* One more completion, of an operation with or without a packet.
LEMMA FailsAppend ==
    ASSUME NEW s \in Seq(Sound), NEW d \in Sound, FailOnce(s), d.ok \/ d.packet \notin FailElems(s)
    PROVE  /\ FailElems(Append(s, d)) =
                 FailElems(s) \cup (IF d.ok \/ d.packet = NoPacket THEN {} ELSE {d.packet})
           /\ FailOnce(Append(s, d))
<1>1. <<d>> \in Seq(Sound) /\ DOMAIN <<d>> = {1} /\ <<d>>[1] = d
  BY Single
<1>2. Fails(<<d>>) = IF d.ok \/ d.packet = NoPacket THEN {} ELSE {1}
  BY <1>1 DEF Fails
<1>3. FailElems(<<d>>) = (IF d.ok \/ d.packet = NoPacket THEN {} ELSE {d.packet})
  BY <1>1, <1>2 DEF FailElems
<1>4. FailOnce(<<d>>)
  BY <1>2 DEF FailOnce
<1>5. Append(s, d) = s \o <<d>>
  BY AppendIsConcat
<1>6. FailElems(s) \cap FailElems(<<d>>) = {}
  BY <1>3
<1>7. FailElems(s \o <<d>>) = FailElems(s) \cup FailElems(<<d>>) /\ FailOnce(s \o <<d>>)
  BY <1>1, <1>4, <1>6, FailsConcat
<1> QED
  BY <1>3, <1>5, <1>7

\* The completion whose handler runs leaves the list.
LEMMA FailsTail ==
    ASSUME NEW s \in Seq(Sound), s # <<>>, FailOnce(s)
    PROVE  /\ FailOnce(Tail(s))
           /\ FailElems(Tail(s)) =
                 FailElems(s) \ (IF Head(s).ok \/ Head(s).packet = NoPacket THEN {} ELSE {Head(s).packet})
           /\ ~Head(s).ok /\ Head(s).packet # NoPacket => Head(s).packet \in FailElems(s)
<1> DEFINE u == Tail(s)
<1>1. /\ 1 \in DOMAIN s /\ Head(s) = s[1] /\ DOMAIN u \subseteq Nat
      /\ \A i \in DOMAIN u : i + 1 \in DOMAIN s /\ i + 1 # 1 /\ u[i] = s[i + 1]
      /\ \A i \in DOMAIN s : i # 1 => \E j \in DOMAIN u : i = j + 1
  BY TailParts
<1> HIDE DEF u
<1>2. /\ \A i \in Fails(u) : i \in Nat /\ i + 1 \in Fails(s) /\ i + 1 # 1 /\ u[i] = s[i + 1]
      /\ \A i \in Fails(s) : i # 1 => \E j \in Fails(u) : u[j] = s[i]
      /\ 1 \in Fails(s) <=> ~(s[1].ok \/ s[1].packet = NoPacket)
  BY <1>1 DEF Fails
<1>3. ASSUME NEW i \in Fails(u), NEW j \in Fails(u), u[i].packet = u[j].packet PROVE i = j
  <2>1. i + 1 \in Fails(s) /\ j + 1 \in Fails(s) /\ s[i + 1].packet = s[j + 1].packet
    BY <1>2, <1>3
  <2>2. i + 1 = j + 1
    BY <2>1 DEF FailOnce
  <2> QED
    BY <1>2, <2>2
<1>4. ASSUME NEW i \in Fails(u) PROVE u[i].packet \in FailElems(s)
  BY <1>2 DEF FailElems
<1>5. ASSUME NEW i \in Fails(u), 1 \in Fails(s) PROVE u[i].packet # s[1].packet
  BY <1>2, <1>5 DEF FailOnce
<1>6. ASSUME NEW i \in Fails(s), i # 1 PROVE s[i].packet \in FailElems(u)
  BY <1>2, <1>6 DEF FailElems
<1>7. 1 \in Fails(s) => s[1].packet \in FailElems(s)
  BY DEF FailElems
<1>8. FailElems(u) = FailElems(s) \ (IF 1 \in Fails(s) THEN {s[1].packet} ELSE {})
  <2>1. \A x \in FailElems(u) : x \in FailElems(s) /\ (1 \in Fails(s) => x # s[1].packet)
    BY <1>4, <1>5 DEF FailElems
  <2>2. \A x \in FailElems(s) : x \in FailElems(u) \/ (1 \in Fails(s) /\ x = s[1].packet)
    BY <1>6 DEF FailElems
  <2> QED
    BY <2>1, <2>2
<1>9. FailOnce(u)
  BY <1>3 DEF FailOnce
<1> QED
  BY <1>1, <1>2, <1>7, <1>8, <1>9 DEF u

\* Closing the socket makes a failed write of every write under way.
LEMMA FailsAborted ==
    ASSUME Types, Once(writing)
    PROVE  FailElems(Aborted) = Elems(writing) /\ FailOnce(Aborted)
<1> DEFINE R == [i \in 1 .. reading |-> Done("read", FALSE, NoPacket)]
           C == IF connecting THEN <<Done("connect", FALSE, NoPacket)>> ELSE <<>>
           W == [i \in DOMAIN writing |-> Done("write", FALSE, writing[i])]
<1>1. NoPacket \in 0 .. MaxPackets /\ Packets \subseteq 0 .. MaxPackets /\ NoPacket \notin Packets
  BY DEF NoPacket, Packets
<1>2. reading \in Nat /\ writing \in Seq(Packets)
  BY DEF Types, TypeOK
<1>3. \A op : Done(op, FALSE, NoPacket).packet = NoPacket
  BY DEF Done
<1>4. R \in Seq(Sound) /\ Fails(R) = {}
  <2>1. Done("read", FALSE, NoPacket) \in Sound
    BY <1>1, DoneSound
  <2>2. R \in [1 .. reading -> Sound]
    BY <2>1
  <2>3. Fails(R) = {}
    BY <1>3 DEF Fails
  <2> QED
    BY <1>2, <2>2, <2>3, FunctionSequence
<1>5. C \in Seq(Sound) /\ Fails(C) = {}
  <2>1. Done("connect", FALSE, NoPacket) \in Sound
    BY <1>1, DoneSound
  <2>2. CASE connecting
    <3>1. PICK d \in Sound : d = Done("connect", FALSE, NoPacket)
      BY <2>1
    <3>2. C = <<d>>
      BY <2>2, <3>1
    <3>3. d.packet = NoPacket
      BY <1>3, <3>1
    <3>4. <<d>> \in Seq(Sound) /\ DOMAIN <<d>> = {1} /\ <<d>>[1] = d
      BY Single
    <3> HIDE DEF C
    <3> QED
      BY <3>2, <3>3, <3>4 DEF Fails
  <2>3. CASE ~connecting
    <3>1. C = <<>> /\ DOMAIN <<>> = {} /\ <<>> \in Seq(Sound)
      BY <2>3, EmptySeq
    <3> QED
      BY <3>1 DEF Fails
  <2> QED
    BY <2>2, <2>3
<1>6. W \in Seq(Sound) /\ Fails(W) = DOMAIN writing /\ \A i \in DOMAIN writing : W[i].packet = writing[i]
  <2>1. DOMAIN writing = 1 .. Len(writing) /\ Len(writing) \in Nat
    BY <1>2
  <2>2. \A i \in 1 .. Len(writing) : writing[i] \in Packets
    BY <1>2, ElementOfSeq
  <2>3. \A i \in 1 .. Len(writing) : Done("write", FALSE, writing[i]) \in Sound
    BY <1>1, <2>2, DoneSound
  <2>4. W \in [1 .. Len(writing) -> Sound]
    BY <2>1, <2>3
  <2>5. \A i \in DOMAIN writing : ~W[i].ok /\ W[i].packet = writing[i] /\ W[i].packet # NoPacket
    BY <1>1, <2>1, <2>2 DEF Done
  <2>6. DOMAIN W = DOMAIN writing
    OBVIOUS
  <2> QED
    BY <2>1, <2>4, <2>5, <2>6, FunctionSequence DEF Fails
<1>7. Aborted = R \o C \o W
  BY DEF Aborted
<1> HIDE DEF R, C, W
<1>8. /\ FailElems(R) = {} /\ FailOnce(R) /\ FailElems(C) = {} /\ FailOnce(C)
      /\ FailElems(W) = Elems(writing) /\ FailOnce(W)
  BY <1>4, <1>5, <1>6 DEF FailElems, FailOnce, Elems, Once
<1>9. R \o C \in Seq(Sound) /\ FailElems(R \o C) = {} /\ FailOnce(R \o C)
  <2>1. FailElems(R) \cap FailElems(C) = {}
    BY <1>8
  <2>2. FailElems(R \o C) = FailElems(R) \cup FailElems(C) /\ FailOnce(R \o C)
    BY <1>4, <1>5, <1>8, <2>1, FailsConcat
  <2> QED
    BY <1>4, <1>5, <1>8, <2>2, ConcatProperties
<1>10. PICK P \in Seq(Sound) : P = R \o C /\ FailElems(P) = {} /\ FailOnce(P)
  BY <1>9
<1>11. FailElems(P) \cap FailElems(W) = {}
  BY <1>10
<1>12. FailElems(P \o W) = FailElems(P) \cup FailElems(W) /\ FailOnce(P \o W)
  BY <1>6, <1>8, <1>10, <1>11, FailsConcat
<1> QED
  BY <1>7, <1>8, <1>10, <1>12

-----------------------------------------------------------------------------
(* The packets.                                                            *)

Held == {pSend[t] : t \in Threads} \ {NoPacket}

\* A thread has a packet only on its way from DoSend to the write, and no two
\* have the same.
Carried ==
    /\ \A t \in Threads : pc[t] # "write" => pSend[t] = NoPacket
    /\ \A t, u \in Threads : pSend[t] = pSend[u] /\ pSend[t] # NoPacket => t = u

\* No list has a packet twice.
Unrepeated == Once(sendList) /\ Once(writing) /\ FailOnce(ready)

\* Every packet accepted is in one of the places, and in no two of them.
Parted(L, W, F, H, D, n) ==
    /\ L \cup W \cup F \cup H \cup D = 1 .. n
    /\ L \cap W = {} /\ L \cap F = {} /\ L \cap H = {} /\ L \cap D = {}
    /\ W \cap F = {} /\ W \cap H = {} /\ W \cap D = {}
    /\ F \cap H = {} /\ F \cap D = {} /\ H \cap D = {}

Partition == Parted(Elems(sendList), Elems(writing), FailElems(ready), Held, written, accepted)

PacketInv == Carried /\ Unrepeated /\ Partition

\* No packet is accepted at first.
LEMMA InitPackets == Init => PacketInv
<1> SUFFICES ASSUME Init PROVE PacketInv
  OBVIOUS
<1>1. /\ sendList = <<>> /\ writing = <<>> /\ ready = <<>> /\ written = {} /\ accepted = 0
      /\ DOMAIN <<>> = {} /\ \A t \in Threads : pSend[t] = NoPacket
  BY EmptySeq DEF Init
<1>2. Elems(sendList) = {} /\ Elems(writing) = {} /\ FailElems(ready) = {} /\ Held = {}
  BY <1>1 DEF Elems, FailElems, Fails, Held
<1>3. Partition
  BY <1>1, <1>2 DEF Partition, Parted
<1> QED
  BY <1>1, <1>3 DEF PacketInv, Carried, Unrepeated, Once, FailOnce, Fails

\* The senders put new numbers behind the others.
LEMMA SendPacketsKeep ==
    ASSUME SessionInv, PacketInv, NEW t \in Senders, NEW n \in 1 .. 2, SendPackets(t, n)
    PROVE  PacketInv'
<1> DEFINE N == [i \in 1 .. n |-> accepted + i]
<1>1. /\ accepted \in 0 .. MaxPackets /\ accepted' = accepted + n /\ accepted' <= MaxPackets
      /\ sendList \in Seq(Packets) /\ sendList' = sendList \o N /\ pc[t] = "idle" /\ t \in Threads
      /\ UNCHANGED <<pSend, writing, ready, written>>
  BY DEF SendPackets, SessionInv, Types, TypeOK, socketVars, Threads
<1>2. N \in Seq(Packets) /\ DOMAIN N = 1 .. n /\ \A i \in 1 .. n : N[i] = accepted + i
  <2>1. \A i \in 1 .. n : accepted + i \in Packets
    BY <1>1 DEF Packets
  <2>2. N \in [1 .. n -> Packets]
    BY <2>1
  <2> QED
    BY <2>2, FunctionSequence
<1> HIDE DEF N
<1>3. Once(N) /\ Elems(N) = accepted + 1 .. accepted + n
  <2>1. Once(N)
    BY <1>1, <1>2 DEF Once
  <2>2. \A m \in accepted + 1 .. accepted + n : m - accepted \in 1 .. n /\ accepted + (m - accepted) = m
    BY <1>1
  <2>3. \A i \in 1 .. n : accepted + i \in accepted + 1 .. accepted + n
    BY <1>1
  <2> QED
    BY <1>2, <2>1, <2>2, <2>3 DEF Elems
<1>4. /\ 1 .. accepted + n = (1 .. accepted) \cup (accepted + 1 .. accepted + n)
      /\ (1 .. accepted) \cap (accepted + 1 .. accepted + n) = {}
  BY <1>1
<1>5. Elems(sendList) \subseteq 1 .. accepted
  BY DEF PacketInv, Partition, Parted
<1>6. Elems(sendList') = Elems(sendList) \cup Elems(N) /\ Once(sendList')
  <2>1. Elems(sendList) \cap Elems(N) = {} /\ Once(sendList)
    BY <1>3, <1>4, <1>5 DEF PacketInv, Unrepeated
  <2> QED
    BY <1>1, <1>2, <1>3, <2>1, ElemsConcat
<1>7. Held' = Held
  BY <1>1 DEF Held
<1>8. Partition'
  BY <1>1, <1>3, <1>4, <1>6, <1>7 DEF PacketInv, Partition, Parted
<1>9. Carried'
  <2>1. \A u \in Threads : pc'[u] # "write" => pc[u] # "write"
    BY <1>1 DEF SendPackets, Goto, SessionInv, Types, TypeOK
  <2> QED
    BY <1>1, <2>1 DEF PacketInv, Carried
<1>10. Unrepeated'
  BY <1>1, <1>6 DEF PacketInv, Unrepeated
<1> QED
  BY <1>8, <1>9, <1>10 DEF PacketInv

\* DoSend takes the first packet out of the list.
LEMMA DoSendKeep ==
    ASSUME SessionInv, PacketInv, NEW t \in Threads, DoSend(t)
    PROVE  PacketInv'
<1>1. /\ UNCHANGED <<writing, ready, written, accepted>> /\ pc[t] = "send" /\ pSend[t] = NoPacket
      /\ sendList \in Seq(Packets) /\ NoPacket \notin Packets
  BY DEF DoSend, SessionInv, Types, TypeOK, socketVars, history, PacketInv, Carried, NoPacket, Packets
<1>2. CASE sendList = <<>>
  <2>1. UNCHANGED <<sendList, pSend>> /\ pc' = [pc EXCEPT ![t] = "idle"]
    BY <1>2 DEF DoSend, Goto
  <2>2. Carried'
    BY <1>1, <2>1 DEF PacketInv, Carried, SessionInv, Types, TypeOK
  <2>3. Unrepeated' /\ Partition'
    BY <1>1, <2>1 DEF PacketInv, Unrepeated, Partition, Held
  <2> QED
    BY <2>2, <2>3 DEF PacketInv
<1>3. CASE sendList # <<>>
  <2>1. PICK p \in Packets : p = Head(sendList)
    BY <1>1, <1>3, HeadTailProperties
  <2>2. /\ pc' = [pc EXCEPT ![t] = "write"] /\ pSend' = [pSend EXCEPT ![t] = p]
        /\ sendList' = Tail(sendList) /\ p # NoPacket
    BY <1>1, <1>3, <2>1 DEF DoSend, Goto
  <2>3. p \in Elems(sendList) /\ Elems(sendList') = Elems(sendList) \ {p} /\ Once(sendList')
    BY <1>1, <1>3, <2>1, <2>2, ElemsTail DEF PacketInv, Unrepeated
  <2>4. /\ pSend \in [Threads -> 0 .. MaxPackets]
        /\ pSend'[t] = p /\ \A u \in Threads : u # t => pSend'[u] = pSend[u] /\ pc'[u] = pc[u]
        /\ pc'[t] = "write"
    BY <2>2 DEF SessionInv, Types, TypeOK
  <2>5. \A u \in Threads : pSend[u] # p
    BY <2>2, <2>3 DEF PacketInv, Partition, Parted, Held
  <2>6. Held' = Held \cup {p}
    BY <1>1, <2>2, <2>4 DEF Held
  <2>7. Partition'
    BY <1>1, <2>3, <2>6 DEF PacketInv, Partition, Parted
  <2>8. Carried'
    BY <2>4, <2>5 DEF PacketInv, Carried
  <2>9. Unrepeated'
    BY <1>1, <2>3 DEF PacketInv, Unrepeated
  <2> QED
    BY <2>7, <2>8, <2>9 DEF PacketInv
<1> QED
  BY <1>2, <1>3

\* The write is started, or fails at once without a connection.
LEMMA WriteDataKeep ==
    ASSUME SessionInv, PacketInv, NEW t \in Threads, WriteData(t)
    PROVE  PacketInv'
<1>1. PICK p \in Packets : p = pSend[t]
  BY DEF WriteData, SessionInv, Types, Placed
<1>2. /\ UNCHANGED <<sendList, written, accepted>> /\ pc' = [pc EXCEPT ![t] = "idle"]
      /\ pSend' = [pSend EXCEPT ![t] = NoPacket] /\ pc[t] = "write"
      /\ writing \in Seq(Packets) /\ ready \in Seq(Sound) /\ p # NoPacket
  BY DEF WriteData, Goto, SessionInv, Types, TypeOK, history, NoPacket, Packets
<1>3. /\ pSend'[t] = NoPacket /\ \A u \in Threads : u # t => pSend'[u] = pSend[u] /\ pc'[u] = pc[u]
      /\ pc'[t] = "idle"
  BY <1>2 DEF SessionInv, Types, TypeOK
<1>4. Carried'
  BY <1>3 DEF PacketInv, Carried
<1>5. p \in Held /\ \A u \in Threads : u # t => pSend[u] # p
  BY <1>1, <1>2 DEF Held, PacketInv, Carried
<1>6. Held' = Held \ {p}
  BY <1>1, <1>3, <1>5 DEF Held
<1>7. CASE open
  <2>1. writing' = Append(writing, p) /\ UNCHANGED ready
    BY <1>1, <1>7 DEF WriteData
  <2>2. p \notin Elems(writing)
    BY <1>5 DEF PacketInv, Partition, Parted
  <2>3. Elems(writing') = Elems(writing) \cup {p} /\ Once(writing')
    BY <1>2, <2>1, <2>2, ElemsAppend DEF PacketInv, Unrepeated
  <2>4. Partition'
    BY <1>2, <1>5, <1>6, <2>1, <2>3 DEF PacketInv, Partition, Parted
  <2>5. Unrepeated'
    BY <1>2, <2>1, <2>3 DEF PacketInv, Unrepeated
  <2> QED
    BY <1>4, <2>4, <2>5 DEF PacketInv
<1>8. CASE ~open
  <2>1. PICK d \in Sound : d = Done("write", FALSE, p)
    BY DoneWritten
  <2>2. ready' = Append(ready, d) /\ UNCHANGED writing /\ ~d.ok /\ d.packet = p
    BY <1>1, <1>8, <2>1 DEF WriteData, Done
  <2>3. p \notin FailElems(ready)
    BY <1>5 DEF PacketInv, Partition, Parted
  <2>4. FailElems(ready') = FailElems(ready) \cup {p} /\ FailOnce(ready')
    BY <1>2, <2>2, <2>3, FailsAppend DEF PacketInv, Unrepeated
  <2>5. Partition'
    BY <1>2, <1>5, <1>6, <2>2, <2>4 DEF PacketInv, Partition, Parted
  <2>6. Unrepeated'
    BY <1>2, <2>2, <2>4 DEF PacketInv, Unrepeated
  <2> QED
    BY <1>4, <2>5, <2>6 DEF PacketInv
<1> QED
  BY <1>7, <1>8

\* What the network and the handlers have in common: threads keep their packets,
\* and only the places named here change.
LEMMA SocketKeep ==
    ASSUME PacketInv, UNCHANGED <<pSend, accepted>>, \A u \in Threads : pc'[u] # "write" => pc[u] # "write",
           Unrepeated', Parted(Elems(sendList'), Elems(writing'), FailElems(ready'), Held, written', accepted)
    PROVE  PacketInv'
<1>1. Held' = Held
  BY DEF Held
<1>2. Carried'
  BY DEF PacketInv, Carried
<1> QED
  BY <1>1, <1>2 DEF PacketInv, Partition

\* A packet leaves the writes for the failed completions or for what is written.
LEMMA FromWriting ==
    ASSUME NEW L, NEW W, NEW F, NEW H, NEW D, NEW n, NEW p \in W, Parted(L, W, F, H, D, n)
    PROVE  Parted(L, W \ {p}, F \cup {p}, H, D, n) /\ Parted(L, W \ {p}, F, H, D \cup {p}, n)
  BY DEF Parted

\* Some write completes.
LEMMA WriteDone ==
    ASSUME SessionInv, PacketInv, NEW i \in DOMAIN writing, NEW ok \in BOOLEAN,
           writing' = Without(writing, i), ready' = Append(ready, Done("write", ok, writing[i])),
           written' = IF ok THEN written \cup {writing[i]} ELSE written,
           UNCHANGED <<sendList, pc, pSend, accepted>>
    PROVE  PacketInv'
<1>1. PICK p \in Packets : p = writing[i]
  BY ElementOfSeq, LenProperties DEF SessionInv, Types, TypeOK
<1>2. p \in Elems(writing) /\ Elems(writing') = Elems(writing) \ {p} /\ Once(writing')
  BY <1>1, ElemsWithout DEF SessionInv, Types, TypeOK, PacketInv, Unrepeated
<1>3. PICK d \in Sound : d = Done("write", ok, p) /\ d.ok = ok /\ d.packet = p
  BY DoneWritten DEF Done
<1>4. p # NoPacket /\ p \notin FailElems(ready)
  BY <1>2 DEF PacketInv, Partition, Parted, Packets, NoPacket
<1>5. FailElems(ready') = FailElems(ready) \cup (IF ok THEN {} ELSE {p}) /\ FailOnce(ready')
  BY <1>1, <1>3, <1>4, FailsAppend DEF SessionInv, Types, PacketInv, Unrepeated
<1>6. Unrepeated'
  BY <1>2, <1>5 DEF PacketInv, Unrepeated
<1>7. Parted(Elems(sendList'), Elems(writing'), FailElems(ready'), Held, written', accepted)
  <2>1. PICK L, W, F, H, D : /\ L = Elems(sendList) /\ W = Elems(writing) /\ F = FailElems(ready)
                            /\ H = Held /\ D = written
    OBVIOUS
  <2>2. Parted(L, W, F, H, D, accepted) /\ p \in W
    BY <1>2, <2>1 DEF PacketInv, Partition
  <2>3. Parted(L, W \ {p}, F \cup {p}, H, D, accepted) /\ Parted(L, W \ {p}, F, H, D \cup {p}, accepted)
    BY <2>2, FromWriting
  <2>4. Elems(sendList') = L /\ Elems(writing') = W \ {p} /\ Held = H
    BY <1>2, <2>1
  <2>5. CASE ok
    <3>1. FailElems(ready') = F /\ written' = D \cup {p}
      BY <1>1, <1>5, <2>1, <2>5
    <3> QED
      BY <2>3, <2>4, <3>1
  <2>6. CASE ~ok
    <3>1. FailElems(ready') = F \cup {p} /\ written' = D
      BY <1>5, <2>1, <2>6
    <3> QED
      BY <2>3, <2>4, <3>1
  <2> QED
    BY <2>5, <2>6
<1> QED
  BY <1>6, <1>7, SocketKeep

\* Something else completes, and no handler runs.
LEMMA OtherDone ==
    ASSUME SessionInv, PacketInv, NEW op \in {"read", "connect"}, NEW ok \in BOOLEAN,
           ready' = Append(ready, Done(op, ok, NoPacket)),
           UNCHANGED <<sendList, pc, pSend, writing, written, accepted>>
    PROVE  PacketInv'
<1>1. PICK d \in Sound : d = Done(op, ok, NoPacket) /\ d.packet = NoPacket
  <2>1. NoPacket \in 0 .. MaxPackets
    BY DEF NoPacket
  <2> QED
    BY <2>1, DoneSound DEF Done
<1>2. d.packet \notin FailElems(ready)
  BY <1>1 DEF FailElems, Fails
<1>3. FailElems(ready') = FailElems(ready) /\ FailOnce(ready')
  BY <1>1, <1>2, FailsAppend DEF SessionInv, Types, PacketInv, Unrepeated
<1>4. Unrepeated'
  BY <1>3 DEF PacketInv, Unrepeated
<1>5. Parted(Elems(sendList'), Elems(writing'), FailElems(ready'), Held, written', accepted)
  BY <1>3 DEF PacketInv, Partition
<1> QED
  BY <1>4, <1>5, SocketKeep

\* The network moves packets from one place to another.
LEMMA NetworkKeep == ASSUME SessionInv, PacketInv, Connected \/ Taken \/ Error PROVE PacketInv'
<1>1. CASE Connected
  BY <1>1, OtherDone DEF Connected, localVars, history
<1>2. ASSUME NEW i, Written(i) PROVE PacketInv'
  BY <1>2, WriteDone DEF Written, localVars
<1>3. ASSUME Error PROVE PacketInv'
  <2>1. UNCHANGED <<sendList, pc, pSend, accepted, written>>
    BY <1>3 DEF Error, localVars
  <2>2. ASSUME NEW i \in DOMAIN writing, writing' = Without(writing, i),
               ready' = Append(ready, Done("write", FALSE, writing[i]))
        PROVE  PacketInv'
    BY <2>1, <2>2, WriteDone
  <2>3. ASSUME NEW op \in {"read", "connect"}, ready' = Append(ready, Done(op, FALSE, NoPacket)),
               UNCHANGED writing
        PROVE  PacketInv'
    BY <2>1, <2>3, OtherDone
  <2> QED
    BY <1>3, <2>2, <2>3 DEF Error
<1> QED
  BY <1>1, <1>2, <1>3 DEF Taken

\* Closing the socket, for whatever reason: every write under way fails.
LEMMA Closing ==
    ASSUME SessionInv, PacketInv, NEW rest \in Seq(Sound), FailOnce(rest),
           FailElems(rest) \cap Elems(writing) = {}, ready' = rest \o Aborted, writing' = <<>>
    PROVE  /\ FailElems(ready') = FailElems(rest) \cup Elems(writing) /\ FailOnce(ready')
           /\ Elems(writing') = {} /\ Once(writing')
<1>1. FailElems(Aborted) = Elems(writing) /\ FailOnce(Aborted) /\ Aborted \in Seq(Sound)
  BY FailsAborted, AbortedSound DEF SessionInv, PacketInv, Unrepeated
<1>2. FailElems(ready') = FailElems(rest) \cup Elems(writing) /\ FailOnce(ready')
  BY <1>1, FailsConcat
<1>3. DOMAIN <<>> = {}
  OBVIOUS
<1> QED
  BY <1>2, <1>3 DEF Elems, Once

\* Connect and DisConnect move what was under way to the failed ones.
LEMMA OwnerKeep ==
    ASSUME SessionInv, PacketInv, OwnerConnect \/ SessionDisConnect \/ SetShutDown \/ DoConnect
    PROVE  PacketInv'
<1>1. UNCHANGED <<sendList, pSend, accepted, written>>
  BY DEF OwnerConnect, SessionDisConnect, SetShutDown, DoConnect, history
<1>2. \A u \in Threads : pc'[u] # "write" => pc[u] # "write"
  BY DEF OwnerConnect, SessionDisConnect, SetShutDown, DoConnect, Goto, SessionInv, Types, TypeOK
<1>3. CASE SetShutDown
  BY <1>1, <1>2, <1>3, SocketKeep DEF SetShutDown, socketVars, PacketInv, Unrepeated, Partition
<1>4. CASE ~SetShutDown
  <2>1. ready' = ready \o Aborted /\ writing' = <<>> /\ ready \in Seq(Sound)
    BY <1>4 DEF OwnerConnect, SessionDisConnect, DoConnect, Connect, Close, SessionInv, Types
  <2>2. FailOnce(ready) /\ FailElems(ready) \cap Elems(writing) = {}
    BY DEF PacketInv, Unrepeated, Partition, Parted
  <2>3. /\ FailElems(ready') = FailElems(ready) \cup Elems(writing) /\ FailOnce(ready')
        /\ Elems(writing') = {} /\ Once(writing')
    BY <2>1, <2>2, Closing
  <2>4. Unrepeated'
    BY <1>1, <2>3 DEF PacketInv, Unrepeated
  <2>5. Parted(Elems(sendList'), Elems(writing'), FailElems(ready'), Held, written', accepted)
    BY <1>1, <2>3 DEF PacketInv, Partition, Parted
  <2> QED
    BY <1>1, <1>2, <2>4, <2>5, SocketKeep
<1> QED
  BY <1>3, <1>4

\* The handler of a failed write puts its packet back into the list.
LEMMA HandlersKeep == ASSUME SessionInv, PacketInv, Handlers PROVE PacketInv'
<1>1. CASE DoConnect
  BY <1>1, OwnerKeep
<1>2. CASE ~DoConnect
  <2>1. /\ ready # <<>> /\ ready \in Seq(Sound) /\ UNCHANGED <<pSend, accepted, written>>
        /\ pc["io"] = "idle" /\ \A u \in Threads : u # "io" => pc'[u] = pc[u]
    BY <1>2 DEF Handlers, WriteSucceeded, WriteFailed, ReadFailed, ConnectSucceeded, ConnectFailed,
       Disconnected, Handler, Goto, history, SessionInv, Types, TypeOK
  <2>2. \A u \in Threads : pc'[u] # "write" => pc[u] # "write"
    BY <2>1
  <2>3. PICK d \in Sound : d = Head(ready)
    BY <2>1, HeadTailProperties
  <2>4. /\ FailOnce(Tail(ready)) /\ Tail(ready) \in Seq(Sound)
        /\ FailElems(Tail(ready)) =
              FailElems(ready) \ (IF d.ok \/ d.packet = NoPacket THEN {} ELSE {d.packet})
        /\ ~d.ok /\ d.packet # NoPacket => d.packet \in FailElems(ready)
    BY <2>1, <2>3, FailsTail, HeadTailProperties DEF PacketInv, Unrepeated
  <2>5. CASE WriteFailed
    <3>1. d.op = "write" /\ ~d.ok /\ d.packet \in Packets /\ sendList' = <<d.packet>> \o sendList
          /\ ready' = Tail(ready) \o Aborted /\ writing' = <<>> /\ sendList \in Seq(Packets)
      BY <2>3, <2>5 DEF WriteFailed, Handler, Disconnected, Close, PushFront, Sound, SessionInv, Types, TypeOK
    <3>2. PICK p \in Packets : p = d.packet /\ p # NoPacket
      BY <3>1 DEF Packets, NoPacket
    <3>3. p \in FailElems(ready) /\ FailElems(Tail(ready)) = FailElems(ready) \ {p}
      BY <2>4, <3>1, <3>2
    <3>4. FailElems(Tail(ready)) \cap Elems(writing) = {} /\ p \notin Elems(sendList)
      BY <3>3 DEF PacketInv, Partition, Parted
    <3>5. /\ FailElems(ready') = FailElems(Tail(ready)) \cup Elems(writing) /\ FailOnce(ready')
          /\ Elems(writing') = {} /\ Once(writing')
      BY <2>4, <3>1, <3>4, Closing
    <3>6. Elems(sendList') = {p} \cup Elems(sendList) /\ Once(sendList')
      <4>1. <<p>> \in Seq(Packets) /\ DOMAIN <<p>> = {1} /\ <<p>>[1] = p
        BY Single
      <4>2. Elems(<<p>>) = {p} /\ Once(<<p>>)
        BY <4>1 DEF Elems, Once
      <4>3. Elems(<<p>>) \cap Elems(sendList) = {} /\ Once(sendList)
        BY <3>4, <4>2 DEF PacketInv, Unrepeated
      <4>4. Elems(<<p>> \o sendList) = Elems(<<p>>) \cup Elems(sendList) /\ Once(<<p>> \o sendList)
        BY <3>1, <4>1, <4>2, <4>3, ElemsConcat
      <4>5. sendList' = <<p>> \o sendList
        BY <3>1, <3>2
      <4> QED
        BY <4>2, <4>4, <4>5
    <3>7. Parted(Elems(sendList'), Elems(writing'), FailElems(ready'), Held, written', accepted)
      BY <2>1, <3>3, <3>5, <3>6 DEF PacketInv, Partition, Parted
    <3>8. Unrepeated'
      BY <3>5, <3>6 DEF Unrepeated
    <3> QED
      BY <2>1, <2>2, <3>7, <3>8, SocketKeep
  <2>6. CASE ReadFailed
    <3>1. d.op = "read" /\ sendList' = sendList /\ ready' = Tail(ready) \o Aborted /\ writing' = <<>>
      BY <2>3, <2>6 DEF ReadFailed, Handler, Disconnected, Close
    <3>2. FailElems(Tail(ready)) = FailElems(ready)
      BY <2>4, <3>1 DEF Sound
    <3>3. FailElems(Tail(ready)) \cap Elems(writing) = {}
      BY <3>2 DEF PacketInv, Partition, Parted
    <3>4. /\ FailElems(ready') = FailElems(ready) \cup Elems(writing) /\ FailOnce(ready')
          /\ Elems(writing') = {} /\ Once(writing')
      BY <2>4, <3>1, <3>2, <3>3, Closing
    <3>5. Parted(Elems(sendList'), Elems(writing'), FailElems(ready'), Held, written', accepted)
      BY <2>1, <3>1, <3>4 DEF PacketInv, Partition, Parted
    <3>6. Unrepeated'
      BY <3>1, <3>4 DEF PacketInv, Unrepeated
    <3> QED
      BY <2>1, <2>2, <3>5, <3>6, SocketKeep
  <2>7. ASSUME FailElems(ready') = FailElems(ready), FailOnce(ready'), UNCHANGED <<sendList, writing>>
        PROVE  PacketInv'
    <3>1. Unrepeated'
      BY <2>7 DEF PacketInv, Unrepeated
    <3>2. Parted(Elems(sendList'), Elems(writing'), FailElems(ready'), Held, written', accepted)
      BY <2>1, <2>7 DEF PacketInv, Partition
    <3> QED
      BY <2>1, <2>2, <3>1, <3>2, SocketKeep
  <2>8. ASSUME WriteSucceeded \/ ConnectSucceeded \/ ConnectFailed
        PROVE  UNCHANGED <<sendList, writing>> /\ FailElems(Tail(ready)) = FailElems(ready)
    <3>1. UNCHANGED <<sendList, writing>> /\ (d.op = "connect" \/ d.ok)
      BY <2>3, <2>8 DEF WriteSucceeded, ConnectSucceeded, ConnectFailed, Handler
    <3>2. d.ok \/ d.packet = NoPacket
      BY <3>1 DEF Sound
    <3> QED
      BY <2>4, <3>1, <3>2
  <2>9. CASE WriteSucceeded \/ ConnectFailed
    <3>1. ready' = Tail(ready)
      BY <2>9 DEF WriteSucceeded, ConnectFailed
    <3> QED
      BY <2>4, <2>7, <2>8, <2>9, <3>1
  <2>10. CASE ConnectSucceeded
    <3>1. CASE open
      BY <2>4, <2>7, <2>8, <2>10, <3>1 DEF ConnectSucceeded
    <3>2. CASE ~open
      <4>1. PICK e \in Sound : e = Done("read", FALSE, NoPacket) /\ e.packet = NoPacket
        <5>1. NoPacket \in 0 .. MaxPackets
          BY DEF NoPacket
        <5> QED
          BY <5>1, DoneSound DEF Done
      <4>2. ready' = Append(Tail(ready), e)
        BY <2>10, <3>2, <4>1 DEF ConnectSucceeded
      <4>3. e.packet \notin FailElems(Tail(ready))
        BY <4>1 DEF FailElems, Fails
      <4>4. FailElems(ready') = FailElems(Tail(ready)) /\ FailOnce(ready')
        BY <2>4, <4>1, <4>2, <4>3, FailsAppend
      <4> QED
        BY <2>7, <2>8, <2>10, <4>4
    <3> QED
      BY <3>1, <3>2
  <2> QED
    BY <1>2, <2>5, <2>6, <2>9, <2>10 DEF Handlers
<1> QED
  BY <1>1, <1>2

\* Every step keeps every packet in one place.
LEMMA PacketStep == ASSUME SessionInv, PacketInv, [Next]_vars PROVE PacketInv'
<1>1. CASE UNCHANGED vars \/ ResolveFails
  BY <1>1 DEF vars, ResolveFails, localVars, socketVars, history, PacketInv, Carried, Unrepeated, Partition, Held
<1> HIDE DEF PacketInv, SessionInv
<1>2. CASE Next
  <2>1. CASE \E t \in Senders, n \in 1 .. 2 : SendPackets(t, n)
    BY <2>1, SendPacketsKeep
  <2>2. CASE OwnerConnect \/ SessionDisConnect \/ SetShutDown
    BY <2>2, OwnerKeep
  <2>3. CASE \E t \in Threads : Sending(t)
    BY <2>3, DoSendKeep, WriteDataKeep DEF Sending
  <2>4. CASE Handlers
    BY <2>4, HandlersKeep
  <2>5. CASE Connected \/ Taken \/ Error
    BY <2>5, NetworkKeep
  <2> QED
    BY <1>1, <1>2, <2>1, <2>2, <2>3, <2>4, <2>5 DEF Next
<1> QED
  BY <1>1, <1>2

\* A place with one position.
LEMMA AtOne == ASSUME NEW place, NEW s, NEW i, s = {i} PROVE \E x : At(place, s) = {x}
<1>1. At(place, s) = {<<place, i>>}
  BY DEF At
<1> QED
  BY <1>1

\* A place with none.
LEMMA AtNone == ASSUME NEW place PROVE At(place, {}) = {}
  BY DEF At

\* A list without repetition has what it holds in one place.
LEMMA OneWhere ==
    ASSUME NEW s, Once(s), NEW p, NEW place
    PROVE  IF p \in Elems(s) THEN \E x : At(place, Where(s, p)) = {x} ELSE At(place, Where(s, p)) = {}
<1>1. CASE p \in Elems(s)
  <2>1. PICK i \in DOMAIN s : s[i] = p
    BY <1>1 DEF Elems
  <2>2. Where(s, p) = {i}
    BY <2>1 DEF Where, Once
  <2>3. \E x : At(place, Where(s, p)) = {x}
    BY <2>2, AtOne
  <2> QED
    BY <1>1, <2>3
<1>2. CASE p \notin Elems(s)
  <2>1. Where(s, p) = {}
    BY <1>2 DEF Elems, Where
  <2> QED
    BY <1>2, <2>1, AtNone
<1> QED
  BY <1>1, <1>2

\* A packet is in one of the parts, and there once.
LEMMA OnePlace ==
    ASSUME SessionInv, PacketInv, NEW p \in 1 .. accepted
    PROVE  \E x : Places(p) = {x}
<1> DEFINE Failed == {i \in DOMAIN ready : ready[i].packet = p /\ ~ready[i].ok}
           Listed == At("list", Where(sendList, p))
           UnderWay == At("under way", Where(writing, p))
           InReady == At("failed", Failed)
           Taking == At("thread", Where(pSend, p))
           Finished == At("written", written \cap {p})
<1>1. p # NoPacket
  BY DEF NoPacket
<1>2. IF p \in Elems(sendList) THEN \E x : Listed = {x} ELSE Listed = {}
  BY OneWhere DEF PacketInv, Unrepeated
<1>3. IF p \in Elems(writing) THEN \E x : UnderWay = {x} ELSE UnderWay = {}
  BY OneWhere DEF PacketInv, Unrepeated
<1>4. IF p \in FailElems(ready) THEN \E x : InReady = {x} ELSE InReady = {}
  <2>1. Failed = {i \in Fails(ready) : ready[i].packet = p}
    BY <1>1 DEF Fails
  <2>2. CASE p \in FailElems(ready)
    <3>1. PICK i \in Fails(ready) : ready[i].packet = p
      BY <2>2 DEF FailElems
    <3>2. Failed = {i}
      BY <2>1, <3>1 DEF PacketInv, Unrepeated, FailOnce
    <3>3. \E x : InReady = {x}
      BY <3>2, AtOne
    <3> QED
      BY <2>2, <3>3
  <2>3. CASE p \notin FailElems(ready)
    <3>1. Failed = {}
      BY <2>1, <2>3 DEF FailElems
    <3> QED
      BY <2>3, <3>1, AtNone
  <2> QED
    BY <2>2, <2>3
<1>5. IF p \in Held THEN \E x : Taking = {x} ELSE Taking = {}
  <2>1. DOMAIN pSend = Threads
    BY DEF SessionInv, Types, TypeOK
  <2>2. CASE p \in Held
    <3>1. PICK t \in Threads : pSend[t] = p
      BY <2>2 DEF Held
    <3>2. Where(pSend, p) = {t}
      BY <1>1, <2>1, <3>1 DEF Where, PacketInv, Carried
    <3>3. \E x : Taking = {x}
      BY <3>2, AtOne
    <3> QED
      BY <2>2, <3>3
  <2>3. CASE p \notin Held
    <3>1. Where(pSend, p) = {}
      BY <1>1, <2>1, <2>3 DEF Where, Held
    <3> QED
      BY <2>3, <3>1, AtNone
  <2> QED
    BY <2>2, <2>3
<1>6. IF p \in written THEN \E x : Finished = {x} ELSE Finished = {}
  <2>1. CASE p \in written
    <3>1. written \cap {p} = {p}
      BY <2>1
    <3>2. \E x : Finished = {x}
      BY <3>1, AtOne
    <3> QED
      BY <2>1, <3>2
  <2>2. CASE p \notin written
    <3>1. written \cap {p} = {}
      BY <2>2
    <3> QED
      BY <2>2, <3>1, AtNone
  <2> QED
    BY <2>1, <2>2
<1>7. Places(p) = Listed \cup UnderWay \cup InReady \cup Taking \cup Finished
  BY DEF Places
<1> HIDE DEF Listed, UnderWay, InReady, Taking, Finished
<1>8. PICK L, W, F, H : L = Elems(sendList) /\ W = Elems(writing) /\ F = FailElems(ready) /\ H = Held
  OBVIOUS
<1>9. Parted(L, W, F, H, written, accepted)
  BY <1>8 DEF PacketInv, Partition
<1>10. /\ p \in L \/ p \in W \/ p \in F \/ p \in H \/ p \in written
       /\ p \in L => p \notin W /\ p \notin F /\ p \notin H /\ p \notin written
       /\ p \in W => p \notin F /\ p \notin H /\ p \notin written
       /\ p \in F => p \notin H /\ p \notin written
       /\ p \in H => p \notin written
  BY <1>9 DEF Parted
<1>11. CASE p \in L
  BY <1>2, <1>3, <1>4, <1>5, <1>6, <1>7, <1>8, <1>10, <1>11
<1>12. CASE p \in W
  BY <1>2, <1>3, <1>4, <1>5, <1>6, <1>7, <1>8, <1>10, <1>12
<1>13. CASE p \in F
  BY <1>2, <1>3, <1>4, <1>5, <1>6, <1>7, <1>8, <1>10, <1>13
<1>14. CASE p \in H
  BY <1>2, <1>3, <1>4, <1>5, <1>6, <1>7, <1>8, <1>10, <1>14
<1>15. CASE p \in written
  BY <1>2, <1>3, <1>4, <1>5, <1>6, <1>7, <1>8, <1>10, <1>15
<1> QED
  BY <1>10, <1>11, <1>12, <1>13, <1>14, <1>15

\* Each packet accepted is in one place, whoever sends, fails, closes and connects
\* again (TCPSession.cpp:116, 136).
THEOREM ConservedCorrect == Spec => []Conserved
<1>1. Init => SessionInv /\ PacketInv
  BY InitInv, InitPackets
<1>2. SessionInv /\ PacketInv /\ [Next]_vars => (SessionInv /\ PacketInv)'
  BY SessionStep, PacketStep
<1>3. SessionInv /\ PacketInv => Conserved
  <2> SUFFICES ASSUME SessionInv, PacketInv, NEW p \in 1 .. accepted PROVE Cardinality(Places(p)) = 1
    BY DEF Conserved
  <2>1. PICK x : Places(p) = {x}
    BY OnePlace
  <2> QED
    BY <2>1, FS_Singleton
<1> QED
  BY <1>1, <1>2, <1>3, PTL DEF Spec
=============================================================================
