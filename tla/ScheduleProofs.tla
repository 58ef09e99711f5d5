---------------------------- MODULE ScheduleProofs ----------------------------
(***************************************************************************)
(* A mailbox is scheduled at most once at a time, whatever is thrown,        *)
(* deleted or shut down.  A schedule is made for a list that was empty, and *)
(* the swap, which alone can empty the list of an actor, uses it up.  So    *)
(* what a throw left, once swapped into that list, is never fetched again.  *)
(***************************************************************************)
EXTENDS ActorProofs, FiniteSetTheorems

USE MailboxAssumption DEF MailboxAssumption, Threads

NoRepeats(s) == \A i, j \in 1 .. Len(s) : s[i] = s[j] => i = j

\* push_back leaves no list empty.
LEMMA AppendNotEmpty ==
    ASSUME NEW S, NEW s \in Seq(S), NEW e \in S
    PROVE  Append(s, e) # <<>>
  BY AppendProperties

\* push_back of a new entry makes no repetition.
LEMMA NoRepeatsAppend ==
    ASSUME NEW S, NEW s \in Seq(S), NEW e \in S,
           NoRepeats(s), ~Contains(s, e)
    PROVE  NoRepeats(Append(s, e))
  BY AppendProperties DEF NoRepeats, Contains

\* pop_front takes the only occurrence of the first entry.
LEMMA NoRepeatsTail ==
    ASSUME NEW S, NEW s \in Seq(S), s # <<>>, NoRepeats(s)
    PROVE  NoRepeats(Tail(s)) /\ ~Contains(Tail(s), Head(s))
<1>1. /\ Len(s) \in Nat \ {0}
      /\ Len(Tail(s)) = Len(s) - 1
      /\ \A i \in 1 .. Len(Tail(s)) : Tail(s)[i] = s[i + 1]
      /\ Head(s) = s[1]
  BY HeadTailProperties, EmptySeq
<1>2. NoRepeats(Tail(s))
  <2> SUFFICES ASSUME NEW i \in 1 .. Len(Tail(s)),
                      NEW j \in 1 .. Len(Tail(s)), Tail(s)[i] = Tail(s)[j]
               PROVE  i = j
    BY DEF NoRepeats
  <2>1. i + 1 \in 1 .. Len(s) /\ j + 1 \in 1 .. Len(s) /\ s[i + 1] = s[j + 1]
    BY <1>1
  <2> QED
    BY <2>1 DEF NoRepeats
<1>3. ASSUME NEW i \in 1 .. Len(Tail(s)), Tail(s)[i] = Head(s) PROVE FALSE
  <2>1. 1 \in 1 .. Len(s) /\ i + 1 \in 1 .. Len(s) /\ s[i + 1] = s[1]
    BY <1>1, <1>3
  <2>2. i + 1 = 1
    BY <2>1 DEF NoRepeats
  <2> QED
    BY <2>2
<1> QED
  BY <1>2, <1>3 DEF Contains

\* splice of two lists that share no entry.
LEMMA NoRepeatsConcat ==
    ASSUME NEW S, NEW s \in Seq(S), NEW t \in Seq(S),
           NoRepeats(s), NoRepeats(t),
           \A x \in S : ~(Contains(s, x) /\ Contains(t, x))
    PROVE  NoRepeats(s \o t)
<1>1. /\ Len(s) \in Nat /\ Len(t) \in Nat
      /\ Len(s \o t) = Len(s) + Len(t)
      /\ \A i \in 1 .. Len(s) + Len(t) :
            (s \o t)[i] = IF i <= Len(s) THEN s[i] ELSE t[i - Len(s)]
  BY ConcatProperties, LenProperties
<1>2. ASSUME NEW i \in 1 .. Len(s), NEW j \in 1 .. Len(t) PROVE s[i] # t[j]
  <2>1. s[i] \in S
    BY ElementOfSeq
  <2> QED
    BY <2>1 DEF Contains
<1> SUFFICES ASSUME NEW i \in 1 .. Len(s) + Len(t),
                    NEW j \in 1 .. Len(s) + Len(t), (s \o t)[i] = (s \o t)[j]
             PROVE  i = j
  BY <1>1 DEF NoRepeats
<1>3. CASE i <= Len(s) /\ j <= Len(s)
  <2>1. i \in 1 .. Len(s) /\ j \in 1 .. Len(s) /\ s[i] = s[j]
    BY <1>1, <1>3
  <2> QED
    BY <2>1 DEF NoRepeats
<1>4. CASE i > Len(s) /\ j > Len(s)
  <2>1. /\ i - Len(s) \in 1 .. Len(t) /\ j - Len(s) \in 1 .. Len(t)
        /\ t[i - Len(s)] = t[j - Len(s)]
    BY <1>1, <1>4
  <2>2. i - Len(s) = j - Len(s)
    BY <2>1 DEF NoRepeats
  <2> QED
    BY <1>1, <2>2
<1>5. CASE i <= Len(s) /\ j > Len(s)
  <2>1. /\ i \in 1 .. Len(s) /\ j - Len(s) \in 1 .. Len(t)
        /\ s[i] = t[j - Len(s)]
    BY <1>1, <1>5
  <2> QED
    BY <1>2, <2>1
<1>6. CASE i > Len(s) /\ j <= Len(s)
  <2>1. /\ j \in 1 .. Len(s) /\ i - Len(s) \in 1 .. Len(t)
        /\ s[j] = t[i - Len(s)]
    BY <1>1, <1>6
  <2> QED
    BY <1>2, <2>1
<1> QED
  BY <1>1, <1>3, <1>4, <1>5, <1>6

-----------------------------------------------------------------------------
(* The inductive invariant.                                                 *)

\* The forms a schedule takes exclude each other, and none occurs twice.
Exclusive ==
    /\ NoRepeats(listWaite)
    /\ \A w \in Workers : NoRepeats(listBusy[w])
    /\ \A m \in Mailboxes, w \in Workers :
          ~(Contains(listWaite, m) /\ Contains(listBusy[w], m))
    /\ \A m \in Mailboxes, w \in Workers :
          Popped(m, w) => /\ ~Contains(listWaite, m)
                          /\ \A v \in Workers : /\ ~Contains(listBusy[v], m)
                                                /\ Popped(m, v) => v = w
    /\ \A m \in Mailboxes :
          reciveMutex[m] # Free =>
              /\ ~Contains(listWaite, m)
              /\ \A w \in Workers : ~Contains(listBusy[w], m) /\ ~Popped(m, w)

\* A scheduled mailbox has messages, until its actor is deleted.
ScheduledHasMail ==
    \A m \in Mailboxes :
        Scheduled(m) => phase[m] # "unborn" /\ (pActor[m] => listRecive[m] # <<>>)

OnceInv == Exclusive /\ ScheduledHasMail

\* Nothing is scheduled at first.
LEMMA OnceInit == Init => OnceInv
  BY EmptySeq
  DEF Init, MailboxInit, SchedulerInit, OnceInv, Exclusive, ScheduledHasMail,
      Scheduled, Popped, NoRepeats, Contains

\* Steps that leave every schedule and every m_listRecive as it is.
LEMMA OnceQuiet ==
    ASSUME OnceInv,
           UNCHANGED <<reciveMutex, listWaite, listBusy>>,
           \A m \in Mailboxes :
              /\ pActor'[m] /\ listRecive'[m] = <<>> =>
                    phase[m] = "unborn" \/ (pActor[m] /\ listRecive[m] = <<>>)
              /\ phase'[m] = "unborn" => phase[m] = "unborn"
              /\ \A w \in Workers : Popped(m, w)' => Popped(m, w)
    PROVE  OnceInv'
<1>1. Exclusive'
  BY DEF OnceInv, Exclusive
<1>2. \A m \in Mailboxes : Scheduled(m)' => Scheduled(m)
  BY DEF Scheduled
<1>3. ScheduledHasMail'
  BY <1>2 DEF OnceInv, ScheduledHasMail
<1> QED
  BY <1>1, <1>3 DEF OnceInv

-----------------------------------------------------------------------------
(* The steps that move a schedule.                                          *)

\* Pop: one worker at a time holds m_Mutex, so only its busy list has entries.
LEMMA OnceServe ==
    ASSUME RuntimeInv, OnceInv, NEW w \in Workers, Serve(w)
    PROVE  OnceInv'
<1> USE DEF RuntimeInv, TypeOK, Goto, At, mailVars, threadVars
<1>1. UNCHANGED <<pActor, listRecive, reciveMutex, phase>>
  BY DEF Serve, TestRuning, Pop, PopWait, PopLock, PopBusy, PopTake, PopNone,
         Splice, runtimeVars
<1>2. CASE TestRuning(w) \/ PopWait(w) \/ PopLock(w)
  <2>1. UNCHANGED <<listWaite, listBusy>>
    BY <1>2 DEF TestRuning, PopWait, PopLock, schedVars
  <2>2. \A m \in Mailboxes, v \in Workers : Popped(m, v)' => Popped(m, v)
    BY <1>2 DEF TestRuning, PopWait, PopLock, Popped
  <2> QED
    BY <1>1, <2>1, <2>2, OnceQuiet
<1>3. ASSUME pc[w] = "scan", NEW v \in Workers, v # w
      PROVE  listBusy[v] = <<>>
  BY <1>3 DEF LockOwners
<1>4. \A m \in Mailboxes : ~Contains(<<>>, m)
  BY EmptySeq DEF Contains
<1> DEFINE h == Head(listWaite)
<1>5. listWaite # <<>> =>
         /\ h \in Mailboxes
         /\ Tail(listWaite) \in Seq(Mailboxes)
         /\ NoRepeats(Tail(listWaite))
         /\ ~Contains(Tail(listWaite), h)
         /\ \A m \in Mailboxes :
               Contains(listWaite, m) <=> m = h \/ Contains(Tail(listWaite), m)
  BY HeadTailProperties, NoRepeatsTail, ContainsTail DEF OnceInv, Exclusive
<1>6. CASE PopBusy(w)
  <2>1. /\ listWaite # <<>> /\ pc[w] = "scan"
        /\ listWaite' = Tail(listWaite)
        /\ listBusy' = [listBusy EXCEPT ![w] = Append(listBusy[w], h)]
        /\ UNCHANGED <<pc, pBox>>
    BY <1>6 DEF PopBusy
  <2>2. ~Contains(listBusy[w], h)
    BY <1>5, <2>1 DEF OnceInv, Exclusive
  <2>3. /\ NoRepeats(listBusy'[w])
        /\ \A m \in Mailboxes :
              Contains(listBusy'[w], m) <=> Contains(listBusy[w], m) \/ m = h
    <3> HIDE DEF h
    <3>1. /\ NoRepeats(listBusy[w])
          /\ listBusy[w] \in Seq(Mailboxes)
          /\ listBusy'[w] = Append(listBusy[w], h)
      BY <2>1 DEF OnceInv, Exclusive
    <3> QED
      BY <1>5, <2>1, <2>2, <3>1, NoRepeatsAppend, ContainsAppend
  <2>4. \A v \in Workers : v # w => listBusy'[v] = listBusy[v]
    BY <2>1
  <2>5. \A m \in Mailboxes, v \in Workers : Popped(m, v)' <=> Popped(m, v)
    BY <2>1 DEF Popped
  <2> HIDE DEF h
  <2>6. Exclusive'
    <3>1. NoRepeats(listWaite') /\ \A v \in Workers : NoRepeats(listBusy'[v])
      BY <1>5, <2>1, <2>3, <2>4 DEF OnceInv, Exclusive
    <3>2. \A m \in Mailboxes, v \in Workers :
             ~(Contains(listWaite', m) /\ Contains(listBusy'[v], m))
      BY <1>3, <1>4, <1>5, <2>1, <2>3, <2>4 DEF OnceInv, Exclusive
    <3>3. \A m \in Mailboxes :
             \/ Contains(listWaite', m)
             \/ \E v \in Workers : Contains(listBusy'[v], m)
             => \/ Contains(listWaite, m)
                \/ \E v \in Workers : Contains(listBusy[v], m)
      BY <1>5, <2>1, <2>3, <2>4
    <3>4. \A m \in Mailboxes, u \in Workers : Popped(m, u)' =>
             /\ ~Contains(listWaite', m)
             /\ \A v \in Workers : ~Contains(listBusy'[v], m)
                                   /\ (Popped(m, v)' => v = u)
      BY <2>5, <3>3 DEF OnceInv, Exclusive
    <3>5. \A m \in Mailboxes : reciveMutex'[m] # Free =>
             /\ ~Contains(listWaite', m)
             /\ \A v \in Workers :
                   ~Contains(listBusy'[v], m) /\ ~Popped(m, v)'
      BY <1>1, <2>5, <3>3 DEF OnceInv, Exclusive
    <3> QED
      BY <3>1, <3>2, <3>4, <3>5 DEF Exclusive
  <2>7. \A m \in Mailboxes : Scheduled(m)' => Scheduled(m)
    BY <1>1, <1>5, <2>1, <2>3, <2>4, <2>5 DEF Scheduled
  <2> QED
    BY <1>1, <2>6, <2>7 DEF OnceInv, ScheduledHasMail
<1>7. CASE PopTake(w) \/ PopNone(w)
  <2> DEFINE rest == IF PopTake(w) THEN Tail(listWaite) ELSE <<>>
  <2>1. /\ pc[w] = "scan"
        /\ listWaite' = rest \o listBusy[w]
        /\ listBusy' = [listBusy EXCEPT ![w] = <<>>]
    BY <1>7 DEF PopTake, PopNone, Splice
  <2>2. /\ rest \in Seq(Mailboxes) /\ NoRepeats(rest)
        /\ \A m \in Mailboxes : Contains(rest, m) => Contains(listWaite, m)
    <3>1. CASE PopTake(w)
      BY <1>5, <3>1 DEF PopTake
    <3>2. CASE ~PopTake(w)
      <4>1. rest = <<>>
        BY <3>2
      <4>2. /\ <<>> \in Seq(Mailboxes) /\ NoRepeats(<<>>)
            /\ \A m \in Mailboxes : ~Contains(<<>>, m)
        BY <1>4, EmptySeq DEF NoRepeats
      <4> HIDE DEF rest
      <4> QED
        BY <4>1, <4>2
    <3> QED
      BY <3>1, <3>2
  <2>3. PopTake(w) =>
           /\ listWaite # <<>>
           /\ \A m \in Mailboxes, v \in Workers :
                 Popped(m, v)' <=> IF v = w THEN m = h ELSE Popped(m, v)
    BY DEF PopTake, Popped
  <2>4. ~PopTake(w) =>
           \A m \in Mailboxes, v \in Workers : Popped(m, v)' => Popped(m, v)
    BY <1>7 DEF PopNone, Popped
  <2>5. \A v \in Workers : listBusy'[v] = <<>>
    BY <1>3, <2>1
  <2>6. PopTake(w) => ~Contains(rest, h)
    BY <1>5, <2>3
  <2> HIDE DEF rest, h
  <2>7. \A m \in Mailboxes : ~(Contains(rest, m) /\ Contains(listBusy[w], m))
    BY <2>2 DEF OnceInv, Exclusive
  <2>8. /\ NoRepeats(listWaite')
        /\ \A m \in Mailboxes : Contains(listWaite', m) <=>
              Contains(rest, m) \/ Contains(listBusy[w], m)
    <3>1. NoRepeats(listBusy[w]) /\ listBusy[w] \in Seq(Mailboxes)
      BY DEF OnceInv, Exclusive
    <3> QED
      BY <2>1, <2>2, <2>7, <3>1, NoRepeatsConcat, ContainsConcat
  <2>9. NoRepeats(<<>>)
    BY EmptySeq DEF NoRepeats
  <2>10. \A m \in Mailboxes : Contains(listWaite', m) =>
            Contains(listWaite, m) \/ Contains(listBusy[w], m)
    BY <2>2, <2>8
  <2>11. PopTake(w) =>
            /\ h \in Mailboxes /\ Contains(listWaite, h)
            /\ ~Contains(listWaite', h)
            /\ reciveMutex[h] = Free
            /\ \A v \in Workers : ~Popped(h, v)
    <3> SUFFICES ASSUME PopTake(w)
                 PROVE  /\ h \in Mailboxes /\ Contains(listWaite, h)
                        /\ ~Contains(listWaite', h)
                        /\ reciveMutex[h] = Free
                        /\ \A v \in Workers : ~Popped(h, v)
      OBVIOUS
    <3>1. h \in Mailboxes /\ Contains(listWaite, h)
      BY <1>5, <2>3
    <3>2. ~Contains(listBusy[w], h) /\ reciveMutex[h] = Free
      BY <3>1 DEF OnceInv, Exclusive
    <3>3. \A v \in Workers : ~Popped(h, v)
      BY <3>1 DEF OnceInv, Exclusive
    <3> QED
      BY <2>6, <2>8, <3>1, <3>2, <3>3
  <2>12. Exclusive'
    <3>1. \A m \in Mailboxes, u \in Workers : Popped(m, u)' =>
             /\ ~Contains(listWaite', m)
             /\ \A v \in Workers : Popped(m, v)' => v = u
      <4>1. ASSUME NEW m \in Mailboxes, NEW u \in Workers, Popped(m, u)
            PROVE  /\ ~Contains(listWaite', m)
                   /\ \A v \in Workers : Popped(m, v) => v = u
        BY <2>10, <4>1 DEF OnceInv, Exclusive
      <4>2. CASE ~PopTake(w)
        BY <2>4, <4>1, <4>2
      <4>3. CASE PopTake(w)
        <5> SUFFICES ASSUME NEW m \in Mailboxes, NEW u \in Workers, Popped(m, u)'
                     PROVE  /\ ~Contains(listWaite', m)
                            /\ \A v \in Workers : Popped(m, v)' => v = u
          OBVIOUS
        <5>1. CASE m = h
          <6>1. \A v \in Workers : Popped(m, v)' => v = w
            BY <2>3, <2>11, <4>3, <5>1
          <6> QED
            BY <2>11, <4>3, <5>1, <6>1
        <5>2. CASE m # h
          <6>1. \A v \in Workers : Popped(m, v)' => Popped(m, v)
            BY <2>3, <4>3, <5>2
          <6> QED
            BY <4>1, <6>1
        <5> QED
          BY <5>1, <5>2
      <4> QED
        BY <4>2, <4>3
    <3>2. \A m \in Mailboxes : reciveMutex'[m] # Free =>
             /\ ~Contains(listWaite', m)
             /\ \A v \in Workers : ~Popped(m, v)'
      BY <1>1, <2>3, <2>4, <2>10, <2>11 DEF OnceInv, Exclusive
    <3> QED
      BY <1>4, <2>5, <2>8, <2>9, <3>1, <3>2 DEF Exclusive
  <2>13. \A m \in Mailboxes : Scheduled(m)' => Scheduled(m)
    BY <1>1, <1>4, <2>3, <2>4, <2>5, <2>10, <2>11 DEF Scheduled
  <2> QED
    BY <1>1, <2>12, <2>13 DEF OnceInv, ScheduledHasMail
<1> QED
  BY <1>2, <1>6, <1>7 DEF Serve, Pop

\* Process: the swap uses up the only schedule of its mailbox.
LEMMA OnceWork ==
    ASSUME RuntimeInv, OnceInv, NEW w \in Workers, Work(w) \/ Throw(w)
    PROVE  OnceInv'
<1> USE DEF RuntimeInv, TypeOK, Goto, At, threadVars
<1>1. UNCHANGED <<listWaite, listBusy, reciveMutex, pActor, phase>>
  BY DEF Work, Throw, Process, ProcessLock, ProcessSwap, ProcessBegin,
         ProcessNullActor, ProcessCount, ProcessHandle, ProcessPopFront,
         ProcessEnd, ProcessThrow, ReturnFromProcess, schedVars, runtimeVars
<1>2. CASE ProcessSwap(w)
  <2>1. PICK m \in Mailboxes : m = pBox[w] /\ Popped(m, w)
    BY <1>2 DEF ProcessSwap, LockOwners, Processing, Popped
  <2>2. \A n \in Mailboxes, v \in Workers :
           Popped(n, v)' <=> v # w /\ Popped(n, v)
    BY <1>2 DEF ProcessSwap, Popped
  <2>3. \A n \in Mailboxes : n # m => listRecive'[n] = listRecive[n]
    BY <1>2, <2>1 DEF ProcessSwap
  <2>4. Exclusive'
    BY <1>1, <2>2 DEF OnceInv, Exclusive
  <2>5. ~Scheduled(m)'
    BY <1>1, <2>1, <2>2 DEF OnceInv, Exclusive, Scheduled
  <2>6. \A n \in Mailboxes : n # m => (Scheduled(n)' => Scheduled(n))
    BY <1>1, <2>2 DEF Scheduled
  <2> QED
    BY <1>1, <2>3, <2>4, <2>5, <2>6 DEF OnceInv, ScheduledHasMail
<1>3. CASE ~ProcessSwap(w)
  <2>1. UNCHANGED listRecive
    BY <1>3 DEF Work, Throw, Process, ProcessLock, ProcessBegin,
         ProcessNullActor, ProcessCount, ProcessHandle, ProcessPopFront,
         ProcessEnd, ProcessThrow, ReturnFromProcess
  <2>2. \A m \in Mailboxes, v \in Workers : Popped(m, v)' => Popped(m, v)
    <3>1. \A v \in Workers : v # w => pc'[v] = pc[v] /\ pBox'[v] = pBox[v]
      BY <1>3 DEF Work, Throw, Process, ProcessLock, ProcessBegin,
           ProcessNullActor, ProcessCount, ProcessHandle, ProcessPopFront,
           ProcessEnd, ProcessThrow, ReturnFromProcess
    <3>2. pc'[w] \in {"process", "swap"} =>
             pc[w] = "process" /\ pBox'[w] = pBox[w]
      BY <1>3 DEF Work, Throw, Process, ProcessLock, ProcessBegin,
           ProcessNullActor, ProcessCount, ProcessHandle, ProcessPopFront,
           ProcessEnd, ProcessThrow, ReturnFromProcess
    <3> QED
      BY <3>1, <3>2 DEF Popped
  <2> QED
    BY <1>1, <2>1, <2>2, OnceQuiet
<1> QED
  BY <1>2, <1>3

\* PushMsg and Schedule: only the push onto an empty list makes a schedule.
LEMMA OncePush ==
    ASSUME RuntimeInv, OnceInv,
           NEW t \in Workers \cup Senders, NEW n \in Mailboxes,
           \/ ScheduleStep(t, n)
           \/ \E x \in Messages : SendMsg(t, n, x)
    PROVE  OnceInv'
<1> USE DEF RuntimeInv, TypeOK, Goto, At, mailVars, threadVars, schedVars
<1>1. \A m \in Mailboxes, v \in Workers : Popped(m, v)' <=> Popped(m, v)
  BY DEF ScheduleStep, Schedule, NotifyOne, Waiting, SendMsg, PushRefused,
         PushAccepted, Popped
<1>2. UNCHANGED <<listBusy, pActor, phase>>
  BY DEF ScheduleStep, Schedule, PushReturn, SendMsg, PushRefused,
         PushAccepted, runtimeVars
<1>3. CASE ScheduleStep(t, n)
  <2>1. listWaite' = Append(listWaite, n) /\ reciveMutex[n] # Free
    BY <1>3 DEF ScheduleStep, Schedule, PushReturn
  <2>2. /\ UNCHANGED listRecive
        /\ reciveMutex' = [reciveMutex EXCEPT ![n] = Free]
    BY <1>3 DEF ScheduleStep, Schedule, PushReturn
  <2>3. /\ ~Contains(listWaite, n)
        /\ \A v \in Workers : ~Contains(listBusy[v], n) /\ ~Popped(n, v)
    BY <2>1 DEF OnceInv, Exclusive
  <2>4. /\ NoRepeats(listWaite')
        /\ \A m \in Mailboxes :
              Contains(listWaite', m) <=> Contains(listWaite, m) \/ m = n
    BY <2>1, <2>3, NoRepeatsAppend, ContainsAppend DEF OnceInv, Exclusive
  <2>5. Exclusive'
    BY <1>1, <1>2, <2>2, <2>3, <2>4 DEF OnceInv, Exclusive
  <2>6. \A m \in Mailboxes : Scheduled(m)' => Scheduled(m)
    BY <1>1, <1>2, <2>1, <2>2, <2>4 DEF Scheduled
  <2> QED
    BY <1>2, <2>2, <2>5, <2>6 DEF OnceInv, ScheduledHasMail
<1>4. ASSUME NEW x \in Messages, SendMsg(t, n, x), PushRefused(n)
      PROVE  OnceInv'
  BY <1>1, <1>2, <1>4, OnceQuiet DEF SendMsg, PushRefused
<1>5. ASSUME NEW x \in Messages, SendMsg(t, n, x), PushAccepted(t, n, x)
      PROVE  OnceInv'
  <2>1. /\ UNCHANGED listWaite
        /\ pActor[n] /\ phase[n] # "unborn" /\ reciveMutex[n] = Free
        /\ listRecive' = [listRecive EXCEPT ![n] = Append(listRecive[n], x)]
    BY <1>5 DEF SendMsg, PushAccepted
  <2>2. \A m \in Mailboxes : m # n =>
           reciveMutex'[m] = reciveMutex[m] /\ listRecive'[m] = listRecive[m]
    BY <1>5 DEF PushAccepted
  <2>3. listRecive'[n] # <<>>
    <3>1. /\ listRecive'[n] = Append(listRecive[n], x)
          /\ listRecive[n] \in Seq(Messages)
      BY <2>1
    <3>2. Append(listRecive[n], x) # <<>>
      BY <3>1, AppendNotEmpty
    <3> QED
      BY <3>1, <3>2
  <2>4. listRecive[n] # <<>> => reciveMutex'[n] = Free
    <3>1. /\ Len(listRecive'[n]) = Len(listRecive[n]) + 1
          /\ Len(listRecive[n]) \in Nat
          /\ listRecive[n] # <<>> => Len(listRecive[n]) # 0
      BY <2>1, AppendProperties, EmptySeq, LenProperties
    <3>2. reciveMutex'[n] = IF Len(listRecive'[n]) = 1 THEN t ELSE Free
      BY <1>5 DEF PushAccepted
    <3> QED
      BY <3>1, <3>2
  <2>5. listRecive[n] = <<>> => ~Scheduled(n)
    BY <2>1 DEF OnceInv, ScheduledHasMail
  <2>6. Exclusive'
    <3>1. /\ NoRepeats(listWaite')
          /\ \A w \in Workers : NoRepeats(listBusy'[w])
          /\ \A m \in Mailboxes, w \in Workers :
                ~(Contains(listWaite', m) /\ Contains(listBusy'[w], m))
      BY <1>2, <2>1 DEF OnceInv, Exclusive
    <3>2. \A m \in Mailboxes, w \in Workers :
             Popped(m, w)' =>
                /\ ~Contains(listWaite', m)
                /\ \A v \in Workers : /\ ~Contains(listBusy'[v], m)
                                      /\ Popped(m, v)' => v = w
      BY <1>1, <1>2, <2>1 DEF OnceInv, Exclusive
    <3>3. \A m \in Mailboxes : reciveMutex'[m] # Free =>
             /\ ~Contains(listWaite', m)
             /\ \A w \in Workers : ~Contains(listBusy'[w], m) /\ ~Popped(m, w)'
      BY <1>1, <1>2, <2>1, <2>2, <2>4, <2>5 DEF OnceInv, Exclusive, Scheduled
    <3> QED
      BY <3>1, <3>2, <3>3 DEF Exclusive
  <2>7. \A m \in Mailboxes : m # n => (Scheduled(m)' => Scheduled(m))
    BY <1>1, <1>2, <2>1, <2>2 DEF Scheduled
  <2> QED
    BY <1>2, <2>1, <2>2, <2>3, <2>6, <2>7 DEF OnceInv, ScheduledHasMail
<1> QED
  BY <1>3, <1>4, <1>5 DEF SendMsg

\* OnceInv is kept by every step.
LEMMA OnceStep == RuntimeInv /\ OnceInv /\ [Next]_vars => OnceInv'
<1> SUFFICES ASSUME RuntimeInv, OnceInv, [Next]_vars PROVE OnceInv'
  OBVIOUS
<1> USE DEF RuntimeInv, TypeOK, Goto, At, mailVars, threadVars, schedVars
<1>1. ASSUME NEW w \in Workers, InitThread(w) \/ Wake(w) PROVE OnceInv'
  BY <1>1, OnceQuiet
  DEF InitThread, StartThread, Wake, SpuriousWake, Popped, runtimeVars
<1>2. ASSUME NEW m \in Mailboxes,
             \/ RegisterActor(m) \/ DestructDerived(m) \/ UnRegisterWait(m)
             \/ UnRegisterReturn(m)
      PROVE  OnceInv'
  <2>1. UNCHANGED <<reciveMutex, listWaite, listBusy, pc, pBox>>
    BY <1>2 DEF RegisterActor, RegisterMailbox, DestructDerived,
       UnRegisterWait, UnRegisterLock, UnRegisterReturn, UnRegisterClear
  <2>2. \A n \in Mailboxes :
           /\ pActor'[n] /\ listRecive'[n] = <<>> =>
                 phase[n] = "unborn" \/ (pActor[n] /\ listRecive[n] = <<>>)
           /\ phase'[n] = "unborn" => phase[n] = "unborn"
    BY <1>2 DEF RegisterActor, RegisterMailbox, DestructDerived,
       UnRegisterWait, UnRegisterLock, UnRegisterReturn, UnRegisterClear
  <2> QED
    BY <2>1, <2>2, OnceQuiet DEF Popped
<1>3. CASE InitReturn \/ DestroyBegin \/ DestroyWake \/ DestroyJoin
  BY <1>3, OnceQuiet
  DEF InitReturn, DestroyBegin, DestroyStore, DestroyWake, DestroyNotify,
      Waiting, DestroyJoin, Popped
<1>4. CASE UNCHANGED vars
  BY <1>4, OnceQuiet DEF vars, runtimeVars, Popped
<1> QED
  BY <1>1, <1>2, <1>3, <1>4, OnceServe, OnceWork, OncePush DEF Next

-----------------------------------------------------------------------------
\* Two schedules of one mailbox are the same.
LEMMA TokensEqual ==
    ASSUME RuntimeInv, OnceInv, NEW m \in Mailboxes,
           NEW a \in Tokens(m), NEW b \in Tokens(m)
    PROVE  a = b
<1> USE DEF RuntimeInv, TypeOK
<1> DEFINE Push(x) == x = <<"push", reciveMutex[m]>> /\ reciveMutex[m] # Free
           List(x) == \E i \in 1 .. Len(listWaite) :
                         listWaite[i] = m /\ x = <<"list", i>>
           Busy(x) == \E w \in Workers : \E i \in 1 .. Len(listBusy[w]) :
                         listBusy[w][i] = m /\ x = <<"busy", w, i>>
           Took(x) == \E w \in Workers : Popped(m, w) /\ x = <<"popped", w>>
<1>1. /\ DOMAIN listWaite = 1 .. Len(listWaite)
      /\ \A w \in Workers : DOMAIN listBusy[w] = 1 .. Len(listBusy[w])
  BY LenProperties
<1>2. ASSUME NEW x \in Tokens(m)
      PROVE  Push(x) \/ List(x) \/ Busy(x) \/ Took(x)
  <2> DEFINE
        A == {<<"push", t>> : t \in {t \in Threads : reciveMutex[m] = t}}
        B == {<<"list", i>> :
                 i \in {i \in DOMAIN listWaite : listWaite[i] = m}}
        C == UNION {{<<"busy", w, i>> :
                        i \in {i \in DOMAIN listBusy[w] : listBusy[w][i] = m}} :
                    w \in Workers}
        D == {<<"popped", w>> : w \in {w \in Workers : Popped(m, w)}}
  <2>1. x \in A => Push(x)
    OBVIOUS
  <2>2. x \in B => List(x)
    BY <1>1
  <2>3. x \in C => Busy(x)
    BY <1>1
  <2>4. x \in D => Took(x)
    OBVIOUS
  <2>5. Tokens(m) = A \cup B \cup C \cup D
    BY DEF Tokens
  <2> HIDE DEF A, B, C, D
  <2> QED
    BY <2>1, <2>2, <2>3, <2>4, <2>5
<1>3. \A x : List(x) => Contains(listWaite, m)
  BY DEF Contains
<1>4. \A x : Busy(x) => \E w \in Workers : Contains(listBusy[w], m)
  BY DEF Contains
<1>5. List(a) /\ List(b) => a = b
  BY DEF OnceInv, Exclusive, NoRepeats
<1>6. Busy(a) /\ Busy(b) => a = b
  <2>1. \A v, w \in Workers :
           listBusy[v] # <<>> /\ listBusy[w] # <<>> => v = w
    BY DEF LockOwners
  <2>2. \A w \in Workers : listBusy[w] = <<>> => 1 .. Len(listBusy[w]) = {}
    BY EmptySeq
  <2> SUFFICES ASSUME NEW v \in Workers, NEW i \in 1 .. Len(listBusy[v]),
                      NEW w \in Workers, NEW j \in 1 .. Len(listBusy[w]),
                      listBusy[v][i] = m, listBusy[w][j] = m,
                      a = <<"busy", v, i>>, b = <<"busy", w, j>>
               PROVE  a = b
    OBVIOUS
  <2>3. v = w
    BY <2>1, <2>2
  <2>4. i = j
    BY <2>3 DEF OnceInv, Exclusive, NoRepeats
  <2> QED
    BY <2>3, <2>4
<1>7. Took(a) /\ Took(b) => a = b
  BY DEF OnceInv, Exclusive
<1>8. Push(a) /\ Push(b) => a = b
  OBVIOUS
<1>9. ASSUME NEW x, NEW y
      PROVE  /\ ~(Push(x) /\ (List(y) \/ Busy(y) \/ Took(y)))
             /\ ~(List(x) /\ (Busy(y) \/ Took(y)))
             /\ ~(Busy(x) /\ Took(y))
  BY <1>3, <1>4 DEF OnceInv, Exclusive
<1> HIDE DEF Push, List, Busy, Took
<1> QED
  BY <1>2, <1>5, <1>6, <1>7, <1>8, <1>9

(* A mailbox is scheduled at most once at a time: for every number of        *)
(* workers and messages, through throws and deletions, m_listWaite grows no *)
(* longer than the number of mailboxes, and no worker comes to Process for  *)
(* messages that another one has taken.                                     *)
THEOREM OnceCorrect == Spec => []ScheduledOnce
<1>1. RuntimeInv /\ OnceInv => ScheduledOnce
  <2> SUFFICES ASSUME RuntimeInv, OnceInv, NEW m \in Mailboxes
               PROVE  Cardinality(Tokens(m)) <= 1
    BY DEF ScheduledOnce
  <2>1. CASE Tokens(m) = {}
    BY <2>1, FS_EmptySet
  <2>2. ASSUME NEW a \in Tokens(m) PROVE Cardinality(Tokens(m)) <= 1
    <3>1. Tokens(m) = {a}
      BY TokensEqual
    <3>2. Cardinality({a}) = 1
      BY FS_Singleton
    <3>3. Cardinality(Tokens(m)) = 1
      BY <3>1, <3>2, Zenon
    <3> QED
      BY <3>3
  <2> QED
    BY <2>1, <2>2
<1> QED
  BY <1>1, OnceInit, OnceStep, Invariance, PTL DEF Spec

-----------------------------------------------------------------------------
(* HandledInOrder is StillInOrder without what is yet to be handled.        *)

\* A message pushed and handled after all others stays in order.
LEMMA SubsequenceAppend ==
    ASSUME NEW S, NEW s \in Seq(S), NEW t \in Seq(S), NEW x \in S,
           Subsequence(s, t)
    PROVE  /\ Subsequence(s, Append(t, x))
           /\ Subsequence(Append(s, x), Append(t, x))
<1>1. /\ Len(s) \in Nat /\ DOMAIN s = 1 .. Len(s)
      /\ Len(t) \in Nat /\ DOMAIN t = 1 .. Len(t)
  BY LenProperties
<1>2. /\ DOMAIN Append(t, x) = 1 .. Len(t) + 1
      /\ \A i \in 1 .. Len(t) : Append(t, x)[i] = t[i]
      /\ Append(t, x)[Len(t) + 1] = x
  BY AppendProperties, LenProperties
<1>3. /\ DOMAIN Append(s, x) = 1 .. Len(s) + 1
      /\ \A i \in 1 .. Len(s) : Append(s, x)[i] = s[i]
      /\ Append(s, x)[Len(s) + 1] = x
  BY AppendProperties, LenProperties
<1>4. PICK p \in [1 .. Len(s) -> 1 .. Len(t)] :
         /\ \A i, j \in 1 .. Len(s) : i < j => p[i] < p[j]
         /\ \A i \in 1 .. Len(s) : s[i] = t[p[i]]
  BY <1>1 DEF Subsequence
<1>5. Subsequence(s, Append(t, x))
  <2>1. /\ p \in [1 .. Len(s) -> 1 .. Len(t) + 1]
        /\ \A i \in 1 .. Len(s) : s[i] = Append(t, x)[p[i]]
    BY <1>1, <1>2, <1>4
  <2> QED
    BY <1>1, <1>2, <1>4, <2>1 DEF Subsequence
<1>6. Subsequence(Append(s, x), Append(t, x))
  <2> DEFINE q == [i \in 1 .. Len(s) + 1 |->
                      IF i <= Len(s) THEN p[i] ELSE Len(t) + 1]
  <2>1. q \in [1 .. Len(s) + 1 -> 1 .. Len(t) + 1]
    BY <1>1, <1>4
  <2>2. \A i, j \in 1 .. Len(s) + 1 : i < j => q[i] < q[j]
    <3> SUFFICES ASSUME NEW i \in 1 .. Len(s) + 1, NEW j \in 1 .. Len(s) + 1, i < j
                 PROVE  q[i] < q[j]
      OBVIOUS
    <3>0. i \in 1 .. Len(s)
      BY <1>1
    <3>1. q[i] = p[i] /\ p[i] \in 1 .. Len(t)
      BY <1>1, <1>4, <3>0
    <3>2. CASE j <= Len(s)
      BY <1>1, <1>4, <3>0, <3>1, <3>2
    <3>3. CASE j = Len(s) + 1
      BY <1>1, <3>1, <3>3
    <3> QED
      BY <1>1, <3>2, <3>3
  <2>3. \A i \in 1 .. Len(s) + 1 : Append(s, x)[i] = Append(t, x)[q[i]]
    <3> SUFFICES ASSUME NEW i \in 1 .. Len(s) + 1
                 PROVE  Append(s, x)[i] = Append(t, x)[q[i]]
      OBVIOUS
    <3>1. CASE i <= Len(s)
      <4>1. i \in 1 .. Len(s) /\ q[i] = p[i] /\ p[i] \in 1 .. Len(t)
        BY <1>1, <1>4, <3>1
      <4> HIDE DEF q
      <4> QED
        BY <1>2, <1>3, <1>4, <4>1
    <3>2. CASE i = Len(s) + 1
      BY <1>1, <1>2, <1>3, <3>2
    <3> QED
      BY <1>1, <3>1, <3>2
  <2> HIDE DEF q
  <2> QED
    BY <1>2, <1>3, <2>1, <2>2, <2>3 DEF Subsequence
<1> QED
  BY <1>5, <1>6

\* What is lost from the middle leaves the rest in order.
LEMMA SubsequenceDrop ==
    ASSUME NEW S, NEW s \in Seq(S), NEW u \in Seq(S), NEW v \in Seq(S),
           NEW t \in Seq(S), Subsequence(s \o u \o v, t)
    PROVE  Subsequence(s \o v, t)
<1> DEFINE a == Len(s)  b == Len(u)  c == Len(v)  l == s \o u \o v
<1>1. a \in Nat /\ b \in Nat /\ c \in Nat /\ s \o u \in Seq(S) /\ Len(s \o u) = a + b
  BY LenProperties, ConcatProperties
<1>2. /\ DOMAIN (s \o v) = 1 .. a + c
      /\ \A i \in 1 .. a + c : (s \o v)[i] = IF i <= a THEN s[i] ELSE v[i - a]
  BY <1>1, LenProperties, ConcatProperties
<1>3. \A i \in 1 .. a + b : (s \o u)[i] = IF i <= a THEN s[i] ELSE u[i - a]
  BY <1>1, ConcatProperties
<1>4. /\ DOMAIN l = 1 .. a + b + c
      /\ \A i \in 1 .. a + b + c : l[i] = IF i <= a + b THEN (s \o u)[i] ELSE v[i - (a + b)]
  BY <1>1, LenProperties, ConcatProperties
<1> HIDE DEF l
<1>5. PICK p \in [1 .. a + b + c -> DOMAIN t] :
         /\ \A i, j \in 1 .. a + b + c : i < j => p[i] < p[j]
         /\ \A i \in 1 .. a + b + c : l[i] = t[p[i]]
  BY <1>4 DEF Subsequence, l
<1> DEFINE k(i) == IF i <= a THEN i ELSE i + b
           q == [i \in 1 .. a + c |-> p[k(i)]]
<1> HIDE DEF a, b, c
<1>6. ASSUME NEW i \in 1 .. a + c PROVE k(i) \in 1 .. a + b + c /\ l[k(i)] = (s \o v)[i]
  <2>1. CASE i <= a
    <3>1. i \in 1 .. a + b /\ i \in 1 .. a + b + c /\ i <= a + b
      BY <1>1, <2>1
    <3>2. k(i) = i
      BY <2>1
    <3>3. l[i] = (s \o u)[i]
      BY <1>4, <3>1
    <3>4. (s \o u)[i] = s[i] /\ (s \o v)[i] = s[i]
      BY <1>2, <1>3, <2>1, <3>1
    <3> QED
      BY <3>1, <3>2, <3>3, <3>4
  <2>2. CASE i > a
    <3>1. k(i) = i + b /\ k(i) \in 1 .. a + b + c /\ ~(k(i) <= a + b)
      BY <1>1, <2>2
    <3>2. k(i) - (a + b) = i - a
      BY <1>1, <3>1
    <3>3. l[k(i)] = v[k(i) - (a + b)]
      BY <1>4, <3>1
    <3>4. (s \o v)[i] = v[i - a]
      <4>1. ~(i <= a)
        BY <1>1, <2>2
      <4> QED
        BY <1>2, <4>1
    <3> QED
      BY <3>1, <3>2, <3>3, <3>4
  <2>3. i <= a \/ i > a
    BY <1>1
  <2> QED
    BY <2>1, <2>2, <2>3
<1>7. ASSUME NEW i \in 1 .. a + c, NEW j \in 1 .. a + c, i < j PROVE k(i) < k(j)
  BY <1>1, <1>7
<1> HIDE DEF k
<1>8. /\ q \in [1 .. a + c -> DOMAIN t]
      /\ \A i, j \in 1 .. a + c : i < j => q[i] < q[j]
      /\ \A i \in 1 .. a + c : (s \o v)[i] = t[q[i]]
  BY <1>5, <1>6, <1>7
<1> QED
  BY <1>2, <1>8 DEF Subsequence

\* The same for either of the last two of three lists.
LEMMA SubsequenceFewer ==
    ASSUME NEW S, NEW s \in Seq(S), NEW u \in Seq(S), NEW v \in Seq(S),
           NEW t \in Seq(S), Subsequence(s \o u \o v, t),
           NEW x \in {u, <<>>}, NEW y \in {v, <<>>}
    PROVE  Subsequence(s \o x \o y, t)
<1> DEFINE e == <<>>
<1>1. /\ s \o u \in Seq(S) /\ s \o u \o v \in Seq(S) /\ e \in Seq(S)
      /\ s \o e = s /\ s \o u \o e = s \o u /\ s \o u \o v \o e = s \o u \o v
  <2>1. s \o u \in Seq(S)
    BY ConcatProperties
  <2>2. s \o u \o v \in Seq(S)
    BY <2>1, ConcatProperties
  <2> QED
    BY <2>1, <2>2, ConcatEmptySeq
<1> HIDE DEF e
<1>2. Subsequence(s \o u \o e, t)
  BY <1>1, SubsequenceDrop
<1>3. Subsequence(s \o v, t)
  BY SubsequenceDrop
<1>4. Subsequence(s \o e, t)
  BY <1>1, <1>2, SubsequenceDrop
<1>5. CASE x = u
  BY <1>1, <1>2, <1>5 DEF e
<1>6. CASE x = e
  BY <1>1, <1>3, <1>4, <1>6 DEF e
<1> QED
  BY <1>5, <1>6 DEF e
-----------------------------------------------------------------------------
(* StillInOrder is inductive on top of RuntimeInv and OnceInv.              *)

InPlace(m) == Subsequence(handled[m] \o ToHandle(m) \o Awaited(m), accepted[m])

\* What is yet to be handled follows from the worker that holds m_ActorMutex.
PartsOf(m) ==
    /\ ToHandle(m) \in Seq(Messages) /\ Awaited(m) \in Seq(Messages)
    /\ actorMutex[m] \notin Workers => ToHandle(m) = <<>>
    /\ \A w \in Workers : actorMutex[m] = w =>
          /\ pc[w] \in Processing
          /\ pc[w] = "swap" => ToHandle(m) = <<>>
          /\ pc[w] \in {"begin", "count", "next"} => ToHandle(m) = listHandle[m]
          /\ pc[w] = "handler" =>
                listHandle[m] # <<>> /\ ToHandle(m) = Tail(listHandle[m])

Parts == \A m \in Mailboxes : PartsOf(m)

\* ToHandle and Awaited in every state.
LEMMA PartsHold == RuntimeInv => Parts
<1> SUFFICES ASSUME RuntimeInv, NEW m \in Mailboxes
             PROVE  PartsOf(m)
  BY DEF Parts
<1> USE DEF RuntimeInv, TypeOK
<1>1. <<>> \in Seq(Messages)
  OBVIOUS
<1>2. ASSUME NEW w \in Workers, actorMutex[m] = w
      PROVE  /\ pc[w] \in Processing /\ pBox[w] = m
             /\ Begun(m) <=> pc[w] = "handler"
             /\ pc[w] = "handler" => listHandle[m] # <<>>
  BY <1>2 DEF LockOwners, HandlingState, Begun, InHandler, At, Processing
<1>3. Begun(m) => actorMutex[m] \in Workers /\ pc[actorMutex[m]] = "handler"
  BY DEF LockOwners, Begun, InHandler, At, Processing
<1>4. listHandle[m] \in Seq(Messages)
      /\ (listHandle[m] # <<>> => Tail(listHandle[m]) \in Seq(Messages))
  BY HeadTailProperties
<1>5. ToHandle(m) \in Seq(Messages) /\ Awaited(m) \in Seq(Messages)
  BY <1>1, <1>2, <1>3, <1>4 DEF ToHandle, HeldAt, NotBegun, Begun, Awaited
<1>6. actorMutex[m] \notin Workers => ToHandle(m) = <<>>
  BY DEF ToHandle, HeldAt
<1>7. ASSUME NEW w \in Workers, actorMutex[m] = w
      PROVE  /\ pc[w] = "swap" => ToHandle(m) = <<>>
             /\ pc[w] \in {"begin", "count", "next"} => ToHandle(m) = listHandle[m]
             /\ pc[w] = "handler" => ToHandle(m) = Tail(listHandle[m])
  BY <1>2, <1>7 DEF ToHandle, HeldAt, NotBegun, Begun
<1> QED
  BY <1>2, <1>5, <1>6, <1>7 DEF PartsOf

\* The same for the next state of a step.
LEMMA PartsNext == RuntimeInv' => Parts'
  BY PartsHold, PTL

\* Steps that give a mailbox no message and take none but what is dropped.
LEMMA StillQuiet ==
    ASSUME RuntimeInv, NEW m \in Mailboxes, InPlace(m),
           accepted'[m] = accepted[m], handled'[m] = handled[m],
           ToHandle(m)' \in {ToHandle(m), <<>>},
           Awaited(m)' \in {Awaited(m), <<>>}
    PROVE  InPlace(m)'
<1>1. /\ handled[m] \in Seq(Messages) /\ accepted[m] \in Seq(Messages)
      /\ ToHandle(m) \in Seq(Messages) /\ Awaited(m) \in Seq(Messages)
  BY PartsHold DEF Parts, PartsOf, RuntimeInv, TypeOK
<1>2. Subsequence(handled[m] \o ToHandle(m)' \o Awaited(m)', accepted[m])
  BY <1>1, SubsequenceFewer DEF InPlace
<1> QED
  BY <1>2 DEF InPlace

\* Steps outside the message loop of m.
LEMMA StillApart ==
    ASSUME RuntimeInv, RuntimeInv', NEW m \in Mailboxes, InPlace(m),
           accepted'[m] = accepted[m], handled'[m] = handled[m],
           listHandle'[m] = listHandle[m], listRecive'[m] \in {listRecive[m], <<>>},
           actorMutex'[m] = actorMutex[m] \/ actorMutex'[m] \notin Workers,
           \A w \in Workers : actorMutex[m] = w => pc'[w] = pc[w],
           Scheduled(m)' => Scheduled(m)
    PROVE  InPlace(m)'
<1>1. ToHandle(m)' \in {ToHandle(m), <<>>}
  <2>1. PartsOf(m) /\ PartsOf(m)'
    BY PartsHold, PartsNext DEF Parts
  <2>2. CASE actorMutex'[m] \notin Workers
    BY <2>1, <2>2 DEF PartsOf
  <2>3. CASE actorMutex'[m] = actorMutex[m] /\ actorMutex[m] \in Workers
    <3>1. PICK w \in Workers : actorMutex[m] = w /\ actorMutex'[m] = w /\ pc'[w] = pc[w]
      BY <2>3
    <3>2. pc[w] \in {"swap", "begin", "count", "next", "handler"}
      BY <2>1, <3>1 DEF PartsOf, Processing
    <3> QED
      BY <2>1, <3>1, <3>2 DEF PartsOf
  <2> QED
    BY <2>2, <2>3
<1>2. Awaited(m)' \in {Awaited(m), <<>>}
  BY DEF Awaited
<1> QED
  BY <1>1, <1>2, StillQuiet

\* Pop makes no schedule.
LEMMA ServeSchedules ==
    ASSUME RuntimeInv, NEW w \in Workers, Serve(w), NEW m \in Mailboxes, Scheduled(m)'
    PROVE  Scheduled(m)
<1> USE DEF RuntimeInv, TypeOK, Goto, At, mailVars, threadVars
<1>1. UNCHANGED reciveMutex
  BY DEF Serve, TestRuning, Pop, PopWait, PopLock, PopBusy, PopTake, PopNone, Splice
<1>2. listWaite # <<>> =>
         /\ Head(listWaite) \in Mailboxes /\ Tail(listWaite) \in Seq(Mailboxes)
         /\ Contains(listWaite, m) <=>
               m = Head(listWaite) \/ Contains(Tail(listWaite), m)
  BY HeadTailProperties, ContainsTail
<1>3. ~Contains(<<>>, m)
  BY EmptySeq DEF Contains
<1>4. \A v \in Workers :
         Popped(m, v)' => Popped(m, v) \/ (v = w /\ PopTake(w) /\ m = Head(listWaite))
  BY DEF Serve, TestRuning, Pop, PopWait, PopLock, PopBusy, PopTake, PopNone, Popped
<1>5. CASE TestRuning(w) \/ PopWait(w) \/ PopLock(w)
  <2>1. UNCHANGED <<listWaite, listBusy>> /\ ~PopTake(w)
    BY <1>5 DEF TestRuning, PopWait, PopLock, PopTake, schedVars
  <2> QED
    BY <1>1, <1>4, <2>1 DEF Scheduled
<1>6. CASE PopBusy(w)
  <2>1. /\ listWaite # <<>> /\ listWaite' = Tail(listWaite) /\ UNCHANGED <<pc, pBox>>
        /\ listBusy' = [listBusy EXCEPT ![w] = Append(listBusy[w], Head(listWaite))]
    BY <1>6 DEF PopBusy
  <2>2. Contains(Append(listBusy[w], Head(listWaite)), m) <=>
           Contains(listBusy[w], m) \/ m = Head(listWaite)
    <3> DEFINE h == Head(listWaite)
    <3>1. listBusy[w] \in Seq(Mailboxes) /\ h \in Mailboxes
      BY <1>2, <2>1
    <3> HIDE DEF h
    <3>2. Contains(Append(listBusy[w], h), m) <=> Contains(listBusy[w], m) \/ m = h
      BY <3>1, ContainsAppend
    <3> QED
      BY <3>2 DEF h
  <2>3. \A v \in Workers :
           Contains(listBusy'[v], m) => Contains(listBusy[v], m) \/ m = Head(listWaite)
    BY <2>1, <2>2
  <2>4. \A v \in Workers : Popped(m, v)' => Popped(m, v)
    BY <2>1 DEF Popped
  <2> QED
    BY <1>1, <1>2, <2>1, <2>3, <2>4 DEF Scheduled
<1>7. CASE PopTake(w) \/ PopNone(w)
  <2> DEFINE rest == IF PopTake(w) THEN Tail(listWaite) ELSE <<>>
  <2>1. /\ listWaite' = rest \o listBusy[w]
        /\ listBusy' = [listBusy EXCEPT ![w] = <<>>]
        /\ PopTake(w) => listWaite # <<>>
    BY <1>7 DEF PopTake, PopNone, Splice
  <2>2. rest \in Seq(Mailboxes) /\ (Contains(rest, m) => Contains(listWaite, m))
    BY <1>2, <1>3, <2>1
  <2> HIDE DEF rest
  <2>3. Contains(listWaite', m) => Contains(listWaite, m) \/ Contains(listBusy[w], m)
    BY <2>1, <2>2, ContainsConcat
  <2>4. \A v \in Workers : Contains(listBusy'[v], m) => Contains(listBusy[v], m)
    BY <1>3, <2>1
  <2>5. \A v \in Workers : Popped(m, v)' => Popped(m, v) \/ Contains(listWaite, m)
    BY <1>2, <1>4, <2>1
  <2> QED
    BY <1>1, <2>3, <2>4, <2>5 DEF Scheduled
<1> QED
  BY <1>5, <1>6, <1>7 DEF Serve, Pop

\* A worker in Process leaves the others where they are.
LEMMA OwnStep ==
    ASSUME RuntimeInv, NEW w \in Workers, Work(w) \/ Throw(w),
           NEW v \in Workers, v # w
    PROVE  pc'[v] = pc[v] /\ pBox'[v] = pBox[v]
<1> USE DEF RuntimeInv, TypeOK, Goto, At
<1>1. CASE \/ ProcessLock(w) \/ ProcessSwap(w) \/ ProcessBegin(w)
           \/ ProcessCount(w) \/ ProcessHandle(w) \/ ProcessPopFront(w)
  BY <1>1 DEF ProcessLock, ProcessSwap, ProcessBegin, ProcessCount, ProcessHandle,
     ProcessPopFront
<1>2. CASE ProcessNullActor(w)
  BY <1>2 DEF ProcessNullActor, threadVars
<1>3. CASE ProcessEnd(w) \/ Throw(w)
  BY <1>3 DEF ProcessEnd, Throw, ProcessThrow, ReturnFromProcess
<1> QED
  BY <1>1, <1>2, <1>3 DEF Work, Process

\* Process: the swap is the end of the only schedule, and what a throw leaves
\* in m_listHandle goes where no schedule leads to it.
LEMMA StillWork ==
    ASSUME RuntimeInv, RuntimeInv', OnceInv, NEW m \in Mailboxes, InPlace(m),
           NEW w \in Workers, pBox[w] = m, Work(w) \/ Throw(w)
    PROVE  InPlace(m)'
<1> USE DEF RuntimeInv, TypeOK, Goto, At
<1>1. UNCHANGED <<listWaite, listBusy, reciveMutex, accepted>>
  BY DEF Work, Throw, Process, ProcessLock, ProcessSwap, ProcessBegin,
         ProcessNullActor, ProcessCount, ProcessHandle, ProcessPopFront,
         ProcessEnd, ProcessThrow, ReturnFromProcess, schedVars
<1>2. \A v \in Workers : v # w => pc'[v] = pc[v] /\ pBox'[v] = pBox[v]
  BY OwnStep
<1>3. ASSUME pc[w] \in Processing PROVE actorMutex[m] = w
  BY <1>3 DEF LockOwners
<1>4. /\ handled[m] \in Seq(Messages) /\ listHandle[m] \in Seq(Messages)
      /\ listRecive[m] \in Seq(Messages) /\ <<>> \in Seq(Messages)
  OBVIOUS
<1>5. PartsOf(m) /\ PartsOf(m)'
  BY PartsHold, PartsNext DEF Parts
<1>6. CASE ProcessSwap(w)
  <2>1. /\ actorMutex[m] = w /\ actorMutex'[m] = w
        /\ pc[w] = "swap" /\ pc'[w] = "begin"
        /\ listHandle'[m] = listRecive[m] /\ handled'[m] = handled[m]
    BY <1>3, <1>6 DEF ProcessSwap, Processing
  <2>2. Popped(m, w) /\ ~Popped(m, w)'
    BY <2>1 DEF Popped
  <2>3. Scheduled(m)
    BY <2>2 DEF Scheduled
  <2>4. ~Scheduled(m)'
    <3>1. \A v \in Workers : ~Popped(m, v)'
      <4>1. \A v \in Workers : Popped(m, v) => v = w
        BY <2>2 DEF OnceInv, Exclusive
      <4>2. \A v \in Workers : v # w => (Popped(m, v)' <=> Popped(m, v))
        BY <1>2 DEF Popped
      <4> QED
        BY <2>2, <4>1, <4>2
    <3>2. /\ ~Contains(listWaite, m) /\ reciveMutex[m] = Free
          /\ \A v \in Workers : ~Contains(listBusy[v], m)
      BY <2>2 DEF OnceInv, Exclusive
    <3> QED
      BY <1>1, <3>1, <3>2 DEF Scheduled
  <2>5. ToHandle(m) = <<>> /\ ToHandle(m)' = listRecive[m]
    BY <2>1, <1>5 DEF PartsOf
  <2>6. Awaited(m) = listRecive[m] /\ Awaited(m)' = <<>>
    BY <2>3, <2>4 DEF Awaited
  <2>7. handled[m] \o <<>> = handled[m]
    BY <1>4, ConcatEmptySeq
  <2>8. handled[m] \o listRecive[m] \o <<>> = handled[m] \o listRecive[m]
    BY <1>4, ConcatEmptySeq, ConcatProperties
  <2> QED
    BY <1>1, <2>1, <2>5, <2>6, <2>7, <2>8 DEF InPlace
<1>7. CASE ~ProcessSwap(w)
  <2>1. listRecive'[m] = listRecive[m]
    BY <1>7 DEF Work, Throw, Process, ProcessLock, ProcessBegin,
         ProcessNullActor, ProcessCount, ProcessHandle, ProcessPopFront,
         ProcessEnd, ProcessThrow, ReturnFromProcess
  <2>2. Scheduled(m)' <=> Scheduled(m)
    <3>1. pc'[w] \in {"process", "swap"} /\ pBox'[w] = m
             <=> pc[w] \in {"process", "swap"}
      <4>1. CASE ProcessLock(w)
        BY <4>1 DEF ProcessLock
      <4>2. CASE \/ ProcessBegin(w) \/ ProcessNullActor(w) \/ ProcessCount(w)
                 \/ ProcessHandle(w) \/ ProcessPopFront(w)
        BY <4>2 DEF ProcessBegin, ProcessNullActor, ProcessCount, ProcessHandle,
           ProcessPopFront, threadVars
      <4>3. CASE ProcessEnd(w) \/ Throw(w)
        BY <4>3 DEF ProcessEnd, Throw, ProcessThrow, ReturnFromProcess
      <4> QED
        BY <1>7, <4>1, <4>2, <4>3 DEF Work, Process
    <3>2. \A v \in Workers : Popped(m, v)' <=> Popped(m, v)
      BY <1>2, <3>1 DEF Popped
    <3> QED
      BY <1>1, <3>2 DEF Scheduled
  <2>3. Awaited(m)' = Awaited(m)
    BY <2>1, <2>2 DEF Awaited
  <2>4. CASE ProcessHandle(w)
    <3>1. /\ actorMutex[m] = w /\ actorMutex'[m] = w
          /\ pc[w] = "next" /\ pc'[w] = "handler"
          /\ listHandle[m] # <<>> /\ listHandle'[m] = listHandle[m]
          /\ handled'[m] = Append(handled[m], Head(listHandle[m]))
      BY <1>3, <2>4 DEF ProcessHandle, Processing
    <3>2. ToHandle(m) = listHandle[m] /\ ToHandle(m)' = Tail(listHandle[m])
      BY <3>1, <1>5 DEF PartsOf
    <3>3. Append(handled[m], Head(listHandle[m])) \o Tail(listHandle[m])
             = handled[m] \o listHandle[m]
      <4> DEFINE u == handled[m]  v == listHandle[m]
      <4>1. u \in Seq(Messages) /\ v \in Seq(Messages) /\ v # <<>>
        BY <1>4, <3>1
      <4> HIDE DEF u, v, RuntimeInv, TypeOK
      <4>2. Append(u, Head(v)) \o Tail(v) = u \o v
        BY <4>1, MoveHead
      <4> QED
        BY <4>2 DEF u, v
    <3> QED
      BY <1>1, <2>3, <3>1, <3>2, <3>3 DEF InPlace
  <2>5. CASE ProcessPopFront(w)
    <3>1. /\ actorMutex[m] = w /\ actorMutex'[m] = w
          /\ pc[w] = "handler" /\ pc'[w] = "next"
          /\ listHandle'[m] = Tail(listHandle[m]) /\ handled'[m] = handled[m]
      BY <1>3, <2>5 DEF ProcessPopFront, Processing
    <3>2. ToHandle(m)' = ToHandle(m)
      BY <3>1, <1>5 DEF PartsOf
    <3> QED
      BY <1>1, <2>3, <3>1, <3>2, StillQuiet
  <2>6. CASE Throw(w) \/ ProcessEnd(w)
    <3>1. actorMutex'[m] = Free /\ handled'[m] = handled[m]
      BY <2>6 DEF Throw, ProcessThrow, ProcessEnd, ReturnFromProcess
    <3>2. ToHandle(m)' = <<>>
      BY <3>1, <1>5 DEF PartsOf
    <3> QED
      BY <1>1, <2>3, <3>1, <3>2, StillQuiet
  <2>7. CASE ProcessLock(w)
    <3>1. /\ actorMutex[m] = Free /\ actorMutex'[m] = w /\ pc'[w] = "swap"
          /\ handled'[m] = handled[m]
      BY <2>7 DEF ProcessLock
    <3>2. ToHandle(m)' = <<>>
      BY <3>1, <1>5 DEF PartsOf
    <3> QED
      BY <1>1, <2>3, <3>1, <3>2, StillQuiet
  <2>8. CASE ProcessBegin(w) \/ ProcessNullActor(w) \/ ProcessCount(w)
    <3>1. /\ actorMutex[m] = w /\ actorMutex'[m] = w
          /\ pc[w] \in {"begin", "count"} /\ pc'[w] \in {"begin", "count", "next"}
          /\ listHandle'[m] = listHandle[m] /\ handled'[m] = handled[m]
      BY <1>3, <2>8 DEF ProcessBegin, ProcessNullActor, ProcessCount, Processing, threadVars
    <3>2. ToHandle(m)' = ToHandle(m)
      BY <3>1, <1>5 DEF PartsOf
    <3> QED
      BY <1>1, <2>3, <3>1, <3>2, StillQuiet
  <2> QED
    BY <1>7, <2>4, <2>5, <2>6, <2>7, <2>8 DEF Work, Process
<1> QED
  BY <1>6, <1>7

\* A worker's step on its own mailbox leaves the others as they are.
LEMMA StillElsewhere ==
    ASSUME RuntimeInv, RuntimeInv', NEW m \in Mailboxes, InPlace(m),
           NEW w \in Workers, pBox[w] # m, Work(w) \/ Throw(w)
    PROVE  InPlace(m)'
<1> USE DEF RuntimeInv, TypeOK, Goto, At, threadVars
<1>1. /\ UNCHANGED <<accepted, listWaite, listBusy, reciveMutex>>
      /\ handled'[m] = handled[m]
  BY DEF Work, Throw, Process, ProcessLock, ProcessSwap, ProcessBegin,
         ProcessNullActor, ProcessCount, ProcessHandle, ProcessPopFront,
         ProcessEnd, ProcessThrow, ReturnFromProcess, schedVars
<1>2. /\ listHandle'[m] = listHandle[m] /\ listRecive'[m] = listRecive[m]
      /\ actorMutex'[m] = actorMutex[m]
  BY DEF Work, Throw, Process, ProcessLock, ProcessSwap, ProcessBegin,
         ProcessNullActor, ProcessCount, ProcessHandle, ProcessPopFront,
         ProcessEnd, ProcessThrow, ReturnFromProcess
<1>3. \A v \in Workers : v # w => pc'[v] = pc[v] /\ pBox'[v] = pBox[v]
  BY OwnStep
<1>4. pBox'[w] # m
  BY DEF Work, Throw, Process, ProcessLock, ProcessSwap, ProcessBegin,
         ProcessNullActor, ProcessCount, ProcessHandle, ProcessPopFront,
         ProcessEnd, ProcessThrow, ReturnFromProcess
<1>5. \A v \in Workers : actorMutex[m] = v => v # w
  BY DEF LockOwners
<1>6. Scheduled(m)' => Scheduled(m)
  BY <1>1, <1>3, <1>4 DEF Scheduled, Popped
<1> QED
  BY <1>1, <1>2, <1>3, <1>5, <1>6, StillApart

\* PushMsg puts the message behind those that are scheduled, or with those
\* that are not.
LEMMA StillPush ==
    ASSUME RuntimeInv, RuntimeInv', NEW m \in Mailboxes, InPlace(m),
           NEW t \in Workers \cup Senders, NEW x \in Messages,
           PushAccepted(t, m, x), UNCHANGED schedVars
    PROVE  InPlace(m)'
<1> USE DEF RuntimeInv, TypeOK
<1>1. /\ accepted'[m] = Append(accepted[m], x)
      /\ listRecive'[m] = Append(listRecive[m], x)
      /\ reciveMutex'[m] = IF Len(listRecive'[m]) = 1 THEN t ELSE Free
      /\ UNCHANGED <<handled, listHandle, actorMutex, pc, pBox, listWaite, listBusy>>
  BY DEF PushAccepted, threadVars, schedVars
<1>2. ToHandle(m)' = ToHandle(m)
  BY <1>1 DEF ToHandle, HeldAt, NotBegun, InHandler, At
<1>3. /\ ToHandle(m) \in Seq(Messages) /\ Awaited(m) \in Seq(Messages)
      /\ handled[m] \in Seq(Messages) /\ accepted[m] \in Seq(Messages)
      /\ listRecive[m] \in Seq(Messages)
  BY PartsHold DEF Parts, PartsOf
<1>4. handled[m] \o ToHandle(m) \in Seq(Messages)
  BY <1>3, ConcatProperties
<1>5. handled[m] \o ToHandle(m) \o Awaited(m) \in Seq(Messages)
  BY <1>3, <1>4, ConcatProperties
<1> DEFINE old == handled[m] \o ToHandle(m) \o Awaited(m)
<1>6. /\ Subsequence(old, Append(accepted[m], x))
      /\ Subsequence(Append(old, x), Append(accepted[m], x))
  BY <1>3, <1>5, SubsequenceAppend DEF InPlace
<1>7. CASE Scheduled(m)'
  <2>1. Scheduled(m) \/ listRecive[m] = <<>>
    <3>1. CASE reciveMutex'[m] = Free
      BY <1>1, <1>7, <3>1 DEF Scheduled, Popped
    <3>2. CASE reciveMutex'[m] # Free
      <4>1. Len(Append(listRecive[m], x)) = 1
        BY <1>1, <3>2
      <4>2. Len(listRecive[m]) = 0
        BY <1>3, <4>1, AppendProperties, LenProperties
      <4> QED
        BY <1>3, <4>2, EmptySeq
    <3> QED
      BY <3>1, <3>2
  <2>2. Awaited(m) = listRecive[m] /\ Awaited(m)' = Append(listRecive[m], x)
    BY <1>1, <1>7, <2>1 DEF Awaited
  <2>3. handled[m] \o ToHandle(m) \o Append(Awaited(m), x) = Append(old, x)
    <3> DEFINE h == handled[m] \o ToHandle(m)
               v == Awaited(m)
    <3>1. h \in Seq(Messages) /\ v \in Seq(Messages)
      BY <1>3, <1>4
    <3> HIDE DEF h, v, RuntimeInv, TypeOK
    <3>2. h \o Append(v, x) = Append(h \o v, x)
      BY <3>1, AppendConcat
    <3> QED
      BY <3>2 DEF h, v
  <2>4. handled'[m] \o ToHandle(m)' \o Awaited(m)' = Append(old, x)
    BY <1>1, <1>2, <2>2, <2>3
  <2> QED
    BY <1>1, <1>6, <2>4 DEF InPlace
<1>8. CASE ~Scheduled(m)'
  <2>1. Awaited(m)' = <<>>
    BY <1>8 DEF Awaited
  <2>2. Append(accepted[m], x) \in Seq(Messages)
    BY <1>3, AppendProperties
  <2>3. Subsequence(handled[m] \o ToHandle(m) \o <<>>, Append(accepted[m], x))
    BY <1>3, <1>6, <2>2, SubsequenceFewer
  <2> QED
    BY <1>1, <1>2, <2>1, <2>3 DEF InPlace
<1> QED
  BY <1>7, <1>8

\* Steps that leave all mailboxes and all schedules as they are.
LEMMA StillIdle ==
    ASSUME RuntimeInv, RuntimeInv', NEW m \in Mailboxes, InPlace(m),
           UNCHANGED <<accepted, handled, listHandle, listRecive, actorMutex>>,
           \A w \in Workers : pc[w] \in Processing => pc'[w] = pc[w],
           Scheduled(m)' => Scheduled(m)
    PROVE  InPlace(m)'
<1>1. \A w \in Workers : actorMutex[m] = w => pc'[w] = pc[w]
  BY DEF RuntimeInv, LockOwners
<1> QED
  BY <1>1, StillApart

\* StillInOrder is kept by every step.
LEMMA StillStep ==
    RuntimeInv /\ RuntimeInv' /\ OnceInv /\ StillInOrder /\ [Next]_vars => StillInOrder'
<1> SUFFICES ASSUME RuntimeInv, RuntimeInv', OnceInv, StillInOrder, [Next]_vars,
                    NEW m \in Mailboxes
             PROVE  InPlace(m)'
  BY DEF StillInOrder, InPlace
<1>0. InPlace(m)
  BY DEF StillInOrder, InPlace
<1> USE DEF RuntimeInv, TypeOK, Goto, At, mailVars, threadVars, schedVars
<1>1. ASSUME NEW w \in Workers, Work(w) \/ Throw(w) PROVE InPlace(m)'
  BY <1>0, <1>1, StillWork, StillElsewhere
<1>2. ASSUME NEW w \in Workers, Serve(w) PROVE InPlace(m)'
  <2>1. /\ UNCHANGED mailVars
        /\ \A v \in Workers : pc[v] \in Processing => pc'[v] = pc[v]
    BY <1>2 DEF Serve, TestRuning, Pop, PopWait, PopLock, PopBusy, PopTake,
       PopNone, Splice, Processing
  <2>2. Scheduled(m)' => Scheduled(m)
    BY <1>2, ServeSchedules
  <2> QED
    BY <1>0, <2>1, <2>2, StillIdle
<1>3. ASSUME NEW w \in Workers, InitThread(w) \/ Wake(w) PROVE InPlace(m)'
  <2>1. /\ UNCHANGED <<mailVars, listWaite, listBusy>>
        /\ \A v \in Workers : pc[v] \in Processing => pc'[v] = pc[v]
        /\ \A v \in Workers : Popped(m, v)' => Popped(m, v)
    BY <1>3 DEF InitThread, StartThread, Wake, SpuriousWake, Processing, Popped
  <2>2. Scheduled(m)' => Scheduled(m)
    BY <2>1 DEF Scheduled
  <2> QED
    BY <1>0, <2>1, <2>2, StillIdle
<1>4. ASSUME NEW t \in Workers \cup Senders, NEW n \in Mailboxes,
             ScheduleStep(t, n)
      PROVE  InPlace(m)'
  <2>1. /\ UNCHANGED <<accepted, handled, listHandle, listRecive, actorMutex, listBusy, pBox>>
        /\ \A v \in Workers : pc'[v] = pc[v] \/ (pc[v] = "wait" /\ pc'[v] = "woken")
    BY <1>4 DEF ScheduleStep, Schedule, PushReturn, NotifyOne, Waiting
  <2>2. /\ reciveMutex[n] # Free
        /\ reciveMutex'[m] # Free => reciveMutex[m] # Free
        /\ listWaite' = Append(listWaite, n)
    BY <1>4 DEF ScheduleStep, Schedule, PushReturn
  <2>3. Contains(listWaite', m) <=> Contains(listWaite, m) \/ m = n
    BY <2>2, ContainsAppend
  <2>4. Scheduled(m)' => Scheduled(m)
    BY <2>1, <2>2, <2>3 DEF Scheduled, Popped
  <2>5. \A v \in Workers : pc[v] \in Processing => pc'[v] = pc[v]
    BY <2>1 DEF Processing
  <2> QED
    BY <1>0, <2>1, <2>4, <2>5, StillIdle
<1>5. ASSUME NEW t \in Workers \cup Senders, NEW n \in Mailboxes,
             NEW x \in Messages, SendMsg(t, n, x)
      PROVE  InPlace(m)'
  <2>1. UNCHANGED schedVars
    BY <1>5 DEF SendMsg
  <2>2. CASE PushAccepted(t, n, x) /\ n = m
    BY <1>0, <2>1, <2>2, StillPush
  <2>3. CASE PushAccepted(t, n, x) /\ n # m
    <3>1. /\ accepted'[m] = accepted[m] /\ handled'[m] = handled[m]
          /\ listHandle'[m] = listHandle[m] /\ listRecive'[m] = listRecive[m]
          /\ actorMutex'[m] = actorMutex[m] /\ reciveMutex'[m] = reciveMutex[m]
          /\ UNCHANGED <<pc, pBox>>
      BY <2>3 DEF PushAccepted
    <3>2. Scheduled(m)' => Scheduled(m)
      BY <2>1, <3>1 DEF Scheduled, Popped
    <3> QED
      BY <1>0, <3>1, <3>2, StillApart
  <2>4. CASE PushRefused(n)
    <3>1. UNCHANGED <<mailVars, threadVars>>
      BY <2>4 DEF PushRefused
    <3>2. Scheduled(m)' => Scheduled(m)
      BY <2>1, <3>1 DEF Scheduled, Popped
    <3> QED
      BY <1>0, <3>1, <3>2, StillIdle
  <2> QED
    BY <1>5, <2>2, <2>3, <2>4 DEF SendMsg
<1>6. ASSUME NEW n \in Mailboxes,
             \/ RegisterActor(n) \/ DestructDerived(n)
             \/ UnRegisterWait(n) \/ UnRegisterReturn(n)
      PROVE  InPlace(m)'
  <2>1. UNCHANGED <<accepted, handled, listHandle, reciveMutex, pc, pBox, listWaite, listBusy>>
    BY <1>6 DEF RegisterActor, RegisterMailbox, DestructDerived,
       UnRegisterWait, UnRegisterLock, UnRegisterReturn, UnRegisterClear
  <2>2. /\ listRecive'[m] \in {listRecive[m], <<>>}
        /\ actorMutex'[m] = actorMutex[m] \/ actorMutex'[m] \notin Workers
    BY <1>6 DEF RegisterActor, RegisterMailbox, DestructDerived,
       UnRegisterWait, UnRegisterLock, UnRegisterReturn, UnRegisterClear
  <2>3. Scheduled(m)' => Scheduled(m)
    BY <2>1 DEF Scheduled, Popped
  <2> QED
    BY <1>0, <2>1, <2>2, <2>3, StillApart
<1>7. CASE InitReturn \/ DestroyBegin \/ DestroyJoin \/ UNCHANGED vars
  <2>1. UNCHANGED <<mailVars, listWaite, listBusy, pc, pBox>>
    BY <1>7 DEF InitReturn, DestroyBegin, DestroyStore, DestroyJoin, vars
  <2>2. Scheduled(m)' => Scheduled(m)
    BY <2>1 DEF Scheduled, Popped
  <2> QED
    BY <1>0, <2>1, <2>2, StillIdle
<1>8. CASE DestroyWake
  <2>1. /\ UNCHANGED <<mailVars, listWaite, listBusy, pBox>>
        /\ \A v \in Workers : pc'[v] = pc[v] \/ (pc[v] = "wait" /\ pc'[v] = "woken")
    BY <1>8 DEF DestroyWake, DestroyNotify, Waiting
  <2>2. \A v \in Workers : pc[v] \in Processing => pc'[v] = pc[v]
    BY <2>1 DEF Processing
  <2>3. Scheduled(m)' => Scheduled(m)
    BY <2>1 DEF Scheduled, Popped
  <2> QED
    BY <1>0, <2>1, <2>2, <2>3, StillIdle
<1> QED
  BY <1>1, <1>2, <1>3, <1>4, <1>5, <1>6, <1>7, <1>8 DEF Next

(* An actor handles its messages in the order they were accepted and none of *)
(* them twice, whatever its handlers throw: what a throw leaves behind goes *)
(* through the swap into a list that nothing schedules any more.            *)
THEOREM HandledCorrect == Spec => []HandledInOrder
<1>1. Init => StillInOrder
  <2> SUFFICES ASSUME Init, NEW m \in Mailboxes
               PROVE  Subsequence(handled[m] \o ToHandle(m) \o Awaited(m), accepted[m])
    BY DEF StillInOrder
  <2>1. /\ handled[m] = <<>> /\ accepted[m] = <<>> /\ listRecive[m] = <<>>
        /\ actorMutex[m] = Free
    BY DEF Init, MailboxInit
  <2>2. ToHandle(m) = <<>> /\ Awaited(m) = <<>>
    BY <2>1 DEF ToHandle, HeldAt, Awaited
  <2>3. handled[m] \o ToHandle(m) \o Awaited(m) = <<>>
    BY <2>1, <2>2
  <2>4. Subsequence(<<>>, <<>>)
    <3> DEFINE e == <<>>
               p == [i \in DOMAIN e |-> i]
    <3>1. DOMAIN e = {}
      BY EmptySeq
    <3> HIDE DEF e
    <3>2. p \in [DOMAIN e -> DOMAIN e]
      OBVIOUS
    <3>3. Subsequence(e, e)
      BY <3>1, <3>2 DEF Subsequence
    <3> QED
      BY <3>3 DEF e
  <2> QED
    BY <2>1, <2>3, <2>4
<1>2. RuntimeInv /\ StillInOrder => HandledInOrder
  <2> SUFFICES ASSUME RuntimeInv, StillInOrder, NEW m \in Mailboxes
               PROVE  Subsequence(handled[m], accepted[m])
    BY DEF HandledInOrder
  <2>1. /\ handled[m] \in Seq(Messages) /\ accepted[m] \in Seq(Messages)
        /\ ToHandle(m) \in Seq(Messages) /\ Awaited(m) \in Seq(Messages)
    BY PartsHold DEF Parts, PartsOf, RuntimeInv, TypeOK
  <2>2. Subsequence(handled[m] \o <<>> \o <<>>, accepted[m])
    BY <2>1, SubsequenceFewer DEF StillInOrder
  <2>3. handled[m] \o <<>> = handled[m]
    BY <2>1, ConcatEmptySeq
  <2> QED
    BY <2>2, <2>3
<1> QED
  BY <1>1, <1>2, OnceInit, OnceStep, StillStep, Invariance, PTL DEF Spec
=============================================================================
