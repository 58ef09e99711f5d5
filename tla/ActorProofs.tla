----------------------------- MODULE ActorProofs -----------------------------
(***************************************************************************)
(* Proofs about the actor runtime, for any finite set of workers and any    *)
(* senders, mailboxes and messages, with handlers that throw, actors that   *)
(* are deleted and a scheduler that is shut down.                           *)
(***************************************************************************)
EXTENDS ActorProperties, SequenceTheorems, TLAPS

USE MailboxAssumption DEF MailboxAssumption, Threads

\* Types: the constructors of Mailbox, SchedulerSemaphore and Framework.
LEMMA TypeInit == Init => TypeOK
<1> SUFFICES ASSUME Init PROVE TypeOK
  OBVIOUS
<1>1. iMaxThreadNum \in Nat
  BY SchedulerAssumption DEF SchedulerAssumption, Init, SchedulerInit
<1>2. /\ <<>> \in Seq(Messages)
      /\ <<>> \in Seq(Mailboxes)
  OBVIOUS
<1>3. /\ pActor \in [Mailboxes -> BOOLEAN]
      /\ reciveMutex \in [Mailboxes -> Threads \cup {Free}]
      /\ listRecive \in [Mailboxes -> Seq(Messages)]
      /\ actorMutex \in [Mailboxes -> Threads \cup {Free}]
  BY <1>2 DEF Init, MailboxInit
<1>4. /\ listHandle \in [Mailboxes -> Seq(Messages)]
      /\ nUnHanle \in [Mailboxes -> Nat]
  BY <1>2 DEF Init, MailboxInit
<1>5. /\ accepted \in [Mailboxes -> Seq(Messages)]
      /\ handled \in [Mailboxes -> Seq(Messages)]
      /\ faulted \in [Mailboxes -> BOOLEAN]
      /\ inLoop \in [Mailboxes -> BOOLEAN]
      /\ crashed \in BOOLEAN
  BY <1>2 DEF Init, MailboxInit
<1>6. /\ pc \in [Workers -> {"unborn"}]
      /\ pBox \in [Workers -> Mailboxes \cup {NoBox}]
      /\ bRuning \in BOOLEAN
      /\ listWaite \in Seq(Mailboxes)
      /\ schedMutex \in Workers \cup {Free}
      /\ listBusy \in [Workers -> Seq(Mailboxes)]
  BY <1>2 DEF Init, SchedulerInit
<1>7. /\ phase \in [Mailboxes -> Phases]
      /\ mainPc \in {"init", "idle", "notify", "join", "destroyed"}
      /\ sent \subseteq Messages
  BY DEF Init, Phases
<1> QED
  BY <1>1, <1>3, <1>4, <1>5, <1>6, <1>7 DEF TypeOK

\* Types: every step; Process decrements m_nUnHanle only when it is positive.
LEMMA TypeStep ==
    TypeOK /\ LockOwners /\ HandlingState /\ [Next]_vars => TypeOK'
<1> SUFFICES ASSUME TypeOK, LockOwners, HandlingState, [Next]_vars
             PROVE  TypeOK'
  OBVIOUS
<1> USE DEF TypeOK, Goto, mailVars, threadVars, schedVars, runtimeVars
<1>1. ASSUME NEW w \in Workers, InitThread(w) PROVE TypeOK'
  BY <1>1 DEF InitThread, StartThread
<1>2. ASSUME NEW w \in Workers, Serve(w) PROVE TypeOK'
  <2>1. CASE TestRuning(w)
    BY <1>2, <2>1 DEF Serve, TestRuning
  <2>2. CASE PopWait(w)
    BY <1>2, <2>2 DEF Serve, PopWait
  <2>3. CASE PopLock(w)
    BY <1>2, <2>3 DEF Serve, PopLock
  <2>4. CASE PopBusy(w)
    <3>1. Head(listWaite) \in Mailboxes /\ Tail(listWaite) \in Seq(Mailboxes)
      BY <2>4, HeadTailProperties DEF PopBusy
    <3>2. listBusy' \in [Workers -> Seq(Mailboxes)]
      BY <2>4, <3>1 DEF PopBusy
    <3> QED
      BY <1>2, <2>4, <3>1, <3>2 DEF Serve, PopBusy
  <2>5. CASE PopTake(w)
    <3>1. Head(listWaite) \in Mailboxes /\ Tail(listWaite) \in Seq(Mailboxes)
      BY <2>5, HeadTailProperties DEF PopTake
    <3>2. listWaite' \in Seq(Mailboxes)
      BY <2>5, <3>1 DEF PopTake, Splice
    <3>3. /\ pBox' \in [Workers -> Mailboxes \cup {NoBox}]
          /\ listBusy' \in [Workers -> Seq(Mailboxes)]
      BY <2>5, <3>1 DEF PopTake, Splice
    <3> QED
      BY <1>2, <2>5, <3>2, <3>3 DEF Serve, PopTake, Splice
  <2>6. CASE PopNone(w)
    BY <1>2, <2>6 DEF Serve, PopNone, Splice
  <2> QED
    BY <1>2, <2>1, <2>2, <2>3, <2>4, <2>5, <2>6 DEF Serve, Pop
<1>3. ASSUME NEW w \in Workers, Work(w) PROVE TypeOK'
  <2> USE DEF Processing
  <2>1. CASE ProcessLock(w)
    BY <1>3, <2>1 DEF Work, ProcessLock
  <2>2. CASE ProcessSwap(w)
    BY <1>3, <2>2 DEF Work, ProcessSwap
  <2>3. CASE ProcessBegin(w)
    BY <1>3, <2>3 DEF Work, ProcessBegin
  <2>4. CASE ProcessNullActor(w)
    BY <1>3, <2>4 DEF Work, ProcessNullActor
  <2>5. CASE ProcessCount(w)
    <3>1. \A m \in Mailboxes : Len(listHandle[m]) \in Nat
      OBVIOUS
    <3>2. nUnHanle' \in [Mailboxes -> Nat]
      BY <2>5, <3>1 DEF ProcessCount
    <3> QED
      BY <1>3, <2>5, <3>2 DEF Work, ProcessCount
  <2>6. CASE ProcessHandle(w)
    <3> DEFINE m == pBox[w]
    <3>1. m \in Mailboxes /\ Head(listHandle[m]) \in Messages
      BY <2>6, HeadTailProperties DEF ProcessHandle, At, LockOwners
    <3>2. handled' \in [Mailboxes -> Seq(Messages)]
      BY <2>6, <3>1 DEF ProcessHandle
    <3>3. pc' \in [Workers -> {"handler"} \cup {pc[v] : v \in Workers}]
      BY <2>6 DEF ProcessHandle
    <3> QED
      BY <1>3, <2>6, <3>2, <3>3 DEF Work, ProcessHandle
  <2>7. CASE ProcessPopFront(w)
    <3> DEFINE m == pBox[w]
    <3>1. /\ m \in Mailboxes /\ listHandle[m] # <<>>
          /\ nUnHanle[m] = Len(listHandle[m])
      BY <2>7 DEF ProcessPopFront, At, LockOwners, HandlingState
    <3>2. Tail(listHandle[m]) \in Seq(Messages) /\ nUnHanle[m] - 1 \in Nat
      BY <3>1, HeadTailProperties, EmptySeq
    <3>3. /\ listHandle' \in [Mailboxes -> Seq(Messages)]
          /\ nUnHanle' \in [Mailboxes -> Nat]
      BY <2>7, <3>1, <3>2 DEF ProcessPopFront
    <3> QED
      BY <1>3, <2>7, <3>3 DEF Work, ProcessPopFront
  <2>8. CASE ProcessEnd(w)
    BY <1>3, <2>8 DEF Work, ProcessEnd, ReturnFromProcess
  <2> QED
    BY <1>3, <2>1, <2>2, <2>3, <2>4, <2>5, <2>6, <2>7, <2>8
    DEF Work, Process
<1>4. ASSUME NEW w \in Workers, Throw(w) PROVE TypeOK'
  BY <1>4 DEF Throw, ProcessThrow, ReturnFromProcess
<1>5. ASSUME NEW w \in Workers, Wake(w) PROVE TypeOK'
  BY <1>5 DEF Wake, SpuriousWake
<1>6. ASSUME NEW t \in Workers \cup Senders, NEW m \in Mailboxes,
             ScheduleStep(t, m)
      PROVE  TypeOK'
  <2>1. pc' \in [Workers -> {"unborn", "loop", "pop", "wait", "woken", "scan",
                             "process", "exited"} \cup Processing]
    BY <1>6 DEF ScheduleStep, Schedule, NotifyOne
  <2> QED
    BY <1>6, <2>1 DEF ScheduleStep, Schedule, PushReturn
<1>7. ASSUME NEW t \in Workers \cup Senders, NEW m \in Mailboxes,
             NEW x \in Messages, SendMsg(t, m, x)
      PROVE  TypeOK'
  <2>1. CASE PushRefused(m)
    BY <1>7, <2>1 DEF SendMsg, PushRefused
  <2>2. CASE PushAccepted(t, m, x)
    BY <1>7, <2>2 DEF SendMsg, PushAccepted
  <2> QED
    BY <1>7, <2>1, <2>2 DEF SendMsg
<1>8. ASSUME NEW m \in Mailboxes, RegisterActor(m) PROVE TypeOK'
  BY <1>8 DEF RegisterActor, RegisterMailbox, Phases
<1>9. ASSUME NEW m \in Mailboxes, DestructDerived(m) PROVE TypeOK'
  BY <1>9 DEF DestructDerived, Phases
<1>10. ASSUME NEW m \in Mailboxes, UnRegisterWait(m) PROVE TypeOK'
  BY <1>10 DEF UnRegisterWait, UnRegisterLock, Phases
<1>11. ASSUME NEW m \in Mailboxes, UnRegisterReturn(m) PROVE TypeOK'
  BY <1>11 DEF UnRegisterReturn, UnRegisterClear, Phases
<1>12. CASE InitReturn
  BY <1>12 DEF InitReturn
<1>13. CASE DestroyBegin
  BY <1>13 DEF DestroyBegin, DestroyStore
<1>14. CASE DestroyWake
  BY <1>14 DEF DestroyWake, DestroyNotify
<1>15. CASE DestroyJoin
  BY <1>15 DEF DestroyJoin
<1>16. CASE UNCHANGED vars
  BY <1>16 DEF vars
<1> QED
  BY <1>1, <1>2, <1>3, <1>4, <1>5, <1>6, <1>7, <1>8, <1>9, <1>10, <1>11,
     <1>12, <1>13, <1>14, <1>15, <1>16 DEF Next

\* No thread holds a mutex before Init has started one.
LEMMA LockInit == Init => LockOwners
  BY DEF Init, MailboxInit, SchedulerInit, LockOwners, Processing

\* The std::unique_lock scopes of Process, Pop, PushMsg and UnRegisterActor.
LEMMA LockStep == TypeOK /\ LockOwners /\ [Next]_vars => LockOwners'
<1> SUFFICES ASSUME TypeOK, LockOwners, [Next]_vars
             PROVE  LockOwners'
  OBVIOUS
<1> USE DEF TypeOK, LockOwners, Goto, At, mailVars, threadVars, schedVars,
            runtimeVars, Processing
<1>1. ASSUME NEW w \in Workers, InitThread(w) PROVE LockOwners'
  BY <1>1 DEF InitThread, StartThread
<1>2. ASSUME NEW w \in Workers, Serve(w) PROVE LockOwners'
  <2>1. CASE TestRuning(w)
    BY <1>2, <2>1 DEF Serve, TestRuning
  <2>2. CASE PopWait(w)
    BY <1>2, <2>2 DEF Serve, PopWait
  <2>3. CASE PopLock(w)
    <3>1. /\ pc[w] \in {"woken", "pop"}
          /\ pc' = [pc EXCEPT ![w] = "scan"]
          /\ schedMutex = Free /\ schedMutex' = w
          /\ UNCHANGED <<actorMutex, pBox, phase, reciveMutex, listBusy>>
      BY <1>2, <2>3 DEF Serve, PopLock
    <3>2. \A v \in Workers : schedMutex' = v <=> pc'[v] = "scan"
      BY <3>1
    <3>3. \A v \in Workers :
             v # w => pc'[v] = pc[v]
      BY <3>1
    <3>4. pc'[w] = "scan"
      BY <3>1
    <3> QED
      BY <3>1, <3>2, <3>3, <3>4, SMTT(30)
  <2>4. CASE PopBusy(w)
    BY <1>2, <2>4 DEF Serve, PopBusy
  <2>5. CASE PopTake(w)
    BY <1>2, <2>5, SMTT(30) DEF Serve, PopTake, Splice
  <2>6. CASE PopNone(w)
    BY <1>2, <2>6 DEF Serve, PopNone, Splice
  <2> QED
    BY <1>2, <2>1, <2>2, <2>3, <2>4, <2>5, <2>6 DEF Serve, Pop
<1>3. ASSUME NEW w \in Workers, Work(w) PROVE LockOwners'
  <2>1. CASE ProcessLock(w)
    BY <1>3, <2>1 DEF Work, ProcessLock
  <2>2. CASE ProcessSwap(w)
    BY <1>3, <2>2 DEF Work, ProcessSwap
  <2>3. CASE ProcessBegin(w)
    BY <1>3, <2>3 DEF Work, ProcessBegin
  <2>4. CASE ProcessNullActor(w)
    BY <1>3, <2>4 DEF Work, ProcessNullActor
  <2>5. CASE ProcessCount(w)
    BY <1>3, <2>5 DEF Work, ProcessCount
  <2>6. CASE ProcessHandle(w)
    BY <1>3, <2>6, SMTT(30) DEF Work, ProcessHandle
  <2>7. CASE ProcessPopFront(w)
    BY <1>3, <2>7, SMTT(30) DEF Work, ProcessPopFront, Pushing
  <2>8. CASE ProcessEnd(w)
    BY <1>3, <2>8 DEF Work, ProcessEnd, ReturnFromProcess
  <2> QED
    BY <1>3, <2>1, <2>2, <2>3, <2>4, <2>5, <2>6, <2>7, <2>8
    DEF Work, Process
<1>4. ASSUME NEW w \in Workers, Throw(w) PROVE LockOwners'
  <2>1. /\ pc[w] \in {"begin", "handler", "next"}
        /\ \A m \in Mailboxes : reciveMutex[m] # w
        /\ actorMutex' = [actorMutex EXCEPT ![pBox[w]] = Free]
        /\ pBox' = [pBox EXCEPT ![w] = NoBox]
        /\ pc' = [pc EXCEPT ![w] = "loop"]
        /\ UNCHANGED <<phase, reciveMutex, listBusy, schedMutex>>
    BY <1>4 DEF Throw, ProcessThrow, ReturnFromProcess, Pushing
  <2> QED
    BY <2>1
<1>5. ASSUME NEW w \in Workers, Wake(w) PROVE LockOwners'
  BY <1>5 DEF Wake, SpuriousWake
<1>6. ASSUME NEW t \in Workers \cup Senders, NEW m \in Mailboxes,
             ScheduleStep(t, m)
      PROVE  LockOwners'
  <2>1. /\ reciveMutex[m] = t
        /\ reciveMutex' = [reciveMutex EXCEPT ![m] = Free]
        /\ UNCHANGED <<actorMutex, pBox, phase, schedMutex, listBusy>>
    BY <1>6 DEF ScheduleStep, Schedule, PushReturn
  <2>2. CASE pc' = pc
    BY <2>1, <2>2, SMTT(30)
  <2>3. ASSUME NEW v \in Workers, pc[v] = "wait",
               pc' = [pc EXCEPT ![v] = "woken"]
        PROVE  LockOwners'
    <3>1. \A w \in Workers : w # v => pc'[w] = pc[w]
      BY <2>3
    <3>2. pc'[v] = "woken"
      BY <2>3
    <3>3. \A n \in Mailboxes : reciveMutex'[n] \in {Free, reciveMutex[n]}
      BY <2>1
    <3>4. \A n \in Mailboxes, u \in Workers :
             reciveMutex'[n] = u => pc'[u] = "handler"
      <4> SUFFICES ASSUME NEW n \in Mailboxes, NEW u \in Workers,
                          reciveMutex'[n] = u
                   PROVE  pc'[u] = "handler"
        OBVIOUS
      <4>1. reciveMutex[n] = u
        BY <3>3
      <4>2. pc[u] = "handler"
        BY <4>1
      <4> QED
        BY <2>3, <3>1, <4>2
    <3>5. \A u \in Workers :
             \A place \in Processing \cup {"process", "scan"} :
                pc'[u] = place <=> pc[u] = place
      BY <2>3, <3>1, <3>2
    <3>6. \A u \in Workers :
             /\ pc'[u] \in Processing <=> pc[u] \in Processing
             /\ pc'[u] \in Processing \cup {"process"}
                   <=> pc[u] \in Processing \cup {"process"}
             /\ pc'[u] = "scan" <=> pc[u] = "scan"
      BY <3>5
    <3> HIDE DEF Processing
    <3> QED
      BY <2>1, <3>4, <3>6
  <2> QED
    BY <1>6, <2>2, <2>3 DEF ScheduleStep, Schedule, NotifyOne, Waiting
<1>7. ASSUME NEW t \in Workers \cup Senders, NEW m \in Mailboxes,
             NEW x \in Messages, SendMsg(t, m, x)
      PROVE  LockOwners'
  <2>1. CASE PushRefused(m)
    BY <1>7, <2>1 DEF SendMsg, PushRefused
  <2>2. CASE PushAccepted(t, m, x)
    BY <1>7, <2>2 DEF SendMsg, CanSend, PushAccepted
  <2> QED
    BY <1>7, <2>1, <2>2 DEF SendMsg
<1>8. ASSUME NEW m \in Mailboxes, RegisterActor(m) PROVE LockOwners'
  BY <1>8 DEF RegisterActor, RegisterMailbox, Phases
<1>9. ASSUME NEW m \in Mailboxes, DestructDerived(m) PROVE LockOwners'
  BY <1>9 DEF DestructDerived, Phases
<1>10. ASSUME NEW m \in Mailboxes, UnRegisterWait(m) PROVE LockOwners'
  BY <1>10 DEF UnRegisterWait, UnRegisterLock, Phases
<1>11. ASSUME NEW m \in Mailboxes, UnRegisterReturn(m) PROVE LockOwners'
  BY <1>11 DEF UnRegisterReturn, UnRegisterClear, Phases
<1>12. CASE InitReturn
  BY <1>12 DEF InitReturn
<1>13. CASE DestroyBegin
  BY <1>13 DEF DestroyBegin, DestroyStore
<1>14. CASE DestroyWake
  BY <1>14 DEF DestroyWake, DestroyNotify, Waiting
<1>15. CASE DestroyJoin
  BY <1>15 DEF DestroyJoin
<1>16. CASE UNCHANGED vars
  BY <1>16 DEF vars
<1> QED
  BY <1>1, <1>2, <1>3, <1>4, <1>5, <1>6, <1>7, <1>8, <1>9, <1>10, <1>11,
     <1>12, <1>13, <1>14, <1>15, <1>16 DEF Next

\* A worker's move that HandlingState does not notice.
Quiet(w) ==
    \/ pc'[w] = pc[w] /\ pBox'[w] = pBox[w]
    \/ /\ pc[w] \notin Processing \ {"swap"}
       /\ pc'[w] \notin Processing \ {"swap"}

\* A step that leaves lists, counter and the threads in Process alone.
LEMMA HandlingQuiet ==
    ASSUME TypeOK, LockOwners, HandlingState, LockOwners',
           UNCHANGED <<listHandle, faulted, nUnHanle, pActor, phase,
                       listRecive, accepted, handled>>,
           \A w \in Workers : Quiet(w),
           \A m \in Mailboxes : actorMutex[m] \in Workers
                                  => actorMutex'[m] = actorMutex[m]
    PROVE  HandlingState'
<1>1. \A m \in Mailboxes, places \in SUBSET (Processing \ {"swap"}) :
         HeldAt(m, places) => HeldAt(m, places)'
  BY DEF HeldAt, Quiet
<1>2. \A w \in Workers :
         pc'[w] \in Processing \ {"swap"} => pc'[w] = pc[w] /\ pBox'[w] = pBox[w]
  BY DEF Quiet
<1>3. /\ {"begin", "count", "next", "handler"} \in SUBSET (Processing \ {"swap"})
      /\ {"next", "handler"} \in SUBSET (Processing \ {"swap"})
  BY DEF Processing
<1>4. \A m \in Mailboxes :
         /\ ~faulted'[m] /\ listHandle'[m] # <<>> =>
               HeldAt(m, {"begin", "count", "next", "handler"})'
         /\ ~faulted'[m] /\ nUnHanle'[m] # 0 => HeldAt(m, {"next", "handler"})'
  BY <1>1, <1>3 DEF HandlingState
<1>5. \A w \in Workers :
         /\ pc'[w] \in {"next", "handler"} =>
               nUnHanle'[pBox'[w]] = Len(listHandle'[pBox'[w]])
         /\ pc'[w] = "handler" => listHandle'[pBox'[w]] # <<>>
         /\ pc'[w] \in {"count", "next", "handler"} => pActor'[pBox'[w]]
  BY <1>2 DEF HandlingState, Processing
<1> QED
  BY <1>4, <1>5 DEF HandlingState

\* Both lists are empty and m_nUnHanle is zero in a new mailbox.
LEMMA HandlingInit == Init => HandlingState
  BY DEF Init, MailboxInit, SchedulerInit, HandlingState, HeldAt

\* Swap, count, pop and throw keep lists, counter and place in agreement.
LEMMA HandlingStep ==
    TypeOK /\ LockOwners /\ HandlingState /\ [Next]_vars => HandlingState'
<1> SUFFICES ASSUME TypeOK, LockOwners, HandlingState, [Next]_vars
             PROVE  HandlingState'
  OBVIOUS
<1>0. LockOwners'
  BY LockStep
<1> USE DEF Goto, At, mailVars, threadVars, schedVars, runtimeVars
<1>1. ASSUME NEW w \in Workers, InitThread(w) PROVE HandlingState'
  BY <1>0, <1>1, HandlingQuiet
  DEF InitThread, StartThread, Quiet, Processing, TypeOK
<1>2. ASSUME NEW w \in Workers, Serve(w) PROVE HandlingState'
  <2>1. \A v \in Workers : Quiet(v)
    <3>1. pc[w] \in {"loop", "pop", "woken", "scan"}
      BY <1>2 DEF Serve, TestRuning, Pop, PopWait, PopLock, PopBusy, PopTake,
                  PopNone
    <3>2. pc'[w] \in {"exited", "pop", "wait", "scan", "process", "loop"}
      BY <1>2 DEF Serve, TestRuning, Pop, PopWait, PopLock, PopBusy, PopTake,
                  PopNone, TypeOK
    <3>3. \A v \in Workers : v # w => pc'[v] = pc[v] /\ pBox'[v] = pBox[v]
      BY <1>2 DEF Serve, TestRuning, Pop, PopWait, PopLock, PopBusy, PopTake,
                  PopNone, Splice, TypeOK
    <3> QED
      BY <3>1, <3>2, <3>3 DEF Quiet, Processing
  <2>2. UNCHANGED <<mailVars, phase>>
    BY <1>2 DEF Serve, TestRuning, Pop, PopWait, PopLock, PopBusy, PopTake,
                PopNone, Splice
  <2> QED
    BY <1>0, <2>1, <2>2, HandlingQuiet
<1>3. ASSUME NEW w \in Workers, pc[w] \in Processing
      PROVE  /\ pBox[w] \in Mailboxes
             /\ actorMutex[pBox[w]] = w
             /\ \A v \in Workers : v # w /\ pc[v] \in Processing =>
                   pBox[v] # pBox[w] /\ pBox[v] \in Mailboxes
             /\ \A n \in Mailboxes : n # pBox[w] => actorMutex[n] # w
  BY <1>3 DEF LockOwners, TypeOK
<1>4. ASSUME NEW w \in Workers, Work(w) PROVE HandlingState'
  <2> DEFINE m == pBox[w]
  <2>1. CASE ProcessLock(w)
    BY <1>0, <1>4, <2>1, HandlingQuiet
    DEF Work, ProcessLock, Quiet, Processing, TypeOK
  <2>2. CASE ProcessSwap(w)
    <3>1. ~faulted[m] => listHandle[m] = <<>>
      BY <1>3, <2>2 DEF ProcessSwap, HandlingState, HeldAt, Processing
    <3>2. ~faulted[m] => nUnHanle[m] = 0
      BY <1>3, <2>2 DEF ProcessSwap, HandlingState, HeldAt, Processing
    <3>3. \A n \in Mailboxes :
             phase[n] = "dead" /\ ~faulted[n] =>
                 listRecive'[n] = <<>> /\ listHandle'[n] = <<>>
      BY <1>3, <2>2, <3>1 DEF ProcessSwap, HandlingState, Processing, TypeOK
    <3>4. \A n \in Mailboxes : phase[n] = "unborn" =>
             listRecive'[n] = <<>> /\ listHandle'[n] = <<>>
      BY <1>3, <2>2 DEF ProcessSwap, HandlingState, Processing, TypeOK
    <3>5. \A n \in Mailboxes :
             ~faulted[n] /\ listHandle'[n] # <<>> =>
                 HeldAt(n, {"begin", "count", "next", "handler"})'
      BY <1>3, <2>2 DEF ProcessSwap, HandlingState, HeldAt, Processing, TypeOK
    <3>6. \A n \in Mailboxes :
             ~faulted[n] /\ nUnHanle[n] # 0 => HeldAt(n, {"next", "handler"})'
      BY <1>3, <2>2, <3>2
      DEF ProcessSwap, HandlingState, HeldAt, Processing, TypeOK
    <3>7. \A v \in Workers : pc'[v] \in {"count", "next", "handler"} =>
             /\ pc'[v] = pc[v]
             /\ pBox[v] \in Mailboxes
             /\ listHandle'[pBox[v]] = listHandle[pBox[v]]
      BY <1>3, <2>2 DEF ProcessSwap, Processing, TypeOK
    <3> QED
      BY <1>4, <2>2, <3>3, <3>4, <3>5, <3>6, <3>7
      DEF Work, ProcessSwap, HandlingState
  <2>3. CASE ProcessBegin(w)
    BY <1>3, <1>4, <2>3
    DEF Work, ProcessBegin, HandlingState, HeldAt, Processing, TypeOK
  <2>4. CASE ProcessNullActor(w)
    BY <1>0, <1>4, <2>4, HandlingQuiet DEF Work, ProcessNullActor, Quiet
  <2>5. CASE ProcessCount(w)
    BY <1>3, <1>4, <2>5
    DEF Work, ProcessCount, HandlingState, HeldAt, Processing, TypeOK
  <2>6. CASE ProcessHandle(w)
    BY <1>3, <1>4, <2>6
    DEF Work, ProcessHandle, HandlingState, HeldAt, Processing, TypeOK
  <2>7. CASE ProcessPopFront(w)
    <3>1. Len(Tail(listHandle[m])) = nUnHanle[m] - 1
      BY <1>3, <2>7, HeadTailProperties
      DEF ProcessPopFront, HandlingState, Processing, TypeOK
    <3>2. /\ pActor[m] /\ phase[m] \in {"alive", "broken", "leaving"}
          /\ listHandle'[m] = Tail(listHandle[m])
          /\ nUnHanle'[m] = Len(listHandle'[m])
          /\ pc'[w] = "next" /\ pBox' = pBox
      BY <1>3, <2>7, <3>1 DEF ProcessPopFront, HandlingState, Processing, TypeOK
    <3>3. \A n \in Mailboxes : n # m =>
             listHandle'[n] = listHandle[n] /\ nUnHanle'[n] = nUnHanle[n]
      BY <2>7 DEF ProcessPopFront, TypeOK
    <3>4. \A v \in Workers : v # w => pc'[v] = pc[v]
      BY <2>7 DEF ProcessPopFront, TypeOK
    <3>5. \A n \in Mailboxes :
             /\ ~faulted[n] /\ listHandle'[n] # <<>> =>
                   HeldAt(n, {"begin", "count", "next", "handler"})'
             /\ ~faulted[n] /\ nUnHanle'[n] # 0 =>
                   HeldAt(n, {"next", "handler"})'
      BY <1>3, <2>7, <3>2, <3>3, <3>4
      DEF ProcessPopFront, HandlingState, HeldAt, Processing
    <3>6. \A v \in Workers :
             /\ pc'[v] \in {"next", "handler"} =>
                   nUnHanle'[pBox[v]] = Len(listHandle'[pBox[v]])
             /\ pc'[v] = "handler" => listHandle'[pBox[v]] # <<>>
             /\ pc'[v] \in {"count", "next", "handler"} => pActor[pBox[v]]
      BY <1>3, <2>7, <3>2, <3>3, <3>4
      DEF ProcessPopFront, HandlingState, Processing
    <3> QED
      BY <1>3, <1>4, <2>7, <3>2, <3>3, <3>5, <3>6
      DEF Work, ProcessPopFront, HandlingState
  <2>8. CASE ProcessEnd(w)
    <3>1. nUnHanle[m] = 0
      BY <1>3, <2>8 DEF ProcessEnd, HandlingState, Processing
    <3> QED
      BY <1>3, <1>4, <2>8, <3>1
      DEF Work, ProcessEnd, ReturnFromProcess, HandlingState, HeldAt,
          Processing, TypeOK
  <2> QED
    BY <1>4, <2>1, <2>2, <2>3, <2>4, <2>5, <2>6, <2>7, <2>8 DEF Work, Process
<1>5. ASSUME NEW w \in Workers, Throw(w) PROVE HandlingState'
  <2> DEFINE m == pBox[w]
  <2>1. pc[w] \in {"begin", "handler", "next"}
    BY <1>5 DEF Throw, ProcessThrow
  <2>2. faulted'[m] \/ (~faulted[m] /\ listHandle[m] = <<>>)
    BY <1>3, <1>5, <2>1 DEF Throw, ProcessThrow, Processing, TypeOK
  <2>3. ~faulted[m] /\ listHandle[m] = <<>> => nUnHanle[m] = 0
    BY <1>3, <2>1 DEF HandlingState, HeldAt, Processing
  <2>4. faulted'[m] \/ (listHandle[m] = <<>> /\ nUnHanle[m] = 0)
    BY <2>2, <2>3
  <2>5. /\ UNCHANGED <<pActor, listRecive, listHandle, nUnHanle, accepted,
                      handled, phase>>
        /\ \A n \in Mailboxes : n # m =>
              faulted'[n] = faulted[n] /\ actorMutex'[n] = actorMutex[n]
        /\ \A n \in Mailboxes : ~faulted'[n] => ~faulted[n]
    BY <1>3, <1>5, <2>1
    DEF Throw, ProcessThrow, ReturnFromProcess, Processing, TypeOK
  <2>6. /\ pc'[w] = "loop"
        /\ \A v \in Workers : v # w => pc'[v] = pc[v] /\ pBox'[v] = pBox[v]
    BY <1>5 DEF Throw, ProcessThrow, ReturnFromProcess, TypeOK
  <2>7. \A n \in Mailboxes :
           /\ ~faulted'[n] /\ listHandle[n] # <<>> =>
                 HeldAt(n, {"begin", "count", "next", "handler"})'
           /\ ~faulted'[n] /\ nUnHanle[n] # 0 => HeldAt(n, {"next", "handler"})'
    BY <1>3, <2>1, <2>4, <2>5, <2>6 DEF HandlingState, HeldAt, Processing
  <2>8. \A v \in Workers :
           /\ pc'[v] \in {"next", "handler"} =>
                 nUnHanle[pBox'[v]] = Len(listHandle[pBox'[v]])
           /\ pc'[v] = "handler" => listHandle[pBox'[v]] # <<>>
           /\ pc'[v] \in {"count", "next", "handler"} => pActor[pBox'[v]]
    BY <2>6 DEF HandlingState
  <2>9. \A n \in Mailboxes :
           phase[n] = "dead" /\ ~faulted'[n] =>
               listRecive[n] = <<>> /\ listHandle[n] = <<>>
    BY <2>5 DEF HandlingState
  <2> QED
    BY <2>5, <2>7, <2>8, <2>9 DEF HandlingState
<1>6. ASSUME NEW w \in Workers, Wake(w) PROVE HandlingState'
  BY <1>0, <1>6, HandlingQuiet DEF Wake, SpuriousWake, Quiet, Processing, TypeOK
<1>7. ASSUME NEW t \in Workers \cup Senders, NEW m \in Mailboxes,
             ScheduleStep(t, m)
      PROVE  HandlingState'
  <2>1. \A v \in Workers : Quiet(v)
    BY <1>7 DEF ScheduleStep, Schedule, NotifyOne, Waiting, Quiet, Processing,
                TypeOK
  <2> QED
    BY <1>0, <1>7, <2>1, HandlingQuiet DEF ScheduleStep, Schedule, PushReturn
<1>8. ASSUME NEW t \in Workers \cup Senders, NEW m \in Mailboxes,
             NEW x \in Messages, SendMsg(t, m, x)
      PROVE  HandlingState'
  <2>1. CASE PushRefused(m)
    BY <1>0, <1>8, <2>1, HandlingQuiet DEF SendMsg, PushRefused, Quiet
  <2>2. CASE PushAccepted(t, m, x)
    BY <1>8, <2>2 DEF SendMsg, PushAccepted, HandlingState, HeldAt, TypeOK
  <2> QED
    BY <1>8, <2>1, <2>2 DEF SendMsg
<1>9. ASSUME NEW m \in Mailboxes, RegisterActor(m) PROVE HandlingState'
  BY <1>9 DEF RegisterActor, RegisterMailbox, HandlingState, HeldAt, TypeOK
<1>10. ASSUME NEW m \in Mailboxes, DestructDerived(m) PROVE HandlingState'
  BY <1>10 DEF DestructDerived, HandlingState, HeldAt, TypeOK
<1>11. ASSUME NEW m \in Mailboxes, UnRegisterWait(m) PROVE HandlingState'
  BY <1>11 DEF UnRegisterWait, UnRegisterLock, HandlingState, HeldAt, TypeOK
<1>12. ASSUME NEW m \in Mailboxes, UnRegisterReturn(m) PROVE HandlingState'
  <2>1. \A w \in Workers : pBox[w] = m => pc[w] \notin Processing
    BY <1>12 DEF UnRegisterReturn, UnRegisterClear, LockOwners
  <2>2. ~faulted[m] => listHandle[m] = <<>>
    BY <1>12 DEF UnRegisterReturn, UnRegisterClear, HandlingState, HeldAt
  <2> QED
    BY <1>12, <2>1, <2>2
    DEF UnRegisterReturn, UnRegisterClear, HandlingState, HeldAt, TypeOK,
        Processing
<1>13. CASE InitReturn
  BY <1>0, <1>13, HandlingQuiet DEF InitReturn, Quiet
<1>14. CASE DestroyBegin
  BY <1>0, <1>14, HandlingQuiet DEF DestroyBegin, DestroyStore, Quiet
<1>15. CASE DestroyWake
  BY <1>0, <1>15, HandlingQuiet
  DEF DestroyWake, DestroyNotify, Waiting, Quiet, Processing, TypeOK
<1>16. CASE DestroyJoin
  BY <1>0, <1>16, HandlingQuiet DEF DestroyJoin, Quiet
<1>17. CASE UNCHANGED vars
  BY <1>0, <1>17, HandlingQuiet DEF vars, Quiet
<1> QED
  BY <1>1, <1>2, <1>3, <1>4, <1>6, <1>7, <1>8, <1>9, <1>10, <1>11, <1>12,
     <1>13, <1>14, <1>15, <1>16, <1>17, <1>5 DEF Next

-----------------------------------------------------------------------------
\* The inductive invariant of the runtime.
RuntimeInv == TypeOK /\ LockOwners /\ HandlingState

(* The inductive invariant holds: which thread holds which mutex, and what    *)
(* Process has done to lists and counter, follow from the threads' places.  *)
THEOREM Invariance == Spec => []RuntimeInv
<1>1. Init => RuntimeInv
  BY TypeInit, LockInit, HandlingInit DEF RuntimeInv
<1>2. RuntimeInv /\ [Next]_vars => RuntimeInv'
  BY TypeStep, LockStep, HandlingStep DEF RuntimeInv
<1> QED
  BY <1>1, <1>2, PTL DEF Spec

(* Lists, mutexes, counters and program counters keep their types; above     *)
(* all m_nUnHanle is never decremented below zero.                          *)
THEOREM TypeCorrect == Spec => []TypeOK
  BY Invariance, PTL DEF RuntimeInv

(* m_ActorMutex keeps the workers apart, whatever order they pop, swap,      *)
(* throw and return in.                                                    *)
THEOREM ThreadSafe == Spec => []LoopsExclusive
<1>1. RuntimeInv => LoopsExclusive
  BY DEF RuntimeInv, LockOwners, LoopsExclusive, TypeOK
<1> QED
  BY <1>1, Invariance, PTL

(* Without a throw m_nUnHanle returns to zero when the loop is left, and     *)
(* only a worker in the loop makes it nonzero.                              *)
THEOREM BusyCorrect == Spec => []BusyMeansHandled
<1>1. RuntimeInv => BusyMeansHandled
  BY DEF RuntimeInv, HandlingState, BusyMeansHandled, IsHandling
<1> QED
  BY <1>1, Invariance, PTL

(* Deleting an actor waits for the loop and leaves both lists empty.         *)
THEOREM DeleteCorrect == Spec => []DeadIsQuiet
<1>1. RuntimeInv => DeadIsQuiet
  <2> SUFFICES ASSUME RuntimeInv, NEW m \in Mailboxes
               PROVE  /\ phase[m] \in {"leaving", "dead"} =>
                            \A w \in Workers : pBox[w] = m =>
                               pc[w] \notin {"count", "next", "handler"}
                      /\ phase[m] = "dead" /\ ~faulted[m] =>
                            listRecive[m] = <<>> /\ listHandle[m] = <<>>
    BY DEF DeadIsQuiet
  <2>1. phase[m] = "leaving" => actorMutex[m] = Main
    BY DEF RuntimeInv, LockOwners
  <2>2. ASSUME NEW w \in Workers, pBox[w] = m, pc[w] \in Processing
        PROVE  actorMutex[m] = w
    BY <2>2 DEF RuntimeInv, LockOwners
  <2> QED
    BY <2>1, <2>2 DEF RuntimeInv, HandlingState, HeldAt, Processing
<1> QED
  BY <1>1, Invariance, PTL

-----------------------------------------------------------------------------
(* Membership in the sequences the list operations build.                   *)

\* push_back adds one entry to a list.
LEMMA ContainsAppend ==
    ASSUME NEW S, NEW s \in Seq(S), NEW e \in S, NEW x
    PROVE  Contains(Append(s, e), x) <=> Contains(s, x) \/ x = e
  BY AppendProperties DEF Contains

\* pop_front takes no entry but the first.
LEMMA ContainsTail ==
    ASSUME NEW S, NEW s \in Seq(S), s # <<>>, NEW x
    PROVE  Contains(s, x) <=> x = Head(s) \/ Contains(Tail(s), x)
<1>1. /\ Len(s) \in Nat \ {0}
      /\ Len(Tail(s)) = Len(s) - 1
      /\ \A i \in 1 .. Len(Tail(s)) : Tail(s)[i] = s[i + 1]
      /\ Head(s) = s[1]
  BY HeadTailProperties, EmptySeq
<1>2. ASSUME Contains(s, x), x # Head(s) PROVE Contains(Tail(s), x)
  <2>1. PICK i \in 1 .. Len(s) : s[i] = x
    BY <1>2 DEF Contains
  <2>2. i - 1 \in 1 .. Len(Tail(s)) /\ Tail(s)[i - 1] = x
    BY <1>1, <1>2, <2>1
  <2> QED
    BY <2>2 DEF Contains
<1>3. ASSUME Contains(Tail(s), x) PROVE Contains(s, x)
  <2>1. PICK i \in 1 .. Len(Tail(s)) : Tail(s)[i] = x
    BY <1>3 DEF Contains
  <2>2. i + 1 \in 1 .. Len(s) /\ s[i + 1] = x
    BY <1>1, <2>1
  <2> QED
    BY <2>2 DEF Contains
<1>4. x = Head(s) => Contains(s, x)
  BY <1>1 DEF Contains
<1> QED
  BY <1>2, <1>3, <1>4

\* splice keeps the entries of both lists.
LEMMA ContainsConcat ==
    ASSUME NEW S, NEW s \in Seq(S), NEW t \in Seq(S), NEW x
    PROVE  Contains(s \o t, x) <=> Contains(s, x) \/ Contains(t, x)
<1>1. /\ Len(s) \in Nat /\ Len(t) \in Nat
      /\ Len(s \o t) = Len(s) + Len(t)
      /\ \A i \in 1 .. Len(s) + Len(t) :
            (s \o t)[i] = IF i <= Len(s) THEN s[i] ELSE t[i - Len(s)]
  BY ConcatProperties, LenProperties
<1>2. ASSUME Contains(s \o t, x) PROVE Contains(s, x) \/ Contains(t, x)
  <2>1. PICK i \in 1 .. Len(s) + Len(t) : (s \o t)[i] = x
    BY <1>1, <1>2 DEF Contains
  <2>2. CASE i <= Len(s)
    BY <1>1, <2>1, <2>2 DEF Contains
  <2>3. CASE i > Len(s)
    <3>1. i - Len(s) \in 1 .. Len(t) /\ t[i - Len(s)] = x
      BY <1>1, <2>1, <2>3
    <3> QED
      BY <3>1 DEF Contains
  <2> QED
    BY <1>1, <2>1, <2>2, <2>3
<1>3. ASSUME Contains(s, x) PROVE Contains(s \o t, x)
  <2>1. PICK i \in 1 .. Len(s) : s[i] = x
    BY <1>3 DEF Contains
  <2>2. i \in 1 .. Len(s \o t) /\ (s \o t)[i] = x
    BY <1>1, <2>1
  <2> QED
    BY <2>2 DEF Contains
<1>4. ASSUME Contains(t, x) PROVE Contains(s \o t, x)
  <2>1. PICK i \in 1 .. Len(t) : t[i] = x
    BY <1>4 DEF Contains
  <2>2. i + Len(s) \in 1 .. Len(s \o t) /\ (s \o t)[i + Len(s)] = x
    BY <1>1, <2>1
  <2> QED
    BY <2>2 DEF Contains
<1> QED
  BY <1>2, <1>3, <1>4

-----------------------------------------------------------------------------
(* NoLostWakeup is inductive on top of RuntimeInv.                          *)

\* A new mailbox has no messages to be scheduled for.
LEMMA WakeupInit == Init => NoLostWakeup
  BY DEF Init, MailboxInit, NoLostWakeup

\* Steps that move no mailbox and put no message into a list.
LEMMA WakeupQuiet ==
    ASSUME NoLostWakeup,
           UNCHANGED <<reciveMutex, listWaite, listBusy>>,
           \A m \in Mailboxes :
              /\ listRecive'[m] # <<>> => listRecive[m] # <<>>
              /\ faulted[m] => faulted'[m]
              /\ \A w \in Workers : Popped(m, w) => Popped(m, w)'
    PROVE  NoLostWakeup'
  BY DEF NoLostWakeup, Scheduled

\* Pop: a mailbox goes from m_listWaite to the busy list, to a worker or back.
LEMMA WakeupServe ==
    ASSUME RuntimeInv, NoLostWakeup, NEW w \in Workers, Serve(w)
    PROVE  NoLostWakeup'
<1> USE DEF RuntimeInv, TypeOK, Goto, At, mailVars, threadVars
<1>1. UNCHANGED <<listRecive, faulted, reciveMutex>>
  BY DEF Serve, TestRuning, Pop, PopWait, PopLock, PopBusy, PopTake, PopNone,
         Splice
<1>2. CASE TestRuning(w) \/ PopWait(w) \/ PopLock(w)
  <2>1. UNCHANGED <<listWaite, listBusy>>
    BY <1>2 DEF TestRuning, PopWait, PopLock, schedVars
  <2>2. \A m \in Mailboxes, v \in Workers : Popped(m, v) => Popped(m, v)'
    BY <1>2 DEF TestRuning, PopWait, PopLock, Popped
  <2> QED
    BY <1>1, <2>1, <2>2, WakeupQuiet
<1>3. ASSUME NEW m \in Mailboxes, NEW v \in Workers, Popped(m, v)
      PROVE  pc[w] = "scan" => v # w
  BY <1>3 DEF Popped
<1>4. CASE PopBusy(w)
  <2>1. \A m \in Mailboxes, v \in Workers : Popped(m, v) => Popped(m, v)'
    BY <1>4 DEF PopBusy, Popped
  <2>2. \A m \in Mailboxes :
           Contains(listWaite, m) =>
              Contains(listWaite', m) \/ Contains(listBusy'[w], m)
    BY <1>4, ContainsTail, ContainsAppend, HeadTailProperties, SMTT(30)
    DEF PopBusy
  <2>3. \A m \in Mailboxes, v \in Workers :
           Contains(listBusy[v], m) => Contains(listBusy'[v], m)
    <3>1. listWaite # <<>> /\ Head(listWaite) \in Mailboxes
      BY <1>4, HeadTailProperties DEF PopBusy
    <3>2. listBusy' = [listBusy EXCEPT ![w] = Append(listBusy[w], Head(listWaite))]
      BY <1>4 DEF PopBusy
    <3>3. \A m \in Mailboxes : Contains(listBusy[w], m)
             => Contains(Append(listBusy[w], Head(listWaite)), m)
      BY <3>1, ContainsAppend
    <3> QED
      BY <3>2, <3>3
  <2> QED
    BY <1>1, <2>1, <2>2, <2>3 DEF NoLostWakeup, Scheduled
<1>5. CASE PopTake(w)
  <2>1. \A m \in Mailboxes, v \in Workers : Popped(m, v) => Popped(m, v)'
    BY <1>3, <1>5 DEF PopTake, Popped
  <2>2. \A m \in Mailboxes : m = Head(listWaite) => Popped(m, w)'
    BY <1>5 DEF PopTake, Popped
  <2>3. \A m \in Mailboxes :
           Contains(listWaite, m) \/ Contains(listBusy[w], m) =>
               Contains(listWaite', m) \/ m = Head(listWaite)
    BY <1>5, ContainsTail, ContainsConcat, HeadTailProperties
    DEF PopTake, Splice
  <2>4. \A v \in Workers : v # w => listBusy'[v] = listBusy[v]
    BY <1>5 DEF PopTake, Splice
  <2> QED
    BY <1>1, <2>1, <2>2, <2>3, <2>4 DEF NoLostWakeup, Scheduled
<1>6. CASE PopNone(w)
  <2>1. \A m \in Mailboxes, v \in Workers : Popped(m, v) => Popped(m, v)'
    BY <1>3, <1>6 DEF PopNone, Popped
  <2>2. \A m \in Mailboxes :
           Contains(listWaite, m) \/ Contains(listBusy[w], m) =>
              Contains(listWaite', m)
    BY <1>6, ContainsConcat, EmptySeq DEF PopNone, Splice
  <2>3. \A v \in Workers : v # w => listBusy'[v] = listBusy[v]
    BY <1>6 DEF PopNone, Splice
  <2> QED
    BY <1>1, <2>1, <2>2, <2>3 DEF NoLostWakeup, Scheduled
<1> QED
  BY <1>2, <1>4, <1>5, <1>6 DEF Serve, Pop

\* Process: the swap empties m_listRecive when it uses up the schedule.
LEMMA WakeupWork ==
    ASSUME RuntimeInv, NoLostWakeup, NEW w \in Workers, Work(w) \/ Throw(w)
    PROVE  NoLostWakeup'
<1> USE DEF RuntimeInv, TypeOK, Goto, At, threadVars
<1>1. UNCHANGED <<listWaite, listBusy, reciveMutex>>
  BY DEF Work, Throw, Process, ProcessLock, ProcessSwap, ProcessBegin,
         ProcessNullActor, ProcessCount, ProcessHandle, ProcessPopFront,
         ProcessEnd, ProcessThrow, ReturnFromProcess, schedVars
<1>2. CASE ProcessSwap(w)
  <2> DEFINE m == pBox[w]
  <2>1. m \in Mailboxes /\ actorMutex[m] = w
    BY <1>2 DEF ProcessSwap, LockOwners, Processing
  <2>2. ~faulted[m] => listRecive'[m] = <<>>
    BY <1>2, <2>1 DEF ProcessSwap, HandlingState, HeldAt
  <2>3. \A n \in Mailboxes : n # m =>
           /\ listRecive'[n] = listRecive[n]
           /\ \A v \in Workers : Popped(n, v) => Popped(n, v)'
    BY <1>2 DEF ProcessSwap, Popped
  <2>4. UNCHANGED faulted
    BY <1>2 DEF ProcessSwap
  <2> QED
    BY <1>1, <2>1, <2>2, <2>3, <2>4 DEF NoLostWakeup, Scheduled
<1>3. CASE ~ProcessSwap(w)
  <2>1. UNCHANGED listRecive
    BY <1>3 DEF Work, Throw, Process, ProcessLock, ProcessBegin,
         ProcessNullActor, ProcessCount, ProcessHandle, ProcessPopFront,
         ProcessEnd, ProcessThrow, ReturnFromProcess
  <2>2. \A m \in Mailboxes : faulted[m] => faulted'[m]
    BY <1>3 DEF Work, Throw, Process, ProcessLock, ProcessBegin,
         ProcessNullActor, ProcessCount, ProcessHandle, ProcessPopFront,
         ProcessEnd, ProcessThrow, ReturnFromProcess
  <2>3. \A m \in Mailboxes, v \in Workers : Popped(m, v) => Popped(m, v)'
    BY <1>3 DEF Work, Throw, Process, ProcessLock, ProcessBegin,
         ProcessNullActor, ProcessCount, ProcessHandle, ProcessPopFront,
         ProcessEnd, ProcessThrow, ReturnFromProcess, Popped
  <2> QED
    BY <1>1, <2>1, <2>2, <2>3, WakeupQuiet
<1> QED
  BY <1>2, <1>3

\* PushMsg and Schedule: the first message goes with a schedule of the mailbox.
LEMMA WakeupPush ==
    ASSUME RuntimeInv, NoLostWakeup,
           NEW t \in Workers \cup Senders, NEW n \in Mailboxes,
           \/ ScheduleStep(t, n)
           \/ \E x \in Messages : SendMsg(t, n, x)
    PROVE  NoLostWakeup'
<1> USE DEF RuntimeInv, TypeOK, Goto, At, mailVars, threadVars, schedVars
<1>1. \A m \in Mailboxes, v \in Workers : Popped(m, v) => Popped(m, v)'
  BY DEF ScheduleStep, Schedule, NotifyOne, Waiting, SendMsg, PushRefused,
         PushAccepted, Popped
<1>2. CASE ScheduleStep(t, n)
  <2>1. \A m \in Mailboxes :
           Contains(listWaite', m) <=> Contains(listWaite, m) \/ m = n
    BY <1>2, ContainsAppend DEF ScheduleStep, Schedule
  <2>2. /\ UNCHANGED <<listRecive, faulted, listBusy>>
        /\ \A m \in Mailboxes : m # n => reciveMutex'[m] = reciveMutex[m]
    BY <1>2 DEF ScheduleStep, Schedule, PushReturn
  <2> QED
    BY <1>1, <2>1, <2>2 DEF NoLostWakeup, Scheduled
<1>3. ASSUME NEW x \in Messages, SendMsg(t, n, x), PushRefused(n)
      PROVE  NoLostWakeup'
  BY <1>1, <1>3, WakeupQuiet DEF SendMsg, PushRefused
<1>4. ASSUME NEW x \in Messages, SendMsg(t, n, x), PushAccepted(t, n, x)
      PROVE  NoLostWakeup'
  <2>1. UNCHANGED <<listWaite, listBusy, faulted>>
    BY <1>4 DEF SendMsg, PushAccepted
  <2>2. \A m \in Mailboxes : m # n =>
           reciveMutex'[m] = reciveMutex[m] /\ listRecive'[m] = listRecive[m]
    BY <1>4 DEF PushAccepted
  <2>3. CASE listRecive[n] = <<>>
    <3>1. Len(listRecive'[n]) = 1
      BY <1>4, <2>3 DEF PushAccepted
    <3>2. reciveMutex'[n] = t /\ t # Free
      BY <1>4, <3>1 DEF PushAccepted
    <3> QED
      BY <1>1, <2>1, <2>2, <3>2 DEF NoLostWakeup, Scheduled
  <2>4. CASE listRecive[n] # <<>>
    <3>1. reciveMutex[n] = Free
      BY <1>4 DEF PushAccepted
    <3> QED
      BY <1>1, <2>1, <2>2, <2>4, <3>1 DEF NoLostWakeup, Scheduled
  <2> QED
    BY <2>3, <2>4
<1> QED
  BY <1>2, <1>3, <1>4 DEF SendMsg

\* NoLostWakeup is kept by every step.
LEMMA WakeupStep == RuntimeInv /\ NoLostWakeup /\ [Next]_vars => NoLostWakeup'
<1> SUFFICES ASSUME RuntimeInv, NoLostWakeup, [Next]_vars PROVE NoLostWakeup'
  OBVIOUS
<1> USE DEF RuntimeInv, TypeOK, Goto, At, mailVars, threadVars, schedVars
<1>1. ASSUME NEW w \in Workers, InitThread(w) \/ Wake(w) PROVE NoLostWakeup'
  BY <1>1, WakeupQuiet DEF InitThread, StartThread, Wake, SpuriousWake, Popped
<1>2. ASSUME NEW m \in Mailboxes,
             \/ RegisterActor(m) \/ DestructDerived(m) \/ UnRegisterWait(m)
      PROVE  NoLostWakeup'
  BY <1>2, WakeupQuiet
  DEF RegisterActor, RegisterMailbox, DestructDerived, UnRegisterWait,
      UnRegisterLock, Popped
<1>3. ASSUME NEW m \in Mailboxes, UnRegisterReturn(m) PROVE NoLostWakeup'
  <2>1. /\ UNCHANGED <<listWaite, listBusy, reciveMutex, faulted, pc, pBox>>
        /\ \A n \in Mailboxes :
              listRecive'[n] # <<>> => listRecive'[n] = listRecive[n]
    BY <1>3 DEF UnRegisterReturn, UnRegisterClear
  <2> QED
    BY <2>1, WakeupQuiet DEF Popped
<1>4. CASE InitReturn \/ DestroyBegin \/ DestroyWake \/ DestroyJoin
  BY <1>4, WakeupQuiet
  DEF InitReturn, DestroyBegin, DestroyStore, DestroyWake, DestroyNotify,
      Waiting, DestroyJoin, Popped
<1>5. CASE UNCHANGED vars
  BY <1>5, WakeupQuiet DEF vars, Popped
<1> QED
  BY <1>1, <1>2, <1>3, <1>4, <1>5, WakeupServe, WakeupWork, WakeupPush DEF Next

(* No accepted message waits in a mailbox that no worker will come to,       *)
(* unless a throw left the mailbox stuck: PushMsg schedules on the first    *)
(* message only, and that is enough.                                       *)
THEOREM WakeupCorrect == Spec => []NoLostWakeup
  BY WakeupInit, WakeupStep, Invariance, PTL DEF Spec

-----------------------------------------------------------------------------
Awake(w) == pc[w] \notin {"unborn", "wait"}

\* A worker that is awake is a started one that does not wait.
LEMMA AwakeWorker ==
    ASSUME NEW w \in Workers, Awake(w)
    PROVE  SomeoneAwake
  BY DEF Awake, SomeoneAwake, Started, Waiting

\* SomeoneAwake is kept: Schedule's notify_one finds a sleeper if all sleep.
LEMMA AwakeStep == RuntimeInv /\ SomeoneAwake /\ [Next]_vars => SomeoneAwake'
<1> SUFFICES ASSUME RuntimeInv, SomeoneAwake, [Next]_vars
             PROVE  SomeoneAwake'
  OBVIOUS
<1> USE DEF RuntimeInv, TypeOK, Goto, At, mailVars, threadVars, schedVars
<1>1. ASSUME NEW w \in Workers, Awake(w)' PROVE SomeoneAwake'
  BY <1>1, AwakeWorker DEF Awake, SomeoneAwake, Started, Waiting
<1>2. ASSUME UNCHANGED <<pc, listWaite>>, bRuning' => bRuning
      PROVE  SomeoneAwake'
  BY <1>2 DEF SomeoneAwake, Started, Waiting
<1>3. ASSUME NEW w \in Workers, InitThread(w) \/ Wake(w) PROVE SomeoneAwake'
  BY <1>1, <1>3 DEF InitThread, StartThread, Wake, SpuriousWake, Awake
<1>4. ASSUME NEW w \in Workers, Work(w) \/ Throw(w) PROVE SomeoneAwake'
  <2>1. pc'[w] \notin {"unborn", "wait"}
    BY <1>4
    DEF Work, Throw, Process, ProcessLock, ProcessSwap, ProcessBegin,
        ProcessNullActor, ProcessCount, ProcessHandle, ProcessPopFront,
        ProcessEnd, ProcessThrow, ReturnFromProcess
  <2> QED
    BY <1>1, <2>1 DEF Awake
<1>5. ASSUME NEW w \in Workers, Serve(w) PROVE SomeoneAwake'
  <2>1. CASE PopWait(w)
    BY <2>1 DEF PopWait, SomeoneAwake
  <2>2. CASE ~PopWait(w)
    BY <1>1, <1>5, <2>2
    DEF Serve, TestRuning, Pop, PopLock, PopBusy, PopTake, PopNone, Awake
  <2> QED
    BY <2>1, <2>2
<1>6. ASSUME NEW t \in Workers \cup Senders, NEW m \in Mailboxes,
             ScheduleStep(t, m)
      PROVE  SomeoneAwake'
  <2>1. CASE Waiting = {}
    <3>1. pc' = pc
      BY <1>6, <2>1 DEF ScheduleStep, Schedule, NotifyOne
    <3> QED
      BY <2>1, <3>1 DEF SomeoneAwake, Started, Waiting
  <2>2. ASSUME NEW v \in Waiting, Goto(v, "woken") PROVE SomeoneAwake'
    BY <1>1, <2>2 DEF Waiting, Awake
  <2> QED
    BY <1>6, <2>1, <2>2 DEF ScheduleStep, Schedule, NotifyOne
<1>7. ASSUME NEW t \in Workers \cup Senders, NEW m \in Mailboxes,
             NEW x \in Messages, SendMsg(t, m, x)
      PROVE  SomeoneAwake'
  BY <1>2, <1>7 DEF SendMsg, PushRefused, PushAccepted
<1>8. ASSUME NEW m \in Mailboxes,
             \/ RegisterActor(m) \/ DestructDerived(m)
             \/ UnRegisterWait(m) \/ UnRegisterReturn(m)
      PROVE  SomeoneAwake'
  BY <1>2, <1>8 DEF RegisterActor, RegisterMailbox, DestructDerived,
     UnRegisterWait, UnRegisterLock, UnRegisterReturn, UnRegisterClear
<1>9. CASE DestroyWake
  <2>1. ASSUME NEW w \in Waiting PROVE SomeoneAwake'
    BY <1>1, <1>9, <2>1 DEF DestroyWake, DestroyNotify, Waiting, Awake
  <2>2. CASE Waiting = {}
    BY <1>9, <2>2 DEF DestroyWake, DestroyNotify, SomeoneAwake, Started, Waiting
  <2> QED
    BY <2>1, <2>2
<1>10. CASE InitReturn \/ DestroyBegin \/ DestroyJoin \/ UNCHANGED vars
  BY <1>2, <1>10 DEF InitReturn, DestroyBegin, DestroyStore, DestroyJoin, vars
<1> QED
  BY <1>3, <1>4, <1>5, <1>6, <1>7, <1>8, <1>9, <1>10 DEF Next

(* While mailboxes wait and the pool runs, not every worker sleeps, although *)
(* Pop waits without a loop and Schedule notifies a single worker.          *)
THEOREM AwakeCorrect == Spec => []SomeoneAwake
<1>1. Init => SomeoneAwake
  BY DEF Init, SchedulerInit, SomeoneAwake
<1> QED
  BY <1>1, AwakeStep, Invariance, PTL DEF Spec

-----------------------------------------------------------------------------
(* AcceptedInOrder is inductive on top of RuntimeInv.                       *)

\* Appending to the second of two lists appends to both together.
LEMMA AppendConcat ==
    ASSUME NEW S, NEW s \in Seq(S), NEW t \in Seq(S), NEW x \in S
    PROVE  s \o Append(t, x) = Append(s \o t, x)
<1>1. <<x>> \in Seq(S) /\ s \o t \in Seq(S)
  BY ConcatProperties
<1>2. Append(t, x) = t \o <<x>> /\ Append(s \o t, x) = (s \o t) \o <<x>>
  BY <1>1, AppendIsConcat
<1> QED
  BY <1>1, <1>2, ConcatAssociative

\* The head of a list may be counted with the list before it.
LEMMA MoveHead ==
    ASSUME NEW S, NEW s \in Seq(S), NEW t \in Seq(S), t # <<>>
    PROVE  Append(s, Head(t)) \o Tail(t) = s \o t
<1>1. Head(t) \in S /\ Tail(t) \in Seq(S) /\ <<Head(t)>> \in Seq(S)
  BY HeadTailProperties
<1>2. t = <<Head(t)>> \o Tail(t)
  <2>1. /\ Len(t) \in Nat \ {0}
        /\ Len(Tail(t)) = Len(t) - 1
        /\ \A i \in 1 .. Len(Tail(t)) : Tail(t)[i] = t[i + 1]
        /\ Head(t) = t[1]
    BY HeadTailProperties, EmptySeq
  <2>2. /\ Len(<<Head(t)>>) = 1 /\ <<Head(t)>>[1] = t[1]
        /\ Len(<<Head(t)>> \o Tail(t)) = Len(t)
        /\ \A i \in 1 .. Len(t) : (<<Head(t)>> \o Tail(t))[i] =
              IF i <= 1 THEN <<Head(t)>>[i] ELSE Tail(t)[i - 1]
    BY <1>1, <2>1, ConcatProperties
  <2>3. \A i \in 1 .. Len(t) : (<<Head(t)>> \o Tail(t))[i] = t[i]
    BY <2>1, <2>2
  <2> QED
    BY <1>1, <2>2, <2>3, ConcatProperties, SeqEqual
<1>3. Append(s, Head(t)) = s \o <<Head(t)>>
  BY <1>1, AppendIsConcat
<1> QED
  BY <1>1, <1>2, <1>3, ConcatAssociative

Begun(m) == \E w \in Workers : InHandler(w, m)

\* What AcceptedInOrder says of one mailbox.
InOrder(m) ==
    pActor[m] /\ ~faulted[m] =>
        accepted[m] = handled[m] \o NotBegun(m) \o listRecive[m]

\* A step that changes no list of mailbox m and starts no handler of it.
LEMMA OrderQuiet ==
    ASSUME NEW m \in Mailboxes, InOrder(m),
           pActor'[m] => pActor[m],
           faulted[m] => faulted'[m],
           accepted'[m] = accepted[m],
           handled'[m] = handled[m],
           listHandle'[m] = listHandle[m],
           listRecive'[m] = listRecive[m],
           Begun(m)' <=> Begun(m)
    PROVE  InOrder(m)'
  BY DEF InOrder, NotBegun, Begun

\* PushMsg appends behind everything that waits.
LEMMA OrderPush ==
    ASSUME RuntimeInv, NEW m \in Mailboxes, InOrder(m),
           NEW t \in Workers \cup Senders, NEW x \in Messages,
           PushAccepted(t, m, x)
    PROVE  InOrder(m)'
<1> USE DEF RuntimeInv, TypeOK
<1>1. /\ accepted'[m] = Append(accepted[m], x)
      /\ listRecive'[m] = Append(listRecive[m], x)
      /\ UNCHANGED <<pActor, faulted, handled, listHandle, pc, pBox>>
  BY DEF PushAccepted, threadVars
<1>2. NotBegun(m)' = NotBegun(m)
  BY <1>1 DEF NotBegun, InHandler, At
<1>3. NotBegun(m) \in Seq(Messages)
  BY HeadTailProperties DEF NotBegun, InHandler, At, HandlingState
<1>4. handled[m] \o NotBegun(m) \in Seq(Messages)
  BY <1>3, ConcatProperties
<1>5. (handled[m] \o NotBegun(m)) \o Append(listRecive[m], x) =
         Append((handled[m] \o NotBegun(m)) \o listRecive[m], x)
  BY <1>4, AppendConcat, SMTT(30), ZenonT(30)
<1>6. pActor[m] /\ ~faulted[m] => accepted'[m] =
         (handled[m] \o NotBegun(m)) \o Append(listRecive[m], x)
  BY <1>1, <1>5 DEF InOrder
<1>7. pActor'[m] /\ ~faulted'[m] => accepted'[m] =
         handled'[m] \o NotBegun(m)' \o listRecive'[m]
  BY <1>1, <1>2, <1>6
<1> QED
  BY <1>7 DEF InOrder

\* Swap, handler start, pop_front and throw keep the order of a mailbox.
LEMMA OrderWork ==
    ASSUME RuntimeInv, NEW m \in Mailboxes, InOrder(m),
           NEW w \in Workers, pBox[w] = m, Work(w) \/ Throw(w)
    PROVE  InOrder(m)'
<1> USE DEF RuntimeInv, TypeOK, Goto, At
<1>1. ASSUME pc[w] \in Processing
      PROVE  Begun(m) <=> pc[w] = "handler"
  BY <1>1 DEF Begun, InHandler, LockOwners, Processing
<1>2. \A v \in Workers : v # w => pc'[v] = pc[v] /\ pBox'[v] = pBox[v]
  BY DEF Work, Throw, Process, ProcessLock, ProcessSwap, ProcessBegin,
         ProcessNullActor, ProcessCount, ProcessHandle, ProcessPopFront,
         ProcessEnd, ProcessThrow, ReturnFromProcess, threadVars
<1>3. Begun(m)' <=> \/ pc'[w] = "handler" /\ pBox'[w] = m
                    \/ \E v \in Workers : v # w /\ InHandler(v, m)
  BY <1>2 DEF Begun, InHandler
<1>4. ASSUME pc[w] \in Processing
      PROVE  ~ \E v \in Workers : v # w /\ InHandler(v, m)
  BY <1>4 DEF InHandler, LockOwners, Processing
<1>5. CASE ProcessSwap(w)
  <2>1. ~Begun(m) /\ ~Begun(m)'
    BY <1>1, <1>3, <1>4, <1>5 DEF ProcessSwap, Processing
  <2>2. ~faulted[m] => listHandle[m] = <<>>
    BY <1>5 DEF ProcessSwap, HandlingState, HeldAt, LockOwners, Processing
  <2>3. /\ listHandle'[m] = listRecive[m] /\ listRecive'[m] = listHandle[m]
        /\ UNCHANGED <<accepted, handled, faulted, pActor>>
    BY <1>5 DEF ProcessSwap
  <2>4. handled[m] \o <<>> = handled[m]
    BY ConcatEmptySeq
  <2>5. (handled[m] \o listRecive[m]) \o <<>> = handled[m] \o listRecive[m]
    BY ConcatEmptySeq, ConcatProperties
  <2> QED
    BY <2>1, <2>2, <2>3, <2>4, <2>5 DEF InOrder, NotBegun, Begun
<1>6. CASE ProcessHandle(w)
  <2>1. ~Begun(m) /\ Begun(m)'
    BY <1>1, <1>3, <1>6 DEF ProcessHandle, Processing
  <2>2. /\ listHandle[m] # <<>>
        /\ handled'[m] = Append(handled[m], Head(listHandle[m]))
        /\ UNCHANGED <<accepted, listHandle, listRecive, faulted, pActor>>
    BY <1>6 DEF ProcessHandle
  <2>3. handled'[m] \o Tail(listHandle[m]) = handled[m] \o listHandle[m]
    BY <2>2, MoveHead, SMTT(30), ZenonT(30)
  <2> QED
    BY <2>1, <2>2, <2>3 DEF InOrder, NotBegun, Begun
<1>7. CASE ProcessPopFront(w)
  <2>1. Begun(m) /\ ~Begun(m)'
    BY <1>1, <1>3, <1>4, <1>7 DEF ProcessPopFront, Processing
  <2>2. /\ listHandle'[m] = Tail(listHandle[m])
        /\ UNCHANGED <<accepted, handled, listRecive, faulted, pActor>>
    BY <1>7 DEF ProcessPopFront
  <2> QED
    BY <2>1, <2>2 DEF InOrder, NotBegun, Begun
<1>8. CASE Throw(w)
  <2>1. /\ UNCHANGED <<accepted, handled, listHandle, listRecive, pActor>>
        /\ faulted[m] => faulted'[m]
        /\ pc[w] \in Processing /\ pc'[w] = "loop"
        /\ faulted'[m] \/ listHandle[m] = <<>>
    BY <1>8 DEF Throw, ProcessThrow, ReturnFromProcess, Processing
  <2>2. faulted'[m] \/ (~Begun(m) /\ ~Begun(m)')
    BY <1>1, <1>3, <1>4, <2>1 DEF Processing, HandlingState
  <2> QED
    BY <2>1, <2>2 DEF InOrder, NotBegun, Begun
<1>9. CASE \/ ProcessLock(w) \/ ProcessBegin(w) \/ ProcessNullActor(w)
           \/ ProcessCount(w) \/ ProcessEnd(w)
  <2>1. UNCHANGED <<accepted, handled, listHandle, listRecive, pActor, faulted>>
    BY <1>9 DEF ProcessLock, ProcessBegin, ProcessNullActor, ProcessCount,
                ProcessEnd, ReturnFromProcess
  <2>2. pc[w] # "handler" /\ pc'[w] # "handler"
    BY <1>9 DEF ProcessLock, ProcessBegin, ProcessNullActor, ProcessCount,
                ProcessEnd, ReturnFromProcess, threadVars
  <2>3. Begun(m)' <=> Begun(m)
    BY <1>3, <2>2 DEF Begun, InHandler
  <2> QED
    BY <2>1, <2>3, OrderQuiet
<1> QED
  BY <1>5, <1>6, <1>7, <1>8, <1>9 DEF Work, Process

\* A worker's step on its own mailbox leaves the others as they are.
LEMMA OrderElsewhere ==
    ASSUME RuntimeInv, NEW m \in Mailboxes, InOrder(m),
           NEW w \in Workers, pBox[w] # m, Work(w) \/ Throw(w)
    PROVE  InOrder(m)'
<1> USE DEF RuntimeInv, TypeOK, Goto, At, mailVars, threadVars
<1>1. UNCHANGED <<pActor, accepted>>
  BY DEF Work, Throw, Process, ProcessLock, ProcessSwap, ProcessBegin,
         ProcessNullActor, ProcessCount, ProcessHandle, ProcessPopFront,
         ProcessEnd, ProcessThrow, ReturnFromProcess
<1>2. faulted'[m] = faulted[m] /\ handled'[m] = handled[m]
  BY DEF Work, Throw, Process, ProcessLock, ProcessSwap, ProcessBegin,
         ProcessNullActor, ProcessCount, ProcessHandle, ProcessPopFront,
         ProcessEnd, ProcessThrow, ReturnFromProcess
<1>3. listHandle'[m] = listHandle[m] /\ listRecive'[m] = listRecive[m]
  BY DEF Work, Throw, Process, ProcessLock, ProcessSwap, ProcessBegin,
         ProcessNullActor, ProcessCount, ProcessHandle, ProcessPopFront,
         ProcessEnd, ProcessThrow, ReturnFromProcess
<1>4. /\ \A v \in Workers : v # w => pc'[v] = pc[v] /\ pBox'[v] = pBox[v]
      /\ pBox'[w] # m
  BY DEF Work, Throw, Process, ProcessLock, ProcessSwap, ProcessBegin,
         ProcessNullActor, ProcessCount, ProcessHandle, ProcessPopFront,
         ProcessEnd, ProcessThrow, ReturnFromProcess
<1>5. Begun(m)' <=> Begun(m)
  BY <1>4 DEF Begun, InHandler
<1> QED
  BY <1>1, <1>2, <1>3, <1>5, OrderQuiet

\* Steps between two pops of a worker enter no handler and leave none.
LEMMA OrderServe ==
    ASSUME RuntimeInv, NEW m \in Mailboxes, InOrder(m),
           NEW w \in Workers, InitThread(w) \/ Serve(w) \/ Wake(w)
    PROVE  InOrder(m)'
<1> USE DEF RuntimeInv, TypeOK, Goto, At, mailVars, threadVars, schedVars
<1>1. UNCHANGED mailVars
  BY DEF InitThread, StartThread, Serve, TestRuning, Pop, PopWait, PopLock,
         PopBusy, PopTake, PopNone, Splice, Wake, SpuriousWake
<1>2. \A v \in Workers : InHandler(v, m)' <=> InHandler(v, m)
  BY DEF InitThread, StartThread, Serve, TestRuning, Pop, PopWait, PopLock,
         PopBusy, PopTake, PopNone, Splice, Wake, SpuriousWake, InHandler
<1> QED
  BY <1>1, <1>2, OrderQuiet DEF Begun

\* AcceptedInOrder is kept by every step.
LEMMA OrderStep ==
    RuntimeInv /\ AcceptedInOrder /\ [Next]_vars => AcceptedInOrder'
<1> SUFFICES ASSUME RuntimeInv, AcceptedInOrder, [Next]_vars,
                    NEW m \in Mailboxes
             PROVE  InOrder(m)'
  BY DEF AcceptedInOrder, InOrder
<1>1. InOrder(m)
  BY DEF AcceptedInOrder, InOrder
<1> USE DEF RuntimeInv, TypeOK, Goto, At, mailVars, threadVars, schedVars
<1>2. ASSUME NEW w \in Workers, Work(w) \/ Throw(w) PROVE InOrder(m)'
  BY <1>1, <1>2, OrderWork, OrderElsewhere
<1>3. ASSUME NEW w \in Workers, InitThread(w) \/ Serve(w) \/ Wake(w)
      PROVE  InOrder(m)'
  BY <1>1, <1>3, OrderServe
<1>4. ASSUME NEW t \in Workers \cup Senders, NEW n \in Mailboxes,
             NEW x \in Messages, SendMsg(t, n, x)
      PROVE  InOrder(m)'
  <2>1. CASE PushAccepted(t, n, x) /\ n # m
    BY <1>1, <2>1, OrderQuiet DEF PushAccepted, Begun, InHandler
  <2>2. CASE PushRefused(n)
    BY <1>1, <2>2, OrderQuiet DEF PushRefused, Begun, InHandler
  <2> QED
    BY <1>1, <1>4, <2>1, <2>2, OrderPush DEF SendMsg
<1>5. ASSUME NEW t \in Workers \cup Senders, NEW n \in Mailboxes,
             ScheduleStep(t, n)
      PROVE  InOrder(m)'
  <2>1. \A v \in Workers : InHandler(v, m)' <=> InHandler(v, m)
    BY <1>5 DEF ScheduleStep, Schedule, NotifyOne, Waiting, InHandler
  <2> QED
    BY <1>1, <1>5, <2>1, OrderQuiet DEF ScheduleStep, Schedule, PushReturn, Begun
<1>6. ASSUME NEW n \in Mailboxes, RegisterActor(n) PROVE InOrder(m)'
  <2>1. CASE n = m
    <3>1. /\ accepted'[m] = <<>> /\ handled'[m] = <<>>
          /\ listHandle'[m] = <<>> /\ listRecive'[m] = <<>>
          /\ UNCHANGED <<pc, pBox>>
      BY <1>6, <2>1 DEF RegisterActor, RegisterMailbox, HandlingState
    <3>2. ~Begun(m)'
      BY <1>6, <2>1, <3>1
      DEF RegisterActor, Begun, InHandler, HandlingState
    <3>3. <<>> \o <<>> = <<>>
      OBVIOUS
    <3> QED
      BY <3>1, <3>2, <3>3 DEF InOrder, NotBegun, Begun
  <2>2. CASE n # m
    BY <1>1, <1>6, <2>2, OrderQuiet
    DEF RegisterActor, RegisterMailbox, Begun, InHandler
  <2> QED
    BY <2>1, <2>2
<1>7. ASSUME NEW n \in Mailboxes, UnRegisterReturn(n) PROVE InOrder(m)'
  <2>1. CASE n = m
    BY <1>7, <2>1 DEF UnRegisterReturn, UnRegisterClear, InOrder
  <2>2. CASE n # m
    BY <1>1, <1>7, <2>2, OrderQuiet
    DEF UnRegisterReturn, UnRegisterClear, Begun, InHandler
  <2> QED
    BY <2>1, <2>2
<1>8. ASSUME NEW n \in Mailboxes, DestructDerived(n) \/ UnRegisterWait(n)
      PROVE  InOrder(m)'
  <2>1. UNCHANGED <<pActor, faulted, accepted, handled, listHandle, listRecive,
                    pc, pBox>>
    BY <1>8 DEF DestructDerived, UnRegisterWait, UnRegisterLock
  <2>2. Begun(m)' <=> Begun(m)
    BY <2>1 DEF Begun, InHandler
  <2> QED
    BY <1>1, <2>1, <2>2, OrderQuiet
<1>9. CASE DestroyWake
  <2>1. \A v \in Workers : InHandler(v, m)' <=> InHandler(v, m)
    BY <1>9 DEF DestroyWake, DestroyNotify, Waiting, InHandler
  <2> QED
    BY <1>1, <1>9, <2>1, OrderQuiet DEF DestroyWake, DestroyNotify, Begun
<1>10. CASE InitReturn \/ DestroyBegin \/ DestroyJoin \/ UNCHANGED vars
  BY <1>1, <1>10, OrderQuiet
  DEF InitReturn, DestroyBegin, DestroyStore, DestroyJoin, vars, Begun, InHandler
<1> QED
  BY <1>2, <1>3, <1>4, <1>5, <1>6, <1>7, <1>8, <1>9, <1>10 DEF Next

(* Every accepted message is handled, or waits in order: the swap of the     *)
(* lists loses none, repeats none and lets none overtake another.           *)
THEOREM OrderCorrect == Spec => []AcceptedInOrder
<1>1. Init => AcceptedInOrder
  BY DEF Init, MailboxInit, AcceptedInOrder
<1> QED
  BY <1>1, OrderStep, Invariance, PTL DEF Spec

-----------------------------------------------------------------------------
(* Without a throw every step is a step of the abstract queues or leaves     *)
(* them as they are.                                                       *)

NoFault == \A m \in Mailboxes : ~faulted[m]

\* Nothing is left behind when nothing throws.
LEMMA NoFaultInv ==
    ASSUME Throwing = {}, ThrowingHooks = {}
    PROVE  Spec => []NoFault
<1>1. Init => NoFault
  BY DEF Init, MailboxInit, NoFault
<1>2. ASSUME NEW w \in Workers, Throw(w) PROVE FALSE
  BY <1>2 DEF Throw, ProcessThrow
<1>3. ASSUME NEW w \in Workers, Work(w), NoFault PROVE NoFault'
  BY <1>3 DEF Work, Process, ProcessLock, ProcessSwap, ProcessBegin,
     ProcessNullActor, ProcessCount, ProcessHandle, ProcessPopFront,
     ProcessEnd, NoFault
<1>4. ASSUME NEW w \in Workers, InitThread(w) \/ Serve(w) \/ Wake(w), NoFault
      PROVE  NoFault'
  BY <1>4 DEF InitThread, StartThread, Serve, TestRuning, Pop, PopWait,
     PopLock, PopBusy, PopTake, PopNone, Splice, Wake, SpuriousWake, mailVars,
     NoFault
<1>5. ASSUME NEW t \in Workers \cup Senders, NEW m \in Mailboxes, NoFault,
             ScheduleStep(t, m) \/ \E x \in Messages : SendMsg(t, m, x)
      PROVE  NoFault'
  BY <1>5 DEF ScheduleStep, Schedule, PushReturn, SendMsg, PushRefused,
     PushAccepted, mailVars, NoFault
<1>6. ASSUME NEW m \in Mailboxes, NoFault,
             \/ RegisterActor(m) \/ DestructDerived(m)
             \/ UnRegisterWait(m) \/ UnRegisterReturn(m)
      PROVE  NoFault'
  BY <1>6 DEF RegisterActor, RegisterMailbox, DestructDerived, UnRegisterWait,
     UnRegisterLock, UnRegisterReturn, UnRegisterClear, mailVars, NoFault
<1>7. ASSUME NoFault, InitReturn \/ DestroyBegin \/ DestroyWake \/ DestroyJoin
                        \/ UNCHANGED vars
      PROVE  NoFault'
  BY <1>7 DEF InitReturn, DestroyBegin, DestroyStore, DestroyWake,
     DestroyNotify, DestroyJoin, vars, mailVars, NoFault
<1>8. NoFault /\ [Next]_vars => NoFault'
  BY <1>2, <1>3, <1>4, <1>5, <1>6, <1>7 DEF Next
<1> QED
  BY <1>1, <1>8, PTL DEF Spec

\* The variables that hold the queue of mailbox m are left as they are.
LEMMA MailQuiet ==
    ASSUME NEW m \in Mailboxes,
           listHandle'[m] = listHandle[m],
           listRecive'[m] = listRecive[m],
           Begun(m)' <=> Begun(m)
    PROVE  QueueOf(m)' = QueueOf(m) /\ RunningOf(m)' = RunningOf(m)
  BY DEF QueueOf, RunningOf, NotBegun, Begun

\* A step that changes no queue is a stuttering step.
LEMMA MailStutter ==
    ASSUME pActor' = pActor,
           \A m \in Mailboxes :
              QueueOf(m)' = QueueOf(m) /\ RunningOf(m)' = RunningOf(m)
    PROVE  UNCHANGED Mail!mailbox
  BY DEF Mail!mailbox

\* Head and tail of two lists together are those of the first, if not empty.
LEMMA ConcatHeadTail ==
    ASSUME NEW S, NEW s \in Seq(S), NEW t \in Seq(S), s # <<>>
    PROVE  /\ s \o t # <<>>
           /\ Head(s \o t) = Head(s)
           /\ Tail(s \o t) = Tail(s) \o t
<1>1. /\ Len(s) \in Nat \ {0} /\ Len(t) \in Nat
      /\ s \o t \in Seq(S) /\ Len(s \o t) = Len(s) + Len(t)
      /\ \A i \in 1 .. Len(s) + Len(t) :
            (s \o t)[i] = IF i <= Len(s) THEN s[i] ELSE t[i - Len(s)]
  BY ConcatProperties, EmptySeq
<1>2. s \o t # <<>>
  BY <1>1
<1>3. Head(s \o t) = Head(s)
  BY <1>1, <1>2, HeadTailProperties
<1>4. Tail(s \o t) = Tail(s) \o t
  <2>1. /\ Tail(s) \in Seq(S) /\ Len(Tail(s)) = Len(s) - 1
        /\ \A i \in 1 .. Len(Tail(s)) : Tail(s)[i] = s[i + 1]
    BY HeadTailProperties
  <2>2. /\ Tail(s \o t) \in Seq(S)
        /\ Len(Tail(s \o t)) = Len(s) + Len(t) - 1
        /\ \A i \in 1 .. Len(Tail(s \o t)) : Tail(s \o t)[i] = (s \o t)[i + 1]
    BY <1>1, <1>2, HeadTailProperties
  <2>3. /\ Tail(s) \o t \in Seq(S)
        /\ Len(Tail(s) \o t) = Len(s) - 1 + Len(t)
        /\ \A i \in 1 .. Len(s) - 1 + Len(t) : (Tail(s) \o t)[i] =
              IF i <= Len(s) - 1 THEN Tail(s)[i] ELSE t[i - (Len(s) - 1)]
    BY <2>1, ConcatProperties
  <2>4. \A i \in 1 .. Len(s) - 1 + Len(t) :
           Tail(s \o t)[i] = (Tail(s) \o t)[i]
    BY <1>1, <2>1, <2>2, <2>3
  <2>5. Len(Tail(s \o t)) = Len(Tail(s) \o t)
    BY <1>1, <2>2, <2>3
  <2> QED
    BY <1>1, <2>2, <2>3, <2>4, <2>5, SeqEqual
<1> QED
  BY <1>2, <1>3, <1>4

\* Begun in terms of the worker that steps, for its own mailbox.
LEMMA BegunHere ==
    ASSUME RuntimeInv, NEW m \in Mailboxes, NEW w \in Workers, pBox[w] = m,
           pc[w] \in Processing, Work(w)
    PROVE  /\ Begun(m) <=> pc[w] = "handler"
           /\ Begun(m)' <=> pc'[w] = "handler" /\ pBox'[w] = m
<1> USE DEF RuntimeInv, TypeOK, Goto, At
<1>1. \A v \in Workers : v # w => pc'[v] = pc[v] /\ pBox'[v] = pBox[v]
  BY DEF Work, Process, ProcessLock, ProcessSwap, ProcessBegin,
         ProcessNullActor, ProcessCount, ProcessHandle, ProcessPopFront,
         ProcessEnd, ReturnFromProcess, threadVars
<1>2. \A v \in Workers : v # w => ~InHandler(v, m)
  BY DEF InHandler, LockOwners, Processing
<1> QED
  BY <1>1, <1>2 DEF Begun, InHandler

\* A worker's step leaves the queues of the other mailboxes as they are.
LEMMA MailElsewhere ==
    ASSUME RuntimeInv, NEW m \in Mailboxes, NEW w \in Workers,
           pBox[w] # m, Work(w)
    PROVE  QueueOf(m)' = QueueOf(m) /\ RunningOf(m)' = RunningOf(m)
<1> USE DEF RuntimeInv, TypeOK, Goto, At, mailVars, threadVars
<1>1. listHandle'[m] = listHandle[m] /\ listRecive'[m] = listRecive[m]
  BY DEF Work, Process, ProcessLock, ProcessSwap, ProcessBegin,
         ProcessNullActor, ProcessCount, ProcessHandle, ProcessPopFront,
         ProcessEnd, ReturnFromProcess
<1>2. /\ \A v \in Workers : v # w => pc'[v] = pc[v] /\ pBox'[v] = pBox[v]
      /\ pBox'[w] # m
  BY DEF Work, Process, ProcessLock, ProcessSwap, ProcessBegin,
         ProcessNullActor, ProcessCount, ProcessHandle, ProcessPopFront,
         ProcessEnd, ReturnFromProcess
<1>3. Begun(m)' <=> Begun(m)
  BY <1>2 DEF Begun, InHandler
<1> QED
  BY <1>1, <1>3, MailQuiet

\* Process: the swap stutters, a handler's start and end are Begin and Finish.
LEMMA MailWork ==
    ASSUME RuntimeInv, NoFault, NEW w \in Workers, NEW m \in Mailboxes,
           pBox[w] = m, Work(w)
    PROVE  Mail!MailNext \/ UNCHANGED Mail!mailbox
<1>1. \A n \in Mailboxes : n # m =>
         QueueOf(n)' = QueueOf(n) /\ RunningOf(n)' = RunningOf(n)
  BY MailElsewhere
<1>2. UNCHANGED pActor
  BY DEF Work, Process, ProcessLock, ProcessSwap, ProcessBegin,
         ProcessNullActor, ProcessCount, ProcessHandle, ProcessPopFront,
         ProcessEnd, ReturnFromProcess
<1>3. listHandle[m] \in Seq(Messages) /\ listRecive[m] \in Seq(Messages)
  BY DEF RuntimeInv, TypeOK
<1>4. pc \in [Workers -> {"unborn", "loop", "pop", "wait", "woken", "scan",
                          "process", "exited"} \cup Processing]
  BY DEF RuntimeInv, TypeOK
<1>5. ASSUME QueueOf(m)' = QueueOf(m), RunningOf(m)' = RunningOf(m)
      PROVE  UNCHANGED Mail!mailbox
  BY <1>1, <1>2, <1>5, MailStutter
<1>6. CASE ProcessSwap(w)
  <2>1. pc[w] \in Processing /\ pc[w] # "handler" /\ pc'[w] # "handler"
    BY <1>4, <1>6 DEF ProcessSwap, At, Goto, Processing
  <2>2. ~Begun(m) /\ ~Begun(m)'
    BY <2>1, BegunHere
  <2>3. listHandle[m] = <<>>
    BY <1>6 DEF ProcessSwap, At, RuntimeInv, HandlingState, HeldAt, LockOwners,
                Processing, NoFault
  <2>4. listHandle'[m] = listRecive[m] /\ listRecive'[m] = <<>>
    BY <1>6, <2>3 DEF ProcessSwap, RuntimeInv, TypeOK
  <2>5. <<>> \o listRecive[m] = listRecive[m] \o <<>>
    BY <1>3, ConcatEmptySeq
  <2>6. QueueOf(m) = <<>> \o listRecive[m] /\ RunningOf(m) = NoMsg
    BY <2>2, <2>3 DEF QueueOf, RunningOf, NotBegun, Begun
  <2>7. QueueOf(m)' = listRecive[m] \o <<>> /\ RunningOf(m)' = NoMsg
    BY <2>2, <2>4 DEF QueueOf, RunningOf, NotBegun, Begun
  <2> QED
    BY <1>5, <2>5, <2>6, <2>7
<1>7. CASE ProcessHandle(w)
  <2>1. /\ pc[w] \in Processing /\ pc[w] # "handler"
        /\ pc'[w] = "handler" /\ pBox'[w] = m
    BY <1>4, <1>7 DEF ProcessHandle, At, Goto, Processing
  <2>2. ~Begun(m) /\ Begun(m)'
    BY <2>1, BegunHere
  <2>3. listHandle[m] # <<>> /\ UNCHANGED <<listHandle, listRecive>>
    BY <1>7 DEF ProcessHandle
  <2>4. /\ QueueOf(m) = listHandle[m] \o listRecive[m]
        /\ RunningOf(m) = NoMsg
    BY <2>2 DEF QueueOf, RunningOf, NotBegun, Begun
  <2>5. /\ QueueOf(m)' = Tail(listHandle[m]) \o listRecive[m]
        /\ RunningOf(m)' = Head(listHandle[m])
    BY <2>2, <2>3 DEF QueueOf, RunningOf, NotBegun, Begun
  <2>6. /\ QueueOf(m) # <<>>
        /\ QueueOf(m)' = Tail(QueueOf(m))
        /\ RunningOf(m)' = Head(QueueOf(m))
    <3>1. /\ listHandle[m] \o listRecive[m] # <<>>
          /\ Head(listHandle[m] \o listRecive[m]) = Head(listHandle[m])
          /\ Tail(listHandle[m] \o listRecive[m]) =
                Tail(listHandle[m]) \o listRecive[m]
      BY <1>3, <2>3, ConcatHeadTail, ZenonT(30)
    <3> QED
      BY <2>4, <2>5, <3>1
  <2>7. pActor[m]
    BY <1>7 DEF ProcessHandle, At, RuntimeInv, HandlingState
  <2>8. Mail!Begin(m)
    BY <1>1, <1>2, <2>4, <2>6, <2>7 DEF Mail!Begin
  <2> QED
    BY <2>8 DEF Mail!MailNext
<1>8. CASE ProcessPopFront(w)
  <2>1. pc[w] = "handler" /\ pc[w] \in Processing /\ pc'[w] # "handler"
    BY <1>4, <1>8 DEF ProcessPopFront, At, Goto, Processing
  <2>2. Begun(m) /\ ~Begun(m)'
    BY <2>1, BegunHere
  <2>3. listHandle'[m] = Tail(listHandle[m]) /\ listRecive' = listRecive
    BY <1>8 DEF ProcessPopFront, RuntimeInv, TypeOK
  <2>4. /\ QueueOf(m) = Tail(listHandle[m]) \o listRecive[m]
        /\ RunningOf(m) = Head(listHandle[m])
    BY <2>2 DEF QueueOf, RunningOf, NotBegun, Begun
  <2>5. QueueOf(m)' = QueueOf(m) /\ RunningOf(m)' = NoMsg
    BY <2>2, <2>3, <2>4 DEF QueueOf, RunningOf, NotBegun, Begun
  <2>6. RunningOf(m) # NoMsg
    BY <1>3, <2>1, <2>4, HeadTailProperties, NoMsgAssumption
    DEF RuntimeInv, HandlingState, NoMsgAssumption
  <2>7. Mail!Finish(m)
    BY <1>1, <1>2, <2>5, <2>6 DEF Mail!Finish
  <2> QED
    BY <2>7 DEF Mail!MailNext
<1>9. CASE \/ ProcessLock(w) \/ ProcessBegin(w) \/ ProcessNullActor(w)
           \/ ProcessCount(w) \/ ProcessEnd(w)
  <2>1. UNCHANGED <<listHandle, listRecive>>
    BY <1>9 DEF ProcessLock, ProcessBegin, ProcessNullActor, ProcessCount,
                ProcessEnd, ReturnFromProcess
  <2>2. pc[w] # "handler" /\ pc'[w] # "handler"
    BY <1>4, <1>9
    DEF ProcessLock, ProcessBegin, ProcessNullActor, ProcessCount, ProcessEnd,
        ReturnFromProcess, threadVars, At, Goto
  <2>3. \A v \in Workers : v # w => pc'[v] = pc[v] /\ pBox'[v] = pBox[v]
    BY <1>9 DEF ProcessLock, ProcessBegin, ProcessNullActor, ProcessCount,
                ProcessEnd, ReturnFromProcess, threadVars, Goto, RuntimeInv,
                TypeOK
  <2>4. Begun(m)' <=> Begun(m)
    BY <2>2, <2>3 DEF Begun, InHandler, At
  <2> QED
    BY <1>5, <2>1, <2>4, MailQuiet
<1> QED
  BY <1>6, <1>7, <1>8, <1>9 DEF Work, Process

\* An accepted PushMsg is Send.
LEMMA MailPush ==
    ASSUME RuntimeInv, NEW m \in Mailboxes, NEW t \in Workers \cup Senders,
           NEW x \in Messages, PushAccepted(t, m, x)
    PROVE  Mail!Send(m, x)
<1>1. /\ pActor[m]
      /\ listRecive' = [listRecive EXCEPT ![m] = Append(@, x)]
      /\ UNCHANGED <<pActor, listHandle, pc, pBox>>
  BY DEF PushAccepted, threadVars
<1>2. \A n \in Mailboxes : RunningOf(n)' = RunningOf(n)
  BY <1>1 DEF RunningOf, InHandler, At
<1>3. \A n \in Mailboxes : NotBegun(n)' = NotBegun(n)
  BY <1>1 DEF NotBegun, InHandler, At
<1>4. \A n \in Mailboxes : n # m => QueueOf(n)' = QueueOf(n)
  BY <1>1, <1>3 DEF QueueOf
<1>5. NotBegun(m) \in Seq(Messages) /\ listRecive[m] \in Seq(Messages)
  BY HeadTailProperties
  DEF NotBegun, InHandler, At, RuntimeInv, HandlingState, TypeOK
<1>6. NotBegun(m) \o Append(listRecive[m], x) =
         Append(NotBegun(m) \o listRecive[m], x)
  BY <1>5, AppendConcat
<1>7. listRecive'[m] = Append(listRecive[m], x)
  BY <1>1 DEF RuntimeInv, TypeOK
<1>8. QueueOf(m)' = Append(QueueOf(m), x)
  BY <1>3, <1>6, <1>7 DEF QueueOf
<1> QED
  BY <1>1, <1>2, <1>4, <1>8 DEF Mail!Send

\* ThreadFunc and Pop stutter.
LEMMA MailServe ==
    ASSUME RuntimeInv, NEW w \in Workers, InitThread(w) \/ Serve(w) \/ Wake(w)
    PROVE  UNCHANGED Mail!mailbox
<1> USE DEF RuntimeInv, TypeOK, Goto, At, mailVars, threadVars, schedVars
<1>1. UNCHANGED mailVars
  BY DEF InitThread, StartThread, Serve, TestRuning, Pop, PopWait, PopLock,
         PopBusy, PopTake, PopNone, Splice, Wake, SpuriousWake
<1>2. \A v \in Workers, m \in Mailboxes : InHandler(v, m)' <=> InHandler(v, m)
  BY DEF InitThread, StartThread, Serve, TestRuning, Pop, PopWait, PopLock,
         PopBusy, PopTake, PopNone, Splice, Wake, SpuriousWake, InHandler
<1> QED
  BY <1>1, <1>2, MailQuiet, MailStutter DEF Begun

\* UnRegisterActor with both mutexes held is Close.
LEMMA MailClose ==
    ASSUME RuntimeInv, NoFault, NEW m \in Mailboxes, UnRegisterReturn(m)
    PROVE  Mail!Close(m)
<1>1. /\ actorMutex[m] = Main /\ phase[m] = "leaving"
      /\ pActor' = [pActor EXCEPT ![m] = FALSE]
      /\ listRecive' = [listRecive EXCEPT ![m] = <<>>]
      /\ UNCHANGED <<listHandle, pc, pBox>>
  BY DEF UnRegisterReturn, UnRegisterClear, threadVars
<1>2. pActor[m]
  BY <1>1 DEF RuntimeInv, HandlingState
<1>3. ~Begun(m)
  BY <1>1 DEF Begun, InHandler, At, RuntimeInv, LockOwners, Processing
<1>4. listHandle[m] = <<>>
  BY <1>1 DEF RuntimeInv, HandlingState, HeldAt, NoFault
<1>5. \A n \in Mailboxes : /\ NotBegun(n)' = NotBegun(n)
                           /\ RunningOf(n)' = RunningOf(n)
  BY <1>1 DEF NotBegun, RunningOf, InHandler, At
<1>6. \A n \in Mailboxes : n # m => QueueOf(n)' = QueueOf(n)
  BY <1>1, <1>5 DEF QueueOf
<1>7. NotBegun(m) = <<>> /\ RunningOf(m) = NoMsg
  BY <1>3, <1>4 DEF NotBegun, RunningOf, Begun
<1>8. listRecive'[m] = <<>> /\ <<>> \o <<>> = <<>>
  BY <1>1 DEF RuntimeInv, TypeOK
<1>9. QueueOf(m)' = <<>>
  BY <1>5, <1>7, <1>8 DEF QueueOf
<1> QED
  BY <1>1, <1>2, <1>5, <1>6, <1>7, <1>9 DEF Mail!Close

\* Every step is a step of ActorMail or stutters.
LEMMA MailStep ==
    ASSUME Throwing = {}, ThrowingHooks = {}, RuntimeInv, NoFault, [Next]_vars
    PROVE  [Mail!MailNext]_(Mail!mailbox)
<1>1. ASSUME NEW w \in Workers, Work(w)
      PROVE  Mail!MailNext \/ UNCHANGED Mail!mailbox
  <2>1. pc[w] \in Processing \cup {"process"}
    BY <1>1 DEF Work, Process, ProcessLock, ProcessSwap, ProcessBegin, At,
       ProcessNullActor, ProcessCount, ProcessHandle, ProcessPopFront,
       ProcessEnd, Processing
  <2>2. pBox[w] \in Mailboxes
    BY <2>1 DEF RuntimeInv, LockOwners, TypeOK
  <2> QED
    BY <1>1, <2>2, MailWork
<1>2. ASSUME NEW w \in Workers, Throw(w) PROVE FALSE
  BY <1>2 DEF Throw, ProcessThrow
<1>3. ASSUME NEW t \in Workers \cup Senders, NEW m \in Mailboxes,
             NEW x \in Messages, SendMsg(t, m, x)
      PROVE  Mail!MailNext \/ UNCHANGED Mail!mailbox
  <2>1. CASE PushRefused(m)
    BY <2>1, MailQuiet, MailStutter
    DEF PushRefused, mailVars, threadVars, Begun, InHandler, At
  <2>2. CASE PushAccepted(t, m, x)
    BY <2>2, MailPush DEF Mail!MailNext
  <2> QED
    BY <1>3, <2>1, <2>2 DEF SendMsg
<1>4. ASSUME NEW t \in Workers \cup Senders, NEW m \in Mailboxes,
             ScheduleStep(t, m)
      PROVE  UNCHANGED Mail!mailbox
  <2>1. \A v \in Workers, n \in Mailboxes : InHandler(v, n)' <=> InHandler(v, n)
    BY <1>4 DEF ScheduleStep, Schedule, NotifyOne, Waiting, InHandler, At, Goto,
                RuntimeInv, TypeOK
  <2> QED
    BY <1>4, <2>1, MailQuiet, MailStutter
    DEF ScheduleStep, Schedule, PushReturn, Begun
<1>5. ASSUME NEW m \in Mailboxes, RegisterActor(m)
      PROVE  Mail!MailNext \/ UNCHANGED Mail!mailbox
  <2>1. /\ pActor' = [pActor EXCEPT ![m] = TRUE]
        /\ UNCHANGED <<listHandle, listRecive, pc, pBox>>
    BY <1>5 DEF RegisterActor, RegisterMailbox, threadVars
  <2>2. \A n \in Mailboxes :
           QueueOf(n)' = QueueOf(n) /\ RunningOf(n)' = RunningOf(n)
    BY <2>1 DEF QueueOf, RunningOf, NotBegun, InHandler, At
  <2>3. Mail!Open(m)
    BY <2>1, <2>2 DEF Mail!Open
  <2> QED
    BY <2>3 DEF Mail!MailNext
<1>6. ASSUME NEW m \in Mailboxes, DestructDerived(m) \/ UnRegisterWait(m)
      PROVE  UNCHANGED Mail!mailbox
  BY <1>6, MailQuiet, MailStutter
  DEF DestructDerived, UnRegisterWait, UnRegisterLock, mailVars, threadVars,
      Begun, InHandler, At
<1>7. ASSUME NEW m \in Mailboxes, UnRegisterReturn(m)
      PROVE  Mail!MailNext \/ UNCHANGED Mail!mailbox
  BY <1>7, MailClose DEF Mail!MailNext
<1>8. CASE DestroyWake
  <2>1. \A v \in Workers, n \in Mailboxes : InHandler(v, n)' <=> InHandler(v, n)
    BY <1>8 DEF DestroyWake, DestroyNotify, Waiting, InHandler, At
  <2> QED
    BY <1>8, <2>1, MailQuiet, MailStutter
    DEF DestroyWake, DestroyNotify, mailVars, Begun
<1>9. CASE InitReturn \/ DestroyBegin \/ DestroyJoin \/ UNCHANGED vars
  BY <1>9, MailQuiet, MailStutter
  DEF InitReturn, DestroyBegin, DestroyStore, DestroyJoin, vars, mailVars,
      threadVars, Begun, InHandler, At
<1> QED
  BY <1>1, <1>2, <1>3, <1>4, <1>5, <1>6, <1>7, <1>8, <1>9, MailServe DEF Next

(* As long as no handler throws, the lists, locks and threads implement one   *)
(* first-in first-out queue per actor, with one handler at a time, that is    *)
(* closed only between two handlers (ActorMail).                             *)
THEOREM Refinement ==
    ASSUME Throwing = {}, ThrowingHooks = {}
    PROVE  Spec => ImplementsMail
<1>1. Init => Mail!MailInit
  <2> SUFFICES ASSUME Init PROVE Mail!MailInit
    OBVIOUS
  <2>1. <<>> \o <<>> = <<>>
    OBVIOUS
  <2>2. \A m \in Mailboxes : QueueOf(m) = <<>> /\ RunningOf(m) = NoMsg
    BY <2>1 DEF Init, MailboxInit, SchedulerInit, QueueOf, RunningOf, NotBegun,
                InHandler, At
  <2> QED
    BY <2>2 DEF Init, MailboxInit, Mail!MailInit
<1>2. RuntimeInv /\ NoFault /\ [Next]_vars => [Mail!MailNext]_(Mail!mailbox)
  BY MailStep
<1>3. Spec => []NoFault
  BY NoFaultInv
<1> QED
  BY <1>1, <1>2, <1>3, Invariance, PTL DEF Spec, ImplementsMail, Mail!MailSpec
=============================================================================
