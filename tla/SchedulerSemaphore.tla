-------------------------- MODULE SchedulerSemaphore --------------------------
(***************************************************************************)
(* LibActor/SchedulerSemaphore.{h,cpp}: a pool of threads that serves the   *)
(* list m_listWaite of mailboxes that have messages.                        *)
(*                                                                         *)
(* m_Mutex guards the list, m_Condition parks a worker that finds it empty. *)
(* Pop waits at most once and tests nothing when it wakes; it then takes    *)
(* the first mailbox that no other worker is handling and moves the busy    *)
(* ones it passed to the end.                                              *)
(***************************************************************************)
EXTENDS Mailbox, FiniteSets

CONSTANTS
    nMaxThread,           \* the constructor's argument
    HardwareConcurrency   \* std::thread::hardware_concurrency()

\* The constructor leaves m_iMaxThreadNum unassigned unless its argument is 0:
\* Init may then start any number of threads.
InitialThreadNum ==
    IF nMaxThread # 0 THEN 0 .. Cardinality(Workers)
    ELSE IF HardwareConcurrency = 0 THEN {4}
    ELSE {HardwareConcurrency * 2}

ASSUME SchedulerAssumption ==
    /\ nMaxThread \in Nat
    /\ HardwareConcurrency \in Nat
    /\ IsFiniteSet(Workers)
    /\ InitialThreadNum \subseteq 0 .. Cardinality(Workers)

VARIABLES
    bRuning,        \* the atomic m_bRuning
    iMaxThreadNum,
    listWaite,
    schedMutex,     \* the worker holding m_Mutex beyond one step
    listBusy        \* listBusy[w]: Pop's local list

schedVars == <<bRuning, iMaxThreadNum, listWaite, schedMutex, listBusy>>

SchedulerInit ==
    /\ bRuning = TRUE
    /\ iMaxThreadNum \in InitialThreadNum
    /\ listWaite = <<>>
    /\ schedMutex = Free
    /\ listBusy = [w \in Workers |-> <<>>]
    /\ pc = [w \in Workers |-> "unborn"]
    /\ pBox = [w \in Workers |-> NoBox]

Started == {w \in Workers : pc[w] # "unborn"}
Waiting == {w \in Workers : pc[w] = "wait"}

(* The loop of Init.  Threads that exist already run meanwhile.            *)
StartThread(w) ==
    /\ At(w, "unborn")
    /\ Cardinality(Started) < iMaxThreadNum
    /\ Goto(w, "loop")
    /\ UNCHANGED <<pBox, mailVars, schedVars>>

\* Variant: nobody is notified.
NotifyNobody == UNCHANGED pc

(* m_Condition.notify_one(): one parked worker, if there is one.            *)
NotifyOne ==
    IF Waiting = {} THEN UNCHANGED pc
    ELSE \E w \in Waiting : Goto(w, "woken")

(* Schedule, the tail of thread t's PushMsg to mailbox m.                   *)
Schedule(t, m) ==
    /\ schedMutex = Free
    /\ PushReturn(t, m)
    /\ listWaite' = Append(listWaite, m)
    /\ NotifyOne
    /\ UNCHANGED <<pBox, bRuning, iMaxThreadNum, schedMutex, listBusy>>

-----------------------------------------------------------------------------
(* ThreadFunc and Pop, run by worker w.                                    *)

TestRuning(w) ==
    /\ At(w, "loop")
    /\ Goto(w, IF bRuning THEN "pop" ELSE "exited")
    /\ UNCHANGED <<pBox, mailVars, schedVars>>

PopWait(w) ==
    /\ At(w, "pop")
    /\ schedMutex = Free
    /\ listWaite = <<>>
    /\ Goto(w, "wait")
    /\ UNCHANGED <<pBox, mailVars, schedVars>>

\* A wait may return without a notification.
SpuriousWake(w) ==
    /\ At(w, "wait")
    /\ Goto(w, "woken")
    /\ UNCHANGED <<pBox, mailVars, schedVars>>

PopLock(w) ==
    /\ At(w, "woken") \/ (At(w, "pop") /\ listWaite # <<>>)
    /\ schedMutex = Free
    /\ schedMutex' = w
    /\ Goto(w, "scan")
    /\ UNCHANGED <<pBox, mailVars, bRuning, iMaxThreadNum, listWaite, listBusy>>

PopBusy(w) ==
    /\ At(w, "scan")
    /\ listWaite # <<>>
    /\ IsHandling(Head(listWaite))
    /\ listWaite' = Tail(listWaite)
    /\ listBusy' = [listBusy EXCEPT ![w] = Append(@, Head(listWaite))]
    /\ UNCHANGED <<threadVars, mailVars, bRuning, iMaxThreadNum, schedMutex>>

\* Variant: Pop forgets the busy mailboxes.
SpliceNothing(w, rest) ==
    /\ listWaite' = rest
    /\ listBusy' = [listBusy EXCEPT ![w] = <<>>]
    /\ schedMutex' = Free
    /\ UNCHANGED <<mailVars, bRuning, iMaxThreadNum>>

\* The end of Pop: the busy mailboxes go back behind what the list now holds.
Splice(w, rest) ==
    /\ listWaite' = rest \o listBusy[w]
    /\ listBusy' = [listBusy EXCEPT ![w] = <<>>]
    /\ schedMutex' = Free
    /\ UNCHANGED <<mailVars, bRuning, iMaxThreadNum>>

PopTake(w) ==
    /\ At(w, "scan")
    /\ listWaite # <<>>
    /\ ~IsHandling(Head(listWaite))
    /\ pBox' = [pBox EXCEPT ![w] = Head(listWaite)]
    /\ Goto(w, "process")
    /\ Splice(w, Tail(listWaite))

\* Variant: Pop waits again for a mailbox instead of returning null.
PopAgain(w) ==
    /\ At(w, "scan")
    /\ listWaite = <<>>
    /\ Goto(w, "pop")
    /\ UNCHANGED pBox
    /\ Splice(w, <<>>)

PopNone(w) ==
    /\ At(w, "scan")
    /\ listWaite = <<>>
    /\ Goto(w, "loop")
    /\ UNCHANGED pBox
    /\ Splice(w, <<>>)

Pop(w) ==
    PopWait(w) \/ PopLock(w) \/ PopBusy(w) \/ PopTake(w) \/ PopNone(w)

-----------------------------------------------------------------------------
(* Destroy, run by the main thread: neither step takes m_Mutex.             *)

DestroyStore ==
    /\ bRuning' = FALSE
    /\ UNCHANGED <<threadVars, mailVars, iMaxThreadNum, listWaite, schedMutex,
                   listBusy>>

DestroyNotify ==
    /\ pc' = [w \in Workers |-> IF w \in Waiting THEN "woken" ELSE pc[w]]
    /\ UNCHANGED <<pBox, mailVars, schedVars>>

AllExited == \A w \in Started : pc[w] = "exited"
=============================================================================
