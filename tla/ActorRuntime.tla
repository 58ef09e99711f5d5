----------------------------- MODULE ActorRuntime -----------------------------
(***************************************************************************)
(* The local half of LibActor: Framework, Actor, the mailboxes and the      *)
(* scheduler together.                                                     *)
(*                                                                         *)
(* Senders are application threads that call Framework::SendMsg; handlers   *)
(* call it too.  The main thread creates and deletes the actors, which it   *)
(* alone may do (Mailbox.cpp:23), and shuts the scheduler down.             *)
(***************************************************************************)
EXTENDS SchedulerSemaphore

CONSTANTS
    Deletable,    \* the mailboxes whose actor the program deletes
    MayDestroy    \* whether the program shuts the scheduler down

ASSUME RuntimeAssumption ==
    Deletable \subseteq Mailboxes /\ MayDestroy \in BOOLEAN

VARIABLES
    phase,    \* the life of the actor of a mailbox
    mainPc,   \* where the main thread is in IScheduler's Init and Destroy
    sent      \* the messages SendMsg has been called with

runtimeVars == <<phase, mainPc, sent>>
vars == <<mailVars, threadVars, schedVars, runtimeVars>>

\* unborn:  no actor yet             alive:  constructed
\* broken:  ~Derived has run, ~Actor waits for m_ActorMutex
\* leaving: ~Actor holds it          dead:   destroyed
Phases == {"unborn", "alive", "broken", "leaving", "dead"}

MainIdle ==
    mainPc = "idle" /\ \A m \in Mailboxes : phase[m] \notin {"broken", "leaving"}

Init ==
    /\ MailboxInit
    /\ SchedulerInit
    /\ phase = [m \in Mailboxes |-> "unborn"]
    /\ mainPc = "init"
    /\ sent = {}

-----------------------------------------------------------------------------
(* The main thread.                                                        *)

InitThread(w) ==
    /\ ~crashed
    /\ mainPc = "init"
    /\ StartThread(w)
    /\ UNCHANGED runtimeVars

InitReturn ==
    /\ ~crashed
    /\ mainPc = "init"
    /\ Cardinality(Started) = iMaxThreadNum
    /\ mainPc' = "idle"
    /\ UNCHANGED <<mailVars, threadVars, schedVars, phase, sent>>

(* Actor::Actor calls Framework::RegisterActor.  Nobody has the address      *)
(* before the whole actor is constructed, so that is one step.              *)
RegisterActor(m) ==
    /\ ~crashed
    /\ MainIdle
    /\ phase[m] = "unborn"
    /\ phase' = [phase EXCEPT ![m] = "alive"]
    /\ RegisterMailbox(m)
    /\ UNCHANGED <<schedVars, mainPc, sent>>

(* delete pActor: the derived destructor runs first, under no lock, and     *)
(* then ~Actor calls UnRegisterActor.                                      *)
DestructDerived(m) ==
    /\ ~crashed
    /\ MainIdle
    /\ m \in Deletable
    /\ phase[m] = "alive"
    /\ phase' = [phase EXCEPT ![m] = "broken"]
    /\ UNCHANGED <<mailVars, threadVars, schedVars, mainPc, sent>>

UnRegisterWait(m) ==
    /\ ~crashed
    /\ phase[m] = "broken"
    /\ phase' = [phase EXCEPT ![m] = "leaving"]
    /\ UnRegisterLock(m)
    /\ UNCHANGED <<schedVars, mainPc, sent>>

UnRegisterReturn(m) ==
    /\ ~crashed
    /\ phase[m] = "leaving"
    /\ phase' = [phase EXCEPT ![m] = "dead"]
    /\ UnRegisterClear(m)
    /\ UNCHANGED <<schedVars, mainPc, sent>>

(* IScheduler::Destroy.                                                    *)
DestroyBegin ==
    /\ ~crashed
    /\ MainIdle
    /\ MayDestroy
    /\ mainPc' = "notify"
    /\ DestroyStore
    /\ UNCHANGED <<phase, sent>>

DestroyWake ==
    /\ ~crashed
    /\ mainPc = "notify"
    /\ mainPc' = "join"
    /\ DestroyNotify
    /\ UNCHANGED <<phase, sent>>

DestroyJoin ==
    /\ ~crashed
    /\ mainPc = "join"
    /\ AllExited
    /\ mainPc' = "destroyed"
    /\ UNCHANGED <<mailVars, threadVars, schedVars, phase, sent>>

-----------------------------------------------------------------------------
(* Framework::SendMsg to a local address, by a sender or by the handler a   *)
(* worker is running.  The address is that of an actor that was constructed *)
(* at some time; SendMsg does not pass on PushMsg's result.                 *)
CanSend(t) ==
    /\ ~Pushing(t)
    /\ t \in Senders \/ (t \in Workers /\ At(t, "handler"))

SendMsg(t, m, x) ==
    /\ ~crashed
    /\ CanSend(t)
    /\ phase[m] # "unborn"
    /\ x \in Messages \ sent
    /\ sent' = sent \cup {x}
    /\ PushRefused(m) \/ PushAccepted(t, m, x)
    /\ UNCHANGED <<schedVars, phase, mainPc>>

(* The rest of PushMsg, and the steps of a worker.                          *)
ScheduleStep(t, m) == ~crashed /\ Schedule(t, m) /\ UNCHANGED runtimeVars

Serve(w) == ~crashed /\ (TestRuning(w) \/ Pop(w)) /\ UNCHANGED runtimeVars

Work(w) == ~crashed /\ Process(w) /\ UNCHANGED <<schedVars, runtimeVars>>

Throw(w) == ~crashed /\ ProcessThrow(w) /\ UNCHANGED <<schedVars, runtimeVars>>

Wake(w) == ~crashed /\ SpuriousWake(w) /\ UNCHANGED runtimeVars

Next ==
    \/ \E w \in Workers :
          InitThread(w) \/ Serve(w) \/ Work(w) \/ Throw(w) \/ Wake(w)
    \/ \E t \in Workers \cup Senders, m \in Mailboxes :
          \/ ScheduleStep(t, m)
          \/ \E x \in Messages : SendMsg(t, m, x)
    \/ \E m \in Mailboxes :
          \/ RegisterActor(m) \/ DestructDerived(m)
          \/ UnRegisterWait(m) \/ UnRegisterReturn(m)
    \/ InitReturn \/ DestroyBegin \/ DestroyWake \/ DestroyJoin

Spec == Init /\ [][Next]_vars

(* A thread that can go on again and again does go on: the mutexes are      *)
(* starvation free.  Handlers return; nobody is obliged to send, to delete, *)
(* to destroy or to be woken for no reason.                                *)
Fairness ==
    /\ \A w \in Workers : SF_vars(Serve(w) \/ Work(w))
    /\ \A t \in Workers \cup Senders :
          SF_vars(\E m \in Mailboxes : ScheduleStep(t, m))
    /\ WF_vars((\E w \in Workers : InitThread(w)) \/ InitReturn)
    /\ SF_vars(\E m \in Mailboxes : UnRegisterWait(m) \/ UnRegisterReturn(m))
    /\ WF_vars(DestroyWake \/ DestroyJoin)

FairSpec == Spec /\ Fairness
=============================================================================
