------------------------------- MODULE Mailbox -------------------------------
(***************************************************************************)
(* LibActor/Mailbox.{h,cpp}: the mailbox of one actor, for a set of them.   *)
(*                                                                         *)
(* A mailbox keeps two message lists and two mutexes.  Any thread appends   *)
(* to m_listRecive under m_ReciveMutex; the one worker that holds           *)
(* m_ActorMutex swaps the lists and works through m_listHandle.  Each       *)
(* action below is the code between two points at which another thread can  *)
(* observe or change the mailbox.                                           *)
(*                                                                         *)
(* A message is a member of Messages and is sent at most once, so that the  *)
(* history variables accepted and handled tell one delivery from two.       *)
(***************************************************************************)
EXTENDS Integers, Sequences

CONSTANTS
    Workers,        \* the threads of the scheduler, which run Process
    Senders,        \* other threads that send messages
    Main,           \* the thread that creates and deletes actors
    Mailboxes,      \* the mailboxes handed out by the directory
    Messages,       \* the messages of one execution
    Throwing,       \* messages whose handler may throw std::exception
    ThrowingHooks,  \* mailboxes whose OnBegin/OnEndMsgHandle may throw
    Free,           \* the owner of an unlocked mutex
    NoBox           \* the null Mailbox*

Threads == Workers \cup Senders \cup {Main}

ASSUME MailboxAssumption ==
    /\ Workers \cap Senders = {}
    /\ Main \notin Workers \cup Senders
    /\ Free \notin Threads
    /\ NoBox \notin Mailboxes
    /\ Throwing \subseteq Messages
    /\ ThrowingHooks \subseteq Mailboxes

VARIABLES
    pActor,       \* pActor[m]: m_pActor is not null
    reciveMutex,  \* the thread holding m_ReciveMutex beyond one step
    listRecive,
    actorMutex,   \* the thread holding m_ActorMutex
    listHandle,
    nUnHanle,     \* the atomic counter behind IsHandling
    pc,           \* where each worker is in ThreadFunc, Pop or Process
    pBox,         \* the mailbox a worker popped, the `this' of Process
    accepted,     \* history: messages PushMsg appended, in order
    handled,      \* history: messages given to a handler, in order
    faulted,      \* history: a throw left messages behind in m_listHandle
    inLoop,       \* history: OnBeginMsgHandle was called, OnEnd not yet
    crashed       \* a null m_pActor was dereferenced

mailVars == <<pActor, reciveMutex, listRecive, actorMutex, listHandle,
              nUnHanle, accepted, handled, faulted, inLoop, crashed>>
threadVars == <<pc, pBox>>

\* What a worker does with a mailbox it popped, in the order of the code.
Processing == {"swap", "begin", "count", "next", "handler"}

IsHandling(m) == nUnHanle[m] # 0

\* The thread is inside PushMsg, on its way to Schedule.
Pushing(t) == \E m \in Mailboxes : reciveMutex[m] = t

MailboxInit ==
    /\ pActor = [m \in Mailboxes |-> FALSE]
    /\ reciveMutex = [m \in Mailboxes |-> Free]
    /\ listRecive = [m \in Mailboxes |-> <<>>]
    /\ actorMutex = [m \in Mailboxes |-> Free]
    /\ listHandle = [m \in Mailboxes |-> <<>>]
    /\ nUnHanle = [m \in Mailboxes |-> 0]
    /\ accepted = [m \in Mailboxes |-> <<>>]
    /\ handled = [m \in Mailboxes |-> <<>>]
    /\ faulted = [m \in Mailboxes |-> FALSE]
    /\ inLoop = [m \in Mailboxes |-> FALSE]
    /\ crashed = FALSE

-----------------------------------------------------------------------------
(* RegisterActor takes no lock.                                            *)
RegisterMailbox(m) ==
    /\ pActor' = [pActor EXCEPT ![m] = TRUE]
    /\ UNCHANGED <<reciveMutex, listRecive, actorMutex, listHandle, nUnHanle,
                   accepted, handled, faulted, inLoop, crashed, threadVars>>

\* Variant: UnRegisterActor does not wait for m_ActorMutex.
UnRegisterLockUnheld(m) ==
    /\ actorMutex' = [actorMutex EXCEPT ![m] = Main]
    /\ UNCHANGED <<pActor, reciveMutex, listRecive, listHandle, nUnHanle,
                   accepted, handled, faulted, inLoop, crashed, threadVars>>

\* Variant: UnRegisterActor leaves m_listRecive as it is.
UnRegisterClearActorOnly(m) ==
    /\ actorMutex[m] = Main
    /\ reciveMutex[m] = Free
    /\ pActor' = [pActor EXCEPT ![m] = FALSE]
    /\ actorMutex' = [actorMutex EXCEPT ![m] = Free]
    /\ UNCHANGED <<reciveMutex, listRecive, listHandle, nUnHanle, accepted,
                   handled, faulted, inLoop, crashed>>
    /\ UNCHANGED threadVars

(* UnRegisterActor: m_ActorMutex first, then both assignments under         *)
(* m_ReciveMutex.  m_listHandle is left as it is.                          *)
UnRegisterLock(m) ==
    /\ actorMutex[m] = Free
    /\ actorMutex' = [actorMutex EXCEPT ![m] = Main]
    /\ UNCHANGED <<pActor, reciveMutex, listRecive, listHandle, nUnHanle,
                   accepted, handled, faulted, inLoop, crashed, threadVars>>

UnRegisterClear(m) ==
    /\ actorMutex[m] = Main
    /\ reciveMutex[m] = Free
    /\ pActor' = [pActor EXCEPT ![m] = FALSE]
    /\ listRecive' = [listRecive EXCEPT ![m] = <<>>]
    /\ actorMutex' = [actorMutex EXCEPT ![m] = Free]
    /\ UNCHANGED <<reciveMutex, listHandle, nUnHanle, accepted, handled,
                   faulted, inLoop, crashed, threadVars>>

(* PushMsg.  With no actor it returns false.  Otherwise it appends, and the *)
(* push onto an empty list goes on to Schedule with m_ReciveMutex held.     *)
PushRefused(m) ==
    /\ reciveMutex[m] = Free
    /\ ~pActor[m]
    /\ UNCHANGED <<mailVars, threadVars>>

\* Variant: PushMsg schedules for every message.
PushSchedulesAlways(t, m, x) ==
    /\ reciveMutex[m] = Free
    /\ pActor[m]
    /\ listRecive' = [listRecive EXCEPT ![m] = Append(@, x)]
    /\ accepted' = [accepted EXCEPT ![m] = Append(@, x)]
    /\ reciveMutex' = [reciveMutex EXCEPT ![m] = t]
    /\ UNCHANGED <<pActor, actorMutex, listHandle, nUnHanle, handled,
                   faulted, inLoop, crashed, threadVars>>

\* Variant: PushMsg leaves it to the worker that is handling the mailbox.
PushSkipsBusy(t, m, x) ==
    /\ reciveMutex[m] = Free
    /\ pActor[m]
    /\ listRecive' = [listRecive EXCEPT ![m] = Append(@, x)]
    /\ accepted' = [accepted EXCEPT ![m] = Append(@, x)]
    /\ reciveMutex' = [reciveMutex EXCEPT ![m] =
          IF Len(listRecive'[m]) = 1 /\ ~IsHandling(m) THEN t ELSE Free]
    /\ UNCHANGED <<pActor, actorMutex, listHandle, nUnHanle, handled,
                   faulted, inLoop, crashed, threadVars>>

PushAccepted(t, m, x) ==
    /\ reciveMutex[m] = Free
    /\ pActor[m]
    /\ listRecive' = [listRecive EXCEPT ![m] = Append(@, x)]
    /\ accepted' = [accepted EXCEPT ![m] = Append(@, x)]
    /\ reciveMutex' = [reciveMutex EXCEPT ![m] =
                          IF Len(listRecive'[m]) = 1 THEN t ELSE Free]
    /\ UNCHANGED <<pActor, actorMutex, listHandle, nUnHanle, handled,
                   faulted, inLoop, crashed, threadVars>>

PushReturn(t, m) ==
    /\ reciveMutex[m] = t
    /\ reciveMutex' = [reciveMutex EXCEPT ![m] = Free]
    /\ UNCHANGED <<pActor, listRecive, actorMutex, listHandle, nUnHanle,
                   accepted, handled, faulted, inLoop, crashed>>

-----------------------------------------------------------------------------
(* Process, run by worker w on the mailbox it popped.                      *)

At(w, place) == pc[w] = place
Goto(w, place) == pc' = [pc EXCEPT ![w] = place]

\* Variant: Process does not lock m_ActorMutex.
ProcessUnlocked(w) ==
    /\ At(w, "process")
    /\ actorMutex' = [actorMutex EXCEPT ![pBox[w]] = w]
    /\ Goto(w, "swap")
    /\ UNCHANGED <<pActor, reciveMutex, listRecive, listHandle, nUnHanle,
                   accepted, handled, faulted, inLoop, crashed, pBox>>

ProcessLock(w) ==
    LET m == pBox[w] IN
    /\ At(w, "process")
    /\ actorMutex[m] = Free
    /\ actorMutex' = [actorMutex EXCEPT ![m] = w]
    /\ Goto(w, "swap")
    /\ UNCHANGED <<pActor, reciveMutex, listRecive, listHandle, nUnHanle,
                   accepted, handled, faulted, inLoop, crashed, pBox>>

\* Variant: Process copies m_listRecive.
ProcessCopy(w) ==
    LET m == pBox[w] IN
    /\ At(w, "swap")
    /\ reciveMutex[m] = Free
    /\ listHandle' = [listHandle EXCEPT ![m] = listRecive[m]]
    /\ Goto(w, "begin")
    /\ UNCHANGED <<pActor, reciveMutex, listRecive, actorMutex, nUnHanle,
                   accepted, handled, faulted, inLoop, crashed, pBox>>

\* Variant: Process splices m_listRecive behind what a throw left over.
ProcessAppend(w) ==
    LET m == pBox[w] IN
    /\ At(w, "swap")
    /\ reciveMutex[m] = Free
    /\ listHandle' = [listHandle EXCEPT ![m] = @ \o listRecive[m]]
    /\ listRecive' = [listRecive EXCEPT ![m] = <<>>]
    /\ Goto(w, "begin")
    /\ UNCHANGED <<pActor, reciveMutex, actorMutex, nUnHanle, accepted,
                   handled, faulted, inLoop, crashed, pBox>>

ProcessSwap(w) ==
    LET m == pBox[w] IN
    /\ At(w, "swap")
    /\ reciveMutex[m] = Free
    /\ listHandle' = [listHandle EXCEPT ![m] = listRecive[m]]
    /\ listRecive' = [listRecive EXCEPT ![m] = listHandle[m]]
    /\ Goto(w, "begin")
    /\ UNCHANGED <<pActor, reciveMutex, actorMutex, nUnHanle, accepted,
                   handled, faulted, inLoop, crashed, pBox>>

(* m_pActor->OnBeginMsgHandle(): nothing tests m_pActor.                   *)
ProcessBegin(w) ==
    LET m == pBox[w] IN
    /\ At(w, "begin")
    /\ pActor[m]
    /\ inLoop' = [inLoop EXCEPT ![m] = TRUE]
    /\ Goto(w, "count")
    /\ UNCHANGED <<pActor, reciveMutex, listRecive, actorMutex, listHandle,
                   nUnHanle, accepted, handled, faulted, crashed, pBox>>

ProcessNullActor(w) ==
    /\ At(w, "begin")
    /\ ~pActor[pBox[w]]
    /\ crashed' = TRUE
    /\ UNCHANGED <<pActor, reciveMutex, listRecive, actorMutex, listHandle,
                   nUnHanle, accepted, handled, faulted, inLoop, threadVars>>

\* Variant: Process does not set m_nUnHanle.
ProcessUncounted(w) ==
    /\ At(w, "count")
    /\ Goto(w, "next")
    /\ UNCHANGED <<pActor, reciveMutex, listRecive, actorMutex, listHandle,
                   nUnHanle, accepted, handled, faulted, inLoop, crashed, pBox>>

ProcessCount(w) ==
    LET m == pBox[w] IN
    /\ At(w, "count")
    /\ nUnHanle' = [nUnHanle EXCEPT ![m] = Len(listHandle[m])]
    /\ Goto(w, "next")
    /\ UNCHANGED <<pActor, reciveMutex, listRecive, actorMutex, listHandle,
                   accepted, handled, faulted, inLoop, crashed, pBox>>

(* The handler of the front message starts; the message stays in the list   *)
(* until the handler has returned.                                         *)
ProcessHandle(w) ==
    LET m == pBox[w] IN
    /\ At(w, "next")
    /\ listHandle[m] # <<>>
    /\ handled' = [handled EXCEPT ![m] = Append(@, Head(listHandle[m]))]
    /\ Goto(w, "handler")
    /\ UNCHANGED <<pActor, reciveMutex, listRecive, actorMutex, listHandle,
                   nUnHanle, accepted, faulted, inLoop, crashed, pBox>>

\* Variant: Process does not decrement m_nUnHanle.
ProcessPopOnly(w) ==
    /\ At(w, "handler")
    /\ ~Pushing(w)
    /\ listHandle' = [listHandle EXCEPT ![pBox[w]] = Tail(@)]
    /\ Goto(w, "next")
    /\ UNCHANGED <<pActor, reciveMutex, listRecive, actorMutex, nUnHanle,
                   accepted, handled, faulted, inLoop, crashed, pBox>>

ProcessPopFront(w) ==
    LET m == pBox[w] IN
    /\ At(w, "handler")
    /\ ~Pushing(w)
    /\ listHandle' = [listHandle EXCEPT ![m] = Tail(@)]
    /\ nUnHanle' = [nUnHanle EXCEPT ![m] = @ - 1]
    /\ Goto(w, "next")
    /\ UNCHANGED <<pActor, reciveMutex, listRecive, actorMutex, accepted,
                   handled, faulted, inLoop, crashed, pBox>>

\* Variant: m_ActorMutex stays locked.
ReturnLocked(w) ==
    /\ pBox' = [pBox EXCEPT ![w] = NoBox]
    /\ Goto(w, "loop")
    /\ UNCHANGED <<pActor, reciveMutex, listRecive, actorMutex, listHandle,
                   nUnHanle, accepted, handled, crashed>>

(* Leaving Process: OnEndMsgHandle and the unlock, or the catch clause and  *)
(* the unlock.  Either way the worker is back in ThreadFunc's loop.         *)
ReturnFromProcess(w) ==
    /\ actorMutex' = [actorMutex EXCEPT ![pBox[w]] = Free]
    /\ pBox' = [pBox EXCEPT ![w] = NoBox]
    /\ Goto(w, "loop")
    /\ UNCHANGED <<pActor, reciveMutex, listRecive, listHandle, nUnHanle,
                   accepted, handled, crashed>>

ProcessEnd(w) ==
    /\ At(w, "next")
    /\ listHandle[pBox[w]] = <<>>
    /\ inLoop' = [inLoop EXCEPT ![pBox[w]] = FALSE]
    /\ UNCHANGED faulted
    /\ ReturnFromProcess(w)

(* OnBeginMsgHandle, a handler, or OnEndMsgHandle throws.  What is in        *)
(* m_listHandle stays there, the message being handled included.           *)
ProcessThrow(w) ==
    LET m == pBox[w]
        inBegin == At(w, "begin") /\ pActor[m] /\ m \in ThrowingHooks
        inHandler == /\ At(w, "handler")
                     /\ ~Pushing(w)
                     /\ Head(listHandle[m]) \in Throwing
        inEnd == At(w, "next") /\ listHandle[m] = <<>> /\ m \in ThrowingHooks
    IN
    /\ inBegin \/ inHandler \/ inEnd
    /\ faulted' = [faulted EXCEPT ![m] = @ \/ listHandle[m] # <<>>]
    /\ inLoop' = [inLoop EXCEPT ![m] = inHandler]
    /\ ReturnFromProcess(w)

Process(w) ==
    \/ ProcessLock(w) \/ ProcessSwap(w) \/ ProcessBegin(w)
    \/ ProcessNullActor(w) \/ ProcessCount(w) \/ ProcessHandle(w)
    \/ ProcessPopFront(w) \/ ProcessEnd(w)
=============================================================================
