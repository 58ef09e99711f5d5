--------------------------- MODULE ActorProperties ---------------------------
(***************************************************************************)
(* What the actor runtime must keep true, and the abstract queue it         *)
(* implements as long as no handler throws.                                 *)
(***************************************************************************)
EXTENDS ActorRuntime, SequencesExt

CONSTANT NoMsg    \* no message is being handled

ASSUME NoMsgAssumption == NoMsg \notin Messages

(* Every variable holds a value its C++ type, or the role of the history     *)
(* variable, allows.                                                       *)
TypeOK ==
    /\ pActor \in [Mailboxes -> BOOLEAN]
    /\ reciveMutex \in [Mailboxes -> Threads \cup {Free}]
    /\ listRecive \in [Mailboxes -> Seq(Messages)]
    /\ actorMutex \in [Mailboxes -> Threads \cup {Free}]
    /\ listHandle \in [Mailboxes -> Seq(Messages)]
    /\ nUnHanle \in [Mailboxes -> Nat]
    /\ pc \in [Workers -> {"unborn", "loop", "pop", "wait", "woken", "scan",
                           "process", "exited"} \cup Processing]
    /\ pBox \in [Workers -> Mailboxes \cup {NoBox}]
    /\ accepted \in [Mailboxes -> Seq(Messages)]
    /\ handled \in [Mailboxes -> Seq(Messages)]
    /\ faulted \in [Mailboxes -> BOOLEAN]
    /\ inLoop \in [Mailboxes -> BOOLEAN]
    /\ crashed \in BOOLEAN
    /\ bRuning \in BOOLEAN
    /\ iMaxThreadNum \in Nat
    /\ listWaite \in Seq(Mailboxes)
    /\ schedMutex \in Workers \cup {Free}
    /\ listBusy \in [Workers -> Seq(Mailboxes)]
    /\ phase \in [Mailboxes -> Phases]
    /\ mainPc \in {"init", "idle", "notify", "join", "destroyed"}
    /\ sent \subseteq Messages

-----------------------------------------------------------------------------
(* Handling.                                                               *)

InHandler(w, m) == At(w, "handler") /\ pBox[w] = m

\* The messages swapped out for handling whose handler was not called yet.
NotBegun(m) ==
    IF \E w \in Workers : InHandler(w, m) THEN Tail(listHandle[m])
    ELSE listHandle[m]

\* The worker that holds m's m_ActorMutex is at one of these places.
HeldAt(m, places) == actorMutex[m] \in Workers /\ pc[actorMutex[m]] \in places

(* "Thread safe" (Actor.h:20-24): no two workers are between the begin and   *)
(* the end of the message loop of one actor, whichever of them popped its   *)
(* mailbox first.                                                          *)
LoopsExclusive ==
    \A v, w \in Workers :
        /\ v # w
        /\ pc[v] \in Processing
        /\ pc[w] \in Processing
        => pBox[v] # pBox[w]

(* Every message PushMsg accepted is in exactly one place, and in order: it  *)
(* was handled, or waits in m_listHandle, or behind that in m_listRecive;   *)
(* the swap never lets a later message overtake an earlier one.             *)
AcceptedInOrder ==
    \A m \in Mailboxes :
        pActor[m] /\ ~faulted[m] =>
            accepted[m] = handled[m] \o NotBegun(m) \o listRecive[m]

\* s is what is left of t without some of its entries.
Subsequence(s, t) ==
    \E p \in [DOMAIN s -> DOMAIN t] :
        /\ \A i, j \in DOMAIN s : i < j => p[i] < p[j]
        /\ \A i \in DOMAIN s : s[i] = t[p[i]]

(* Throwing handlers included: an actor handles a message at most once, and  *)
(* never one that was accepted before another it has handled already.  The  *)
(* messages a throw leaves in m_listHandle are swapped back and must not    *)
(* come to light again.                                                    *)
HandledInOrder == \A m \in Mailboxes : Subsequence(handled[m], accepted[m])

(* m_nUnHanle marks a mailbox busy only while a worker is in its loop; left  *)
(* nonzero it would keep Pop from ever taking the mailbox.                  *)
BusyMeansHandled ==
    \A m \in Mailboxes :
        IsHandling(m) /\ ~faulted[m] => HeldAt(m, {"next", "handler"})

-----------------------------------------------------------------------------
(* Scheduling.                                                             *)

Popped(m, w) == pBox[w] = m /\ pc[w] \in {"process", "swap"}

\* Some worker will get to the messages in m's m_listRecive.
Scheduled(m) ==
    \/ reciveMutex[m] # Free
    \/ Contains(listWaite, m)
    \/ \E w \in Workers : Contains(listBusy[w], m) \/ Popped(m, w)

(* The wakeup is never lost: messages in m_listRecive are always on their    *)
(* way to a worker, although PushMsg schedules for the first one only and   *)
(* the list is swapped out long after the mailbox was popped.               *)
NoLostWakeup ==
    \A m \in Mailboxes :
        listRecive[m] # <<>> /\ ~faulted[m] => Scheduled(m)

\* The places from which a worker may come to swap m's lists.
Tokens(m) ==
    {<<"push", t>> : t \in {t \in Threads : reciveMutex[m] = t}}
        \cup {<<"list", i>> : i \in {i \in DOMAIN listWaite : listWaite[i] = m}}
        \cup (UNION {{<<"busy", w, i>> :
                         i \in {i \in DOMAIN listBusy[w] : listBusy[w][i] = m}} :
                     w \in Workers})
        \cup {<<"popped", w>> : w \in {w \in Workers : Popped(m, w)}}

(* A mailbox is scheduled at most once at a time: m_listWaite never grows    *)
(* beyond the number of mailboxes, and no worker blocks on m_ActorMutex for *)
(* messages that another one has taken.                                     *)
ScheduledOnce == \A m \in Mailboxes : Cardinality(Tokens(m)) <= 1

(* Pop waits once and tests nothing afterwards, and Schedule notifies one    *)
(* worker: still, while m_listWaite has an entry, some worker is awake.     *)
SomeoneAwake ==
    bRuning /\ listWaite # <<>> /\ Started # {} => Started # Waiting

-----------------------------------------------------------------------------
(* Deletion and shutdown.                                                  *)

(* ~Actor waits for the message loop (Mailbox.h:49): once it holds           *)
(* m_ActorMutex, no worker is past OnBeginMsgHandle in that mailbox, and    *)
(* after it returned both lists are empty and stay so.                      *)
DeadIsQuiet ==
    \A m \in Mailboxes :
        /\ phase[m] \in {"leaving", "dead"} =>
              \A w \in Workers :
                  pBox[w] = m => pc[w] \notin {"count", "next", "handler"}
        /\ phase[m] = "dead" /\ ~faulted[m] =>
              listRecive[m] = <<>> /\ listHandle[m] = <<>>

(* Mailbox.h:49, read as a promise to the author of an actor: an actor is    *)
(* deleted only when its messages have been handled, so no handler runs on  *)
(* one whose destructor has begun.                                          *)
NoHandlerOnBroken ==
    \A m \in Mailboxes, w \in Workers :
        phase[m] # "alive" => ~InHandler(w, m)

(* Mailbox.cpp:32, the lock of UnRegisterActor keeps it apart from message   *)
(* handling: Process never runs for a mailbox without an actor.             *)
ProcessHasActor == ~crashed

(* Actor.h:23, OnEndMsgHandle is called when the message loop ends: a        *)
(* mailbox nobody works on is not in its loop.                              *)
EndFollowsBegin ==
    \A m \in Mailboxes : actorMutex[m] = Free => ~inLoop[m]

-----------------------------------------------------------------------------
(* The inductive invariant behind the safety properties, in two parts.      *)

(* Who holds which mutex follows from where the threads are.               *)
LockOwners ==
    /\ \A m \in Mailboxes, w \in Workers :
          actorMutex[m] = w <=> pBox[w] = m /\ pc[w] \in Processing
    /\ \A m \in Mailboxes : actorMutex[m] = Main <=> phase[m] = "leaving"
    /\ \A w \in Workers :
          pBox[w] # NoBox <=> pc[w] \in Processing \cup {"process"}
    /\ \A w \in Workers : schedMutex = w <=> pc[w] = "scan"
    /\ \A w \in Workers : listBusy[w] # <<>> => pc[w] = "scan"
    /\ \A m \in Mailboxes, w \in Workers :
          reciveMutex[m] = w => pc[w] = "handler"

(* What the lists and the counter hold follows from the worker that holds   *)
(* the actor's mutex: without a throw m_listHandle is empty between two     *)
(* loops, and m_nUnHanle is its length while messages are handled.          *)
HandlingState ==
    /\ \A m \in Mailboxes :
          ~faulted[m] /\ listHandle[m] # <<>> =>
              HeldAt(m, {"begin", "count", "next", "handler"})
    /\ \A m \in Mailboxes :
          ~faulted[m] /\ nUnHanle[m] # 0 => HeldAt(m, {"next", "handler"})
    /\ \A w \in Workers :
          pc[w] \in {"next", "handler"} =>
              nUnHanle[pBox[w]] = Len(listHandle[pBox[w]])
    /\ \A w \in Workers : pc[w] = "handler" => listHandle[pBox[w]] # <<>>
    /\ \A w \in Workers :
          pc[w] \in {"count", "next", "handler"} => pActor[pBox[w]]
    /\ \A m \in Mailboxes :
          pActor[m] <=> phase[m] \in {"alive", "broken", "leaving"}
    /\ \A m \in Mailboxes :
          phase[m] = "dead" /\ ~faulted[m] =>
              listRecive[m] = <<>> /\ listHandle[m] = <<>>
    /\ \A m \in Mailboxes :
          phase[m] = "unborn" =>
              /\ accepted[m] = <<>> /\ handled[m] = <<>>
              /\ listRecive[m] = <<>> /\ listHandle[m] = <<>>

(* What its handlers may still get of the messages of m: those a worker has  *)
(* taken and those a schedule will fetch.  What a throw left in m_listHandle *)
(* is neither, and once it is swapped into m_listRecive no later message    *)
(* finds that list empty and is scheduled.                                 *)
ToHandle(m) ==
    IF HeldAt(m, {"begin", "count", "next", "handler"}) THEN NotBegun(m) ELSE <<>>
Awaited(m) == IF Scheduled(m) THEN listRecive[m] ELSE <<>>

StillInOrder ==
    \A m \in Mailboxes :
        Subsequence(handled[m] \o ToHandle(m) \o Awaited(m), accepted[m])

-----------------------------------------------------------------------------
(* Progress.                                                               *)

\* x was accepted by an actor that is still bound to handle it.
Pending(x) ==
    \E m \in Mailboxes :
        /\ Contains(accepted[m], x)
        /\ ~Contains(handled[m], x)
        /\ ~faulted[m] /\ phase[m] = "alive" /\ bRuning /\ ~crashed

(* Every accepted message is handled in the end, unless the actor is deleted *)
(* or one of its handlers throws: a throw, which keeps its own mailbox busy  *)
(* for good and the workers spinning over it, starves no other actor.       *)
EveryMessageHandled == \A x \in Messages : Pending(x) ~> ~Pending(x)

(* delete returns: waiting for m_ActorMutex with m_ReciveMutex to follow      *)
(* closes no cycle with handlers that send and workers that schedule.       *)
DeleteReturns ==
    \A m \in Mailboxes :
        phase[m] = "broken" ~> (phase[m] = "dead" \/ crashed)

(* Destroy returns if, once it has notified, no worker is between its test   *)
(* of m_bRuning and its wait: a worker that loses the notification there    *)
(* (SchedulerSemaphore.cpp:43-47 takes no lock) is all that can hang join.  *)
DestroyReturns ==
    (mainPc = "join" /\ \A w \in Workers : pc[w] \notin {"pop", "wait"})
        ~> (mainPc = "destroyed" \/ crashed)

-----------------------------------------------------------------------------
(* Refinement.                                                             *)

\* The abstract state of mailbox m.
QueueOf(m) == NotBegun(m) \o listRecive[m]
RunningOf(m) == IF \E w \in Workers : InHandler(w, m) THEN Head(listHandle[m])
                ELSE NoMsg

Mail == INSTANCE ActorMail WITH
    open <- pActor,
    queue <- [m \in Mailboxes |-> QueueOf(m)],
    running <- [m \in Mailboxes |-> RunningOf(m)]

(* The runtime implements the abstract queues, deletion included: the swap,  *)
(* the scheduling and the locks are stuttering steps.                       *)
ImplementsMail == Mail!MailSpec
=============================================================================
