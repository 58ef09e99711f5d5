------------------------------ MODULE Framework ------------------------------
(***************************************************************************)
(* Framework and Actor over the directory: who owns which mailbox, and      *)
(* where a message goes that is sent to an address or a list of addresses.  *)
(* A mailbox is the abstract queue of ActorMail, which ActorRuntime         *)
(* implements.  Framework::Init assigns nothing: m_Address is 0 and         *)
(* m_pEndPoint null for ever.                                              *)
(***************************************************************************)
EXTENDS Directory, Sequences

CONSTANTS
    Actors,      \* the actors that are constructed without an address
    Proxies,     \* those that are constructed with the address of another
    Remote,      \* the indices of actors of other processes it knows of
    Senders,     \* threads that call SendMsg
    Messages, NoMsg,
    MaxList      \* the longest list of addresses

ASSUME FrameworkAssumption ==
    /\ Actors \cap Proxies = {}
    /\ NoActor \notin Actors \cup Proxies
    /\ NoMsg \notin Messages
    /\ Remote \subseteq Indices
    /\ MaxList \in Nat

VARIABLES
    open, queue, running,   \* the mailboxes, as ActorMail has them
    phase,         \* unborn, alive or dead: the life of an actor or proxy
    address,       \* m_Address of each of them
    current,       \* the message a sender is in SendMsg with
    todo,          \* the addresses its loop has still to visit
    listEndPoint,  \* whether the loop has met an address of another process
    listRecive,    \* the messages to the system
    stale,         \* mailboxes without an actor that a worker has yet to process
    crashed,       \* why the process ended, or "no"
    exhausted,     \* history: an Allocate found the counter at its limit
    sent,          \* the messages SendMsg has been called with
    meant,         \* history: <<a, x>> with x sent to the address a had then
    begun          \* history: <<a, x>> with x given to a handler of a

Mail == INSTANCE ActorMail WITH Mailboxes <- Indices

mailVars == <<open, queue, running>>
lifeVars == <<phase, address, pActor>>
sendVars == <<current, todo, listEndPoint, listRecive, sent, meant>>
endVars == <<stale, crashed, exhausted>>
vars == <<allocVars, mailVars, lifeVars, sendVars, endVars, begun>>

All == Actors \cup Proxies
Addresses == [process : 0 .. 1, index : Indices]   \* 1: any other process
Local(i) == [process |-> 0, index |-> i]
Born == {a \in All : phase[a] # "unborn"}

\* The addresses the program has to send to: the system's and its actors'.
Known == {Local(0)} \cup {address[a] : a \in Born}

Init ==
    /\ DirectoryInit
    /\ Mail!MailInit
    /\ phase = [a \in All |-> "unborn"]
    /\ address = [a \in All |-> Local(0)]
    /\ current = [s \in Senders |-> NoMsg]
    /\ todo = [s \in Senders |-> <<>>]
    /\ listEndPoint = [s \in Senders |-> FALSE]
    /\ listRecive = <<>>
    /\ stale = {}
    /\ crashed = "no"
    /\ exhausted = FALSE
    /\ sent = {}
    /\ meant = {}
    /\ begun = {}

\* Framework::Framework has taken the entry of the system.
Up == crashed = "no" /\ nextIndex > 0

Framework ==
    /\ nextIndex = 0
    /\ AllocateNext(0)
    /\ UNCHANGED <<mailVars, lifeVars, sendVars, endVars, begun>>

Crash(why) ==
    /\ crashed' = why
    /\ UNCHANGED <<mailVars, lifeVars, sendVars, stale, begun>>

-----------------------------------------------------------------------------
(* The main thread: Actor::Actor and Actor::~Actor.                        *)

SetActor(a, i) ==
    /\ pActor' = [pActor EXCEPT ![i] = a]
    /\ address' = [address EXCEPT ![a] = Local(i)]
    /\ phase' = [phase EXCEPT ![a] = "alive"]
    /\ Mail!Open(i)
    /\ UNCHANGED <<sendVars, stale, crashed, begun>>

(* The assertions of RegisterActor fail on an entry that has an actor, and   *)
(* end a debug build; a release build goes on.                             *)
RegisterActor(a) ==
    /\ Up
    /\ phase[a] = "unborn"
    /\ \/ \E i \in Indices :
            /\ \/ AllocateNext(i) /\ UNCHANGED exhausted
               \/ AllocateReuse(i) /\ exhausted' = TRUE
            /\ \/ SetActor(a, i)
               \/ pActor[i] # NoActor /\ Crash("assertion")
       \/ AllocateNone /\ exhausted' = TRUE /\ Crash("bounds")

(* An actor with an address is not registered.                             *)
ConstructProxy(p, adr) ==
    /\ Up
    /\ phase[p] = "unborn"
    /\ adr # Local(0)
    /\ adr \in Known \/ (adr.process # 0 /\ adr.index \in Remote)
    /\ phase' = [phase EXCEPT ![p] = "alive"]
    /\ address' = [address EXCEPT ![p] = adr]
    /\ UNCHANGED <<allocVars, mailVars, pActor, sendVars, endVars, begun>>

(* Mailbox::UnRegisterActor.  The messages are cleared, but the scheduler    *)
(* has the mailbox.  A mailbox without an actor stays as it is.             *)
CloseMailbox(i) ==
    /\ pActor' = [pActor EXCEPT ![i] = NoActor]
    /\ IF open[i]
       THEN /\ Mail!Close(i)
            /\ stale' = IF queue[i] = <<>> THEN stale ELSE stale \cup {i}
       ELSE UNCHANGED <<mailVars, stale>>

(* delete: UnRegisterActor looks at the index alone, whatever the process,  *)
(* and waits for the handler that is running there.                        *)
UnRegisterActor(a) ==
    LET i == address[a].index IN
    /\ Up
    /\ phase[a] = "alive"
    /\ UNCHANGED <<allocVars, exhausted>>
    /\ IF HasEntry(i)
       THEN /\ phase' = [phase EXCEPT ![a] = "dead"]
            /\ CloseMailbox(i)
            /\ UNCHANGED <<address, sendVars, crashed, begun>>
       ELSE Crash("bounds")

\* Framework::Destroy starts with a call through the null m_pEndPoint.
Destroy ==
    /\ Up
    /\ UNCHANGED <<allocVars, exhausted>>
    /\ Crash("endpoint")

-----------------------------------------------------------------------------
(* SendMsg.  The form with one address does what the loop does with one.    *)

SendMsg(s, x, list) ==
    /\ Up
    /\ current[s] = NoMsg
    /\ x \notin sent
    /\ sent' = sent \cup {x}
    /\ current' = [current EXCEPT ![s] = x]
    /\ todo' = [todo EXCEPT ![s] = list]
    /\ meant' = meant \cup
          {<<a, x>> : a \in {b \in Actors \cap Born :
                               \E k \in DOMAIN list : list[k] = address[b]}}
    /\ UNCHANGED <<allocVars, mailVars, lifeVars, listEndPoint, listRecive,
                   endVars, begun>>

SystemMsg(x) == listRecive' = Append(listRecive, x) /\ UNCHANGED mailVars

\* PushMsg returns false when there is no actor; SendMsg does not pass it on.
PushMsg(i, x) ==
    IF open[i] THEN Mail!Send(i, x) ELSE UNCHANGED mailVars

\* Variant: the index is taken without a look at the process.
SendAnyProcess(s) ==
    LET adr == Head(todo[s]) IN
    /\ todo' = [todo EXCEPT ![s] = Tail(@)]
    /\ UNCHANGED listEndPoint
    /\ \/ adr.index = 0 /\ SystemMsg(current[s])
       \/ adr.index # 0 /\ PushMsg(adr.index, current[s]) /\ UNCHANGED listRecive

\* Variant: the loop breaks off at an address that does not take the message.
SendBreaks(s) ==
    LET adr == Head(todo[s]) IN
    /\ todo' = [todo EXCEPT ![s] = IF open[adr.index] THEN Tail(@) ELSE <<>>]
    /\ listEndPoint' = [listEndPoint EXCEPT ![s] = @ \/ adr.process # 0]
    /\ IF adr.process = 0
       THEN PushMsg(adr.index, current[s]) ELSE UNCHANGED mailVars
    /\ UNCHANGED listRecive

(* One turn of the loop.                                                   *)
SendNext(s) ==
    LET adr == Head(todo[s]) IN
    /\ todo' = [todo EXCEPT ![s] = Tail(@)]
    /\ \/ /\ adr.process # 0
          /\ listEndPoint' = [listEndPoint EXCEPT ![s] = TRUE]
          /\ UNCHANGED <<mailVars, listRecive>>
       \/ /\ adr = Local(0)
          /\ SystemMsg(current[s])
          /\ UNCHANGED listEndPoint
       \/ /\ adr.process = 0 /\ adr.index # 0
          /\ PushMsg(adr.index, current[s])
          /\ UNCHANGED <<listEndPoint, listRecive>>

SendTurn(s) ==
    /\ Up
    /\ todo[s] # <<>>
    /\ SendNext(s)
    /\ UNCHANGED <<allocVars, lifeVars, current, sent, meant, endVars, begun>>

(* EndPoint::SendMsg through the null pointer: it touches no member, so the *)
(* call may as well return true.                                           *)
SendReturn(s) ==
    /\ Up
    /\ current[s] # NoMsg /\ todo[s] = <<>>
    /\ UNCHANGED <<allocVars, exhausted>>
    /\ \/ /\ current' = [current EXCEPT ![s] = NoMsg]
          /\ listEndPoint' = [listEndPoint EXCEPT ![s] = FALSE]
          /\ UNCHANGED <<mailVars, lifeVars, todo, listRecive, sent, meant,
                         stale, crashed, begun>>
       \/ listEndPoint[s] /\ Crash("endpoint")

-----------------------------------------------------------------------------
(* The workers, as far as ActorMail tells.                                 *)

BeginHandler(i) ==
    /\ Up
    /\ Mail!Begin(i)
    /\ begun' = begun \cup {<<pActor[i], Head(queue[i])>>}
    /\ UNCHANGED <<allocVars, lifeVars, sendVars, endVars>>

EndHandler(i) ==
    /\ Up
    /\ Mail!Finish(i)
    /\ UNCHANGED <<allocVars, lifeVars, sendVars, endVars, begun>>

(* Process dereferences the null m_pActor.                                 *)
ProcessNullActor(i) ==
    /\ Up
    /\ i \in stale /\ pActor[i] = NoActor
    /\ UNCHANGED <<allocVars, exhausted>>
    /\ Crash("actor")

Lists == UNION {[1 .. n -> Known] : n \in 0 .. MaxList}

Next ==
    \/ Framework \/ Destroy
    \/ \E a \in Actors : RegisterActor(a)
    \/ \E p \in Proxies, adr \in Addresses : ConstructProxy(p, adr)
    \/ \E a \in All : UnRegisterActor(a)
    \/ \E s \in Senders :
          \/ \E x \in Messages, list \in Lists : SendMsg(s, x, list)
          \/ SendTurn(s) \/ SendReturn(s)
    \/ \E i \in Indices : BeginHandler(i) \/ EndHandler(i) \/ ProcessNullActor(i)

Spec == Init /\ [][Next]_vars

(* Senders go on with a list they have begun, handlers return, and a        *)
(* mailbox with messages gets a worker (EveryMessageHandled of the runtime). *)
FairSpec ==
    /\ Spec
    /\ \A s \in Senders : WF_vars(SendTurn(s) \/ SendReturn(s))
    /\ \A i \in Indices : WF_vars(BeginHandler(i)) /\ WF_vars(EndHandler(i))
=============================================================================
