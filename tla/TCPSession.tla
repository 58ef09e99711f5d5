------------------------------- MODULE TCPSession -------------------------------
(***************************************************************************)
(* BoostNet/TCPSession as a client: its send list, the operations it starts *)
(* on its socket and their completion handlers, with an owner that connects *)
(* again and shuts down the way EndPoint does.                              *)
(*                                                                         *)
(* External: the io_service, which runs the handlers on one thread in the   *)
(* order in which operations complete, and the socket: closing it completes *)
(* what is under way with an error, async_connect closes it first, and an   *)
(* operation on a socket without a connection fails.                       *)
(*                                                                         *)
(* A packet is the number under which it was accepted.                      *)
(***************************************************************************)
EXTENDS Integers, Sequences

CONSTANTS
    Senders,
    MaxPackets,  \* bound on the packets
    MaxErrors,   \* bound on errors that come from the network
    MaxConnects  \* bound on the connects that are asked for

ASSUME SessionAssumption ==
    {MaxPackets, MaxErrors, MaxConnects} \subseteq Nat /\ {"io", "owner"} \cap Senders = {}

VARIABLES
    sendList,    \* m_listSend
    pc, pSend,   \* of each sender and of the io thread: where, and its packet
    open,        \* the socket has a connection
    reading,     \* number of reads, whether a connect, and the writes under way
    connecting,
    writing,
    ready,       \* completions whose handlers have not run
    handles,     \* m_OnDisconnectHandle is that of the owner
    m_bShutDown,
    accepted,    \* number of packets accepted
    written,     \* history: the packets that were written
    errors,      \* history: number of errors
    connects,    \* history: number of connects
    crashed      \* undefined behaviour or an exception has ended the program

localVars == <<pc, pSend>>
socketVars == <<open, reading, connecting, writing, ready>>
ownerVars == <<handles, m_bShutDown>>
counters == <<errors, connects>>
history == <<accepted, written, counters>>
vars == <<sendList, localVars, socketVars, ownerVars, history, crashed>>

Threads == Senders \cup {"io", "owner"}
Packets == 1 .. MaxPackets
NoPacket == 0

Done(op, ok, p) == [op |-> op, ok |-> ok, packet |-> p]

Init ==
    /\ sendList = <<>>
    /\ pc = [t \in Threads |-> "idle"] /\ pSend = [t \in Threads |-> NoPacket]
    /\ open = FALSE /\ reading = 0 /\ connecting = FALSE
    /\ writing = <<>> /\ ready = <<>>
    /\ handles = TRUE /\ m_bShutDown = FALSE
    /\ accepted = 0 /\ written = {} /\ errors = 0 /\ connects = 0
    /\ crashed = FALSE

Goto(t, l) == pc' = [pc EXCEPT ![t] = l]

-----------------------------------------------------------------------------
(* The socket.                                                             *)

Aborted ==
    [i \in 1 .. reading |-> Done("read", FALSE, NoPacket)]
        \o (IF connecting THEN <<Done("connect", FALSE, NoPacket)>> ELSE <<>>)
        \o [i \in DOMAIN writing |-> Done("write", FALSE, writing[i])]

(* What is left of ready, and then what closing the socket adds.            *)
Close(rest) ==
    /\ ready' = rest \o Aborted
    /\ open' = FALSE /\ reading' = 0 /\ connecting' = FALSE /\ writing' = <<>>

(* async_connect closes the socket first.                                  *)
Connect(rest) ==
    /\ connects < MaxConnects /\ connects' = connects + 1
    /\ ready' = rest \o Aborted
    /\ open' = FALSE /\ reading' = 0 /\ connecting' = TRUE /\ writing' = <<>>

Without(s, i) == SubSeq(s, 1, i - 1) \o SubSeq(s, i + 1, Len(s))

Written(i) ==
    /\ i \in DOMAIN writing
    /\ writing' = Without(writing, i)
    /\ ready' = Append(ready, Done("write", TRUE, writing[i]))
    /\ written' = written \cup {writing[i]}
    /\ UNCHANGED <<sendList, localVars, open, reading, connecting, ownerVars, accepted, counters, crashed>>

Connected ==
    /\ connecting /\ connecting' = FALSE
    /\ open' = TRUE
    /\ ready' = Append(ready, Done("connect", TRUE, NoPacket))
    /\ UNCHANGED <<sendList, localVars, reading, writing, ownerVars, history, crashed>>

Error ==
    /\ errors < MaxErrors /\ errors' = errors + 1
    /\ \/ /\ reading > 0 /\ reading' = reading - 1
          /\ ready' = Append(ready, Done("read", FALSE, NoPacket))
          /\ UNCHANGED <<connecting, writing>>
       \/ /\ connecting /\ connecting' = FALSE
          /\ ready' = Append(ready, Done("connect", FALSE, NoPacket))
          /\ UNCHANGED <<reading, writing>>
       \/ \E i \in DOMAIN writing :
             /\ writing' = Without(writing, i)
             /\ ready' = Append(ready, Done("write", FALSE, writing[i]))
             /\ UNCHANGED <<reading, connecting>>
    /\ UNCHANGED <<sendList, localVars, open, ownerVars, accepted, written, connects, crashed>>

-----------------------------------------------------------------------------
(* Sending, by any thread.                                                 *)

bDoSend == sendList = <<>>

(* SendPacket with one packet, SendPacketList with more.                    *)
SendPackets(t, n) ==
    /\ pc[t] = "idle"
    /\ Goto(t, IF bDoSend THEN "send" ELSE "idle")
    /\ accepted + n <= MaxPackets /\ accepted' = accepted + n
    /\ sendList' = sendList \o [i \in 1 .. n |-> accepted + i]
    /\ UNCHANGED <<pSend, socketVars, ownerVars, written, counters, crashed>>

(* pop_front on an empty list is undefined: the program ends, or goes on.   *)
DoSend(t) ==
    /\ pc[t] = "send"
    /\ \/ /\ sendList # <<>>
          /\ Goto(t, "write")
          /\ pSend' = [pSend EXCEPT ![t] = Head(sendList)]
          /\ sendList' = Tail(sendList)
          /\ UNCHANGED crashed
       \/ /\ sendList = <<>>
          /\ Goto(t, "idle")
          /\ crashed' \in BOOLEAN
          /\ UNCHANGED <<pSend, sendList>>
    /\ UNCHANGED <<socketVars, ownerVars, history>>

WriteData(t) ==
    /\ pc[t] = "write" /\ Goto(t, "idle")
    /\ pSend' = [pSend EXCEPT ![t] = NoPacket]
    /\ IF open
       THEN writing' = Append(writing, pSend[t]) /\ UNCHANGED ready
       ELSE ready' = Append(ready, Done("write", FALSE, pSend[t])) /\ UNCHANGED writing
    /\ UNCHANGED <<sendList, open, reading, connecting, ownerVars, history, crashed>>

-----------------------------------------------------------------------------
(* The completion handlers, one after the other.                            *)

Handler(op, ok) ==
    /\ pc["io"] = "idle"
    /\ ready # <<>> /\ Head(ready).op = op /\ Head(ready).ok = ok

\* Variant: a failed connect is tried again after the end point was shut down.
Always == TRUE

TryAgain == ~m_bShutDown

(* Close, then m_OnDisconnectHandle: EndPoint::OnDisconnect or nothing.     *)
Disconnected ==
    /\ Close(Tail(ready))
    /\ Goto("io", IF handles /\ TryAgain THEN "reconnect" ELSE "idle")

WriteSucceeded ==
    /\ Handler("write", TRUE)
    /\ Goto("io", "send")
    /\ ready' = Tail(ready)
    /\ UNCHANGED <<sendList, pSend, open, reading, connecting, writing, ownerVars, history, crashed>>

\* Variant: a packet that failed is forgotten.
Forget(p) == sendList

\* Variant: the packet was moved from before it is put back.
Moved(p) == <<NoPacket>> \o sendList

PushFront(p) == <<p>> \o sendList

WriteFailed ==
    /\ Handler("write", FALSE)
    /\ sendList' = PushFront(Head(ready).packet)
    /\ Disconnected
    /\ UNCHANGED <<pSend, ownerVars, history, crashed>>

(* A read that succeeds starts the next one.                               *)
ReadFailed ==
    /\ Handler("read", FALSE)
    /\ Disconnected
    /\ UNCHANGED <<sendList, pSend, ownerVars, history, crashed>>

\* Variant: what was not sent before is not sent again.
NoResend == "idle"

Resend == "send"

(* ReadBody and DoSend, on a connection that may be closed meanwhile.       *)
ConnectSucceeded ==
    /\ Handler("connect", TRUE)
    /\ Goto("io", Resend)
    /\ IF open
       THEN reading' = reading + 1 /\ ready' = Tail(ready)
       ELSE ready' = Append(Tail(ready), Done("read", FALSE, NoPacket)) /\ UNCHANGED reading
    /\ UNCHANGED <<sendList, pSend, open, connecting, writing, ownerVars, history, crashed>>

ConnectFailed ==
    /\ Handler("connect", FALSE)
    /\ Goto("io", IF TryAgain THEN "reconnect" ELSE "idle")
    /\ ready' = Tail(ready)
    /\ UNCHANGED <<sendList, pSend, open, reading, connecting, writing, ownerVars, history, crashed>>

(* EndPoint::DoConnect, after m_bShutDown was read.                         *)
DoConnect ==
    /\ pc["io"] = "reconnect" /\ Goto("io", "idle")
    /\ Connect(ready)
    /\ UNCHANGED <<sendList, pSend, ownerVars, accepted, written, errors, crashed>>

(* resolver.resolve throws: the exception leaves run() and the function of  *)
(* the thread, and the program ends.                                       *)
ResolveFails ==
    /\ pc["io"] = "reconnect"
    /\ crashed' = TRUE
    /\ UNCHANGED <<sendList, localVars, socketVars, ownerVars, history>>

-----------------------------------------------------------------------------
(* The owner: EndPoint::Connect, and DisConnect in two steps.  Connect may  *)
(* throw as well: it has done nothing then, and may be called again.        *)

OwnerConnect ==
    /\ pc["owner"] = "idle" /\ Goto("owner", "connected")
    /\ Connect(ready)
    /\ UNCHANGED <<sendList, pSend, ownerVars, accepted, written, errors, crashed>>

SessionDisConnect ==
    /\ pc["owner"] = "connected" /\ Goto("owner", "closed")
    /\ handles' = FALSE
    /\ Close(ready)
    /\ UNCHANGED <<sendList, pSend, m_bShutDown, history, crashed>>

SetShutDown ==
    /\ pc["owner"] = "closed" /\ Goto("owner", "down")
    /\ m_bShutDown' = TRUE
    /\ UNCHANGED <<sendList, pSend, socketVars, handles, history, crashed>>

Sending(t) == DoSend(t) \/ WriteData(t)

Handlers == WriteSucceeded \/ WriteFailed \/ ReadFailed \/ ConnectSucceeded \/ ConnectFailed \/ DoConnect

Taken == \E i \in 1 .. MaxPackets : Written(i)

Next ==
    /\ ~crashed
    /\ \/ \E t \in Senders, n \in 1 .. 2 : SendPackets(t, n)
       \/ OwnerConnect \/ SessionDisConnect \/ SetShutDown
       \/ (\E t \in Threads : Sending(t))
       \/ Handlers \/ ResolveFails \/ Connected \/ Taken \/ Error

Spec == Init /\ [][Next]_vars

(* Threads go on, data is taken in the end, and so are connections.         *)
FairSpec ==
    /\ Spec
    /\ \A t \in Threads : WF_vars(~crashed /\ Sending(t))
    /\ WF_vars(~crashed /\ Handlers)
    /\ WF_vars(~crashed /\ Connected)
    /\ WF_vars(~crashed /\ Taken)
=============================================================================
