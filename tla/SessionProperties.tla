--------------------------- MODULE SessionProperties ---------------------------
(* What must hold of the packets and the connections of a session.          *)
EXTENDS TCPSession, FiniteSets

Completion == [op : {"read", "write", "connect"}, ok : BOOLEAN, packet : 0 .. MaxPackets]

\* Every variable keeps its type (TCPSession.h:49).
TypeOK ==
    /\ sendList \in Seq(Packets)
    /\ pc \in [Threads -> {"idle", "send", "write", "reconnect", "connected", "closed", "down"}]
    /\ pSend \in [Threads -> 0 .. MaxPackets]
    /\ open \in BOOLEAN /\ reading \in Nat /\ connecting \in BOOLEAN
    /\ writing \in Seq(Packets) /\ ready \in Seq(Completion)
    /\ handles \in BOOLEAN /\ m_bShutDown \in BOOLEAN
    /\ accepted \in 0 .. MaxPackets /\ written \subseteq Packets
    /\ errors \in 0 .. MaxErrors /\ connects \in 0 .. MaxConnects /\ crashed \in BOOLEAN

Where(s, p) == {i \in DOMAIN s : s[i] = p}

At(place, s) == {<<place, i>> : i \in s}

Places(p) ==
    At("list", Where(sendList, p)) \cup At("under way", Where(writing, p))
    \cup At("failed", {i \in DOMAIN ready : ready[i].packet = p /\ ~ready[i].ok})
    \cup At("thread", Where(pSend, p)) \cup At("written", written \cap {p})

\* Each packet accepted is in one place: in the list, with a thread that took it
\* out, on its way, in a failed write that is not yet handled, or written;
\* whoever sends, fails, closes and connects again (TCPSession.cpp:116, 136).
Conserved == \A p \in 1 .. accepted : Cardinality(Places(p)) = 1

SomeoneSends ==
    \/ \E t \in Threads : pc[t] \in {"send", "write"}
    \/ writing # <<>> \/ ready # <<>>

\* While there is a connection, packets in the list are on their way to DoSend:
\* SendPacket leaves them to others when the list is not empty (TCPSession.cpp:85).
NoneStranded == (open /\ sendList # <<>>) => SomeoneSends

\* Once EndPoint::DisConnect has returned, no connection is asked for any more,
\* but for one whose test of m_bShutDown came before (EndPoint.cpp:47, 57, 72).
ShutDownIsFinal ==
    [][m_bShutDown /\ pc["io"] # "reconnect" =>
        pc'["io"] # "reconnect" /\ connects' = connects]_vars

Reconnects(d) == d.op = "connect" \/ ~d.ok

(* Two reasons to connect at a time: each connect then aborts the other.    *)
Storm ==
    Len(SelectSeq(ready, Reconnects)) + (IF connecting THEN 1 ELSE 0)
        + (IF pc["io"] = "reconnect" THEN 1 ELSE 0) > 1

\* A packet that was accepted is written in the end, unless the owner disconnects
\* or two connects abort each other, up to the bound (TCPSession.cpp:131, 168; EndPoint.cpp:60, 75).
SentInTheEnd ==
    \A p \in Packets :
        p <= accepted ~> (p \in written \/ crashed \/ ~handles \/ Storm \/ connects = MaxConnects)
=============================================================================
