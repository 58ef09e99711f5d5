-------------------------- MODULE FrameworkProperties --------------------------
(* What must hold of the directory and the framework over it.              *)
EXTENDS Framework

\* Every variable keeps its type (Framework.h:30-46, Directory.h:35-39).
TypeOK ==
    /\ nextIndex \in 0 .. Capacity
    /\ maxIndex \in {0} \cup Indices /\ reuseIndex \in {0} \cup Indices
    /\ pages \subseteq {PageOf(i) : i \in Indices}
    /\ pActor \in [Indices -> Actors \cup {NoActor}]
    /\ open \in [Indices -> BOOLEAN]
    /\ queue \in [Indices -> Seq(Messages)]
    /\ running \in [Indices -> Messages \cup {NoMsg}]
    /\ phase \in [All -> {"unborn", "alive", "dead"}]
    /\ address \in [All -> Addresses]
    /\ current \in [Senders -> Messages \cup {NoMsg}]
    /\ todo \in [Senders -> Seq(Addresses)]
    /\ listEndPoint \in [Senders -> BOOLEAN]
    /\ listRecive \in Seq(Messages)
    /\ stale \subseteq Indices
    /\ exhausted \in BOOLEAN
    /\ crashed \in {"no", "assertion", "bounds", "endpoint", "actor"}
    /\ sent \subseteq Messages
    /\ meant \subseteq Actors \X Messages
    /\ begun \subseteq Actors \X Messages

\* A destroyed proxy had the index i.
Cut(i) == \E p \in Proxies : phase[p] = "dead" /\ address[p].index = i

\* Until Allocate runs out of new indices, an actor that is alive owns the
\* mailbox at its address, and no other actor has had that address; only the
\* destructor of an actor with an address of its own (Actor.cpp:18), which
\* unregisters whatever has that index, can take the mailbox away.
OneOwner ==
    ~exhausted =>
        \A a \in Actors \cap Born :
            /\ phase[a] = "alive" =>
                  pActor[address[a].index] = a \/ Cut(address[a].index)
            /\ \A b \in Actors \cap Born :
                  address[a].index = address[b].index => a = b

\* GetEntry finds the page of every index (Directory.h:125) and RegisterActor
\* a free entry (Framework.cpp:50), unless the indices ran out or an actor with
\* the address of another process was destroyed.
EntriesReady ==
    /\ crashed = "assertion" => exhausted
    /\ crashed = "bounds" =>
          exhausted \/ \E p \in Proxies : address[p].process # 0

\* Until then a handler is given only messages that were sent to its actor: an
\* address SendMsg took from its list before the actor was deleted, or before
\* another was constructed, never brings a message to a third one.
NotMisdelivered == ~exhausted => begun \subseteq meant

\* A message sent to an actor that is alive is handled by it in the end, or the
\* actor is deleted, loses its mailbox to a proxy or to the reuse of its index,
\* or the process crashes (Framework.cpp:105, Mailbox.cpp:42).
SentIsHandled ==
    \A a \in Actors, x \in Messages :
        (<<a, x>> \in meant /\ phase[a] = "alive") ~>
            \/ <<a, x>> \in begun
            \/ phase[a] = "dead" \/ Cut(address[a].index)
            \/ exhausted \/ crashed # "no"

\* "ID重用，遍历所有的Entry，如果有没被使用的，就重用它" (Directory.h:83: reuse an
\* entry that is not used): RegisterActor never takes the entry of an actor.
ReuseFree ==
    [][\A i \in Indices :
          pActor[i] # NoActor => pActor'[i] \in {NoActor, pActor[i]}]_pActor
=============================================================================
