---------------------------- MODULE FrameworkProofs ----------------------------
(***************************************************************************)
(* Proofs about Framework for every number of pages, actors, proxies,       *)
(* senders and messages.                                                   *)
(***************************************************************************)
EXTENDS FrameworkProperties, TLAPS

-----------------------------------------------------------------------------
(* The inductive invariant.                                                *)

OwnerOpen == \A i \in Indices : open[i] <=> pActor[i] # NoActor
QueueOpen == \A i \in Indices : ~open[i] => queue[i] = <<>>
Paged == \A i \in Indices : i < nextIndex => PageOf(i) \in pages

\* An actor has an address of this process that was handed out, and a proxy
\* has the address of an actor or of another process.
Addressed ==
    /\ \A a \in Actors \cap Born :
          address[a].process = 0 /\ address[a].index < nextIndex
    /\ \A p \in Proxies \cap Born :
          \/ address[p].process # 0
          \/ \E a \in Actors \cap Born : address[p] = address[a]

Unique ==
    \A a, b \in Actors \cap Born :
        address[a].index = address[b].index => a = b

Owning ==
    \A i \in Indices : pActor[i] # NoActor =>
        pActor[i] \in Born /\ address[pActor[i]].index = i

Owned ==
    \A a \in Actors \cap Born : phase[a] = "alive" =>
        pActor[address[a].index] = a \/ Cut(address[a].index)

\* What a sender has still to visit is the system, another process or an
\* actor the message is meant for.
Sending ==
    \A s \in Senders : todo[s] # <<>> =>
        /\ current[s] \in Messages
        /\ \A k \in DOMAIN todo[s] :
              \/ todo[s][k].process # 0
              \/ todo[s][k] = Local(0)
              \/ \E a \in Actors \cap Born :
                    todo[s][k] = address[a] /\ <<a, current[s]>> \in meant

Queued ==
    \A i \in Indices : \A k \in DOMAIN queue[i] :
        <<pActor[i], queue[i][k]>> \in meant

Ordered == Unique /\ Owning /\ Owned /\ Queued /\ begun \subseteq meant

Inv ==
    /\ TypeOK
    /\ OwnerOpen /\ QueueOpen /\ Paged /\ Addressed /\ Sending
    /\ EntriesReady
    /\ ~exhausted => Ordered

-----------------------------------------------------------------------------
(* Lemmas about the operators.                                             *)

\* The directory has at least one entry.
LEMMA CapacityNat == Capacity \in Nat \ {0}
  BY DirectoryAssumption DEF Capacity

\* m_iReuseIndex stays below the limit (Directory.h:93).
LEMMA ReuseBound ==
  ASSUME NEW i \in Indices PROVE (i + 1) % Capacity \in Indices
  BY CapacityNat DEF Indices

\* The addresses the program knows are well formed.
LEMMA KnownType ==
  ASSUME TypeOK PROVE Known \subseteq Addresses
  <1>1. 0 \in Indices
    BY CapacityNat DEF Indices
  <1>2. Local(0) \in Addresses
    BY <1>1 DEF Local, Addresses
  <1> QED
    BY <1>2 DEF Known, TypeOK, Born

\* A list of known addresses is a sequence of addresses.
LEMMA ListType ==
  ASSUME TypeOK, NEW list \in Lists
  PROVE  list \in Seq(Addresses) /\ \A k \in DOMAIN list : list[k] \in Known
  <1>1. PICK n \in 0 .. MaxList : list \in [1 .. n -> Known]
    BY DEF Lists
  <1>2. n \in Nat
    BY FrameworkAssumption
  <1> QED
    BY <1>1, <1>2, KnownType

-----------------------------------------------------------------------------
(* One lemma per action.                                                   *)

\* The framework starts in the invariant.
LEMMA InitInv == Init => Inv
  <1> SUFFICES ASSUME Init PROVE Inv
    OBVIOUS
  <1> USE DEF Init, DirectoryInit, Mail!MailInit
  <1>1. TypeOK
    <2>1. Local(0) \in Addresses
      BY CapacityNat DEF Local, Addresses, Indices
    <2>2. /\ nextIndex \in 0 .. Capacity
          /\ pActor \in [Indices -> Actors \cup {NoActor}]
          /\ open \in [Indices -> BOOLEAN]
          /\ queue \in [Indices -> Seq(Messages)]
          /\ running \in [Indices -> Messages \cup {NoMsg}]
      BY CapacityNat
    <2>3. /\ phase \in [All -> {"unborn", "alive", "dead"}]
          /\ address \in [All -> Addresses]
          /\ current \in [Senders -> Messages \cup {NoMsg}]
          /\ todo \in [Senders -> Seq(Addresses)]
          /\ listEndPoint \in [Senders -> BOOLEAN]
          /\ listRecive \in Seq(Messages)
      BY <2>1
    <2> QED
      BY <2>2, <2>3 DEF TypeOK
  <1>2. Born = {}
    BY DEF Born
  <1>3. OwnerOpen /\ QueueOpen /\ Paged /\ Addressed /\ Sending /\ EntriesReady
    BY <1>2 DEF OwnerOpen, QueueOpen, Paged, Addressed, Sending, EntriesReady, Indices
  <1>4. Ordered
    BY <1>2 DEF Ordered, Unique, Owning, Owned, Queued
  <1> QED
    BY <1>1, <1>3, <1>4 DEF Inv

\* Allocate (Directory.h:70): the counter grows, or stays at the limit.
LEMMA AllocateNextType ==
  ASSUME TypeOK, Paged, NEW i \in Indices, AllocateNext(i)
  PROVE  /\ nextIndex' \in 0 .. Capacity /\ nextIndex' = i + 1 /\ nextIndex = i
         /\ maxIndex' \in {0} \cup Indices /\ reuseIndex' \in {0} \cup Indices
         /\ pages' \subseteq {PageOf(j) : j \in Indices}
         /\ Paged'
  <1> USE DEF AllocateNext, AllocatePage, TypeOK
  <1>1. nextIndex' \in 0 .. Capacity /\ nextIndex' = i + 1 /\ nextIndex = i
    BY CapacityNat
  <1>2. Paged'
    BY <1>1 DEF Paged, Indices
  <1> QED
    BY <1>1, <1>2

\* Reuse changes no index that is counted, and keeps the pages.
LEMMA AllocateReuseType ==
  ASSUME TypeOK, Paged, NEW i \in Indices, AllocateReuse(i)
  PROVE  /\ nextIndex' = nextIndex /\ nextIndex = Capacity
         /\ maxIndex' \in {0} \cup Indices /\ reuseIndex' \in {0} \cup Indices
         /\ pages' \subseteq {PageOf(j) : j \in Indices}
         /\ Paged'
  <1> USE DEF AllocateReuse, AllocatePage, TypeOK
  <1>1. nextIndex' = nextIndex /\ nextIndex = Capacity
    BY CapacityNat
  <1>2. Paged'
    BY <1>1 DEF Paged
  <1> QED
    BY <1>1, <1>2, ReuseBound

\* A crash changes nothing that the invariant speaks of but its reason.
LEMMA CrashInv ==
  ASSUME Inv, NEW why \in {"assertion", "bounds", "endpoint", "actor"},
         Crash(why), exhausted' \in BOOLEAN, exhausted => exhausted',
         nextIndex' \in 0 .. Capacity, nextIndex' >= nextIndex,
         maxIndex' \in {0} \cup Indices, reuseIndex' \in {0} \cup Indices,
         pages' \subseteq {PageOf(j) : j \in Indices}, Paged',
         why = "assertion" => exhausted',
         why = "bounds" =>
             exhausted' \/ \E p \in Proxies : address[p].process # 0
  PROVE  Inv'
  <1> USE DEF Inv, Crash, mailVars, lifeVars, sendVars
  <1>1. TypeOK'
    BY DEF TypeOK
  <1>2. Born' = Born
    BY DEF Born
  <1>3. Addressed'
    BY <1>2, CapacityNat DEF Addressed, TypeOK, Born, Addresses, Indices
  <1>4. OwnerOpen' /\ QueueOpen' /\ Sending'
    BY <1>2 DEF OwnerOpen, QueueOpen, Sending
  <1>5. EntriesReady'
    BY DEF EntriesReady
  <1>6. ~exhausted' => Ordered'
    BY <1>2 DEF Ordered, Unique, Owning, Owned, Queued, Cut
  <1> QED
    BY <1>1, <1>3, <1>4, <1>5, <1>6

\* SetActor over an entry, free or not.
LEMMA SetActorInv ==
  ASSUME Inv, NEW a \in Actors, NEW i \in Indices, phase[a] = "unborn",
         SetActor(a, i), exhausted' \in BOOLEAN, exhausted => exhausted',
         ~exhausted' => i = nextIndex,
         nextIndex' \in 0 .. Capacity, nextIndex' >= nextIndex, i < nextIndex',
         maxIndex' \in {0} \cup Indices, reuseIndex' \in {0} \cup Indices,
         pages' \subseteq {PageOf(j) : j \in Indices}, Paged'
  PROVE  Inv'
  <1> USE DEF Inv, SetActor, Mail!Open, sendVars
  <1>0. Local(i) \in Addresses /\ Local(i).process = 0 /\ Local(i).index = i
    BY DEF Local, Addresses
  <1>1. TypeOK'
    BY <1>0 DEF TypeOK, All
  <1>2. Born' = Born \cup {a} /\ a \notin Born
    BY DEF Born, TypeOK, All
  <1>3. \A b \in Born : address'[b] = address[b]
    BY <1>2 DEF TypeOK, Born
  <1>4. address'[a] = Local(i) /\ a \in Actors \cap Born'
    BY <1>2 DEF TypeOK, All
  <1>5. Addressed'
    <2>1. \A b \in Born : address[b].index \in Indices
      BY DEF Born, TypeOK, Addresses
    <2>2. \A b \in Actors \cap Born' :
             address'[b].process = 0 /\ address'[b].index < nextIndex'
      BY <1>0, <1>2, <1>3, <1>4, <2>1, CapacityNat DEF Addressed, TypeOK, Indices
    <2>3. \A p \in Proxies \cap Born' : p \in Born
      BY <1>2, FrameworkAssumption
    <2>4. \A p \in Proxies \cap Born' :
             \/ address'[p].process # 0
             \/ \E b \in Actors \cap Born' : address'[p] = address'[b]
      BY <1>2, <1>3, <2>3 DEF Addressed
    <2> QED
      BY <2>2, <2>4 DEF Addressed
  <1>6. OwnerOpen'
    BY FrameworkAssumption DEF OwnerOpen, TypeOK
  <1>7. QueueOpen'
    BY DEF QueueOpen, TypeOK
  <1>8. Sending'
    BY <1>2, <1>3 DEF Sending
  <1>9. EntriesReady'
    <2>1. \A p \in Proxies : address'[p] = address[p]
      BY FrameworkAssumption DEF TypeOK, All
    <2> QED
      BY <2>1 DEF EntriesReady
  <1>10. ASSUME ~exhausted' PROVE Ordered'
    <2>1. i = nextIndex /\ Ordered
      BY <1>10
    <2>2. \A b \in Actors \cap Born : address[b].index \in Indices /\ address[b].index < i
      BY <2>1 DEF Addressed, Born, TypeOK, Addresses
    <2>3. pActor[i] = NoActor
      <3>1. SUFFICES ASSUME pActor[i] # NoActor PROVE FALSE
        OBVIOUS
      <3>2. pActor[i] \in Actors \cap Born /\ address[pActor[i]].index = i
        BY <2>1, <3>1 DEF Ordered, Owning, TypeOK
      <3> QED
        BY <2>2, <3>2 DEF Indices
    <2>4. queue[i] = <<>>
      BY <2>3 DEF OwnerOpen, QueueOpen
    <2>5. Unique'
      BY <1>0, <1>2, <1>3, <1>4, <2>1, <2>2 DEF Ordered, Unique, Indices
    <2>6. Owning'
      BY <1>0, <1>2, <1>3, <1>4, <2>1 DEF Ordered, Owning, TypeOK
    <2>7. Owned'
      <3>1. \A b \in Actors \cap Born : pActor'[address[b].index] = pActor[address[b].index]
        BY <2>2 DEF TypeOK, Indices
      <3>2. \A b \in Born : phase'[b] = phase[b]
        BY <1>2 DEF TypeOK, Born
      <3>3. \A p \in Proxies : phase'[p] = phase[p] /\ address'[p] = address[p]
        BY FrameworkAssumption DEF TypeOK, All
      <3>4. pActor'[i] = a
        BY DEF TypeOK
      <3>5. ASSUME NEW b \in Actors \cap Born', phase'[b] = "alive"
            PROVE  (pActor[address[b].index] = b \/ Cut(address[b].index))'
        <4>1. CASE b = a
          BY <1>0, <1>4, <3>4, <4>1
        <4>2. CASE b \in Born
          BY <1>3, <2>1, <3>1, <3>2, <3>3, <3>5, <4>2 DEF Ordered, Owned, Cut
        <4> QED
          BY <1>2, <4>1, <4>2
      <3> QED
        BY <3>5 DEF Owned, Cut
    <2>8. Queued'
      BY <2>1, <2>4 DEF Ordered, Queued, TypeOK
    <2> QED
      BY <2>1, <2>5, <2>6, <2>7, <2>8 DEF Ordered
  <1> QED
    BY <1>1, <1>5, <1>6, <1>7, <1>8, <1>9, <1>10

\* Framework::Framework and Framework::RegisterActor.
LEMMA FrameworkInv ==
  ASSUME Inv, Framework PROVE Inv'
  <1> USE DEF Inv, Framework, mailVars, lifeVars, sendVars, endVars
  <1>0. 0 \in Indices
    BY CapacityNat DEF Indices
  <1>1. /\ nextIndex' = 1 /\ nextIndex' \in 0 .. Capacity
        /\ maxIndex' \in {0} \cup Indices /\ reuseIndex' \in {0} \cup Indices
        /\ pages' \subseteq {PageOf(j) : j \in Indices} /\ Paged'
    BY <1>0, AllocateNextType
  <1>2. TypeOK'
    BY <1>1 DEF TypeOK
  <1>3. Born' = Born /\ \A i : Cut(i)' <=> Cut(i)
    BY DEF Born, Cut
  <1>4. OwnerOpen' /\ QueueOpen' /\ Sending' /\ EntriesReady'
    BY <1>3 DEF OwnerOpen, QueueOpen, Sending, EntriesReady
  <1>5. Addressed'
    BY <1>1, <1>3 DEF Addressed, TypeOK, Born, Addresses, Indices
  <1>6. ~exhausted' => Ordered'
    BY <1>3 DEF Ordered, Unique, Owning, Owned, Queued, Cut
  <1> QED
    BY <1>1, <1>2, <1>4, <1>5, <1>6

\* The constructor of an actor keeps the invariant.
LEMMA RegisterInv ==
  ASSUME Inv, NEW a \in Actors, RegisterActor(a) PROVE Inv'
  <1> USE DEF Inv
  <1>1. phase[a] = "unborn" /\ exhausted \in BOOLEAN
    BY DEF RegisterActor, TypeOK
  <1>2. ASSUME NEW i \in Indices, AllocateNext(i), UNCHANGED exhausted,
               SetActor(a, i) \/ (pActor[i] # NoActor /\ Crash("assertion"))
        PROVE  Inv'
    <2>1. /\ nextIndex' \in 0 .. Capacity /\ nextIndex' = i + 1 /\ nextIndex = i
          /\ maxIndex' \in {0} \cup Indices /\ reuseIndex' \in {0} \cup Indices
          /\ pages' \subseteq {PageOf(j) : j \in Indices} /\ Paged'
      BY <1>2, AllocateNextType
    <2>2. i < nextIndex' /\ nextIndex' >= nextIndex
      BY <2>1 DEF Indices
    <2>3. CASE SetActor(a, i)
      BY <1>1, <1>2, <2>1, <2>2, <2>3, SetActorInv
    <2>4. CASE pActor[i] # NoActor /\ Crash("assertion")
      <3>1. SUFFICES ASSUME ~exhausted PROVE FALSE
        BY <1>1, <1>2, <2>1, <2>2, <2>4, CrashInv
      <3>2. pActor[i] \in Actors \cap Born /\ address[pActor[i]].index = i
        BY <2>4, <3>1 DEF Ordered, Owning, TypeOK
      <3> QED
        BY <2>1, <3>2 DEF Addressed, Indices
    <2> QED
      BY <1>2, <2>3, <2>4
  <1>3. ASSUME NEW i \in Indices, AllocateReuse(i), exhausted' = TRUE,
               SetActor(a, i) \/ (pActor[i] # NoActor /\ Crash("assertion"))
        PROVE  Inv'
    <2>1. /\ nextIndex' = nextIndex /\ nextIndex = Capacity
          /\ maxIndex' \in {0} \cup Indices /\ reuseIndex' \in {0} \cup Indices
          /\ pages' \subseteq {PageOf(j) : j \in Indices} /\ Paged'
      BY <1>3, AllocateReuseType
    <2>2. i < nextIndex' /\ nextIndex' >= nextIndex /\ nextIndex' \in 0 .. Capacity
      BY <2>1, CapacityNat DEF Indices
    <2> QED
      BY <1>1, <1>3, <2>1, <2>2, SetActorInv, CrashInv
  <1>4. ASSUME AllocateNone, exhausted' = TRUE, Crash("bounds") PROVE Inv'
    <2>1. /\ nextIndex' \in 0 .. Capacity /\ nextIndex' >= nextIndex
          /\ maxIndex' \in {0} \cup Indices /\ reuseIndex' \in {0} \cup Indices
          /\ pages' \subseteq {PageOf(j) : j \in Indices} /\ Paged'
      BY <1>4 DEF AllocateNone, TypeOK, Paged
    <2> QED
      BY <1>1, <1>4, <2>1, CrashInv
  <1> QED
    BY <1>2, <1>3, <1>4 DEF RegisterActor

\* A crash at a step that allocates nothing.
LEMMA PlainCrashInv ==
  ASSUME Inv, NEW why \in {"bounds", "endpoint", "actor"}, Crash(why),
         UNCHANGED <<allocVars, exhausted>>,
         why = "bounds" =>
             exhausted' \/ \E p \in Proxies : address[p].process # 0
  PROVE  Inv'
  <1>1. /\ nextIndex' \in 0 .. Capacity /\ nextIndex' >= nextIndex
        /\ maxIndex' \in {0} \cup Indices /\ reuseIndex' \in {0} \cup Indices
        /\ pages' \subseteq {PageOf(j) : j \in Indices} /\ Paged'
        /\ exhausted' \in BOOLEAN /\ (exhausted => exhausted')
    BY DEF Inv, TypeOK, allocVars, Paged
  <1>2. why # "assertion" /\ why \in {"assertion", "bounds", "endpoint", "actor"}
    OBVIOUS
  <1> QED
    BY <1>1, <1>2, CrashInv

\* An actor that is constructed with an address (Actor.cpp:7).
LEMMA ProxyInv ==
  ASSUME Inv, NEW p \in Proxies, NEW adr \in Addresses, ConstructProxy(p, adr)
  PROVE  Inv'
  <1> USE DEF Inv, ConstructProxy, allocVars, mailVars, sendVars, endVars
  <1>1. TypeOK'
    BY DEF TypeOK, All
  <1>2. Born' = Born \cup {p} /\ p \notin Born
    BY DEF Born, TypeOK, All
  <1>3. /\ \A b \in Born : address'[b] = address[b] /\ phase'[b] = phase[b]
        /\ address'[p] = adr
    BY <1>2 DEF TypeOK, Born, All
  <1>4. Actors \cap Born' = Actors \cap Born
    BY <1>2, FrameworkAssumption
  <1>5. OwnerOpen' /\ QueueOpen' /\ Paged'
    BY DEF OwnerOpen, QueueOpen, Paged
  <1>6. Addressed'
    <2>1. adr.process # 0 \/ \E a \in Actors \cap Born : adr = address[a]
      BY DEF Known, Addressed, Born, All
    <2> QED
      BY <1>2, <1>3, <1>4, <2>1 DEF Addressed
  <1>7. Sending'
    BY <1>3, <1>4 DEF Sending
  <1>8. EntriesReady'
    <2>1. crashed' = "no"
      BY DEF Up
    <2> QED
      BY <2>1 DEF EntriesReady
  <1>9. ASSUME ~exhausted' PROVE Ordered'
    <2>1. Ordered
      BY <1>9
    <2>2. Unique' /\ Queued'
      BY <1>3, <1>4, <2>1 DEF Ordered, Unique, Queued
    <2>3. Owning'
      BY <1>2, <1>3, <2>1 DEF Ordered, Owning
    <2>4. \A q \in Proxies : phase[q] = "dead" =>
             phase'[q] = "dead" /\ address'[q] = address[q]
      BY DEF TypeOK, All
    <2>5. Owned'
      BY <1>3, <1>4, <2>1, <2>4 DEF Ordered, Owned, Cut
    <2> QED
      BY <2>1, <2>2, <2>3, <2>5 DEF Ordered
  <1> QED
    BY <1>1, <1>5, <1>6, <1>7, <1>8, <1>9

\* delete (Actor.cpp:18, Framework.cpp:133, Mailbox.cpp:30).
LEMMA UnRegisterInv ==
  ASSUME Inv, NEW a \in All, UnRegisterActor(a) PROVE Inv'
  <1> DEFINE i == address[a].index
  <1> USE DEF Inv
  <1>0. a \in Born /\ i \in Indices /\ phase[a] = "alive"
    BY DEF UnRegisterActor, Born, TypeOK, Addresses
  <1>1. CASE ~HasEntry(i)
    <2>1. Crash("bounds") /\ UNCHANGED <<allocVars, exhausted>>
      BY <1>1 DEF UnRegisterActor
    <2>2. \/ \E b \in Actors \cap Born : address[b].index = i
          \/ a \in Proxies /\ address[a].process # 0
      BY <1>0 DEF Addressed, All
    <2>3. a \in Proxies /\ address[a].process # 0
      BY <1>0, <1>1, <2>2 DEF HasEntry, Paged, Addressed
    <2> QED
      BY <2>1, <2>3, PlainCrashInv
  <1>2. CASE HasEntry(i)
    <2>1. /\ phase' = [phase EXCEPT ![a] = "dead"]
          /\ CloseMailbox(i)
          /\ UNCHANGED <<allocVars, address, sendVars, crashed, begun, exhausted>>
      BY <1>2 DEF UnRegisterActor
    <2>2. /\ pActor' = [pActor EXCEPT ![i] = NoActor]
          /\ running' = running
          /\ \/ /\ open' = [open EXCEPT ![i] = FALSE]
                /\ queue' = [queue EXCEPT ![i] = <<>>]
             \/ ~open[i] /\ open' = open /\ queue' = queue
          /\ stale' \subseteq stale \cup {i}
      BY <2>1 DEF CloseMailbox, Mail!Close, mailVars
    <2> USE DEF allocVars, sendVars
    <2>3. TypeOK'
      <3>1. phase' \in [All -> {"unborn", "alive", "dead"}]
        BY <2>1 DEF TypeOK
      <3>2. pActor' \in [Indices -> Actors \cup {NoActor}]
        BY <2>2 DEF TypeOK
      <3>5. running' \in [Indices -> Messages \cup {NoMsg}]
        BY <2>2 DEF TypeOK
      <3>6. stale' \subseteq Indices
        <4>1. stale \subseteq Indices
          BY DEF TypeOK
        <4> QED
          BY <1>0, <2>2, <4>1
      <3>3. open' \in [Indices -> BOOLEAN]
        BY <2>2 DEF TypeOK
      <3>4. queue' \in [Indices -> Seq(Messages)]
        <4>1. queue \in [Indices -> Seq(Messages)] /\ <<>> \in Seq(Messages)
          BY DEF TypeOK
        <4>2. [queue EXCEPT ![i] = <<>>] \in [Indices -> Seq(Messages)]
          BY <4>1
        <4> QED
          BY <2>2, <4>1, <4>2
      <3> QED
        BY <2>1, <3>1, <3>2, <3>3, <3>4, <3>5, <3>6 DEF TypeOK
    <2>4. Born' = Born
      BY <1>0, <2>1 DEF Born, TypeOK
    <2>5. OwnerOpen' /\ QueueOpen'
      <3>1. /\ pActor'[i] = NoActor /\ ~open'[i] /\ queue'[i] = <<>>
            /\ \A j \in Indices : j # i =>
                  /\ pActor'[j] = pActor[j] /\ open'[j] = open[j]
                  /\ queue'[j] = queue[j]
        BY <1>0, <2>2 DEF QueueOpen, TypeOK
      <3> QED
        BY <3>1 DEF OwnerOpen, QueueOpen
    <2>6. Paged' /\ Addressed' /\ Sending' /\ EntriesReady'
      BY <2>1, <2>4 DEF Paged, Addressed, Sending, EntriesReady
    <2>7. ASSUME ~exhausted' PROVE Ordered'
      <3>1. Ordered /\ \A j \in Indices : pActor'[j] = NoActor \/ pActor'[j] = pActor[j]
        BY <2>1, <2>2, <2>7 DEF TypeOK
      <3>2. Unique'
        BY <2>1, <2>4, <3>1 DEF Ordered, Unique
      <3>3. Owning'
        BY <2>1, <2>4, <3>1 DEF Ordered, Owning
      <3>4. Queued'
        <4>1. ASSUME NEW j \in Indices, NEW k \in DOMAIN queue'[j]
              PROVE  <<pActor'[j], queue'[j][k]>> \in meant
          <5>1. j # i
            <6>1. SUFFICES ASSUME j = i PROVE FALSE
              OBVIOUS
            <6>2. queue'[j] = <<>>
              BY <1>0, <2>2, <6>1 DEF QueueOpen, TypeOK
            <6> QED
              BY <4>1, <6>2
          <5>2. queue'[j] = queue[j] /\ pActor'[j] = pActor[j]
            BY <2>2, <5>1 DEF TypeOK
          <5> QED
            BY <3>1, <4>1, <5>2 DEF Ordered, Queued
        <4> QED
          BY <2>1, <4>1 DEF Queued
      <3>5. Owned'
        <4>1. \A j \in Indices : j # i => pActor'[j] = pActor[j]
          BY <2>2 DEF TypeOK
        <4>2. \A b \in All : b # a => phase'[b] = phase[b]
          BY <2>1 DEF TypeOK
        <4>3. phase'[a] = "dead"
          BY <2>1 DEF TypeOK
        <4>4. ASSUME NEW b \in Actors \cap Born, phase'[b] = "alive"
              PROVE  (pActor[address[b].index] = b \/ Cut(address[b].index))'
          <5>1. b # a /\ phase[b] = "alive" /\ b \in All
            BY <4>2, <4>3, <4>4 DEF All
          <5>2. pActor[address[b].index] = b \/ Cut(address[b].index)
            BY <3>1, <4>4, <5>1 DEF Ordered, Owned
          <5>3. CASE Cut(address[b].index)
            BY <2>1, <4>2, <4>3, <5>3 DEF Cut, All
          <5>4. CASE address[b].index = i /\ a \in Proxies
            BY <2>1, <4>3, <5>4 DEF Cut
          <5>5. CASE address[b].index = i /\ a \in Actors
            BY <1>0, <3>1, <4>4, <5>1, <5>5 DEF Ordered, Unique
          <5>6. CASE address[b].index # i /\ pActor[address[b].index] = b
            BY <2>1, <4>1, <4>4, <5>6 DEF TypeOK, Addresses, All
          <5> QED
            BY <5>2, <5>3, <5>4, <5>5, <5>6 DEF All
        <4> QED
          BY <2>4, <4>4 DEF Owned, Cut
      <3> QED
        BY <2>1, <3>1, <3>2, <3>3, <3>4, <3>5 DEF Ordered
    <2> QED
      BY <2>3, <2>5, <2>6, <2>7
  <1> QED
    BY <1>1, <1>2

\* Framework::Destroy, and the null m_pActor in Process.
LEMMA EndInv ==
  ASSUME Inv, Destroy \/ \E i \in Indices : ProcessNullActor(i) PROVE Inv'
  <1>1. UNCHANGED <<allocVars, exhausted>>
    BY DEF Destroy, ProcessNullActor
  <1>2. Crash("endpoint") \/ Crash("actor")
    BY DEF Destroy, ProcessNullActor
  <1> QED
    BY <1>1, <1>2, PlainCrashInv

\* What no step of SendMsg or of a handler changes.
LEMMA SameLife ==
  ASSUME Inv, UNCHANGED <<allocVars, lifeVars, crashed, exhausted>>
  PROVE  /\ Born' = Born
         /\ Paged' /\ Addressed' /\ EntriesReady'
         /\ (Unique => Unique') /\ (Owning => Owning') /\ (Owned => Owned')
  <1> USE DEF allocVars, lifeVars
  <1>1. Born' = Born
    BY DEF Born
  <1>2. Paged' /\ EntriesReady'
    BY DEF Inv, Paged, EntriesReady
  <1>3. Addressed'
    BY <1>1 DEF Inv, Addressed
  <1>4. Unique => Unique'
    BY <1>1 DEF Unique
  <1>5. Owning => Owning'
    BY <1>1 DEF Owning
  <1>6. Owned => Owned'
    BY <1>1 DEF Owned, Cut
  <1> QED
    BY <1>1, <1>2, <1>3, <1>4, <1>5, <1>6

\* The call of SendMsg.
LEMMA SendMsgInv ==
  ASSUME Inv, NEW s \in Senders, NEW x \in Messages, NEW list \in Lists,
         SendMsg(s, x, list)
  PROVE  Inv'
  <1> USE DEF Inv, SendMsg, mailVars, endVars
  <1>1. /\ Born' = Born
        /\ Paged' /\ Addressed' /\ EntriesReady'
        /\ (Unique => Unique') /\ (Owning => Owning') /\ (Owned => Owned')
    BY SameLife
  <1>2. TypeOK'
    <2>1. list \in Seq(Addresses)
      BY ListType
    <2>2. current' \in [Senders -> Messages \cup {NoMsg}]
      BY DEF TypeOK
    <2>3. todo' \in [Senders -> Seq(Addresses)]
      BY <2>1 DEF TypeOK
    <2>4. meant' \subseteq Actors \X Messages /\ sent' \subseteq Messages
      BY DEF TypeOK
    <2> QED
      BY <2>2, <2>3, <2>4 DEF TypeOK, allocVars, lifeVars
  <1>3. OwnerOpen' /\ QueueOpen'
    BY DEF OwnerOpen, QueueOpen, lifeVars
  <1>4. meant \subseteq meant'
    OBVIOUS
  <1>5. Sending'
    <2>1. ASSUME NEW t \in Senders, todo'[t] # <<>>, t # s
          PROVE  /\ current'[t] \in Messages
                 /\ \A k \in DOMAIN todo'[t] :
                       \/ todo'[t][k].process # 0
                       \/ todo'[t][k] = Local(0)
                       \/ \E a \in Actors \cap Born :
                             todo'[t][k] = address[a] /\ <<a, current'[t]>> \in meant'
      <3>1. todo'[t] = todo[t] /\ current'[t] = current[t]
        BY <2>1 DEF TypeOK
      <3> QED
        BY <1>4, <2>1, <3>1 DEF Sending
    <2>2. todo'[s] = list /\ current'[s] = x
      BY DEF TypeOK
    <2>3. ASSUME NEW k \in DOMAIN list
          PROVE  \/ list[k].process # 0
                 \/ list[k] = Local(0)
                 \/ \E a \in Actors \cap Born :
                       list[k] = address[a] /\ <<a, x>> \in meant'
      <3>1. list[k] \in Known
        BY <2>3, ListType
      <3>2. CASE \E a \in Actors \cap Born : list[k] = address[a]
        BY <2>3, <3>2
      <3> QED
        BY <3>1, <3>2 DEF Known, Born, All, Addressed
    <2>4. address' = address
      BY DEF lifeVars
    <2>5. ASSUME NEW t \in Senders, todo'[t] # <<>>
          PROVE  /\ current'[t] \in Messages
                 /\ \A k \in DOMAIN todo'[t] :
                       \/ todo'[t][k].process # 0
                       \/ todo'[t][k] = Local(0)
                       \/ \E a \in Actors \cap Born :
                             todo'[t][k] = address[a] /\ <<a, current'[t]>> \in meant'
      <3>1. CASE t = s
        BY <2>2, <2>3, <3>1
      <3>2. CASE t # s
        BY <2>1, <2>5, <3>2
      <3> QED
        BY <3>1, <3>2
    <2>6. Born' = Born
      BY <1>1
    <2> HIDE DEF Inv, SendMsg, mailVars, endVars
    <2> QED
      BY <2>4, <2>5, <2>6 DEF Sending, Local
  <1>6. ~exhausted' => Ordered'
    BY <1>1, <1>4 DEF Ordered, Queued, lifeVars
  <1> QED
    BY <1>1, <1>2, <1>3, <1>5, <1>6

\* One turn of the loop over the addresses, and the end of SendMsg.
LEMMA SendTurnInv ==
  ASSUME Inv, NEW s \in Senders, SendTurn(s) PROVE Inv'
  <1> DEFINE adr == Head(todo[s])
  <1> USE DEF Inv, endVars
  <1>1. /\ todo[s] # <<>> /\ SendNext(s)
        /\ UNCHANGED <<allocVars, lifeVars, current, sent, meant, endVars, begun>>
    BY DEF SendTurn
  <1>2. /\ Born' = Born
        /\ Paged' /\ Addressed' /\ EntriesReady'
        /\ (Unique => Unique') /\ (Owning => Owning') /\ (Owned => Owned')
    BY <1>1, SameLife
  <1>3. /\ adr \in Addresses /\ current[s] \in Messages
        /\ \/ adr.process # 0
           \/ adr = Local(0)
           \/ \E a \in Actors \cap Born :
                 adr = address[a] /\ <<a, current[s]>> \in meant
    <2>1. todo[s] \in Seq(Addresses) /\ todo[s] # <<>>
      BY <1>1 DEF TypeOK
    <2>2. 1 \in DOMAIN todo[s] /\ adr = todo[s][1]
      BY <2>1
    <2>3. adr \in Addresses
      BY <2>1, <2>2
    <2> QED
      BY <1>1, <2>2, <2>3 DEF Sending
  <1>4. /\ todo' = [todo EXCEPT ![s] = Tail(@)]
        /\ open' = open /\ running' = running
        /\ listEndPoint' \in [Senders -> BOOLEAN]
        /\ listRecive' \in Seq(Messages)
        /\ \/ queue' = queue
           \/ /\ adr.process = 0 /\ adr # Local(0)
              /\ open[adr.index]
              /\ queue' = [queue EXCEPT ![adr.index] = Append(@, current[s])]
    <2>1. listRecive \in Seq(Messages) /\ listEndPoint \in [Senders -> BOOLEAN]
      BY DEF TypeOK
    <2>2. CASE /\ adr.process # 0
               /\ listEndPoint' = [listEndPoint EXCEPT ![s] = TRUE]
               /\ UNCHANGED <<mailVars, listRecive>>
      BY <1>1, <2>1, <2>2 DEF SendNext, mailVars
    <2>3. CASE adr = Local(0) /\ SystemMsg(current[s]) /\ UNCHANGED listEndPoint
      <3>1. Append(listRecive, current[s]) \in Seq(Messages)
        BY <1>3, <2>1
      <3> QED
        BY <1>1, <2>1, <2>3, <3>1 DEF SendNext, SystemMsg, mailVars
    <2>4. CASE /\ adr.process = 0 /\ adr.index # 0
               /\ PushMsg(adr.index, current[s])
               /\ UNCHANGED <<listEndPoint, listRecive>>
      <3>1. todo' = [todo EXCEPT ![s] = Tail(@)]
        BY <1>1 DEF SendNext
      <3>2. adr # Local(0)
        BY <2>4 DEF Local
      <3>3. CASE open[adr.index]
        <4>1. /\ queue' = [queue EXCEPT ![adr.index] = Append(@, current[s])]
              /\ open' = open /\ running' = running
          BY <2>4, <3>3 DEF PushMsg, Mail!Send
        <4> HIDE DEF Inv, adr
        <4> QED
          BY <2>1, <2>4, <3>1, <3>2, <3>3, <4>1
      <3>4. CASE ~open[adr.index]
        <4>1. queue' = queue /\ open' = open /\ running' = running
          BY <2>4, <3>4 DEF PushMsg, mailVars
        <4> HIDE DEF Inv, adr
        <4> QED
          BY <2>1, <2>4, <3>1, <4>1
      <3> QED
        BY <3>3, <3>4
    <2> QED
      BY <1>1, <2>2, <2>3, <2>4 DEF SendNext
  <1>5. TypeOK'
    <2>1. todo' \in [Senders -> Seq(Addresses)]
      <3>1. todo \in [Senders -> Seq(Addresses)]
        BY DEF TypeOK
      <3>2. Tail(todo[s]) \in Seq(Addresses)
        BY <1>1, <3>1
      <3> QED
        BY <1>4, <3>1, <3>2
    <2>2. queue' \in [Indices -> Seq(Messages)]
      <3>1. queue \in [Indices -> Seq(Messages)] /\ adr.index \in Indices
        BY <1>3 DEF TypeOK, Addresses
      <3>2. Append(queue[adr.index], current[s]) \in Seq(Messages)
        BY <1>3, <3>1
      <3> QED
        BY <1>4, <3>1, <3>2
    <2> QED
      BY <1>1, <1>4, <2>1, <2>2 DEF TypeOK, allocVars, lifeVars
  <1>6. OwnerOpen' /\ QueueOpen'
    <2>1. \A i \in Indices : ~open[i] => queue'[i] = queue[i]
      BY <1>4 DEF TypeOK
    <2> QED
      BY <1>1, <1>4, <2>1 DEF OwnerOpen, QueueOpen, lifeVars
  <1>7. Sending'
    <2>1. ASSUME NEW t \in Senders, todo'[t] # <<>>, NEW k \in DOMAIN todo'[t]
          PROVE  \E l \in DOMAIN todo[t] : todo'[t][k] = todo[t][l]
      <3>1. todo \in [Senders -> Seq(Addresses)]
        BY DEF TypeOK
      <3>2. CASE t = s
        <4>1. todo'[t] = Tail(todo[s])
          BY <1>4, <3>1, <3>2
        <4>2. k + 1 \in DOMAIN todo[s] /\ Tail(todo[s])[k] = todo[s][k + 1]
          BY <1>1, <2>1, <3>1, <4>1
        <4> QED
          BY <3>2, <4>1, <4>2
      <3>3. CASE t # s
        BY <1>4, <2>1, <3>1, <3>3
      <3> QED
        BY <3>2, <3>3
    <2>2. \A t \in Senders : todo'[t] # <<>> => todo[t] # <<>>
      BY <1>1, <1>4 DEF TypeOK
    <2>3. current' = current /\ meant' = meant /\ address' = address
      BY <1>1 DEF lifeVars
    <2>4. ASSUME NEW t \in Senders, todo'[t] # <<>>, NEW k \in DOMAIN todo'[t]
          PROVE  /\ current[t] \in Messages
                 /\ \/ todo'[t][k].process # 0
                    \/ todo'[t][k] = Local(0)
                    \/ \E a \in Actors \cap Born :
                          todo'[t][k] = address[a] /\ <<a, current[t]>> \in meant
      <3>1. PICK l \in DOMAIN todo[t] : todo'[t][k] = todo[t][l]
        BY <2>1, <2>4
      <3> QED
        BY <2>2, <2>4, <3>1 DEF Sending
    <2>5. ASSUME NEW t \in Senders, todo'[t] # <<>> PROVE current[t] \in Messages
      BY <2>2, <2>5 DEF Sending
    <2> QED
      BY <1>2, <2>3, <2>4, <2>5 DEF Sending, Local
  <1>8. ASSUME ~exhausted' PROVE Ordered'
    <2>1. Ordered
      BY <1>1, <1>8
    <2>2. Queued'
      <3>1. ASSUME NEW i \in Indices, NEW k \in DOMAIN queue'[i]
            PROVE  <<pActor[i], queue'[i][k]>> \in meant
        <4>0. queue \in [Indices -> Seq(Messages)]
          BY DEF TypeOK
        <4>1. CASE queue'[i] = queue[i]
          BY <2>1, <3>1, <4>1 DEF Ordered, Queued
        <4>2. CASE queue'[i] # queue[i]
          <5>1. /\ i = adr.index /\ adr.process = 0 /\ adr # Local(0) /\ open[i]
                /\ queue'[i] = Append(queue[i], current[s])
            BY <1>4, <4>0, <4>2
          <5>2. PICK a \in Actors \cap Born :
                   adr = address[a] /\ <<a, current[s]>> \in meant
            BY <1>3, <5>1
          <5>3. pActor[i] \in Actors \cap Born /\ address[pActor[i]].index = i
            BY <2>1, <5>1 DEF Ordered, Owning, OwnerOpen, TypeOK
          <5>4. pActor[i] = a
            BY <2>1, <5>1, <5>2, <5>3 DEF Ordered, Unique
          <5>5. CASE k = Len(queue[i]) + 1
            <6>1. queue'[i][k] = current[s]
              BY <4>0, <5>1, <5>5
            <6> QED
              BY <5>2, <5>4, <6>1
          <5>6. CASE k # Len(queue[i]) + 1
            <6>1. k \in DOMAIN queue[i] /\ queue'[i][k] = queue[i][k]
              BY <3>1, <4>0, <5>1, <5>6
            <6> QED
              BY <2>1, <6>1 DEF Ordered, Queued
          <5> QED
            BY <5>5, <5>6
        <4> QED
          BY <4>1, <4>2
      <3> QED
        BY <1>1, <3>1 DEF Queued, lifeVars
    <2> QED
      BY <1>1, <1>2, <2>1, <2>2 DEF Ordered
  <1> QED
    BY <1>2, <1>5, <1>6, <1>7, <1>8

\* SendReturn keeps the invariant: it touches no mailbox.
LEMMA SendReturnInv ==
  ASSUME Inv, NEW s \in Senders, SendReturn(s) PROVE Inv'
  <1> USE DEF Inv
  <1>1. CASE listEndPoint[s] /\ Crash("endpoint")
    BY <1>1, PlainCrashInv DEF SendReturn
  <1>2. CASE /\ current' = [current EXCEPT ![s] = NoMsg]
             /\ listEndPoint' = [listEndPoint EXCEPT ![s] = FALSE]
             /\ UNCHANGED <<mailVars, lifeVars, todo, listRecive, sent, meant,
                            stale, crashed, begun>>
    <2>1. /\ todo[s] = <<>>
          /\ current' = [current EXCEPT ![s] = NoMsg]
          /\ listEndPoint' = [listEndPoint EXCEPT ![s] = FALSE]
          /\ UNCHANGED <<allocVars, mailVars, lifeVars, todo, listRecive, sent,
                         meant, stale, crashed, exhausted, begun>>
      BY <1>2 DEF SendReturn
    <2>2. /\ Born' = Born
          /\ Paged' /\ Addressed' /\ EntriesReady'
          /\ (Unique => Unique') /\ (Owning => Owning') /\ (Owned => Owned')
      BY <2>1, SameLife
    <2>3. TypeOK'
      BY <2>1 DEF TypeOK, allocVars, mailVars, lifeVars
    <2>4. OwnerOpen' /\ QueueOpen'
      BY <2>1 DEF OwnerOpen, QueueOpen, mailVars, lifeVars
    <2>5. Sending'
      <3>1. \A t \in Senders : todo[t] # <<>> => current'[t] = current[t]
        BY <2>1 DEF TypeOK
      <3>2. todo' = todo /\ meant' = meant /\ address' = address
        BY <2>1 DEF lifeVars
      <3> QED
        BY <2>2, <3>1, <3>2 DEF Sending, Local
    <2>6. ~exhausted' => Ordered'
      BY <2>1, <2>2 DEF Ordered, Queued, mailVars, lifeVars
    <2> QED
      BY <2>2, <2>3, <2>4, <2>5, <2>6
  <1> QED
    BY <1>1, <1>2 DEF SendReturn

\* A worker takes a message, and its handler returns.
LEMMA BeginHandlerInv ==
  ASSUME Inv, NEW i \in Indices, BeginHandler(i) PROVE Inv'
  <1> USE DEF Inv, endVars
  <1>1. /\ open[i] /\ queue[i] # <<>> /\ open' = open
        /\ running' = [running EXCEPT ![i] = Head(queue[i])]
        /\ queue' = [queue EXCEPT ![i] = Tail(@)]
        /\ begun' = begun \cup {<<pActor[i], Head(queue[i])>>}
        /\ UNCHANGED <<allocVars, lifeVars, sendVars, endVars>>
    BY DEF BeginHandler, Mail!Begin
  <1>2. /\ Born' = Born
        /\ Paged' /\ Addressed' /\ EntriesReady'
        /\ (Unique => Unique') /\ (Owning => Owning') /\ (Owned => Owned')
    BY <1>1, SameLife
  <1>3. queue \in [Indices -> Seq(Messages)] /\ queue[i] \in Seq(Messages)
    BY DEF TypeOK
  <1>4. /\ Head(queue[i]) \in Messages /\ Tail(queue[i]) \in Seq(Messages)
        /\ 1 \in DOMAIN queue[i] /\ Head(queue[i]) = queue[i][1]
    BY <1>1, <1>3
  <1>5. TypeOK'
    <2>1. queue' \in [Indices -> Seq(Messages)]
      BY <1>1, <1>3, <1>4
    <2>2. running' \in [Indices -> Messages \cup {NoMsg}]
      BY <1>1, <1>4 DEF TypeOK
    <2>3. pActor[i] \in Actors
      BY <1>1 DEF TypeOK, OwnerOpen
    <2>4. begun' \subseteq Actors \X Messages
      BY <1>1, <1>4, <2>3 DEF TypeOK
    <2> QED
      BY <1>1, <2>1, <2>2, <2>4 DEF TypeOK, allocVars, lifeVars, sendVars
  <1>6. OwnerOpen' /\ QueueOpen'
    BY <1>1, <1>3 DEF OwnerOpen, QueueOpen, lifeVars
  <1>7. Sending'
    BY <1>1, <1>2 DEF Sending, Local, lifeVars, sendVars
  <1>8. ASSUME ~exhausted' PROVE Ordered'
    <2>1. Ordered
      BY <1>1, <1>8
    <2>2. begun' \subseteq meant'
      BY <1>1, <1>4, <2>1 DEF Ordered, Queued, sendVars
    <2>3. ASSUME NEW j \in Indices, NEW k \in DOMAIN queue'[j]
          PROVE  <<pActor[j], queue'[j][k]>> \in meant
      <3>1. CASE j = i
        <4>1. queue'[j] = Tail(queue[i])
          BY <1>1, <1>3, <3>1
        <4>2. k + 1 \in DOMAIN queue[i] /\ Tail(queue[i])[k] = queue[i][k + 1]
          BY <1>1, <1>3, <2>3, <4>1
        <4> QED
          BY <2>1, <3>1, <4>1, <4>2 DEF Ordered, Queued
      <3>2. CASE j # i
        BY <1>1, <1>3, <2>1, <2>3, <3>2 DEF Ordered, Queued
      <3> QED
        BY <3>1, <3>2
    <2> QED
      BY <1>1, <1>2, <2>1, <2>2, <2>3 DEF Ordered, Queued, lifeVars, sendVars
  <1> QED
    BY <1>2, <1>5, <1>6, <1>7, <1>8

\* A handler that returns keeps the invariant.
LEMMA EndHandlerInv ==
  ASSUME Inv, NEW i \in Indices, EndHandler(i) PROVE Inv'
  <1> USE DEF Inv, endVars
  <1>1. /\ running' = [running EXCEPT ![i] = NoMsg]
        /\ UNCHANGED <<open, queue, allocVars, lifeVars, sendVars, endVars, begun>>
    BY DEF EndHandler, Mail!Finish
  <1>2. /\ Born' = Born
        /\ Paged' /\ Addressed' /\ EntriesReady'
        /\ (Unique => Unique') /\ (Owning => Owning') /\ (Owned => Owned')
    BY <1>1, SameLife
  <1>3. TypeOK'
    BY <1>1 DEF TypeOK, allocVars, lifeVars, sendVars
  <1>4. OwnerOpen' /\ QueueOpen'
    BY <1>1 DEF OwnerOpen, QueueOpen, lifeVars
  <1>5. Sending'
    BY <1>1, <1>2 DEF Sending, Local, lifeVars, sendVars
  <1>6. ~exhausted' => Ordered'
    BY <1>1, <1>2 DEF Ordered, Queued, lifeVars, sendVars
  <1> QED
    BY <1>2, <1>3, <1>4, <1>5, <1>6

-----------------------------------------------------------------------------
(* The theorems.                                                           *)

\* The invariant holds in every reachable state, for any number of pages,
\* entries, actors, proxies, senders and messages.
THEOREM FrameworkInvariance == Spec => []Inv
  <1>1. Init => Inv
    BY InitInv
  <1>2. Inv /\ [Next]_vars => Inv'
    <2> SUFFICES ASSUME Inv, [Next]_vars PROVE Inv'
      OBVIOUS
    <2>1. CASE Framework
      BY <2>1, FrameworkInv
    <2>2. CASE Destroy \/ \E i \in Indices : ProcessNullActor(i)
      BY <2>2, EndInv
    <2>3. CASE \E a \in Actors : RegisterActor(a)
      BY <2>3, RegisterInv
    <2>4. CASE \E p \in Proxies, adr \in Addresses : ConstructProxy(p, adr)
      BY <2>4, ProxyInv
    <2>5. CASE \E a \in All : UnRegisterActor(a)
      BY <2>5, UnRegisterInv
    <2>6. CASE \E s \in Senders, x \in Messages, list \in Lists : SendMsg(s, x, list)
      BY <2>6, SendMsgInv
    <2>7. CASE \E s \in Senders : SendTurn(s) \/ SendReturn(s)
      BY <2>7, SendTurnInv, SendReturnInv
    <2>8. CASE \E i \in Indices : BeginHandler(i) \/ EndHandler(i)
      BY <2>8, BeginHandlerInv, EndHandlerInv
    <2>9. CASE UNCHANGED vars
      <3> USE <2>9 DEF vars, allocVars, mailVars, lifeVars, sendVars, endVars, Inv
      <3>1. Born' = Born /\ UNCHANGED <<allocVars, lifeVars, crashed, exhausted>>
        BY DEF Born
      <3>2. /\ Paged' /\ Addressed' /\ EntriesReady'
            /\ (Unique => Unique') /\ (Owning => Owning') /\ (Owned => Owned')
        BY <3>1, SameLife
      <3>3. TypeOK'
        BY DEF TypeOK
      <3>4. OwnerOpen' /\ QueueOpen' /\ Sending'
        BY <3>1 DEF OwnerOpen, QueueOpen, Sending, Local
      <3>5. ~exhausted' => Ordered'
        BY <3>2 DEF Ordered, Queued
      <3> QED
        BY <3>2, <3>3, <3>4, <3>5
    <2> QED
      BY <2>1, <2>2, <2>3, <2>4, <2>5, <2>6, <2>7, <2>8, <2>9 DEF Next
  <1> QED
    BY <1>1, <1>2, PTL DEF Spec

\* Every variable of Framework and Directory keeps its type.
THEOREM FrameworkTypes == Spec => []TypeOK
  <1>1. Inv => TypeOK
    BY DEF Inv
  <1> QED
    BY <1>1, FrameworkInvariance, PTL

\* Until the indices run out, no two actors ever have one address, and only
\* the destructor of a proxy takes the mailbox of an actor that is alive.
THEOREM OwnersCorrect == Spec => []OneOwner
  <1>1. Inv => OneOwner
    BY DEF Inv, Ordered, Unique, Owned, OneOwner
  <1> QED
    BY <1>1, FrameworkInvariance, PTL

\* Every entry GetEntry is asked for has its page, and every entry
\* RegisterActor takes is free, as long as indices last and no proxy of another
\* process is destroyed.
THEOREM EntriesCorrect == Spec => []EntriesReady
  <1>1. Inv => EntriesReady
    BY DEF Inv
  <1> QED
    BY <1>1, FrameworkInvariance, PTL

\* Until the indices run out, a handler is given only what was sent to its
\* actor.
THEOREM DeliveryCorrect == Spec => []NotMisdelivered
  <1>1. Inv => NotMisdelivered
    BY DEF Inv, Ordered, NotMisdelivered
  <1> QED
    BY <1>1, FrameworkInvariance, PTL
=============================================================================
