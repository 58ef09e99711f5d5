----------------------------- MODULE AdapterProofs -----------------------------
(***************************************************************************)
(* Proofs about RedisAdapter, for every number of actors, rows and calls.  *)
(*                                                                         *)
(* What an actor asked for last of a row it alone writes is in the buffer,  *)
(* or else the change at the head of its commands, or else in the row       *)
(* (Latest); a row whose turn in Batch is over has what the buffer still    *)
(* has, so that Clear loses nothing (Batched).  A message waits only when   *)
(* its change was made or has failed (Fits), and until it is sent the       *)
(* message before it and the row agree or it is of the row's call (Heard).  *)
(***************************************************************************)
EXTENDS AdapterProperties, SequenceTheorems, TLAPS

Tells(c) == c.name \in {"S", "A", "D"}

\* What the message tells of was made, or the server did not take it.
Done(m) == m.name \in {"S", "D"} => m.call \in stored[m.row] \cup failed[m.row]

\* What is left of the commands of a is a change of an element, a message, or a
\* change and its message.  A message is left alone only when the change had its
\* turn, or when the connection is lost and it will not be sent either.
Fits(a) ==
    commands[a] # <<>> =>
        LET c == commands[a]
        IN  \/ Len(c) = 1 /\ Changes(c[1]) /\ c[1].row.index # 0
            \/ Len(c) = 1 /\ Tells(c[1]) /\ (up[a] => Done(c[1]))
            \/ /\ Len(c) = 2 /\ Changes(c[1]) /\ Tells(c[2])
               /\ c[1].row = c[2].row /\ c[1].call = c[2].call

\* The first command of an actor changes the row r, or tells of it.
Changing(a, r) == commands[a] # <<>> /\ Changes(commands[a][1]) /\ commands[a][1].row = r
Telling(a, r) == commands[a] # <<>> /\ Tells(commands[a][1]) /\ commands[a][1].row = r

\* The rows that Batch still comes to have an entry.
Planned == \A a \in Actors : todo[a] \subseteq Entries(a) /\ (~inBatch[a] => todo[a] = {})

\* Who has a change of a row in the buffer or among its commands wrote the row,
\* and the buffer has only rows without an index.
Owned(a, r) ==
    /\ buffer[a][r] # 0 => r.index = 0 /\ a \in writers[r]
    /\ Changing(a, r) => a \in writers[r]
    /\ Telling(a, r) /\ r.index = 0 => a \in writers[r]

\* The call n was the last to change the row r, or failed to.
Taken(r, n) == n \in failed[r] \cup {store[r]}

\* What the only writer of a row asked for last.
Latest(a, r) ==
    writers[r] = {a} /\ up[a] /\ r \notin misplaced =>
        IF buffer[a][r] # 0 THEN buffer[a][r] = requested[r]
        ELSE IF Changing(a, r) THEN commands[a][1].call = requested[r]
        ELSE Taken(r, requested[r])

\* A row that had its turn in a batch.
Batched(a, r) ==
    inBatch[a] /\ up[a] /\ writers[r] = {a} /\ r \notin todo[a] /\ buffer[a][r] # 0 =>
        IF Changing(a, r) THEN commands[a][1].call = buffer[a][r] ELSE Taken(r, buffer[a][r])

\* The last message and the row agree, unless a command of one of them failed.
Agree(r) ==
    \/ told[r].call = store[r] \/ store[r] = Garbled
    \/ told[r].call \in failed[r] \/ store[r] \in failed[r]

\* The row and the messages about it, with a message about it still to be sent.
Heard(a, r) ==
    r.index = 0 /\ writers[r] \subseteq {a} /\ up[a] =>
        /\ Agree(r) \/ (Telling(a, r) /\ commands[a][1].call = store[r])
        /\ Telling(a, r) => Taken(r, commands[a][1].call)

RowInv(a, r) == Owned(a, r) /\ Latest(a, r) /\ Batched(a, r) /\ Heard(a, r)
ActorInv(a) == Fits(a) /\ \A r \in Rows : RowInv(a, r)

AdapterInv == TypeOK /\ Planned /\ \A a \in Actors : ActorInv(a)

-----------------------------------------------------------------------------
(* The types.                                                              *)

\* Rows, commands and messages are typed.
LEMMA RowTypes ==
    /\ \A r \in Rows : Buffered(r) \in Rows /\ Buffered(r).index = 0
    /\ \A r \in Rows : r.index = 0 => Buffered(r) = r
    /\ \A r \in Rows : r.index # 0 => Buffered(r) # r
    /\ Elements \subseteq Rows
    /\ Empty \in [Rows -> Values] /\ \A r \in Rows : Empty[r] = 0
    /\ \A r \in Rows, n \in Values \ {0} :
          /\ Set(r, n) \in Commands /\ Del(r, n) \in Commands
          /\ Pub("S", r, n) \in Commands /\ Pub("A", r, n) \in Commands
          /\ Pub("D", r, n) \in Commands
<1>1. \A r \in Rows : Buffered(r) \in Rows /\ Buffered(r).index = 0
  BY AdapterAssumption DEF Rows, Buffered
<1>2. \A r \in Rows : r.index = 0 => Buffered(r) = r
  BY DEF Rows, Buffered
<1>3. Empty \in [Rows -> Values] /\ \A r \in Rows : Empty[r] = 0
  BY AdapterAssumption DEF Empty, Values
<1>4. \A r \in Rows, n \in Values \ {0} :
          /\ Set(r, n) \in Commands /\ Del(r, n) \in Commands
          /\ Pub("S", r, n) \in Commands /\ Pub("A", r, n) \in Commands
          /\ Pub("D", r, n) \in Commands
  BY DEF Commands, Set, Del, Pub, Command
<1> QED
  BY <1>1, <1>2, <1>3, <1>4 DEF Elements

\* What the commands are, word by word.
LEMMA CommandParts ==
    ASSUME NEW r, NEW n
    PROVE  /\ Changes(Set(r, n)) /\ ~Tells(Set(r, n)) /\ Set(r, n).row = r /\ Set(r, n).call = n
           /\ Changes(Del(r, n)) /\ ~Tells(Del(r, n)) /\ Del(r, n).row = r /\ Del(r, n).call = n
           /\ \A t \in {"S", "A", "D"} :
                 /\ Tells(Pub(t, r, n)) /\ ~Changes(Pub(t, r, n)) /\ Pub(t, r, n).row = r
                 /\ Pub(t, r, n).call = n /\ Pub(t, r, n).name = t
  BY DEF Set, Del, Pub, Command, Changes, Tells

\* The number of a call, when there is one more.
LEMMA NextCall == ASSUME TypeOK, NEW a \in Actors, Call(a)
                  PROVE  /\ calls + 1 \in Values \ {0} /\ calls' = calls + 1 /\ calls' \in Values
                         /\ commands[a] = <<>> /\ ~inBatch[a]
  BY AdapterAssumption DEF TypeOK, Call, Values, Ready, Idle

\* A list of commands given to an adapter keeps the type of commands.
LEMMA RunType ==
    ASSUME TypeOK, NEW a \in Actors, NEW list \in Seq(Commands), Run(a, list)
    PROVE  commands' \in [Actors -> Seq(Commands)] /\ commands'[a] = list
  BY DEF TypeOK, Run

\* A request keeps the types of its histories.
LEMMA RequestType ==
    ASSUME TypeOK, calls + 1 \in Values, NEW a \in Actors, NEW r \in Rows, NEW w \in Rows, Request(a, r, w)
    PROVE  /\ requested' \in [Rows -> Values] /\ writers' \in [Rows -> SUBSET Actors]
           /\ misplaced' \in SUBSET Rows
<1>1. requested' = [requested EXCEPT ![r] = calls + 1]
  BY DEF Request
<1>2. requested' \in [Rows -> Values]
  BY <1>1 DEF TypeOK
<1>3. \A s \in Rows : writers[s] \cup {a} \in SUBSET Actors /\ writers[s] \in SUBSET Actors
  BY DEF TypeOK
<1>4. writers' = [s \in Rows |-> IF s \in {r, w} THEN writers[s] \cup {a} ELSE writers[s]]
  BY DEF Request
<1>5. writers' \in [Rows -> SUBSET Actors]
  BY <1>3, <1>4
<1>6. misplaced' \in SUBSET Rows
  BY DEF Request, TypeOK
<1> QED
  BY <1>2, <1>5, <1>6

\* The head of an actor's commands, and what is left.
LEMMA HeadType ==
    ASSUME TypeOK, NEW a \in Actors, DoCmd(a)
    PROVE  /\ commands[a] \in Seq(Commands) /\ commands[a] # <<>>
           /\ Head(commands[a]) \in Commands /\ Head(commands[a]) = commands[a][1]
           /\ Head(commands[a]).row \in Rows /\ Head(commands[a]).call \in Values \ {0}
           /\ commands' \in [Actors -> Seq(Commands)] /\ commands'[a] = Tail(commands[a])
           /\ UNCHANGED <<inBatch, todo, up, buffer, writeVars>>
<1>1. /\ commands[a] \in Seq(Commands) /\ commands[a] # <<>> /\ Run(a, Tail(commands[a]))
      /\ UNCHANGED <<inBatch, todo, up, buffer, writeVars>>
  BY DEF TypeOK, DoCmd
<1>2. /\ Head(commands[a]) \in Commands /\ Tail(commands[a]) \in Seq(Commands)
      /\ Head(commands[a]) = commands[a][1]
  BY <1>1
<1>3. Head(commands[a]).row \in Rows /\ Head(commands[a]).call \in Values \ {0}
  BY <1>2 DEF Commands
<1> QED
  BY <1>1, <1>2, <1>3, RunType

\* What the server makes of a command keeps the types of the server's part.
LEMMA ServerType ==
    ASSUME TypeOK, NEW a \in Actors, Execute(a) \/ Refuse(a) \/ Garble(a) \/ Unsent(a)
    PROVE  /\ store' \in [Rows -> Values \cup {Garbled}] /\ told' \in [Rows -> Messages]
           /\ stored' \in [Rows -> SUBSET Values] /\ failed' \in [Rows -> SUBSET Values]
<1>1. DoCmd(a)
  BY DEF Execute, Refuse, Garble, Unsent
<1>2. PICK c \in Commands : c = Head(commands[a]) /\ c.row \in Rows /\ c.call \in Values
  BY <1>1, HeadType
<1>3. /\ stored[c.row] \cup {c.call} \in SUBSET Values
      /\ failed[c.row] \cup {c.call} \in SUBSET Values
  BY <1>2 DEF TypeOK
<1>4. store' \in {store, [store EXCEPT ![c.row] = c.call], [store EXCEPT ![c.row] = Garbled]}
  BY <1>2 DEF Execute, Refuse, Garble, Unsent, serverVars
<1>5. store' \in [Rows -> Values \cup {Garbled}]
  BY <1>2, <1>4 DEF TypeOK
<1>6. stored' \in {stored, [stored EXCEPT ![c.row] = @ \cup {c.call}]}
  BY <1>2 DEF Execute, Refuse, Garble, Unsent, serverVars
<1>7. stored' \in [Rows -> SUBSET Values]
  BY <1>2, <1>3, <1>6 DEF TypeOK
<1>8. failed' \in {failed, [failed EXCEPT ![c.row] = @ \cup {c.call}]}
  BY <1>2 DEF Execute, Refuse, Garble, Unsent, serverVars, Fails
<1>9. failed' \in [Rows -> SUBSET Values]
  BY <1>2, <1>3, <1>8 DEF TypeOK
<1>10. told' = told \/ (told' = [told EXCEPT ![c.row] = c] /\ ~Changes(c))
  BY <1>2 DEF Execute, Refuse, Garble, Unsent, serverVars
<1>11. ~Changes(c) => c \in Messages
  BY <1>2 DEF Changes, Commands, Messages
<1>12. told' \in [Rows -> Messages]
  BY <1>2, <1>10, <1>11 DEF TypeOK
<1> QED
  BY <1>5, <1>7, <1>9, <1>12

\* Every step keeps the types, and Batch's rows in the buffer.
LEMMA TypeStep == ASSUME TypeOK, Planned, [Next]_vars PROVE TypeOK' /\ Planned'
<1>1. CASE UNCHANGED vars
  BY <1>1 DEF TypeOK, Planned, Entries, vars, serverVars, writeVars
<1>2. ASSUME NEW a \in Actors, NEW r \in Rows, SetValue(a, r) PROVE TypeOK' /\ Planned'
  <2>1. /\ buffer' = [buffer EXCEPT ![a][Buffered(r)] = calls + 1]
        /\ UNCHANGED <<commands, inBatch, todo, up, serverVars>>
        /\ Buffered(r) \in Rows /\ calls + 1 \in Values \ {0} /\ calls' \in Values
        /\ Request(a, r, Buffered(r))
    BY <1>2, RowTypes, NextCall DEF SetValue, ValueChange
  <2>2. buffer' \in [Actors -> [Rows -> Values]]
    BY <2>1 DEF TypeOK
  <2>3. TypeOK'
    BY <2>1, <2>2, RequestType DEF TypeOK, serverVars
  <2>4. \A b \in Actors, s \in Rows : buffer[b][s] # 0 => buffer'[b][s] # 0
    BY <2>1 DEF TypeOK
  <2>5. Planned'
    BY <2>1, <2>4 DEF Planned, Entries
  <2> QED
    BY <2>3, <2>5
<1>3. ASSUME NEW a \in Actors, NEW r \in Elements, Save(a, r) \/ RemoveRepeated(a, r)
      PROVE  TypeOK' /\ Planned'
  <2>1. r \in Rows /\ calls + 1 \in Values \ {0} /\ calls' \in Values /\ Request(a, r, r)
    BY <1>3, RowTypes, NextCall DEF Save, RemoveRepeated
  <2>2. <<Set(r, calls + 1)>> \in Seq(Commands)
        /\ <<Del(r, calls + 1), Pub("D", r, calls + 1)>> \in Seq(Commands)
    BY <2>1, RowTypes
  <2>3. commands' \in [Actors -> Seq(Commands)]
    BY <1>3, <2>2, RunType DEF Save, RemoveRepeated
  <2>4. UNCHANGED <<inBatch, todo, up, buffer, serverVars>>
    BY <1>3 DEF Save, RemoveRepeated
  <2> QED
    BY <2>1, <2>3, <2>4, RequestType DEF TypeOK, Planned, Entries, serverVars
<1>4. ASSUME NEW a \in Actors, NEW r \in Elements, AddRepeated(a, r) PROVE TypeOK' /\ Planned'
  <2>1. r \in Rows /\ calls + 1 \in Values \ {0} /\ calls' \in Values
    BY <1>4, RowTypes, NextCall DEF AddRepeated
  <2>2. <<Pub("A", r, calls + 1)>> \in Seq(Commands)
    BY <2>1, RowTypes
  <2>3. commands' \in [Actors -> Seq(Commands)]
    BY <1>4, <2>2, RunType DEF AddRepeated
  <2> QED
    BY <1>4, <2>1, <2>3 DEF TypeOK, Planned, Entries, AddRepeated, serverVars
<1>5. ASSUME NEW a \in Actors, PubAndSet(a) PROVE TypeOK' /\ Planned'
  <2>1. Entries(a) \in SUBSET Rows
    BY DEF Entries
  <2>2. /\ inBatch' = [inBatch EXCEPT ![a] = TRUE] /\ todo' = [todo EXCEPT ![a] = Entries(a)]
        /\ UNCHANGED <<commands, up, buffer, serverVars, writeVars>>
    BY <1>5 DEF PubAndSet
  <2>3. TypeOK'
    BY <2>1, <2>2 DEF TypeOK, serverVars, writeVars
  <2>4. \A b \in Actors : Entries(b)' = Entries(b)
    BY <2>2 DEF Entries
  <2>5. Planned'
    BY <2>2, <2>4 DEF Planned, TypeOK
  <2> QED
    BY <2>3, <2>5
<1>6. ASSUME NEW a \in Actors, NEW r \in Rows, BatchRow(a, r) PROVE TypeOK' /\ Planned'
  <2>1. /\ r \in todo[a] /\ Run(a, RowCommands(r, buffer[a][r])) /\ todo' = [todo EXCEPT ![a] = @ \ {r}]
        /\ UNCHANGED <<inBatch, up, buffer, serverVars, writeVars>>
    BY <1>6 DEF BatchRow, Turn
  <2>2. buffer[a][r] \in Values \ {0}
    BY <2>1 DEF TypeOK, Planned, Entries
  <2>3. RowCommands(r, buffer[a][r]) \in Seq(Commands)
    BY <2>2, RowTypes DEF RowCommands
  <2>4. commands' \in [Actors -> Seq(Commands)]
    BY <2>1, <2>3, RunType
  <2>5. TypeOK'
    BY <2>1, <2>4 DEF TypeOK, serverVars, writeVars
  <2>6. \A b \in Actors : todo'[b] \subseteq todo[b] /\ Entries(b)' = Entries(b)
    BY <2>1 DEF TypeOK, Entries
  <2>7. Planned'
    BY <2>1, <2>6 DEF Planned
  <2> QED
    BY <2>5, <2>7
<1>7. ASSUME NEW a \in Actors, NEW e \in [Rows -> Values],
             buffer' = [buffer EXCEPT ![a] = e], LeaveBatch(a)
      PROVE  TypeOK' /\ Planned'
  <2>1. /\ inBatch' = [inBatch EXCEPT ![a] = FALSE] /\ todo' = [todo EXCEPT ![a] = {}]
        /\ UNCHANGED <<commands, up, serverVars, writeVars>>
    BY <1>7 DEF LeaveBatch
  <2>2. TypeOK'
    BY <1>7, <2>1 DEF TypeOK, serverVars, writeVars
  <2>3. \A b \in Actors \ {a} : Entries(b)' = Entries(b) /\ todo'[b] = todo[b] /\ inBatch'[b] = inBatch[b]
    BY <1>7, <2>1 DEF TypeOK, Entries
  <2>4. todo'[a] = {}
    BY <2>1 DEF TypeOK
  <2>5. Planned'
    BY <2>3, <2>4 DEF Planned
  <2> QED
    BY <2>2, <2>5
<1>8. ASSUME NEW a \in Actors, NEW r \in Rows, BatchThrow(a, r) PROVE TypeOK' /\ Planned'
  BY <1>7, <1>8 DEF BatchThrow, Kept, TypeOK
<1>9. ASSUME NEW a \in Actors, BatchEnd(a) PROVE TypeOK' /\ Planned'
  BY <1>7, <1>9, RowTypes DEF BatchEnd
<1>10. ASSUME NEW a \in Actors, Execute(a) \/ Refuse(a) \/ Garble(a) \/ Unsent(a)
       PROVE  TypeOK' /\ Planned'
  <2>1. DoCmd(a)
    BY <1>10 DEF Execute, Refuse, Garble, Unsent
  <2>2. commands' \in [Actors -> Seq(Commands)] /\ UNCHANGED <<inBatch, todo, up, buffer, writeVars>>
    BY <2>1, HeadType
  <2> QED
    BY <1>10, <2>2, ServerType DEF TypeOK, Planned, Entries, writeVars
<1>11. ASSUME NEW a \in Actors, LoseConnection(a) PROVE TypeOK' /\ Planned'
  BY <1>11 DEF TypeOK, Planned, Entries, LoseConnection, serverVars, writeVars
<1> QED
  BY <1>1, <1>2, <1>3, <1>4, <1>5, <1>6, <1>8, <1>9, <1>10, <1>11 DEF Next

\* The initial state is typed.
LEMMA InitTypes == Init => TypeOK /\ Planned
<1> SUFFICES ASSUME Init PROVE TypeOK /\ Planned
  OBVIOUS
<1>1. 0 \in Values /\ Empty \in [Rows -> Values]
  BY RowTypes, AdapterAssumption DEF Values
<1>2. told \in [Rows -> Messages]
  BY <1>1 DEF Init, Messages, Pub, Command
<1> QED
  BY <1>1, <1>2 DEF Init, TypeOK, Planned

\* Every variable of the adapters keeps its type, and only rows that have an entry
\* are run by Batch (RedisAdapter.h:54, RedisBuffer.cpp:37).
THEOREM AdapterTypes == Spec => []TypeOK
<1>1. TypeOK /\ Planned /\ [Next]_vars => (TypeOK /\ Planned)'
  BY TypeStep
<1> QED
  BY <1>1, InitTypes, PTL DEF Spec

-----------------------------------------------------------------------------
(* A step leaves what the other actors have alone.                         *)

\* A step of b: what the others have, what only grows, and what b must be a
\* writer of a row for.
Frame(b) ==
    /\ \A a \in Actors \ {b} :
          /\ commands'[a] = commands[a] /\ inBatch'[a] = inBatch[a] /\ todo'[a] = todo[a]
          /\ up'[a] = up[a] /\ buffer'[a] = buffer[a]
    /\ up'[b] => up[b]
    /\ misplaced \subseteq misplaced'
    /\ \A r \in Rows :
          /\ stored[r] \subseteq stored'[r] /\ failed[r] \subseteq failed'[r]
          /\ writers[r] \subseteq writers'[r] /\ writers'[r] \subseteq writers[r] \cup {b}
          /\ b \notin writers'[r] => store'[r] = store[r] /\ requested'[r] = requested[r]
          /\ b \notin writers'[r] /\ r.index = 0 => told'[r] = told[r]

\* A request of b frames the histories of the calls.
LEMMA RequestFrame ==
    ASSUME TypeOK, NEW b \in Actors, NEW q \in Rows, NEW w \in Rows, Request(b, q, w)
    PROVE  /\ misplaced \subseteq misplaced'
           /\ \A r \in Rows :
                 /\ writers'[r] = IF r \in {q, w} THEN writers[r] \cup {b} ELSE writers[r]
                 /\ requested'[r] = IF r = q THEN calls + 1 ELSE requested[r]
<1>1. /\ requested' = [requested EXCEPT ![q] = calls + 1] /\ misplaced \subseteq misplaced'
      /\ writers' = [s \in Rows |-> IF s \in {q, w} THEN writers[s] \cup {b} ELSE writers[s]]
  BY DEF Request
<1> QED
  BY <1>1 DEF TypeOK

\* What the server does with a command of b, row by row.
LEMMA ServerStep ==
    ASSUME TypeOK, NEW b \in Actors, NEW c, c = Head(commands[b]),
           Execute(b) \/ Refuse(b) \/ Garble(b) \/ Unsent(b)
    PROVE  /\ \A r \in Rows : r # c.row =>
                 store'[r] = store[r] /\ told'[r] = told[r] /\ stored'[r] = stored[r]
                 /\ failed'[r] = failed[r]
           /\ stored[c.row] \subseteq stored'[c.row] /\ failed[c.row] \subseteq failed'[c.row]
           /\ store'[c.row] # store[c.row] \/ stored'[c.row] # stored[c.row] => Changes(c)
           /\ up[b] /\ Changes(c) =>
                 /\ told'[c.row] = told[c.row] /\ c.call \in stored'[c.row] \cup failed'[c.row]
                 /\ \/ store'[c.row] = c.call
                    \/ c.call \in failed'[c.row] /\ store'[c.row] \in {store[c.row], Garbled}
           /\ up[b] /\ ~Changes(c) =>
                 /\ store'[c.row] = store[c.row] /\ stored'[c.row] = stored[c.row]
                 /\ \/ told'[c.row] = c
                    \/ told'[c.row] = told[c.row] /\ c.call \in failed'[c.row]
           /\ ~up[b] => UNCHANGED serverVars
<1>1. DoCmd(b)
  BY DEF Execute, Refuse, Garble, Unsent
<1>2. c.row \in Rows
  BY <1>1, HeadType
<1>3. CASE Execute(b)
  BY <1>2, <1>3 DEF Execute, TypeOK
<1>4. CASE Refuse(b)
  BY <1>2, <1>4 DEF Refuse, Fails, TypeOK
<1>5. CASE Garble(b)
  BY <1>2, <1>5 DEF Garble, Fails, TypeOK, Changes
<1>6. CASE Unsent(b)
  BY <1>6 DEF Unsent, serverVars
<1> QED
  BY <1>3, <1>4, <1>5, <1>6

\* The calls leave what others have alone.
LEMMA CallFrame ==
    ASSUME TypeOK, NEW b \in Actors, NEW q \in Rows,
           \/ SetValue(b, q) \/ Save(b, q) \/ AddRepeated(b, q) \/ RemoveRepeated(b, q)
    PROVE  Frame(b)
<1>1. \A a \in Actors \ {b} : commands'[a] = commands[a] /\ buffer'[a] = buffer[a]
  BY DEF TypeOK, SetValue, Save, AddRepeated, RemoveRepeated, Run
<1>2. UNCHANGED <<inBatch, todo, up, serverVars>>
  BY DEF SetValue, Save, AddRepeated, RemoveRepeated
<1>3. \/ \E w \in Rows : Request(b, q, w)
      \/ UNCHANGED <<requested, writers, misplaced>>
  BY RowTypes DEF SetValue, Save, AddRepeated, RemoveRepeated
<1>4. CASE UNCHANGED <<requested, writers, misplaced>>
  BY <1>1, <1>2, <1>4 DEF Frame, serverVars
<1>5. ASSUME NEW w \in Rows, Request(b, q, w) PROVE Frame(b)
  <2>1. misplaced \subseteq misplaced'
    BY <1>5, RequestFrame
  <2>2. ASSUME NEW r \in Rows
        PROVE  /\ writers[r] \subseteq writers'[r] /\ writers'[r] \subseteq writers[r] \cup {b}
               /\ b \notin writers'[r] => requested'[r] = requested[r]
    <3>1. /\ writers'[r] = IF r \in {q, w} THEN writers[r] \cup {b} ELSE writers[r]
          /\ requested'[r] = IF r = q THEN calls + 1 ELSE requested[r]
      BY <1>5, RequestFrame
    <3>2. CASE r \in {q, w}
      BY <3>1, <3>2
    <3>3. CASE r \notin {q, w}
      BY <3>1, <3>3
    <3> QED
      BY <3>2, <3>3
  <2> QED
    BY <1>1, <1>2, <2>1, <2>2 DEF Frame, serverVars
<1> QED
  BY <1>3, <1>4, <1>5

\* Batch, and the loss of a connection, leave what others have alone.
LEMMA BatchFrame ==
    ASSUME TypeOK, NEW b \in Actors,
           \/ PubAndSet(b) \/ BatchEnd(b) \/ LoseConnection(b)
           \/ \E r \in Rows : BatchRow(b, r) \/ BatchThrow(b, r)
    PROVE  Frame(b)
<1>1. UNCHANGED <<serverVars, writeVars>>
  BY DEF PubAndSet, BatchEnd, BatchRow, BatchThrow, LeaveBatch, LoseConnection
<1>2. /\ up'[b] => up[b]
      /\ \A a \in Actors \ {b} :
            /\ commands'[a] = commands[a] /\ inBatch'[a] = inBatch[a] /\ todo'[a] = todo[a]
            /\ up'[a] = up[a] /\ buffer'[a] = buffer[a]
  BY DEF TypeOK, PubAndSet, BatchEnd, BatchRow, BatchThrow, LeaveBatch, LoseConnection, Run
<1> QED
  BY <1>1, <1>2 DEF Frame, serverVars, writeVars

\* So do the commands: who changes a row, or tells of one without an index, is one
\* of its writers.
LEMMA CommandFrame ==
    ASSUME TypeOK, NEW b \in Actors, \A r \in Rows : Owned(b, r), Fits(b),
           Execute(b) \/ Refuse(b) \/ Garble(b) \/ Unsent(b)
    PROVE  Frame(b)
<1>1. DoCmd(b)
  BY DEF Execute, Refuse, Garble, Unsent
<1>2. PICK c \in Commands : /\ c = Head(commands[b]) /\ c = commands[b][1] /\ c.row \in Rows
                            /\ commands[b] # <<>>
  BY <1>1, HeadType
<1>3. UNCHANGED <<inBatch, todo, up, buffer, calls, requested, writers, misplaced>>
  BY <1>1, HeadType DEF writeVars
<1>4. \A a \in Actors \ {b} : commands'[a] = commands[a]
  BY <1>1 DEF DoCmd, Run, TypeOK
<1>5. Changes(c) \/ Tells(c)
  BY <1>2 DEF Commands, Changes, Tells
<1>6. Changes(c) => b \in writers[c.row]
  BY <1>2 DEF Owned, Changing
<1>7. Tells(c) /\ c.row.index = 0 => b \in writers[c.row]
  BY <1>2 DEF Owned, Telling
<1>8. ASSUME NEW r \in Rows
      PROVE  /\ stored[r] \subseteq stored'[r] /\ failed[r] \subseteq failed'[r]
             /\ b \notin writers[r] => store'[r] = store[r]
             /\ b \notin writers[r] /\ r.index = 0 => told'[r] = told[r]
  <2>1. CASE r # c.row
    BY <1>2, <2>1, ServerStep
  <2>2. CASE r = c.row
    BY <1>2, <1>5, <1>6, <1>7, <2>2, ServerStep
  <2> QED
    BY <2>1, <2>2
<1> QED
  BY <1>3, <1>4, <1>8 DEF Frame

\* What b's step leaves alone keeps what holds of another actor.
LEMMA Elsewhere ==
    ASSUME TypeOK, NEW b \in Actors, NEW a \in Actors, a # b, ActorInv(a), Frame(b)
    PROVE  ActorInv(a)'
<1>1. /\ commands'[a] = commands[a] /\ inBatch'[a] = inBatch[a] /\ todo'[a] = todo[a]
      /\ up'[a] = up[a] /\ buffer'[a] = buffer[a]
  BY DEF Frame
<1>2. commands[a] # <<>> => commands[a][1].row \in Rows
  <2>1. commands[a] \in Seq(Commands)
    BY DEF TypeOK
  <2>2. commands[a] # <<>> => commands[a][1] \in Commands
    BY <2>1
  <2> QED
    BY <2>2 DEF Commands
<1>3. Fits(a)'
  BY <1>1, <1>2 DEF ActorInv, Fits, Done, Frame
<1>4. ASSUME NEW r \in Rows PROVE RowInv(a, r)'
  <2>1. RowInv(a, r) /\ writers[r] \subseteq writers'[r]
    BY DEF ActorInv, Frame
  <2>2. Changing(a, r)' = Changing(a, r) /\ Telling(a, r)' = Telling(a, r)
    BY <1>1 DEF Changing, Telling
  <2>3. ASSUME writers'[r] \subseteq {a}
        PROVE  /\ store'[r] = store[r] /\ requested'[r] = requested[r]
               /\ r.index = 0 => told'[r] = told[r]
               /\ failed[r] \subseteq failed'[r] /\ writers'[r] = writers[r]
               /\ r \notin misplaced' => r \notin misplaced
    <3>1. b \notin writers'[r]
      BY <2>3
    <3>2. writers[r] \subseteq writers'[r] /\ writers'[r] \subseteq writers[r] \cup {b}
      BY DEF Frame
    <3>3. writers'[r] = writers[r]
      BY <3>1, <3>2
    <3> QED
      BY <3>1, <3>3 DEF Frame
  <2>4. Owned(a, r)'
    BY <1>1, <2>1, <2>2 DEF RowInv, Owned
  <2>5. Latest(a, r)'
    BY <1>1, <2>1, <2>2, <2>3 DEF RowInv, Latest, Taken
  <2>6. Batched(a, r)'
    BY <1>1, <2>1, <2>2, <2>3 DEF RowInv, Batched, Taken
  <2>7. Heard(a, r)'
    BY <1>1, <2>1, <2>2, <2>3 DEF RowInv, Heard, Taken, Agree
  <2> QED
    BY <2>4, <2>5, <2>6, <2>7 DEF RowInv
<1> QED
  BY <1>3, <1>4 DEF ActorInv

-----------------------------------------------------------------------------
(* What a step does to the actor that takes it.                            *)

\* Lists of one and of two commands.
LEMMA Lists ==
    ASSUME NEW x \in Commands, NEW y \in Commands
    PROVE  /\ <<x>> # <<>> /\ Len(<<x>>) = 1 /\ <<x>>[1] = x
           /\ <<x, y>> # <<>> /\ Len(<<x, y>>) = 2 /\ <<x, y>>[1] = x /\ <<x, y>>[2] = y
  OBVIOUS

\* What is left of such a list behind its head.
LEMMA Tails ==
    ASSUME NEW c \in Seq(Commands), c # <<>>
    PROVE  /\ Len(c) = 1 => Tail(c) = <<>>
           /\ Len(c) = 2 => /\ Tail(c) # <<>> /\ Len(Tail(c)) = 1 /\ Tail(c)[1] = c[2]
                            /\ c[2] \in Commands
<1>1. /\ Len(c) \in Nat \ {0} /\ Tail(c) \in Seq(Commands) /\ Len(Tail(c)) = Len(c) - 1
      /\ \A i \in 1 .. Len(Tail(c)) : Tail(c)[i] = c[i + 1]
  BY HeadTailProperties, EmptySeq
<1>2. \A s \in Seq(Commands) : (s # <<>> <=> Len(s) \in Nat \ {0}) /\ Len(s) \in Nat
  BY EmptySeq, LenProperties
<1>3. ASSUME Len(c) = 2
      PROVE  Tail(c) # <<>> /\ Len(Tail(c)) = 1 /\ Tail(c)[1] = c[2] /\ c[2] \in Commands
  <2>1. Len(Tail(c)) = 1
    BY <1>1, <1>3
  <2>2. Tail(c) # <<>>
    <3>1. Len(<<>>) = 0
      BY EmptySeq
    <3>2. Len(Tail(c)) # Len(<<>>)
      BY <2>1, <3>1
    <3> QED
      BY <3>2
  <2>3. Tail(c)[1] = c[1 + 1]
    BY <1>1, <2>1
  <2> QED
    BY <1>3, <2>1, <2>2, <2>3, ElementOfSeq
<1> QED
  BY <1>1, <1>2, <1>3

\* A change makes no message, and the other way about.
LEMMA ChangesOrTells == ASSUME NEW c PROVE ~(Changes(c) /\ Tells(c))
  BY DEF Changes, Tells

\* What an actor whose list is empty does not have.
LEMMA IdleActor ==
    ASSUME NEW b, commands[b] = <<>>
    PROVE  \A r : ~Changing(b, r) /\ ~Telling(b, r)
  BY DEF Changing, Telling

\* The lists that the operations start with, and what they mean for the rows.
LEMMA Starting ==
    ASSUME NEW b \in Actors, NEW q \in Rows, NEW n \in Values \ {0},
           commands'[b] \in {<<Set(q, n)>>, <<Set(q, n), Pub("S", q, n)>>,
                             <<Del(q, n), Pub("D", q, n)>>, <<Pub("A", q, n)>>},
           q.index = 0 => commands'[b] = <<Set(q, n), Pub("S", q, n)>>
    PROVE  /\ Fits(b)' /\ commands'[b] # <<>> /\ commands'[b][1].call = n
           /\ commands'[b] = <<Pub("A", q, n)>> =>
                 \A r : ~Changing(b, r)' /\ (Telling(b, r)' <=> r = q)
           /\ commands'[b] # <<Pub("A", q, n)>> =>
                 \A r : ~Telling(b, r)' /\ (Changing(b, r)' <=> r = q)
<1>1. /\ Set(q, n) \in Commands /\ Del(q, n) \in Commands /\ Pub("S", q, n) \in Commands
      /\ Pub("D", q, n) \in Commands /\ Pub("A", q, n) \in Commands
  BY RowTypes
<1>2. /\ Changes(Set(q, n)) /\ ~Tells(Set(q, n)) /\ Set(q, n).row = q /\ Set(q, n).call = n
      /\ Changes(Del(q, n)) /\ ~Tells(Del(q, n)) /\ Del(q, n).row = q /\ Del(q, n).call = n
      /\ \A t \in {"S", "A", "D"} :
            /\ Tells(Pub(t, q, n)) /\ ~Changes(Pub(t, q, n)) /\ Pub(t, q, n).row = q
            /\ Pub(t, q, n).call = n /\ Pub(t, q, n).name = t
  BY CommandParts
<1>3. CASE commands'[b] = <<Set(q, n)>>
  <2>1. /\ commands'[b] # <<>> /\ Len(commands'[b]) = 1 /\ commands'[b][1] = Set(q, n)
        /\ commands'[b] # <<Pub("A", q, n)>> /\ q.index # 0
    <3>1. <<Set(q, n)>>[1] = Set(q, n) /\ <<Pub("A", q, n)>>[1] = Pub("A", q, n)
          /\ Len(<<Set(q, n)>>) = 1 /\ Len(<<Set(q, n), Pub("S", q, n)>>) = 2 /\ <<Set(q, n)>> # <<>>
      BY <1>1, Lists
    <3>2. Set(q, n) # Pub("A", q, n)
      BY <1>2
    <3> QED
      BY <1>3, <3>1, <3>2
  <2> QED
    BY <1>2, <2>1 DEF Fits, Changing, Telling
<1>4. ASSUME NEW x \in Commands, NEW y \in Commands, commands'[b] = <<x, y>>, Changes(x), ~Tells(x),
             Tells(y), x.row = q, x.call = n, y.row = q, y.call = n
      PROVE  /\ Fits(b)' /\ commands'[b] # <<>> /\ commands'[b][1].call = n
             /\ commands'[b] # <<Pub("A", q, n)>>
             /\ \A r : ~Telling(b, r)' /\ (Changing(b, r)' <=> r = q)
  <2>1. /\ commands'[b] # <<>> /\ Len(commands'[b]) = 2
        /\ commands'[b][1] = x /\ commands'[b][2] = y
    BY <1>4, Lists
  <2>2. Len(<<Pub("A", q, n)>>) = 1
    BY <1>1, Lists
  <2> QED
    BY <1>4, <2>1, <2>2 DEF Fits, Changing, Telling
<1>5. CASE commands'[b] = <<Pub("A", q, n)>>
  <2>1. commands'[b] # <<>> /\ Len(commands'[b]) = 1 /\ commands'[b][1] = Pub("A", q, n)
    BY <1>1, <1>5, Lists
  <2> QED
    BY <1>2, <1>5, <2>1 DEF Fits, Changing, Telling, Done
<1>6. CASE commands'[b] = <<Set(q, n), Pub("S", q, n)>>
  BY <1>1, <1>2, <1>4, <1>6
<1>7. CASE commands'[b] = <<Del(q, n), Pub("D", q, n)>>
  BY <1>1, <1>2, <1>4, <1>7
<1> QED
  BY <1>3, <1>5, <1>6, <1>7

\* SetValue: what is asked for is in the buffer, though not for the row of an
\* element.
LEMMA SetValueStep ==
    ASSUME TypeOK, NEW b \in Actors, ActorInv(b), NEW q \in Rows, SetValue(b, q)
    PROVE  ActorInv(b)'
<1>1. PICK w \in Rows : w = Buffered(q) /\ w.index = 0
  BY RowTypes
<1>2. PICK n \in Values \ {0} : n = calls + 1
  BY NextCall DEF SetValue
<1>3. /\ buffer' = [buffer EXCEPT ![b][w] = n] /\ Request(b, q, w)
      /\ UNCHANGED <<commands, inBatch, todo, up, store, told, stored, failed>>
      /\ commands[b] = <<>> /\ ~inBatch[b]
  BY <1>1, <1>2, NextCall DEF SetValue, ValueChange, serverVars
<1>4. \A r : ~Changing(b, r)' /\ ~Telling(b, r)' /\ ~Changing(b, r) /\ ~Telling(b, r)
  BY <1>3, IdleActor DEF Changing, Telling
<1>5. Fits(b)'
  BY <1>3 DEF Fits
<1>6. ASSUME NEW r \in Rows PROVE RowInv(b, r)'
  <2>1. /\ buffer'[b][r] = IF r = w THEN n ELSE buffer[b][r]
        /\ writers'[r] = IF r \in {q, w} THEN writers[r] \cup {b} ELSE writers[r]
        /\ requested'[r] = IF r = q THEN n ELSE requested[r]
        /\ r \notin misplaced' => r \notin misplaced /\ (r \in {q, w} => q = w)
    <3>1. misplaced' = IF q = w THEN misplaced ELSE misplaced \cup {q, w}
      BY <1>3 DEF Request
    <3>2. buffer'[b][r] = IF r = w THEN n ELSE buffer[b][r]
      BY <1>3 DEF TypeOK
    <3>3. /\ requested'[r] = IF r = q THEN calls + 1 ELSE requested[r]
          /\ writers'[r] = IF r \in {q, w} THEN writers[r] \cup {b} ELSE writers[r]
      <4>1. Request(b, q, w)
        BY <1>3
      <4> QED
        BY <4>1, RequestFrame
    <3>4. requested'[r] = IF r = q THEN n ELSE requested[r]
      BY <1>2, <3>3
    <3> QED
      BY <3>1, <3>2, <3>3, <3>4
  <2>2. Owned(b, r)'
    BY <1>1, <1>4, <2>1 DEF ActorInv, RowInv, Owned
  <2>3. Latest(b, r)'
    <3>1. CASE r \in {q, w}
      BY <2>1, <3>1 DEF Latest
    <3>2. CASE r \notin {q, w}
      BY <1>3, <1>4, <2>1, <3>2 DEF ActorInv, RowInv, Latest, Taken
    <3> QED
      BY <3>1, <3>2
  <2>4. Batched(b, r)'
    BY <1>3 DEF Batched
  <2>5. Heard(b, r)'
    BY <1>3, <1>4, <2>1 DEF ActorInv, RowInv, Heard, Agree
  <2> QED
    BY <2>2, <2>3, <2>4, <2>5 DEF RowInv
<1> QED
  BY <1>5, <1>6 DEF ActorInv

\* Save, RemoveRepeated: an element is never in the buffer.
LEMMA DirectStep ==
    ASSUME TypeOK, NEW b \in Actors, ActorInv(b), NEW q \in Elements, Save(b, q) \/ RemoveRepeated(b, q)
    PROVE  ActorInv(b)'
<1>1. q \in Rows /\ q.index # 0
  BY DEF Elements
<1>2. PICK n \in Values \ {0} : n = calls + 1
  BY NextCall DEF Save, RemoveRepeated
<1>3. /\ commands[b] = <<>> /\ ~inBatch[b] /\ Request(b, q, q)
      /\ UNCHANGED <<inBatch, todo, up, buffer, store, told, stored, failed>>
  BY NextCall DEF Save, RemoveRepeated, serverVars
<1>4. commands'[b] \in {<<Set(q, n)>>, <<Del(q, n), Pub("D", q, n)>>}
  BY <1>2 DEF Save, RemoveRepeated, Run, TypeOK
<1>5. Set(q, n) # Pub("A", q, n) /\ <<Set(q, n)>> # <<Pub("A", q, n)>>
      /\ <<Del(q, n), Pub("D", q, n)>> # <<Pub("A", q, n)>>
  <2>1. Set(q, n).name # Pub("A", q, n).name
    BY DEF Set, Pub, Command
  <2> QED
    BY <2>1
<1>6. /\ Fits(b)' /\ commands'[b][1].call = n
      /\ \A r : ~Telling(b, r)' /\ (Changing(b, r)' <=> r = q)
  BY <1>1, <1>4, <1>5, Starting
<1>7. \A r : ~Changing(b, r) /\ ~Telling(b, r)
  BY <1>3, IdleActor
<1>8. ASSUME NEW r \in Rows PROVE RowInv(b, r)'
  <2>1. /\ writers'[r] = IF r = q THEN writers[r] \cup {b} ELSE writers[r]
        /\ requested'[r] = IF r = q THEN n ELSE requested[r]
        /\ misplaced' = misplaced
    <3>1. misplaced' = misplaced
      BY <1>3 DEF Request
    <3>2. /\ requested'[r] = IF r = q THEN calls + 1 ELSE requested[r]
          /\ writers'[r] = IF r \in {q, q} THEN writers[r] \cup {b} ELSE writers[r]
      <4>1. Request(b, q, q)
        BY <1>3
      <4> QED
        BY <1>1, <4>1, RequestFrame
    <3>3. requested'[r] = IF r = q THEN n ELSE requested[r]
      BY <1>2, <3>2
    <3>4. writers'[r] = IF r = q THEN writers[r] \cup {b} ELSE writers[r]
      BY <3>2
    <3> QED
      BY <3>1, <3>3, <3>4
  <2>2. Owned(b, r)'
    BY <1>3, <1>6, <2>1 DEF ActorInv, RowInv, Owned
  <2>3. Latest(b, r)'
    <3>1. CASE r = q
      BY <1>1, <1>3, <1>6, <2>1, <3>1 DEF ActorInv, RowInv, Owned, Latest
    <3>2. CASE r # q
      BY <1>3, <1>6, <1>7, <2>1, <3>2 DEF ActorInv, RowInv, Latest, Taken
    <3> QED
      BY <3>1, <3>2
  <2>4. Batched(b, r)'
    BY <1>3 DEF Batched
  <2>5. Heard(b, r)'
    BY <1>3, <1>6, <1>7, <2>1 DEF ActorInv, RowInv, Heard, Agree
  <2> QED
    BY <2>2, <2>3, <2>4, <2>5 DEF RowInv
<1> QED
  BY <1>6, <1>8 DEF ActorInv

\* AddRepeated changes no row, and tells of an element.
LEMMA AddStep ==
    ASSUME TypeOK, NEW b \in Actors, ActorInv(b), NEW q \in Elements, AddRepeated(b, q)
    PROVE  ActorInv(b)'
<1>1. q \in Rows /\ q.index # 0
  BY DEF Elements
<1>2. PICK n \in Values \ {0} : n = calls + 1
  BY NextCall DEF AddRepeated
<1>3. /\ commands[b] = <<>>
      /\ UNCHANGED <<inBatch, todo, up, buffer, store, told, stored, failed, requested, writers, misplaced>>
  BY NextCall DEF AddRepeated, serverVars
<1>4. commands'[b] = <<Pub("A", q, n)>>
  BY <1>2 DEF AddRepeated, Run, TypeOK
<1>5. Fits(b)' /\ \A r : ~Changing(b, r)' /\ (Telling(b, r)' <=> r = q)
  BY <1>1, <1>4, Starting
<1>6. \A r : ~Changing(b, r) /\ ~Telling(b, r)
  BY <1>3, IdleActor
<1>7. ASSUME NEW r \in Rows PROVE RowInv(b, r)'
  BY <1>1, <1>3, <1>5, <1>6, <1>7 DEF ActorInv, RowInv, Owned, Latest, Batched, Heard, Taken, Agree
<1> QED
  BY <1>5, <1>7 DEF ActorInv

\* PubAndSet starts a batch with all rows that have an entry.
LEMMA BatchStartStep ==
    ASSUME TypeOK, NEW b \in Actors, ActorInv(b), PubAndSet(b)
    PROVE  ActorInv(b)'
<1>1. /\ UNCHANGED <<commands, up, buffer, store, told, stored, failed, requested, writers, misplaced>>
      /\ todo'[b] = Entries(b)
  BY DEF PubAndSet, serverVars, writeVars, TypeOK
<1>2. \A r : Changing(b, r)' = Changing(b, r) /\ Telling(b, r)' = Telling(b, r)
  BY <1>1 DEF Changing, Telling
<1>3. Fits(b)'
  BY <1>1 DEF ActorInv, Fits, Done
<1>4. ASSUME NEW r \in Rows PROVE RowInv(b, r)'
  <2>1. Batched(b, r)'
    BY <1>1 DEF Batched, Entries
  <2> QED
    BY <1>1, <1>2, <2>1 DEF ActorInv, RowInv, Owned, Latest, Heard, Taken, Agree
<1> QED
  BY <1>3, <1>4 DEF ActorInv

\* A row of the batch: its command carries what the buffer has.
LEMMA BatchRowStep ==
    ASSUME TypeOK, Planned, NEW b \in Actors, ActorInv(b), NEW q \in Rows, BatchRow(b, q)
    PROVE  ActorInv(b)'
<1>1. /\ UNCHANGED <<inBatch, up, buffer, store, told, stored, failed, requested, writers, misplaced>>
      /\ todo'[b] = todo[b] \ {q} /\ q \in todo[b] /\ commands[b] = <<>>
      /\ commands'[b] = <<Set(q, buffer[b][q]), Pub("S", q, buffer[b][q])>>
  BY DEF BatchRow, Turn, Idle, Run, RowCommands, serverVars, writeVars, TypeOK
<1>2. PICK n \in Values \ {0} : n = buffer[b][q]
  BY <1>1 DEF TypeOK, Planned, Entries
<1>3. q.index = 0 /\ b \in writers[q]
  BY <1>2 DEF ActorInv, RowInv, Owned
<1>4. commands'[b] = <<Set(q, n), Pub("S", q, n)>> /\ commands'[b] # <<Pub("A", q, n)>>
  <2>1. Len(<<Set(q, n), Pub("S", q, n)>>) = 2 /\ Len(<<Pub("A", q, n)>>) = 1
    BY RowTypes, Lists
  <2> QED
    BY <1>1, <1>2, <2>1
<1>5. /\ Fits(b)' /\ commands'[b][1].call = n
      /\ \A r : ~Telling(b, r)' /\ (Changing(b, r)' <=> r = q)
  BY <1>4, Starting
<1>6. \A r : ~Changing(b, r) /\ ~Telling(b, r)
  BY <1>1, IdleActor
<1>7. ASSUME NEW r \in Rows PROVE RowInv(b, r)'
  <2>1. Owned(b, r)'
    BY <1>1, <1>3, <1>5, <1>7 DEF ActorInv, RowInv, Owned
  <2>2. Latest(b, r)'
    BY <1>1, <1>2, <1>5, <1>6, <1>7 DEF ActorInv, RowInv, Latest, Taken
  <2>3. Batched(b, r)'
    BY <1>1, <1>2, <1>5, <1>6, <1>7 DEF ActorInv, RowInv, Batched, Taken
  <2>4. Heard(b, r)'
    BY <1>1, <1>5, <1>6, <1>7 DEF ActorInv, RowInv, Heard, Agree
  <2> QED
    BY <2>1, <2>2, <2>3, <2>4 DEF RowInv
<1> QED
  BY <1>5, <1>7 DEF ActorInv

\* An exception leaves the batch with the buffer as it was.
LEMMA BatchThrowStep ==
    ASSUME TypeOK, NEW b \in Actors, ActorInv(b), NEW q \in Rows, BatchThrow(b, q)
    PROVE  ActorInv(b)'
<1>1. /\ UNCHANGED <<commands, up, store, told, stored, failed, requested, writers, misplaced>>
      /\ inBatch'[b] = FALSE /\ buffer'[b] = buffer[b]
  BY DEF BatchThrow, LeaveBatch, Kept, serverVars, writeVars, TypeOK
<1>2. \A r : Changing(b, r)' = Changing(b, r) /\ Telling(b, r)' = Telling(b, r)
  BY <1>1 DEF Changing, Telling
<1>3. Fits(b)'
  BY <1>1 DEF ActorInv, Fits, Done
<1>4. ASSUME NEW r \in Rows PROVE RowInv(b, r)'
  BY <1>1, <1>2, <1>4 DEF ActorInv, RowInv, Owned, Latest, Batched, Heard, Taken, Agree
<1> QED
  BY <1>3, <1>4 DEF ActorInv

\* Clear loses nothing: every row has had its turn.
LEMMA BatchEndStep ==
    ASSUME TypeOK, NEW b \in Actors, ActorInv(b), BatchEnd(b)
    PROVE  ActorInv(b)'
<1>1. /\ UNCHANGED <<commands, up, store, told, stored, failed, requested, writers, misplaced>>
      /\ inBatch[b] /\ inBatch'[b] = FALSE /\ todo[b] = {} /\ commands[b] = <<>>
      /\ \A r \in Rows : buffer'[b][r] = 0
  BY RowTypes DEF BatchEnd, LeaveBatch, Idle, serverVars, writeVars, TypeOK
<1>2. \A r : ~Changing(b, r)' /\ ~Telling(b, r)' /\ ~Changing(b, r) /\ ~Telling(b, r)
  BY <1>1, IdleActor DEF Changing, Telling
<1>3. Fits(b)'
  BY <1>1 DEF Fits
<1>4. ASSUME NEW r \in Rows PROVE RowInv(b, r)'
  <2>1. Latest(b, r)'
    <3>1. CASE buffer[b][r] = 0
      BY <1>1, <1>2, <3>1 DEF ActorInv, RowInv, Latest, Taken
    <3>2. CASE buffer[b][r] # 0
      BY <1>1, <1>2, <3>2 DEF ActorInv, RowInv, Latest, Batched, Taken
    <3> QED
      BY <3>1, <3>2
  <2> QED
    BY <1>1, <1>2, <2>1 DEF ActorInv, RowInv, Owned, Batched, Heard, Agree
<1> QED
  BY <1>3, <1>4 DEF ActorInv

\* A lost connection only makes less to be shown.
LEMMA LoseStep ==
    ASSUME TypeOK, NEW b \in Actors, ActorInv(b), LoseConnection(b)
    PROVE  ActorInv(b)'
<1>1. /\ UNCHANGED <<commands, inBatch, todo, buffer, store, told, stored, failed, requested, writers, misplaced>>
      /\ up'[b] = FALSE
  BY DEF LoseConnection, serverVars, writeVars, TypeOK
<1>2. \A r : Changing(b, r)' = Changing(b, r) /\ Telling(b, r)' = Telling(b, r)
  BY <1>1 DEF Changing, Telling
<1>3. Fits(b)'
  BY <1>1 DEF ActorInv, Fits
<1>4. ASSUME NEW r \in Rows PROVE RowInv(b, r)'
  BY <1>1, <1>2, <1>4 DEF ActorInv, RowInv, Owned, Latest, Batched, Heard
<1> QED
  BY <1>3, <1>4 DEF ActorInv

\* What is left behind a command: nothing, or the message of the change just tried.
LEMMA Left ==
    ASSUME TypeOK, NEW b \in Actors, Fits(b), DoCmd(b), NEW c, c = Head(commands[b])
    PROVE  /\ \A r : ~Changing(b, r)'
           /\ \/ /\ commands'[b] = <<>> /\ \A r : ~Telling(b, r)'
                 /\ Changes(c) => c.row.index # 0
              \/ /\ Changes(c) /\ Len(commands'[b]) = 1 /\ Tells(commands'[b][1])
                 /\ commands'[b][1].row = c.row /\ commands'[b][1].call = c.call
                 /\ \A r : Telling(b, r)' => r = c.row
<1>1. PICK s \in Seq(Commands) : /\ s = commands[b] /\ s # <<>> /\ c = s[1] /\ c \in Commands
                                /\ commands'[b] = Tail(s)
  BY HeadType
<1>2. CASE Len(s) = 1
  <2>1. commands'[b] = <<>>
    BY <1>1, <1>2, Tails
  <2>2. ~Tells(c) => c.row.index # 0
    BY <1>1, <1>2 DEF Fits
  <2>3. Changes(c) => ~Tells(c)
    BY ChangesOrTells
  <2> QED
    BY <2>1, <2>2, <2>3 DEF Changing, Telling
<1>3. CASE Len(s) # 1
  <2>1. /\ Len(s) = 2 /\ Changes(c) /\ Tells(s[2]) /\ c.row = s[2].row /\ c.call = s[2].call
    BY <1>1, <1>3 DEF Fits
  <2>2. Len(commands'[b]) = 1 /\ commands'[b][1] = s[2]
    BY <1>1, <2>1, Tails
  <2>3. ~Changes(s[2])
    BY <2>1, ChangesOrTells
  <2> QED
    BY <2>1, <2>2, <2>3 DEF Changing, Telling
<1> QED
  BY <1>2, <1>3

\* A command that is carried out, refused, garbled or not sent.
LEMMA CommandStep ==
    ASSUME TypeOK, NEW b \in Actors, ActorInv(b), Execute(b) \/ Refuse(b) \/ Garble(b) \/ Unsent(b)
    PROVE  ActorInv(b)'
<1>1. DoCmd(b)
  BY DEF Execute, Refuse, Garble, Unsent
<1>2. PICK c \in Commands :
         /\ c = Head(commands[b]) /\ c = commands[b][1] /\ c.row \in Rows /\ commands[b] # <<>>
  BY <1>1, HeadType
<1>3. UNCHANGED <<inBatch, todo, up, buffer, requested, writers, misplaced>>
  BY <1>1, HeadType DEF writeVars
<1>4. /\ \A r : ~Changing(b, r)'
      /\ \/ /\ commands'[b] = <<>> /\ \A r : ~Telling(b, r)'
            /\ Changes(c) => c.row.index # 0
         \/ /\ Changes(c) /\ Len(commands'[b]) = 1 /\ Tells(commands'[b][1])
            /\ commands'[b][1].row = c.row /\ commands'[b][1].call = c.call
            /\ \A r : Telling(b, r)' => r = c.row
  BY <1>1, <1>2, Left DEF ActorInv
<1>5. /\ \A r : Changing(b, r) <=> Changes(c) /\ r = c.row
      /\ \A r : Telling(b, r) <=> Tells(c) /\ r = c.row
      /\ ~(Changes(c) /\ Tells(c)) /\ (Changes(c) \/ Tells(c))
  <2>1. Changes(c) \/ Tells(c)
    BY <1>2 DEF Commands, Changes, Tells
  <2> QED
    BY <1>2, <2>1, ChangesOrTells DEF Changing, Telling
<1>6. \A r \in Rows : r # c.row =>
         store'[r] = store[r] /\ told'[r] = told[r] /\ failed'[r] = failed[r]
  BY <1>2, ServerStep
<1>7. up[b] /\ Changes(c) =>
         /\ told'[c.row] = told[c.row] /\ c.call \in stored'[c.row] \cup failed'[c.row]
         /\ \/ store'[c.row] = c.call
            \/ c.call \in failed'[c.row] /\ store'[c.row] \in {store[c.row], Garbled}
  BY <1>2, ServerStep
<1>8. up[b] /\ Tells(c) =>
         /\ store'[c.row] = store[c.row]
         /\ \/ told'[c.row] = c
            \/ told'[c.row] = told[c.row] /\ c.call \in failed'[c.row]
  BY <1>2, <1>5, ServerStep
<1>9. failed[c.row] \subseteq failed'[c.row]
  BY <1>2, ServerStep
<1>10. Fits(b)'
  BY <1>3, <1>4, <1>7 DEF Fits, Done
<1>11. ASSUME NEW r \in Rows, r # c.row PROVE RowInv(b, r)'
  <2>1. ~Changing(b, r) /\ ~Telling(b, r) /\ ~Changing(b, r)' /\ ~Telling(b, r)'
    BY <1>4, <1>5, <1>11
  <2>2. store'[r] = store[r] /\ told'[r] = told[r] /\ failed'[r] = failed[r] /\ RowInv(b, r)
    BY <1>6, <1>11 DEF ActorInv
  <2> QED
    BY <1>3, <2>1, <2>2 DEF RowInv, Owned, Latest, Batched, Heard, Taken, Agree
<1>12. RowInv(b, c.row)'
  <2>1. PICK r \in Rows : r = c.row
    BY <1>2
  <2>2. RowInv(b, r) /\ ~Changing(b, r)'
    BY <1>4 DEF ActorInv
  <2>3. Owned(b, r)'
    BY <1>3, <1>4, <1>5, <2>1, <2>2 DEF RowInv, Owned
  <2>4. \A n : up[b] /\ (IF Changing(b, r) THEN c.call = n ELSE Taken(r, n)) => Taken(r, n)'
    BY <1>5, <1>7, <1>8, <1>9, <2>1 DEF Taken
  <2>5. Latest(b, r)'
    BY <1>2, <1>3, <2>2, <2>4 DEF RowInv, Latest
  <2>6. Batched(b, r)'
    BY <1>2, <1>3, <2>2, <2>4 DEF RowInv, Batched
  <2>7. Heard(b, r)'
    <3> SUFFICES ASSUME r.index = 0, writers[r] \subseteq {b}, up[b]
                 PROVE  /\ Agree(r)' \/ (Telling(b, r)' /\ commands'[b][1].call = store'[r])
                        /\ Telling(b, r)' => Taken(r, commands[b][1].call)'
      BY <1>3 DEF Heard
    <3>1. CASE Changes(c)
      <4>1. Telling(b, r)' /\ commands'[b][1].call = c.call
        <5>1. commands'[b] # <<>>
          <6>1. Len(<<>>) = 0
            BY EmptySeq
          <6> QED
            BY <1>4, <2>1, <3>1, <6>1
        <5> QED
          BY <1>4, <2>1, <3>1, <5>1 DEF Telling
      <4>2. Taken(r, c.call)'
        BY <1>7, <2>1, <3>1 DEF Taken
      <4>3. Agree(r)
        BY <1>5, <2>2, <3>1 DEF RowInv, Heard
      <4>4. Agree(r)' \/ store'[r] = c.call
        BY <1>7, <1>9, <2>1, <3>1, <4>3 DEF Agree
      <4> QED
        BY <4>1, <4>2, <4>4
    <3>2. CASE Tells(c)
      <4>1. ~Telling(b, r)'
        BY <1>4, <1>5, <3>2
      <4>2. Taken(r, c.call) /\ (Agree(r) \/ c.call = store[r])
        BY <1>2, <1>5, <2>1, <2>2, <3>2 DEF RowInv, Heard
      <4>3. Agree(r)'
        BY <1>8, <1>9, <2>1, <3>2, <4>2 DEF Agree, Taken
      <4> QED
        BY <4>1, <4>3
    <3> QED
      BY <1>5, <3>1, <3>2
  <2> QED
    BY <2>1, <2>3, <2>5, <2>6, <2>7 DEF RowInv
<1> QED
  BY <1>10, <1>11, <1>12 DEF ActorInv

-----------------------------------------------------------------------------
(* The invariant, and what follows from it.                                *)

\* Every step frames what others have, and keeps what holds of its own actor.
LEMMA ActorStep ==
    ASSUME TypeOK, Planned, \A a \in Actors : ActorInv(a), NEW b \in Actors,
           \/ \E r \in Rows : SetValue(b, r) \/ BatchRow(b, r) \/ BatchThrow(b, r)
           \/ \E r \in Elements : Save(b, r) \/ AddRepeated(b, r) \/ RemoveRepeated(b, r)
           \/ PubAndSet(b) \/ BatchEnd(b)
           \/ Execute(b) \/ Refuse(b) \/ Garble(b) \/ Unsent(b) \/ LoseConnection(b)
    PROVE  Frame(b) /\ ActorInv(b)'
<1>1. ActorInv(b) /\ Fits(b) /\ \A r \in Rows : Owned(b, r)
  BY DEF ActorInv, RowInv
<1>2. ASSUME NEW r \in Rows, SetValue(b, r) \/ BatchRow(b, r) \/ BatchThrow(b, r)
      PROVE  Frame(b) /\ ActorInv(b)'
  BY <1>1, <1>2, CallFrame, BatchFrame, SetValueStep, BatchRowStep, BatchThrowStep
<1>3. ASSUME NEW r \in Elements, Save(b, r) \/ AddRepeated(b, r) \/ RemoveRepeated(b, r)
      PROVE  Frame(b) /\ ActorInv(b)'
  BY <1>1, <1>3, RowTypes, CallFrame, DirectStep, AddStep
<1>4. CASE PubAndSet(b) \/ BatchEnd(b) \/ LoseConnection(b)
  BY <1>1, <1>4, BatchFrame, BatchStartStep, BatchEndStep, LoseStep
<1>5. CASE Execute(b) \/ Refuse(b) \/ Garble(b) \/ Unsent(b)
  BY <1>1, <1>5, CommandFrame, CommandStep
<1> QED
  BY <1>2, <1>3, <1>4, <1>5

\* A step in which nothing happens keeps what holds of an actor.
LEMMA ActorStutter == ASSUME NEW a, ActorInv(a), UNCHANGED vars PROVE ActorInv(a)'
  BY DEF ActorInv, Fits, Done, RowInv, Owned, Latest, Batched, Heard, Taken, Agree, Changing,
         Telling, vars, serverVars, writeVars

\* The invariant is inductive.
LEMMA AdapterStep == AdapterInv /\ [Next]_vars => AdapterInv'
<1> SUFFICES ASSUME AdapterInv, [Next]_vars PROVE AdapterInv'
  OBVIOUS
<1>1. TypeOK /\ Planned /\ (\A a \in Actors : ActorInv(a)) /\ TypeOK' /\ Planned'
  BY TypeStep DEF AdapterInv
<1>2. ASSUME NEW a \in Actors PROVE ActorInv(a)'
  <2>1. CASE UNCHANGED vars
    BY <1>1, <2>1, ActorStutter
  <2>2. CASE Next
    <3>1. PICK b \in Actors : Frame(b) /\ ActorInv(b)'
      BY <1>1, <2>2, ActorStep DEF Next
    <3> QED
      BY <1>1, <3>1, Elsewhere
  <2> QED
    BY <2>1, <2>2
<1> QED
  BY <1>1, <1>2 DEF AdapterInv

\* The initial state satisfies the invariant.
LEMMA AdapterInit == Init => AdapterInv
<1> SUFFICES ASSUME Init, NEW a \in Actors PROVE ActorInv(a)
  BY InitTypes DEF AdapterInv
<1>1. commands[a] = <<>> /\ \A r : ~Changing(a, r) /\ ~Telling(a, r)
  BY IdleActor DEF Init
<1>2. Fits(a)
  BY <1>1 DEF Fits
<1>3. ASSUME NEW r \in Rows PROVE RowInv(a, r)
  <2>1. buffer[a][r] = 0 /\ store[r] = 0 /\ told[r].call = 0 /\ writers[r] = {}
    BY RowTypes DEF Init, Pub, Command
  <2> QED
    BY <1>1, <2>1 DEF RowInv, Owned, Latest, Batched, Heard, Agree
<1> QED
  BY <1>2, <1>3 DEF ActorInv

\* The invariant holds in every state.
LEMMA AdapterCorrect == Spec => []AdapterInv
  BY AdapterInit, AdapterStep, PTL DEF Spec

\* An actor without a command of a row neither changes the row nor tells of it next.
LEMMA NoCommand ==
    ASSUME TypeOK, NEW a \in Actors, NEW r \in Rows, NoCommandOf(a, r)
    PROVE  ~Changing(a, r) /\ ~Telling(a, r)
<1>1. commands[a] # <<>> => 1 \in DOMAIN commands[a]
  <2>1. commands[a] \in Seq(Commands)
    BY DEF TypeOK
  <2> QED
    BY <2>1
<1> QED
  BY <1>1 DEF NoCommandOf, Changing, Telling

\* What the only writer of a row asked for last is what the row ends with, for
\* any number of actors, tables, rows and calls, whatever batches throw and
\* whatever the others do in between (RedisBuffer.cpp:10, 59, 68,
\* RedisAdapter.cpp:249).
THEOREM WrittenBackCorrect == Spec => []WrittenBack
<1>1. AdapterInv => WrittenBack
  BY NoCommand DEF AdapterInv, ActorInv, RowInv, Latest, Taken, WrittenBack
<1> QED
  BY <1>1, AdapterCorrect, PTL

\* The last message about a row that one actor writes is of the call that changed
\* it last, for any number of actors, tables, rows and calls, through batches that
\* an exception ends and repeats (RedisBuffer.cpp:59, 63, 68).
THEOREM CoherentCorrect == Spec => []Coherent
<1>1. AdapterInv => Coherent
  BY NoCommand DEF AdapterInv, ActorInv, RowInv, Heard, Agree, Coherent
<1> QED
  BY <1>1, AdapterCorrect, PTL

-----------------------------------------------------------------------------
(* A message is sent after its change.                                     *)

\* The first command of an actor with a connection, when it is a message, is done.
LEMMA HeadDone ==
    ASSUME TypeOK, NEW b \in Actors, Fits(b), up[b], commands[b] # <<>>,
           NEW c, c = Head(commands[b]), ~Changes(c)
    PROVE  Done(c)
<1>1. commands[b] \in Seq(Commands)
  BY DEF TypeOK
<1>2. c = commands[b][1]
  BY <1>1
<1> QED
  BY <1>2 DEF Fits

\* What was made or has failed remains so.
LEMMA DoneStays ==
    ASSUME NEW b, Frame(b), NEW m, m.row \in Rows, Done(m)
    PROVE  Done(m)'
  BY DEF Done, Frame

\* Every step announces only what was made, or what the server did not take.
LEMMA AnnouncedStep == ASSUME AdapterInv, Announced, [Next]_vars PROVE Announced'
<1>1. TypeOK /\ Planned /\ \A a \in Actors : ActorInv(a)
  BY DEF AdapterInv
<1>2. CASE UNCHANGED vars
  BY <1>2 DEF Announced, vars, serverVars
<1>3. CASE Next
  <2>1. PICK b \in Actors :
           \/ \E r \in Rows : SetValue(b, r) \/ BatchRow(b, r) \/ BatchThrow(b, r)
           \/ \E r \in Elements : Save(b, r) \/ AddRepeated(b, r) \/ RemoveRepeated(b, r)
           \/ PubAndSet(b) \/ BatchEnd(b)
           \/ Execute(b) \/ Refuse(b) \/ Garble(b) \/ Unsent(b) \/ LoseConnection(b)
    BY <1>3 DEF Next
  <2>2. Frame(b) /\ Fits(b)
    BY <1>1, <2>1, ActorStep DEF ActorInv
  <2>3. CASE UNCHANGED told
    BY <2>2, <2>3 DEF Announced, Frame
  <2>4. CASE ~UNCHANGED told
    <3>1. Execute(b) \/ Refuse(b) \/ Garble(b) \/ Unsent(b)
      BY <2>1, <2>4 DEF SetValue, BatchRow, BatchThrow, LeaveBatch, Save, AddRepeated,
                        RemoveRepeated, PubAndSet, BatchEnd, LoseConnection, serverVars
    <3>2. PICK c \in Commands : /\ c = Head(commands[b]) /\ ~Changes(c) /\ up[b]
                                /\ told' = [told EXCEPT ![c.row] = c] /\ c.row \in Rows
                                /\ commands[b] # <<>>
      <4>1. Execute(b) /\ DoCmd(b)
        BY <2>4, <3>1 DEF Execute, Refuse, Garble, Unsent, serverVars
      <4> QED
        BY <2>4, <4>1, <1>1, HeadType DEF Execute
    <3>3. Done(c)'
      BY <1>1, <2>2, <3>2, HeadDone, DoneStays
    <3>4. \A r \in Rows : told'[r] = IF r = c.row THEN c ELSE told[r]
      BY <1>1, <3>2 DEF TypeOK
    <3> QED
      BY <2>2, <3>2, <3>3, <3>4 DEF Announced, Done, Frame
  <2> QED
    BY <2>3, <2>4
<1> QED
  BY <1>2, <1>3

\* Nothing is announced that was not made, but for what the server refused, for
\* any number of actors, tables, rows and calls: the change goes out first, and a
\* connection that is lost between the two does not come back (RedisBuffer.cpp:63,
\* RedisAdapter.cpp:255, RedisWrap.cpp:169).
THEOREM AnnouncedCorrect == Spec => []Announced
<1>1. Init => AdapterInv /\ Announced
  BY AdapterInit DEF Init, Announced, Pub, Command
<1>2. AdapterInv /\ Announced /\ [Next]_vars => (AdapterInv /\ Announced)'
  BY AdapterStep, AnnouncedStep
<1> QED
  BY <1>1, <1>2, PTL DEF Spec
=============================================================================
