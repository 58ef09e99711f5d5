------------------------------ MODULE RedisAdapter ------------------------------
(***************************************************************************)
(* DataHandle/RedisAdapter: the writing side of the RedisAdapter of each    *)
(* actor, with its RedisBuffer and its blocking RedisWrap, and the server's *)
(* hashes.  An adapter belongs to one thread and runs its commands one by   *)
(* one; what the others do comes between them.  RedisSubMgr.tla has what    *)
(* becomes of the messages.                                                *)
(*                                                                         *)
(* A row is a hash of Redis: <name of the table>:<first key>, or with an    *)
(* index other than 0 the row of an element, <...>:<first key>:<index>.     *)
(* All fields of a row are one value, the number of the call that set or    *)
(* deleted them; a command and a message have the number of their call.    *)
(***************************************************************************)
EXTENDS Integers, Sequences

CONSTANTS
    Tables, Keys,  \* Redis keys and first keys, in the order of std::map
    Unknown,       \* tables that KeyFieldMgr has no name for, or not for a field set in them
    Actors,
    Indices,       \* second keys, 0 among them
    MaxCalls       \* bound on the calls that write

ASSUME AdapterAssumption ==
    /\ Tables \subseteq Nat /\ Keys \subseteq Nat /\ Unknown \subseteq Tables
    /\ 0 \in Indices /\ MaxCalls \in Nat

VARIABLES
    commands,    \* what is left of a row of Batch, a Save, AddRepeated, ...
    inBatch,     \* whether the actor is in Batch
    todo,        \* the rows that Batch's loops have not come to
    up,          \* the connection of the actor's m_pRedisWarp
    buffer,      \* its m_mBuffer; 0 for no entry
    store,       \* the last call that changed each hash of the server
    told,        \* the last message about each row
    calls,       \* history: number of calls that write
    stored,      \* history: the calls that changed each row
    failed,      \* history: the calls of which the server refused or garbled a command
    requested,   \* history: the last call for each row, as the caller named it
    writers,     \* history: the actors that wrote a row
    misplaced    \* history: rows asked for and rows written instead

serverVars == <<store, told, stored, failed>>
writeVars == <<calls, requested, writers, misplaced>>
vars == <<commands, inBatch, todo, up, buffer, serverVars, writeVars>>

Rows == [table : Tables, key : Keys, index : Indices]
Elements == {r \in Rows : r.index # 0}
Empty == [r \in Rows |-> 0]

(* What is left of a hash by a command that took a value apart at its blanks. *)
Garbled == -1

Command(name, r, n) == [name |-> name, row |-> r, call |-> n]
Set(r, n) == Command("HMSET", r, n)
Del(r, n) == Command("DEL", r, n)
Pub(type, r, n) == Command(type, r, n)

Init ==
    /\ commands = [a \in Actors |-> <<>>]
    /\ inBatch = [a \in Actors |-> FALSE]
    /\ todo = [a \in Actors |-> {}]
    /\ up = [a \in Actors |-> TRUE]
    /\ buffer = [a \in Actors |-> Empty]
    /\ store = Empty
    /\ told = [r \in Rows |-> Pub("none", r, 0)]
    /\ calls = 0
    /\ stored = [r \in Rows |-> {}]
    /\ failed = [r \in Rows |-> {}]
    /\ requested = Empty
    /\ writers = [r \in Rows |-> {}]
    /\ misplaced = {}

Idle(a) == commands[a] = <<>>
Ready(a) == Idle(a) /\ ~inBatch[a]

Call(a) ==
    /\ Ready(a)
    /\ calls < MaxCalls /\ calls' = calls + 1

(* The call now made asks for a change of r and makes it in w.              *)
Request(a, r, w) ==
    /\ requested' = [requested EXCEPT ![r] = calls + 1]
    /\ writers' = [s \in Rows |-> IF s \in {r, w} THEN writers[s] \cup {a} ELSE writers[s]]
    /\ misplaced' = IF r = w THEN misplaced ELSE misplaced \cup {r, w}

Run(a, list) == commands' = [commands EXCEPT ![a] = list]

(* Both forms of SetValue pass the index 0.                                *)
Buffered(r) == [r EXCEPT !.index = 0]

\* Variant: a change of a row that is in the buffer already is not taken.
KeepFirst(old, n) == IF old = 0 THEN n ELSE old

ValueChange(old, n) == n

SetValue(a, r) ==
    /\ Call(a)
    /\ buffer' = [buffer EXCEPT ![a][Buffered(r)] = ValueChange(@, calls + 1)]
    /\ Request(a, r, Buffered(r))
    /\ UNCHANGED <<commands, inBatch, todo, up, serverVars>>

(* Save of one table; of several it is one after the other, and one without *)
(* a name ends it before it has an effect.  The form without an index throws *)
(* whenever its table is known.                                            *)
Save(a, r) ==
    /\ Call(a)
    /\ r.table \notin Unknown
    /\ Run(a, <<Set(r, calls + 1)>>)
    /\ Request(a, r, r)
    /\ UNCHANGED <<inBatch, todo, up, buffer, serverVars>>

AddRepeated(a, r) ==
    /\ Call(a)
    /\ Run(a, <<Pub("A", r, calls + 1)>>)
    /\ UNCHANGED <<inBatch, todo, up, buffer, requested, writers, misplaced, serverVars>>

RemoveRepeated(a, r) ==
    /\ Call(a)
    /\ r.table \notin Unknown
    /\ Run(a, <<Del(r, calls + 1), Pub("D", r, calls + 1)>>)
    /\ Request(a, r, r)
    /\ UNCHANGED <<inBatch, todo, up, buffer, serverVars>>

-----------------------------------------------------------------------------
(* Batch.                                                                  *)

\* Variant: a row that changes again is not published.
FirstTime(r, n) == IF store[r] = 0 THEN <<Set(r, n), Pub("S", r, n)>> ELSE <<Set(r, n)>>

\* Variant: a change is published before it is set.
PublishFirst(r, n) == <<Pub("S", r, n), Set(r, n)>>

RowCommands(r, n) == <<Set(r, n), Pub("S", r, n)>>

\* Variant: the loops also come to rows that have no entry.
WithoutEntry(a) == {r \in Rows : r.index = 0}

Entries(a) == {r \in Rows : buffer[a][r] # 0}

PubAndSet(a) ==
    /\ Ready(a)
    /\ Entries(a) # {}
    /\ inBatch' = [inBatch EXCEPT ![a] = TRUE]
    /\ todo' = [todo EXCEPT ![a] = Entries(a)]
    /\ UNCHANGED <<commands, up, buffer, serverVars, writeVars>>

Before(r, s) == r.table < s.table \/ (r.table = s.table /\ r.key < s.key)

(* The row whose turn it is in Batch's loops.                              *)
Turn(a, r) ==
    /\ Idle(a)
    /\ r \in todo[a] /\ \A s \in todo[a] \ {r} : Before(r, s)

BatchRow(a, r) ==
    /\ Turn(a, r)
    /\ r.table \notin Unknown
    /\ Run(a, RowCommands(r, buffer[a][r]))
    /\ todo' = [todo EXCEPT ![a] = @ \ {r}]
    /\ UNCHANGED <<inBatch, up, buffer, serverVars, writeVars>>

LeaveBatch(a) ==
    /\ inBatch' = [inBatch EXCEPT ![a] = FALSE]
    /\ todo' = [todo EXCEPT ![a] = {}]
    /\ UNCHANGED <<commands, up, serverVars, writeVars>>

\* Variant: a batch that throws leaves nothing in the buffer either.
Lost(entries) == Empty

Kept(entries) == entries

(* CheckKeyFiled throws out of Batch and PubAndSet, and Clear is passed over. *)
BatchThrow(a, r) ==
    /\ Turn(a, r)
    /\ r.table \in Unknown
    /\ buffer' = [buffer EXCEPT ![a] = Kept(@)]
    /\ LeaveBatch(a)

BatchEnd(a) ==
    /\ Idle(a) /\ inBatch[a] /\ todo[a] = {}
    /\ buffer' = [buffer EXCEPT ![a] = Empty]
    /\ LeaveBatch(a)

-----------------------------------------------------------------------------
(* DoCmd: whatever becomes of a command, the next one follows.              *)

DoCmd(a) ==
    /\ commands[a] # <<>>
    /\ Run(a, Tail(commands[a]))
    /\ UNCHANGED <<inBatch, todo, up, buffer, writeVars>>

Changes(c) == c.name \in {"HMSET", "DEL"}
Fails(c) == failed' = [failed EXCEPT ![c.row] = @ \cup {c.call}]

Execute(a) ==
    /\ DoCmd(a)
    /\ up[a]
    /\ LET c == Head(commands[a])
       IN  IF Changes(c)
           THEN /\ store' = [store EXCEPT ![c.row] = c.call]
                /\ stored' = [stored EXCEPT ![c.row] = @ \cup {c.call}]
                /\ UNCHANGED told
           ELSE /\ told' = [told EXCEPT ![c.row] = c]
                /\ UNCHANGED <<store, stored>>
    /\ UNCHANGED failed

(* REDIS_REPLY_ERROR: no memory, a read-only server, a key of another type,  *)
(* a wrong number of words.                                                *)
Refuse(a) ==
    /\ DoCmd(a)
    /\ up[a]
    /\ Fails(Head(commands[a]))
    /\ UNCHANGED <<store, told, stored>>

(* A value with blanks is several words to redisCommand, and one with % a    *)
(* format: the hash gets other contents, or the number of words is wrong and *)
(* the command refused, as a PUBLISH with a blank in it always is.          *)
Garble(a) ==
    /\ DoCmd(a)
    /\ up[a]
    /\ Head(commands[a]).name = "HMSET"
    /\ Fails(Head(commands[a]))
    /\ store' = [store EXCEPT ![Head(commands[a]).row] = Garbled]
    /\ UNCHANGED <<told, stored>>

(* redisCommand on a connection that had an error returns at once.          *)
Unsent(a) ==
    /\ DoCmd(a)
    /\ ~up[a]
    /\ UNCHANGED serverVars

(* Also the server's answer that is late: the command had its effect.       *)
LoseConnection(a) ==
    /\ up[a]
    /\ up' = [up EXCEPT ![a] = FALSE]
    /\ UNCHANGED <<commands, inBatch, todo, buffer, serverVars, writeVars>>

Next ==
    \E a \in Actors :
        \/ \E r \in Rows : SetValue(a, r) \/ BatchRow(a, r) \/ BatchThrow(a, r)
        \/ \E r \in Elements : Save(a, r) \/ AddRepeated(a, r) \/ RemoveRepeated(a, r)
        \/ PubAndSet(a) \/ BatchEnd(a)
        \/ Execute(a) \/ Refuse(a) \/ Garble(a) \/ Unsent(a) \/ LoseConnection(a)

Spec == Init /\ [][Next]_vars
=============================================================================
