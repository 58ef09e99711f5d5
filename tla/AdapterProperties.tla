--------------------------- MODULE AdapterProperties ---------------------------
(* What must hold between the buffers, the hashes and the messages.         *)
EXTENDS RedisAdapter

Values == 0 .. MaxCalls
Commands == [name : {"HMSET", "DEL", "S", "A", "D"}, row : Rows, call : Values \ {0}]
Messages == [name : {"none", "S", "A", "D"}, row : Rows, call : Values]

\* Every variable keeps its type, and no command is without a call
\* (RedisAdapter.h:54, RedisBuffer.h:35).
TypeOK ==
    /\ commands \in [Actors -> Seq(Commands)]
    /\ inBatch \in [Actors -> BOOLEAN] /\ up \in [Actors -> BOOLEAN]
    /\ todo \in [Actors -> SUBSET Rows] /\ buffer \in [Actors -> [Rows -> Values]]
    /\ store \in [Rows -> Values \cup {Garbled}] /\ told \in [Rows -> Messages]
    /\ stored \in [Rows -> SUBSET Values] /\ failed \in [Rows -> SUBSET Values]
    /\ calls \in Values /\ requested \in [Rows -> Values]
    /\ writers \in [Rows -> SUBSET Actors] /\ misplaced \in SUBSET Rows

\* A change is in its row, and an element deleted, before that is published: who
\* hears of it and loads the row finds it or what came later, also when the
\* connection breaks in the middle of a batch.  Only a change that the server refused,
\* which Execute drops, or took with other words is announced all the same
\* (RedisBuffer.cpp:63, RedisAdapter.cpp:255, RedisWrap.cpp:93, 168).
Announced ==
    \A r \in Rows :
        told[r].name \in {"S", "D"} => told[r].call \in stored[r] \cup failed[r]

NoCommandOf(a, r) == \A i \in DOMAIN commands[a] : commands[a][i].row # r

\* What the only writer of a row asked for last is in the row, once nothing of
\* the row is in its buffer or among its commands: through batches that an
\* exception ends and later ones that take their rows up again, and whatever the
\* others wrote.  Not when the connection was lost, when the server refused or
\* garbled a command of that call, or when an index was dropped on the way
\* (RedisBuffer.cpp:10, 59, 68, RedisAdapter.cpp:197).
WrittenBack ==
    \A r \in Rows, a \in Actors :
        /\ writers[r] = {a} /\ up[a]
        /\ buffer[a][r] = 0 /\ NoCommandOf(a, r)
        /\ r \notin misplaced /\ requested[r] \notin failed[r]
        => store[r] = requested[r]

\* The last message about a row that one actor writes through its buffer is of
\* the call that changed the row last: who only listens ends with what the row
\* has, also when an exception makes a batch set and publish rows again, and
\* calls in between have changed some of them (RedisBuffer.cpp:59, 63, 68).  Not
\* when the connection was lost or the server refused or garbled one of the two.
Coherent ==
    \A r \in Rows, a \in Actors :
        /\ r.index = 0 /\ writers[r] = {a} /\ up[a] /\ NoCommandOf(a, r)
        /\ store[r] # Garbled /\ {store[r], told[r].call} \cap failed[r] = {}
        => told[r].call = store[r]
=============================================================================
