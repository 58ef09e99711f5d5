# GMServer in TLA+

GMServer is a C++ game server library: an actor runtime (`CoreLib/LibActor`), a
Boost.Asio network layer for it, a data layer over Redis and MySQL
(`CoreLib/DataHandle`), utilities and mathematics. The repository has no tests
and no documents apart from comments, so the reference for every definition here
is the source. This directory models five parts of it:

- how a message gets from `Framework::SendMsg` to a handler of an actor, what
  happens when handlers throw, when an actor is deleted and when the thread pool
  is shut down;
- how addresses and mailboxes are handed out and where a message goes that is
  sent to a list of addresses;
- the timers an actor runs, which its handlers add, clear and destroy;
- the TCP session of a client that connects again;
- the data layer's write-back buffers, and the subscriptions that bring the
  changes of other actors.

## Inventory

| Component | State | Operations | What makes it correct |
|---|---|---|---|
| Mailbox (`Mailbox.*`) | `m_listRecive` under `m_ReciveMutex`; `m_listHandle`, `m_pActor` under `m_ActorMutex`; atomic `m_nUnHanle` | `PushMsg`, `Process`, `RegisterActor`, `UnRegisterActor`, `IsHandling` | one loop per actor at a time; every accepted message handled once and in order; nothing handled after deletion |
| Scheduler (`SchedulerSemaphore.*`) | `m_listWaite` under `m_Mutex`, `m_Condition`, atomic `m_bRuning`, thread count | `Init`, `Schedule`, `Pop`, `ThreadFunc`, `Destroy` | no lost wakeup; every scheduled mailbox gets a turn; `Destroy` returns |
| Actor (`Actor.*`) | its address, its handlers | constructor, destructor, `SendMsg`, hooks | no handler on a destroyed actor; hooks in pairs |
| Framework (`Framework.*`) | the directory, the list of system messages | `SendMsg` (two forms), `RegisterActor`, `UnRegisterActor`, `SystemMsg`, `Destroy` | local, system and remote messages go where they belong |
| Directory, Address (`Directory.h`, `Address.h`) | pages of mailboxes, next index | `Allocate`, `GetEntry` | no two actors share a mailbox; an address names the mailbox it was made for |
| TCP session, EndPoint, server, IO pool (`BoostNet/*`, `EndPoint.*`) | send list under `m_MsgMutex`, read buffer, timer, shut-down flag | send, read chain, connect, disconnect, reconnect | packets in order and whole; none lost on reconnect; no handler after shut-down |
| Redis publish/subscribe (`RedisSubMgr`, `RedisListen`) | map of listeners, set and list of keys, sync lists | add and remove listeners, subscribe, parse, distribute, export | every change of a subscribed key that can be parsed reaches every listener that wants it |
| Redis adapter and buffer, TData (`RedisAdapter`, `RedisBuffer`, `RedisWrap`, `TData/*`) | write-back buffer, listener | value change, batch, load, sync | what was changed is what is written and published, also when commands fail |
| MySQL transfer (`DataTransfer`, `MySqlAdapter`) | none of its own; rows in Redis and MySQL | load, save, of packages and repeated rows | the copies agree after a transfer; a failure loses nothing |
| Timers, Log (`TimeUtils`, `Log`) | timer maps, in-progress and delete flags; log list | add, fire, delete; push, write, stop | a timer fires once and in order; a log entry is not lost |

The rest (names, handler dispatch, strings, files, XML, random numbers, rank
list, mathematics, the demo, vendored code) keeps no state that interacts, and
`PROJECT.json` gives the reason for each.

**How they interact.** `SendMsg` runs in any thread, a handler's included. It
finds the mailbox in the directory and calls `PushMsg`, which appends under
`m_ReciveMutex` and, for the first message of an empty list, calls `Schedule`
with that mutex held; `Schedule` takes `m_Mutex` and notifies. Worker threads
loop in `ThreadFunc`: `Pop` takes a mailbox that `IsHandling` does not report
busy, `Process` locks `m_ActorMutex`, swaps the lists under `m_ReciveMutex` and
calls the handlers. The main thread alone creates and deletes actors
(Mailbox.cpp:23).

The other parts meet the runtime only in the thread that uses them. An
`ActorTimer` and its `SubTimer`s belong to one thread, and call back into the code
that owns them. A `TCPSession` is used by any thread that sends, and its
completion handlers run on the thread of its io_service. A `RedisAdapter` belongs
to an actor; its listener is registered with the one `RedisSubMgr` of the
process, whose own thread reads the replies of the server and walks the map of
listeners. `RedisAdapter` writes and publishes on a connection of its own.

**What is hard.** In the runtime, Pop's test of `m_nUnHanle` and Process's setting
of it are far apart, so two workers can hold one mailbox; a mailbox is scheduled on one
thread, popped on another and emptied on a third; the condition variable is
waited on once, without a predicate; an exception leaves lists and counter as
they are; deletion runs against all of it. The directory hands out each index once
and then has to reuse. A timer's handler may destroy the SubTimer, or add to the
list, that is being run. A session's packets leave its list before they are
written and come back when they fail, and a connect aborts another connect. The
subscriber's thread walks a map that other threads change, and meets messages that
cannot be parsed. A batch ignores the outcomes of its commands, and an exception in it
leaves rows in the buffer that were published already. `PROJECT.json` lists
these under `hazards`, each at its line, with the properties that watch it, or the
reason why none does.

## Modules

| Module | Models |
|---|---|
| `Mailbox` | Mailbox.h, Mailbox.cpp |
| `SchedulerSemaphore` | SchedulerSemaphore.h, .cpp; extends `Mailbox`, whose `PushMsg` ends in `Schedule` and whose `Process` is run by its workers |
| `ActorRuntime` | Actor, the local part of Framework, the main thread; composes the two, with `Init`, `Next`, `Spec`, `FairSpec` |
| `ActorMail` | the abstract specification of the runtime: one queue per actor, no threads |
| `ActorProperties`, `ActorProofs`, `ScheduleProofs`, `MCActorRuntime` | properties, inductive invariant and refinement mapping; theorems; instances for TLC |
| `Directory` | Directory.h: pages, the counter, reuse |
| `Framework` | Framework, Actor and Address over the directory; its mailboxes are `ActorMail`'s queues, which `ActorRuntime` implements |
| `FrameworkProperties`, `FrameworkProofs` | properties; theorems |
| `ActorTimer` | TimeUtils.h, .cpp: SubTimer, SubTimerEntity, ActorTimer |
| `TimerProperties`, `TimerProofs` | properties; theorems |
| `TCPSession` | TCPSession, TCPConnection and what EndPoint does with them |
| `SessionProperties`, `SessionProofs` | properties; theorems |
| `RedisAdapter` | the writing side of RedisAdapter, RedisBuffer, the blocking RedisWrap and the server's hashes |
| `AdapterProperties`, `AdapterProofs` | properties; theorems |
| `RedisSubMgr` | RedisSubMgr and its thread, RedisListen, Load of RedisAdapter, the server's subscriptions |
| `SyncProperties`, `SyncProofs`, `MCSync` | properties; theorems; instance for TLC |
| `ListProofs` | lemmas on the positions of a list, for the proofs of the session and the subscriber |

The five parts are checked apart: the runtime reaches `Framework` as `ActorMail`,
and the others share no state with it.

### Correspondence: the runtime

Variables keep the names of the fields without `m_`: `listRecive`,
`listHandle`, `nUnHanle`, `pActor`, `listWaite`, `bRuning`, `iMaxThreadNum`.
`reciveMutex[m]`, `actorMutex[m]` and `schedMutex` name the owner of a mutex that
is held across steps. A mutex whose whole critical section is one step is only
tested for being free: the push up to the call of `Schedule`, the swap, and
`Schedule`, which releases `m_ReciveMutex` with its own mutex.

`pc[w]` is the place of a worker: `loop` (the test of `m_bRuning`), `pop`, `wait`,
`woken`, `scan` (in the while loop of `Pop` with `m_Mutex` held), `process`
(before `m_ActorMutex`), `swap`, `begin`, `count`, `next` (the while loop of
`Process`), `handler`, `exited`. A sender inside `PushMsg` is recognised by the
`m_ReciveMutex` it holds. `phase[m]` is the life of the actor of a mailbox; `broken` is
the time between the derived destructor and the lock in `UnRegisterActor`.

`accepted`, `handled`, `faulted` and `inLoop` are history variables: no guard of an
action reads them. `faulted[m]` says that a throw has left messages in `m_listHandle`. `sent`
makes every message be sent once.

The steps are as fine as another thread can tell: `Pop` examines one mailbox per
step, because `m_nUnHanle` changes without `m_Mutex`; `Process` is split at the
swap, the hook, the counter and each handler. A handler is one step in which it
starts, any number of sends, and one in which it returns or throws
`std::exception`.

Abstractions: a message is its identity (null messages are not sent, and whether a
handler is registered makes no difference to the state). Mailboxes are never
reused, as `Allocate` does below 8192 registrations. Only senders that know an
actor's address send to it, so not before it is constructed; they may go on after it is
deleted. Dereferencing a null `m_pActor` is undefined behaviour; the model sets `crashed` and
stops there. `m_iMaxThreadNum` is not assigned when the constructor's
argument is not 0, so it is any number up to the number of workers the instance has.

### Correspondence: directory and framework

`Allocate` runs under its mutex from end to end, so it is one step with one action
per outcome: `AllocateNext` below the limit, `AllocateReuse` for the first entry with
`~IsUsed`, `AllocateNone` where the code reads `m_Pages[-1]`. `IsUsed` is translated
as it is written, with the sense it has. An address is the pair of its process and
its index: `m_Address` of the framework is 0 for ever, since the body of `Init` is
commented out, so the narrowing of the process number in the constructor never
takes effect. An actor constructed with an address of its own (`Proxies`) is not registered, but
`~Actor` unregisters whatever has its index. `SendTurn` is one turn of the loop of
`SendMsg` over a list; the form with one address does what the loop does with a list of one. `m_pEndPoint` is
null for ever: `SendReturn` calls through it, which is undefined and touches no
member, so it may return or end the program; `Destroy` reads through it and
ends it. A failed assertion ends a debug build and is passed over in a release
build; both are modelled. `meant` and `begun` are histories: to whom a message was
sent, and to whom it was given.

### Correspondence: timers

A handler is the number of the `AddTimer` that brought it, an entity is its
address, which `Create` may hand out again after `Free`. `pc` is the place in the
two nested loops: `actor` (the loop of `ActorTimer::OnTimer`), `set` (the loop over the
set it took out of the map), `entity` (the loop of `SubTimerEntity::OnTimer`), `list` (the
loop over the list it took), `handler`. In `handler` and between two calls of
`OnTimer` the program may create, add, clear and delete. `EarlyReturn` is the return in the
loop of TimeUtils.cpp:144: it leaves `m_bHandleing` set, so that a later
`~SubTimer` waits for an `OnTimer` that may never come; the entity is then freed at its
next run. `FirstRegistered` therefore exempts an entity with `m_bHandleing` set.
`Clear` empties `m_mTimer` but does not reach the list that `OnTimer` has taken out of
it (TimeUtils.cpp:146, 164): when a handler clears its SubTimer, the rest of that list is
called afterwards, while `Delete` stops it (`Stops`). The history `gone` holds the
handlers that must not be called any more: with `Delete` all of the entity, with
`Clear` those pending (`Pending`) but not in the list taken (`Taken`).

### Correspondence: session

`sendList` is `m_listSend`; a packet is the number under which it was accepted. The
socket and the io_service are external: operations under way (`reading`, `connecting`,
`writing`), completions in order (`ready`), one thread that runs their handlers.
Closing the socket completes everything under way with an error; `async_connect`
closes it first. `DoSend` takes a packet out before `async_write` (`DoSend`, `WriteData`
are two steps), so more than one write may be under way, and a failed write pushes
its packet to the front. The completion of the last write calls `DoSend` on an
empty list; `pop_front` there is undefined, so the program ends (`crashed`) or goes
on. `ReadHead` as the code has it calls `async_write` on the read
buffer; a read that succeeds starts the next one and changes nothing here, so
only failing reads are steps.

The owner does what the methods of EndPoint do: `Connect`, `OnDisconnect` that connects again
after a test of `m_bShutDown`, `DisConnect` that swaps the handlers, closes and then sets
`m_bShutDown`. EndPoint itself cannot be constructed (its constructor calls
`shared_from_this`, which throws), and `m_pEndPoint` is never assigned, so the
owner stands for one that is constructed some other way. The test of `m_bShutDown`
and the connect after it are two steps. In a retry `resolver.resolve` may throw out of
the thread of the io_service, which ends the program (`ResolveFails`).

### Correspondence: Redis

In `RedisAdapter` a row is a Redis hash and its fields together are one value, the number of
the call that set it. Both forms of `SetValue` reach `ValueChange` with the index 0
(RedisAdapter.cpp:197 drops it), which `Buffered` states; the history `requested`
keeps the row the caller named, `writers` counts the actor for both rows, and `misplaced`
has the rows for which they differ. `Save` without an index throws for every known table and is left out. A call
leaves its commands in a list that is run one by one, with what other actors do in
between. Whatever becomes of a command, the next one follows (`DoCmd`): the server
takes it (`Execute`), answers `REDIS_REPLY_ERROR` (`Refuse`), or takes something else
than the caller meant, since redisCommand reads the value as words and as a format (`Garble`);
without a connection it is never sent (`Unsent`). `failed` remembers the calls that met one
of the middle two.

`PubAndSet` begins the loops over the buffer (`inBatch`, `todo`), and `BatchRow` is one
turn of them, in the order of the maps: the row becomes an `HMSET` and its message,
which are run before the next turn, and stays in the buffer. `BatchEnd` is the `Clear` after the
last turn. A table in `Unknown` stands for one without a name or with a field that has none:
`CheckKeyFiled` throws at it (`BatchThrow`), past `Clear`, so that the rows before it are set and
published again by the next batch and the rows behind it never are. A message carries
the number of the call it tells of.

In `RedisSubMgr` the thread goes round `GetSubString`, `AsyncCommand`,
`ReadSyncData` and the walk over `m_mListen`, one listener per step. The walk does not take
the mutex under which the map is changed: a change that meets it is `Race`, after
which the program ends or the walk goes on anywhere in the map; the messages of
that walk are `spoiled`. The members are destroyed before the thread is stopped
(`DestroyMembers`, `Stop`), and every use in between is `UseAfterDestroy`. `listSyncData` only grows:
nothing calls `ExportSyncData`. Nothing connects again after `Disconnect`. A message has a
`form`, which is what `Parse` makes of it: it takes a plain one, refuses one with a text
value that is empty or has a ':' in it, and throws on one in which a '|' of a text makes a field
that is no number (RedisSyncData.h:27-50). `ReadSyncData` keeps the first kind, passes over
the second, and stops before the third, at which `ParseThrows` ends the program: nothing catches
the exception in the function of the thread. The loops
that pass over some entries of a list (those of `ReadSyncData` and of
`AddSyncData`) are `Select`: the entries kept, in their old order, which `IsOrder`
defines.

## Runs

Each property of a passing run has a mutant, a variant of a definition that a
plausible slip in the code would give; the variants stand before the definitions
they vary, marked *Variant*.

### The runtime

Two workers are enough for two threads on one mailbox, one asleep while
another is notified, and one blocked on a mutex; two mailboxes for one being
passed over while the other is served. Three messages give a mailbox that is
pushed to while one batch is handled and the next waits, and a batch of two;
handlers send too, so each may come from the outside sender or a worker. The
bounds are the sets in the cfg; nothing else limits the state space.

| Run | Question |
|---|---|
| `delivery` | neither throws, deletion nor shut-down: `TypeOK`, order without loss or repetition (`AcceptedInOrder`), a mailbox scheduled at most once (`ScheduledOnce`), not all workers asleep (`SomeoneAwake`), every accepted message handled in the end (`EveryMessageHandled`) |
| `throw` | handling x1 may throw, and so may the hooks of m2: `LoopsExclusive`, `HandledInOrder`, `BusyMeansHandled`, `NoLostWakeup`, and `EveryMessageHandled` for the actors in which nothing was left behind |
| `deletion` | m1 is deleted and the pool shut down at any time, any number of threads up to two: `DeadIsQuiet`, refinement of `ActorMail` (`ImplementsMail`), `DeleteReturns`, `DestroyReturns`. The system stops after `Destroy`, so deadlock is not checked |
| `handler_on_broken` | finds a handler running on an actor whose derived destructor has run, against Mailbox.h:49 |
| `null_actor` | finds `Process` using a null `m_pActor`, against Mailbox.cpp:32 |
| `end_hook` | finds a message loop that ends without `OnEndMsgHandle`, against Actor.h:23 |

The last three are disagreements between the code and its comments;
`findings` in `PROJECT.json` quotes them.

What the runs show beside: after a throw in a handler, the mailbox is reported busy
for ever and its workers pass it over at every `Pop`; its messages are not
handled any more. `faulted` exempts that mailbox, and only that one, from the
properties that promise otherwise. `DestroyReturns` is conditional, because
`Destroy` does not hold `m_Mutex`: a worker between its test of `m_bRuning` and
its wait misses the notification, and join hangs. No comment promises more, so this
is a hazard and not a finding.

### Directory and framework

| Run | Question |
|---|---|
| `directory` | actors are registered until the indices run out and after, deleted, and shadowed by a proxy, while a list of addresses is sent to: `TypeOK`, `OneOwner`, `EntriesReady`, `NotMisdelivered`, `SentIsHandled` |
| `directory_reuse` | finds `Allocate` handing out the entry of an actor that is alive, against Directory.h:83 |

Three pages of one entry: the first index is the system's, two remain for three
actors, so the third registration meets the limit. One entry a page makes every
index need a page of its own. One proxy may shadow an actor or name another process;
lists of up to two addresses reach the system, an actor twice, or two actors.
One sender and one message suffice, as a message in the middle of its list meets
every registration and deletion. The process may end, so deadlock is not checked.
`directory_reuse` is the fourth finding: below 8192 actors nobody notices that
`IsUsed` says the opposite of its name.

### Timers

`timers`: two entities, times 0 and 1, three calls of `AddTimer`. Two entities
let one's handler destroy the other while both are in the set being run, and let an address be used
again; two times let a handler add to the list's own time, to an earlier one of
the other entity and to a later one; three timers give a list of two and one that
is added while it runs. `TypeOK`, `NoUseAfterFree`, `CalledInOrder`,
`FirstRegistered`, `NoneAfterDestroyed`, and `RegisteredIsCalled` under fairness. Time stops at
its bound, so deadlock is not checked.

### Session

`session`: two senders, three packets (a list and single ones), one error of the
network, three connects. Two senders race `DoSend` against each other and against
the io thread; three packets leave one in the list while two are being written;
an error on any operation starts a reconnect, the completions it aborts start a
second one, and the third connect is the retry. `TypeOK`, `Conserved` (every packet
accepted is in exactly one place: the list, a thread on its way to the write, a
write under way, a failed completion, or written), `NoneStranded`, `ShutDownIsFinal`, and `SentInTheEnd` under fairness.

What it shows beside: one lost connection may complete several operations with errors, each
of which calls `OnDisconnect` and asks for a connect; every `async_connect` aborts
the one before, whose handler asks again (TCPSession.cpp:139, EndPoint.cpp:60, 75). Two reasons to
connect at a time can abort each other without end. `SentInTheEnd` therefore stops
promising at `Storm`. A connection that comes up between `DisConnect`'s close and its
assignment of `m_bShutDown` stays open.

### Redis

| Run | Question |
|---|---|
| `writeback` | two actors, a table and one that is unknown, whole rows and elements, three writing calls, commands that are refused, garbled or lost with the connection, batches that throw: `TypeOK`, `Announced` (what is published of a change was set in the row before), `WrittenBack` (the last request of a row's only writer gets there), `Coherent` (the last message about such a row is of the call that changed it last) |
| `sync` | two adapters come, load and go, two tables, two messages, one of them perhaps not plain, one message a read, a connection that breaks, destruction: `TypeOK`, `KeysSubscribed`, `NothingMissed`, `HeardInOrder`, `HeardInTheEnd` |

In `writeback` three calls let a value be set twice in the buffer, or set, sent
and set again, with a `Save` or `RemoveRepeated` of the other actor between. One known and one
unknown table make a batch that sets and publishes the first, throws at the second, and does
it all again after the third call. The exemptions of the properties are what the code gives away
and go call by call: `Announced` exempts a change the server refused, which `DoCmd`
prints and forgets, or took with other words; `WrittenBack` and `Coherent` exempt the calls with a refused or garbled
command (not the calls after them), a lost connection, and `WrittenBack` the rows whose
index was dropped. In `sync` the first actor loads a row of each table and the second one of
the first, so that the second finds its table asked for already; two messages split over two
reads, with a removal between or within the walk; with `MaxOdd` 1 either of the two may be one
that `Parse` refuses or throws on, before or after a plain one. A message the server sends to nobody
is called plain, as nobody parses it. `NothingMissed` and `HeardInTheEnd` are about the messages
`Parse` takes: what it refuses is lost, and what it throws on ends the program.
`MaxRead` is 10 in the code; 1 makes the split happen. In both the bounds end the behaviour, so
deadlock is not checked.

### Fairness

Strong fairness of `Serve \/ Work` for each worker, and of `ScheduleStep` for each
thread: a thread that waits for a mutex that is free again and again gets it at
last, and a handler that was called returns. Strong rather than weak, because
another thread may hold the mutex in between; this is what the operating
system's mutexes give in practice, and more than the C++ standard promises. It is strong for
`UnRegisterActor` for the same reason. Weak fairness for the main thread in `Init`
and `Destroy`. A worker that waits for a notification has no fair step, so wakeups
come from the code alone; nobody is bound to send, delete, destroy, throw or wake for no
reason.

In `directory`, weak fairness of a sender's loop, and of the start and the return
of a handler: that a mailbox with messages gets a worker is what `ActorRuntime`
shows (`EveryMessageHandled`). In `timers`, time passes and
the steps of a running `OnTimer` go on (weak), and the program calls `OnTimer`
again and again (strong, because it cannot while it is in a handler). In `session`, threads
that send go on, the io thread runs handlers, and the network takes data and
accepts connections; nothing obliges it to fail. In `sync`, the thread and the
server go on. No fairness obliges anyone to send, connect, disconnect, add, load
or publish.

## Proofs

`ActorProofs` proves, for every number of workers, senders, mailboxes and
messages, every choice of what may throw and what may be deleted:

- `Invariance`: `RuntimeInv` is an invariant. It is `TypeOK` with two more parts.
  `LockOwners` derives the owner of each mutex from the places of the threads:
  `m_ActorMutex` is held by exactly the worker in `Process` past its first line, or by
  the main thread while it unregisters; `m_Mutex` by the worker in `Pop`'s loop.
  `HandlingState` derives what lists and counter hold from the owner: without
  a throw `m_listHandle` is empty between two loops, and `m_nUnHanle` is its
  length while messages are handled. Neither part is inductive without the
  other and without the types: the counter cannot go below zero because it equals the
  length of a list that is not empty.
- `TypeCorrect`, `ThreadSafe` (`LoopsExclusive`), `BusyCorrect` (`BusyMeansHandled`)
  and `DeleteCorrect` (`DeadIsQuiet`) follow from `RuntimeInv`.
- `WakeupCorrect` (`NoLostWakeup`), `AwakeCorrect` (`SomeoneAwake`) and
  `OrderCorrect` (`AcceptedInOrder`) are inductive given `RuntimeInv`, each by
  a case per action.

- `Refinement` (`ImplementsMail`): if nothing throws, every step is one of
  `ActorMail`'s or leaves the abstract queues alone. `MailWork` is its core: the
  swap stutters because `RuntimeInv` has `m_listHandle` empty there, the start
  of a handler takes the head of both lists together, and deletion closes the
  queue at a moment when no handler runs. With a throw the claim is false: the
  messages of that mailbox stay where they are.

`ScheduleProofs`, under the same assumptions: `OnceCorrect` (`ScheduledOnce`), also
with throws, deletion and shut-down, which the run `delivery` leaves out. `Exclusive` says
that the forms of a schedule (a push on its way to `Schedule`, an entry of `m_listWaite` or of
a busy list, a worker before its swap) exclude each other and that no list repeats a
mailbox. It needs `ScheduledHasMail`: a scheduled mailbox of a registered actor has
messages, so a push onto an empty list finds no schedule in any of these places.
`HandledCorrect` (`HandledInOrder`) holds with throws too. `ToHandle` is what the
worker in the loop has taken, `Awaited` what a schedule will fetch of `m_listRecive`,
and `StillInOrder` says that what was handled, then `ToHandle`, then `Awaited` was
accepted in this order, perhaps with others in between. The messages a throw leaves in `m_listHandle` are in
neither: the swap that puts them back into `m_listRecive` uses up the mailbox's only
schedule (`Exclusive`), and as that list is never empty again, no push makes another.

`FrameworkProofs`, for every number of pages, entries, actors, proxies, senders
and messages: `FrameworkInvariance` is the inductive invariant. `Addressed` and `Paged`
keep every address below `m_iNextIndex` and its page allocated; `OwnerOpen` and `QueueOpen` tie
the mailbox to its owner; while no `Allocate` has met the limit, `Unique`, `Owning` and
`Owned` make address and owner inverse to each other, which is what `Sending` and
`Queued` need to say that what a sender still has to visit, and what a mailbox holds, is meant for
the actor there. `FrameworkTypes`, `OwnersCorrect` (`OneOwner`), `EntriesCorrect` (`EntriesReady`)
and `DeliveryCorrect` (`NotMisdelivered`) follow. After the limit all of this is
false, as `directory_reuse` shows.

`TimerProofs`, for every number of entities, times and timers: `TimerInvariance`
(`TimerInv`: the entity that runs is not freed because `m_bHandleing` is set; the set
taken out of the map lives only in its loop; a freed entity has no timers) gives
`TimerTypes` and `UseCorrect` (`NoUseAfterFree`). `RegisteredCorrect` (`FirstRegistered`) is inductive given it.
`GoneCorrect` (`NoneAfterDestroyed`) needs `GoneInv`: which handlers the maps and the
list can hold, and that none of them is gone while the entity is not to be deleted; a `Clear`
makes those in the map gone and leaves the list alone.
`CallOrderCorrect` (`CalledInOrder`) needs `OrderInv` on top: each map is sorted, the
list taken out comes before what is left in the map, and what was called comes
before both; a handler that adds a timer adds it behind all of them, since its
time is not before now.

`SessionProofs`, for every number of senders, packets, errors and connects:
`SessionInvariance` with `SessionTypes`, `StrandedCorrect` (`NoneStranded`) and `ShutDownCorrect`
(`ShutDownIsFinal`). `NoneStranded` is not inductive, because a failed connect in
`ready` does not lead to `DoSend`; `Pushing` leaves those out, and `Closed` (no
connection while one is being made) makes up for it. `ConservedCorrect` (`Conserved`)
needs `PacketInv`: only a thread before its write holds a packet (`Carried`), no list has
one twice (`Unrepeated`), and the places together hold exactly `1 .. accepted` without
meeting (`Partition`). Each step then takes a packet from one place and adds it to another.

`AdapterProofs`, for every number of actors, rows and calls, every set of unknown tables, and
every command the server may refuse or garble: `AdapterTypes`; `WrittenBackCorrect`
(`WrittenBack`), `CoherentCorrect` (`Coherent`) and `AnnouncedCorrect` (`Announced`) come from
one invariant, `AdapterInv`. `Fits` says what is left of an actor's commands: a change, its message, or the
one before the other, the message alone only when the change had its turn. `Owned` keeps a row's buffered
value and commands with a writer of the row. `Latest` says where the last request of a row's only writer
is: in the buffer, at the head of the commands, or in the row. `Batched` is what exceptions call for: a row
that had its turn in a batch has what the buffer still holds, so that `Clear` loses nothing, and a
batch that throws and comes again repeats what is there. `Heard` keeps message and row in
agreement, or the message to come with the row's call.

`SyncProofs`: `SubscribedCorrect` (`KeysSubscribed`), with the local list of the
thread empty except while it writes. `SyncTypes`, `NothingMissedCorrect`
(`NothingMissed`) and `HeardInOrderCorrect` (`HeardInOrder`) come from one invariant,
`AllInv`. Its part `Streaming` puts what is under way into the order of publication,
after what was read; `Pushed` says where a message is that the server has sent and `Parse` takes; `Asked` ties
the tables that are asked for to the keys a listener wants; `Given` ties the lists
of the listeners to the walk, except for the messages of a walk that met a change of the
map. `Select` chooses an order of the kept positions; that there is one is proved by
the least-number principle (`OrderExists`).

The assumptions are those named in the modules: threads are distinct,
`Workers` is finite and has room for the threads the constructor asks for,
`NoMsg` is no message (`MailboxAssumption`, `SchedulerAssumption`,
`RuntimeAssumption`, `NoMsgAssumption`, `DirectoryAssumption`, `FrameworkAssumption`,
`TimerAssumption`, `SessionAssumption`, `AdapterAssumption`, `SubAssumption`): sets of actors and proxies are apart, bounds are
numbers, a null value is no value.

Each invariant and action property of a passing run is stated by a theorem. Only
model-checked is liveness (`EveryMessageHandled`, `DeleteReturns`, `DestroyReturns`,
`SentIsHandled`, `RegisteredIsCalled`, `SentInTheEnd`, `HeardInTheEnd`), because
liveness under fairness is out of the prover's reach. The properties proved avoid
definitions by recursion over data, which are too: order is stated with positions
and increasing maps between them (`Subsequence`, `IsOrder`), and counts of places
as sets that do not meet.

## Not modelled

- **Server side of TCP** (`TCPServer`, `IOServicePool`, the accepting half of `TCPSession` with its
  dead line timer): no disconnect handler is set there, so the first disconnect
  calls an empty `std::function`; what is left is an accept loop and a round robin. Of a
  session, the bytes of packets and two threads inside one `async_write` or on the
  handlers themselves (a data race of Boost objects) are left out.
- **`TData`**: templates that hand assignments to `SetValue`. What they would
  apply of a sync never arrives: `SyncData` iterates over an empty local map.
- **MySQL transfer**: sequential and without state; both directions for repeated
  rows are unfinished (DataTransfer.cpp:107, 234).
- **Log**: one mutex, one writer; the entries lost at `Stop` (Log.cpp:41) are
  plain from its loop. **Rank list**: a pure data structure.
- **Names, handler dispatch, system messages**: a string table, a lookup by type,
  and a list whose consumer is commented out; `Framework` has that list as `listRecive`.
- **Utilities, mathematics, demo, vendored code**: no state that interacts, or
  not this project's. The vendored trees are by far most of the repository's lines.

## Plan

1. The rank list and the log, as small modules with a reference definition.
2. `SyncData` and `TData` once `SyncData` applies what it exports.
3. The accepting side of `TCPSession`, with the dead line timer, once a server sets
   its handlers; a composition of two sessions over one stream of packets.
4. Proofs: abstract specifications of the session (a queue) and of the directory
   (addresses and owners), each with a refinement theorem; the queues in `Framework`
   replaced by `ActorRuntime`'s, so that `NotMisdelivered` is about the threads as well.
