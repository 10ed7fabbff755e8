# BerylDB: a verification development

BerylDB is an in-memory front to RocksDB, written in C++ around one main thread
and a pool of worker threads. This directory holds TLA+ modules translated from
its source, TLC configurations that check them on small instances, and proofs
that TLAPS checks. Paths below are relative to the repository; `brldb/x.cpp`
stands for `src/brldb/x.cpp`.

1. [Inventory](#1-inventory)
2. [Plan](#2-plan)
3. [DataFlush: the query pipeline](#3-dataflush-the-query-pipeline)
4. [Keyspace: keys, expirations, futures](#4-keyspace-keys-expirations-futures)
5. [Structures: the commands on data](#5-structures-the-commands-on-data)
6. [CommandQueue: turns and transactions](#6-commandqueue-turns-and-transactions)
7. [Sessions: accounts, groups, channels](#7-sessions-accounts-groups-channels)
8. [What the runs check](#8-what-the-runs-check)
9. [Where the code disagrees](#9-where-the-code-disagrees)
10. [What is proved](#10-what-is-proved)
11. [What is not modelled](#11-what-is-not-modelled)

## 1. Inventory

### Query pipeline
*Source:* `brldb/dbflush.cpp`, `brldb/database.cpp` (StoreManager),
`include/brldb/dbflush.h`, `include/brldb/query.h`.

*State.* Per user: `pending` (requests pushed by commands), `notifications`
(results attached by workers), `Locked`. Per worker: `queue`, `busy`, the
request it works on. Global: `threads`, `running`, `query_mute`, `mute`.

*Operations.* `StoreManager::Push`; `DataFlush::Process` (GetResults, then
GetPending); `Process(user, signal)`, which picks a worker; `DataThread::Post`;
`DataThread::Process`, the worker loop; `AttachResult`; `Pause`, `Resume`,
`ResetAll`, `CloseThreads`.

*Hard behaviour.* Three kinds of threads of control meet: the main loop, the
workers, and the commands that pause the workers. A request carries a raw
`User*` and a `shared_ptr<UserDatabase>` whose `rocksdb::DB*` can be deleted
while it travels. Iterations send several partial results before their final
one. The per-user lock is the only thing that orders a client's requests.

*Correct when* every client has at most one request in flight, results arrive
in request order, no worker touches a deleted user or a deleted handle, each
request is answered if its client stays, and shutdown terminates.

### Main loop and shutdown
*Source:* `beryl.cpp`. One pass of `Dispatcher` runs `Timed` (once per second:
expirations, futures, timers, `ForceExits` on even seconds) and `Loop` (the
command queues, socket events, the atomic actions, the Reducer, the flusher).
`PrepareExit` pauses and empties the flusher, joins the workers, disconnects
everybody and closes the databases. *Correct when* the order of these steps
never hands a deleted object to a later one.

### Client life cycle
*Source:* `clients.cpp`, `instances.cpp`, `reducer.cpp`. `clientlist`,
`AwaitingExit`, the Reducer's list. `Disconnect` defers the deletion of a locked
user; `ForceExits` retries; the Reducer deletes at one point of the loop.
*Correct when* a user is deleted exactly once, never while a worker holds it,
and eventually after it left.

### Database life cycle
*Source:* `brldb/database.cpp`, `brldb/dbmanager.cpp`, `coremods/core_dbmanager`.
`DBMap`, `Closing`, the RocksDB handle. `DBDELETE` is a request: `Run` marks the
database as closing on a worker and `Process` removes it on the main thread.
`FLUSHDB` and `FLUSHALL` close, destroy and reopen the handle on the main
thread at once. *Correct when* no query uses a handle after its deletion and no
handle is deleted twice.

### Key space
*Source:* `brldb/query.cpp`, `brldb/keys.cpp`, the `*_hints.cpp` files. A key
lives in RocksDB under a *destination* made of its encoded name, its select and
its type; there is no other index, so `GetRegistry` finds the type of a name by
probing the types in the order of `TypeRegs`. An expiration or a future has a
record of its own, which names its database. `Prepare` checks, `Run` changes.
*Correct when* a name has at most one type per select, no command loses or
alters a value it only moves, and keys, records and the lists in memory agree.

### Expires and futures
*Source:* `brldb/expires.cpp`, `brldb/futures.cpp`, `brldb/keys.cpp`
(`expire_list_query`). An ordered map from due times to entries, in memory,
beside the persisted records. Each second the main thread pushes a deletion for
everything that is due; workers erase the entries. *Correct when* memory and
records agree, a key is deleted only for its own expiration, and a restart
neither loses nor resurrects one.

### Command queue and MULTI
*Source:* `commandproc.cpp`, `coremods/core_multi`. `PendingList` per client,
`MultiRunning`, `PendingMulti`. Each loop runs at most one command per unlocked
client. *Correct when* the commands of a transaction run together and in order,
and an aborted one runs none.

### Value structures
*Source:* `brldb/lists.cpp`, `brldb/vectors.cpp`, `brldb/maps.cpp`,
`brldb/multis.cpp`, `brldb/geo.cpp` and their `coremods`. Sequential code on one value at
a time. *Correct when* each operation matches its mathematical definition,
including empty structures and boundary indices.

### Users, logins, sessions and groups
*Source:* `login.cpp`, `managers/user.cpp`, `clients.cpp`, `group.cpp`,
`coremods/core_umanager`, `coremods/core_groups`, `coremods/core_user`. A login has a record in the
core database (password, status, flags, groups, channels), an entry in the
cache of passwords, a session that its instances share, and groups in memory
that give commands. *Correct when* the instances of a login agree, the cache
never admits who would be refused, and groups in memory follow the record.

### Channels, monitor, notifier and publishing
*Source:* `channels.cpp`, `subscription.h`, `alerts.cpp` (monitor and
notifier), `coremods/core_channel`, `core_monitor`, `core_notifier`. Membership is kept
on both sides; the lists of the Monitor and the Notifier hold raw pointers.
*Correct when* both sides agree, no channel stays empty, every way out of the
server leaves every list, and messages reach their recipients and nobody else.

### Timers, sockets, modules, configuration
The timer map (`timers.cpp`), event masks and buffers (`socketpool.cpp`,
`sbuffer.cpp`), module hooks and their priorities (`modules.cpp`), the parser of
the configuration. *Correct when* timers fire in order, no byte is lost on a
partial write and hooks run in the order of their priorities.

### Interactions
- Commands (main thread) call `StoreManager::Push`; a worker runs the request
  under `query_mute`; `GetResults` (main thread) calls its `Process` method.
- `FLUSHDB` calls `DBHelper::FlushDB`: pause, close, reopen, resume.
- `ExpireManager::Flush` and `FutureManager::Flush` push requests for the pseudo
  user `Global`; the hints and `Process` methods call back into both managers.
- `ClientManager::Disconnect` reads `User::IsLocked`, which the pipeline sets.
- `Database::Closing` is written by workers and by the main thread and read by
  both without a common lock.

## 2. Plan

Modules, most important behaviour first.

| Step | Modules | Content |
|---|---|---|
| 1, done | `DataFlush`, `QueryService`, `MCDataFlush`, `DataFlushProofs` | pipeline, clients, databases, shutdown; abstract service; serialisation and ownership proved |
| 2, done | `Keyspace`, `MCKeyspace` | typed keys, hints, expirations and futures, crashes and start-up |
| 3, done | `Handlers`, `Lists`, `Vectors`, `Maps`, `Strings`, `Scans`, `QueryTable`, `Commands`, `Structures`, `MCStructures` | every data command on lists, vectors, maps, multimaps, locations and plain keys |
| 4, done | `CommandQueue`, `MCCommandQueue` | pending lists, gates, transactions, pauses |
| 5, done | `Accounts`, `Subscriptions`, `Inquiries`, `Sessions`, `MCSessions` | accounts, sessions, groups, channels, monitors; their clean-up |
| 6, done | `DataFlushOrderProofs`, `DataFlushHandleProofs`, `KeyspaceProofs`, `KeyspaceLoadProofs`, `KeyspaceExpireProofs` | order and refinement of the pipeline, its handles; types, start-up and expirations of the key space |
| 7, done | `CommandQueueProofs` | order, separation and completeness of what the queue runs |
| 8, done | `SessionsProofs` | the six invariants of the sessions, by one inductive invariant |
| 9 | `Timers`, `Buffers`, `ModuleHooks` | the ordered timer map, partial writes, hook priorities |

*Composition.* `DataFlush` composes pipeline, clients and databases. The other
modules each take over where it leaves off. `Keyspace` and `Structures` give the
meaning of one request: a worker holds `query_mute` over `Prepare` and `Run`,
which `DataFlush` models step by step, so a request is one step there.
`CommandQueue` and `Sessions` see of the pipeline that a query locks its client
and that the answer, which `DataFlush` shows to come, unlocks it. `Structures`
extends one module per handler; `Sessions` extends `Inquiries`, `Subscriptions`
and `Accounts`, in layers.

*Abstract specifications.* `QueryService` (in-order answers, one request at a
time) for the pipeline. The value structures are checked against equations
between commands instead of against a second model of each.

*Theorems.* For the pipeline type correctness, serialisation, ownership,
`StreamOrder`, the step simulation of `QueryService` and handle safety (done); for
the key space its types, `OneType`, `NeverLost`, what start-up loads, `Mirror` and
`NoOrphan` (done); for the queue `Contiguous` and `Accounted`; for the sessions
all six invariants, with the groups under a hypothesis (done).

## 3. DataFlush: the query pipeline

| Variable | Code |
|---|---|
| `pc`, `todo` | where `Beryl::Dispatcher` is, and whom the loop over `clientlist` has yet to visit |
| `remaining`, `flushing` | databases that FLUSHDB or FLUSHALL has yet to start on, and the one it works on |
| `running` | `DataFlush::running` |
| `clients` | `new`, `live` (in `clientlist`), `awaiting` (in `AwaitingExit`), `reducing` (in the Reducer's list), `freed` |
| `locked`, `pending`, `notifications` | the members of `User` |
| `queue`, `wpc`, `current`, `access`, `parts`, `busy`, `exiting` | a worker: its queue, its place in `DataThread::Process`, its request, the request's `access`, the partial results sent, `busy`, PROC_EXIT_THREAD queued |
| `query_mute` | the worker that holds it |
| `DBMap`, `Closing`, `handle` | `DBManager::Find`, `Database::Closing`, the `rocksdb::DB` behind `Database::db` |
| `issued`, `answered` | history: requests pushed and answered |

**Main thread.** `TimedFlush`, `ForceExits` and `EndTimed` are `Beryl::Timed`;
`Execute`, `Transfer`, `DBDelete` and `FlushCommand` are what one turn of
`CommandQueue::Flush` does to the pipeline; `FlushMark`, `FlushClose` and
`FlushOpen` are the steps of `Database::FlushDB` that workers can see between;
`AddUser` and `Disconnect` come from sockets, timeouts and commands; `Reduce`
is `ReducerHandler::Apply`; `GetResults`, `PendingGlobal`, `PendingUser` and
`EndPending` are `DataFlush::Process`; `ExitBegin` to `CloseAll` are
`Beryl::PrepareExit`. GetResults is one action because it holds `mute`, the lock
of AttachResult, from beginning to end.

**Worker.** `Take` pops; `Lock` takes `query_mute` and runs `QueryBase::Check`;
`Run` is a request without iterator; `Batch`, `Exhausted` and `Interrupt` are the
outcomes of `CheckIterator` in the loop of an iteration; `Unlock` is
`SetStatus(false)` and the release of the mutex; `Attach` is `AttachResult`,
which an interrupted request and a quiet one skip; `ExitThread` is
PROC_EXIT_THREAD.

**Abstractions.** What a query computes is left to the key-space modules: here
a request is a kind. Users connect at most once, because a reconnecting client
is a new `LocalUser`. `std::queue` operations are atomic: `queue.pop()` runs
without `m_mutex`, which races with `Post`, but pop and push of a `std::deque`
write different ends. `pending` is only touched by the main thread.

**Bounds.** `MaxReq` requests per client, `MaxGlobal` of the server, `MaxParts`
batches per iteration; the guards name them. Two clients and two workers are
what the properties need: two requests of one client on different workers, and
a second client who interferes through the busy flags, the mutex or the
database. Two requests per client let the second overtake the first if the lock
fails. One batch suffices to put a partial result before a final one. Two databases let
a client flush the one another client iterates, and give TRANSFER its target.

**Fairness.** `WF(Main)`: the main loop never blocks. `SF(EndPhase)`: a pass over
commands or sockets serves finitely many events; strong because FLUSHDB leaves
the phase and returns. `SF(ForceExits)`: the clock shows an even second again
and again. `WF(Worker)`: a thread that can run runs, and the mutex is released
after each request. `SF(Take)`: a paused worker polls its queue, so it cannot
miss every moment at which the flusher runs.

## 4. Keyspace: keys, expirations, futures

| Variable | Code |
|---|---|
| `disk.data` | the entry of a key (database, name, select) under a type |
| `disk.expire`, `disk.future` | the records of expirations and futures; a record of an expiration is stored in one database and names one, which may differ |
| `expires`, `futures` | `ExpireManager::ExpireList`, `FutureManager::FutureList` |
| `now` | `Kernel->Now()` |
| `inflight`, `queue` | a client's request, and those of `Global`, between push and run |
| `ready` | `Kernel->Ready`, without which commands are not served |

**Requests.** An operator per query class (`Set`, `Del`, `Copy`, `Transfer`, ...)
gives the *effect* of its `Run`: the sequence of disk states its RocksDB writes
go through (a `WriteBatch` is one write) and the lists it leaves. `Perform` takes
the last state; `Crash` may take any of them, so that it falls between any two
writes. `Prepare` decides by the request's QUERY_TYPE whether `Run` is reached.

**Main thread.** `Command` pushes a client's request and computes its schedule
then, not when it runs. `Reset` is RESET, ERESET, SRESET, FRESET or FRESETALL,
which push one removal per entry. `Sweep` is the part of `Beryl::Timed` that
pushes deletions and executions for whatever is due; entries stay in their list
until the request runs, so a slow worker finds several of them.

**Restart.** `Crash` empties memory and queues; start-up pushes
`expire_list_query` for each database and `future_list_query` for the last. With
more than one worker any queued request of `Global` may run next. `Ready` is set
by `Process` of the list of futures, which the model puts into the step that runs
it: setting it later only delays commands. The deletion of all records when
`<ttls>` says not to keep them is one write; start-up repeats it after a crash.

**Abstractions.** Two types: INT_KEY, the only one that can expire, and LIST for
all others, whose hints have empty bodies. Values are opaque, but for two: the
text of a select number (`Numeral`), which CLONE stores, and the empty string
(`Empty`), which a SET may store. It matters because GetRegistry asks whether there is
a record and CheckDest whether its text is not empty (`Taken`): an empty key is
found by its own commands and is undefined as a destination. A list is never
written empty. The commands FRESET, FRESETALL and SRESET are the action `Reset` like RESET
and ERESET, but no run issues them: a full queue of removals would keep the bounded sweep
from running. An argument of SRESET and FRESET is left out; without one the code makes
a character of the select number, which `AsDigit` reads back. WDEL is given `*`.
RocksDB writes succeed.

**Bounds.** `MaxTime` instants (up to 3, none where no schedule matters; the clock
then stands, and what is due stays due), `MaxQueue` waiting requests of `Global` (2
or 3, so that a deletion is queued twice), `MaxRestarts` crashes (2 in
`keyspace_fair`, one that loses memory and one during or after loading, else 1). Two
workers, the default of the configuration, wherever start-up or the queue of `Global`
is the question. The slots are a key and one that differs from it in its name, its
select or its database: what a destination needs. `keyspace_types` leaves CLONE, DEL
and GETDEL to the other runs.
TTLs is {1}, because the clock moves between commands. Two
clients let a name change its type between push and run.

**Fairness.** `WF(RunClient)`: a pushed request runs, as `DataFlush` shows
(`Answered`). `WF(RunGlobal(1))`: requests of Global are posted in order and each
worker serves its queue in order, so the oldest is not passed over for ever.
`WF(Sweep)`: the loop calls `Timed` every second.

## 5. Structures: the commands on data

| Variable | Code |
|---|---|
| `store[slot][type]` | the RocksDB record of a key and select (a slot) under a type |
| `stray` | the record whose key is the empty string |

A record's value is a *text*, a sequence of tokens, as `Daemon::Format("%s:")`
and the handlers write it: it does not say for which type it was written, which
is why a query on a key of another type reads something.

- `Handlers` has the four handlers (`ListHandler`, `VectorHandler`, `MapHandler`,
  `MultiMapHandler`): what they parse out of a text, their operations, and how
  they write it back.
- `Lists`, `Vectors`, `Maps` and `Strings` (plain keys, arithmetic, locations)
  have one operator per query class, named as the class: from the text found to
  the text left, the code of the answer and what it sends.
- `Scans` has the queries that read more than one record: the listings, the
  counts, `DIFF`, `TOUCH`, `GCALC`, `GDIST`, `GREM`.
- `QueryTable` and `Commands` are the code's tables: the `QUERY_TYPE` and base
  type of each query class, and for each command its query, helper,
  parameters, checks and group.
- `Structures` puts them together. `Outcome` is the way of a command: `Checked`
  (the gates of `Execute`), `QueryValue` (the helper that fills the query in,
  with or without stripping quotes), `Admit` (`QueryBase::Prepare`), `RunQuery`,
  `WriteAt`. An action is a command that changes the store; those that only
  read are what the properties ask.

**Abstractions.** Decimals are one value, `Fraction`: what arithmetic on them
gives is not told apart. A string is a model value with a length and a rank; a
pattern is a key or `*`. A result that the C++ standard leaves undefined is the
value `Undefined`. Runs are atomic, which `query_mute` ensures.

**Bounds.** Two keys in one select, whose number is also the code of a type (as
`Tokenless` needs); values 1, a word and two quoted strings, one of them empty
inside its quotes; `MaxTokens` (4) tokens in all, enough for two structures with
an element each or one with three; `MaxLength` (2) and `MaxNumber` (2) bound the
results of APPEND and of arithmetic; `IterLimit` (2) stands for ITER_LIMIT, so
that a list of three takes two partial answers.

## 6. CommandQueue: turns and transactions

| Variable | Code |
|---|---|
| `user[u].PendingList`, `PendingMulti` | the two queues of a `LocalUser` |
| `Multi`, `MultiRunning`, `Locked`, `Quitting`, `Paused` | its flags; `resume` counts its `AutoResume` timers |
| `registered`, `logged`, `auth` | its registration |
| `lines`, `done`, `refused`, `cleared`, `opened` | history: what it sent, what became of each line, the MULTI of the running transaction |
| `Ready` | `Kernel->Ready` |

`Receive` is `CommandQueue::Add`; `Flush` is one pass of `CommandQueue::Flush`, in
which each client of `local_users` gets at most one turn (`Turn`), with
`CommandHandler::Execute` and the handler of the command inside; `Answer` is the
unlocking by `DataFlush::GetResults`; `Register` is `ClientManager::Flush`; `Leave`
is a lost connection; `AutoResume` is the timer of PAUSE; `PrepareExit` empties the
queues. All of it runs on the main thread, so that each is one step. `Pass` is the
pass as a recursive function of the number of clients visited.

SET stands for every command that locks its client. The commands are those that
change the queue they are in, one that locks, and one of each kind of gate.

**Bounds.** Two clients. One pipelines up to five lines of MULTI, MULTIRESET,
MRUN and SET, the other logs in, answers a PING, quits, and pauses and resumes
the first. The lines of the second weigh two: five lines in all, or two of the
second and one of the first. Five lines are a transaction of two commands with
something before or after it, or one that is reset and begun again.

**Fairness.** The main loop calls Flush again and again: `WF(Flush)`, with its
ENABLED written out, because TLC evaluates it faster. `WF(Answer)`: `DataFlush`
shows it (`Answered`), without FLUSHDB. `WF(Register)`: the loop looks at the
clients every second. `WF(AutoResume)`: timers run. `Served` promises a turn to
every waiting line, but nothing to the client of a transaction that leaves.

## 7. Sessions: accounts, groups, channels

| Variable | Code |
|---|---|
| `user[u]` | a `LocalUser`: whether the object exists, registration, login, session, `Groups`, `chans`, `quitting`, `Locked` |
| `record[login]` | the record of a login in the core database, with its lists of groups and channels and its entry among the notified |
| `groups` | the record of each group: its flags |
| `cache` | `LoginCache` |
| `sessions`, `session` | `SessionManager`: the session of a login, and what is in it |
| `GroupList`, `ChannelList`, `MonitorList`, `NotifyList` | the lists of the managers |
| `logins`, `not_registered_track`, `AwaitingExit` | members of `ClientManager` |
| `reducer` | `ReducerHandler::list` |

`Accounts`, `Subscriptions` and `Inquiries` are the operators: a command maps a
state of the server to another, or to its answer. `Accounts` has logins, passwords,
sessions and groups; `Subscriptions` has channels, monitor and notifier;
`Inquiries` has the commands that only read, and who gets what is published,
monitored or notified. Where the code goes over clients, logins or channels in a
loop, an operator names the set (`Disconnect(s, users)`, `PartUser(s, users, ...)`):
no turn of these loops reads what another turn writes. `Flush` is the exception,
because who is let in later gets the groups of who was let in before; there the
turns follow one another (`Round`). `Sessions` has the actions:

- `AddUser` accepts or turns away; `Identify` is AGENT, AUTH and LOGIN; `Flush` is
  `ClientManager::Flush`, a second later, which lets in (with the groups, session,
  notifications and channels of `OnPostConnect`) or times out.
- `Command` is a command through the gates; QUERY stands for those that lock.
- `Answer`, `Leave` and `Apply` are the answer, the lost connection and the Reducer;
  `Timed` is the hourly reset of the cache; `Restart` loses everything but the records.

The properties are stated through `Inquiries`: what LISTUSERS, MYGROUPS, SLIST
and the others answer has to agree, so a mistake on either side shows.

**Bounds.** Three connections: root, who manages, and two of bob, which share a
session. Two passwords, the group `default` and one more, one channel, three
commands in all: enough to give something, take it away and come back in between.
A command that root issues while bob is identified but not let in is the case
that shaped `GroupsMatchRecord`; nobody makes `default` again (section 9). Only
safety is stated: nothing here waits.

## 8. What the runs check

Runs of `DataFlush`:

| Run | Properties | Shows |
|---|---|---|
| pipeline | TypeOK, NoUseAfterFree, Serial, StreamOrder, LockedStays, Implements | Two clients with a database each and two workers, iterations in batches, transfers and requests that Check refuses, while anyone flushes a database or leaves at any moment: the pipeline serialises each client's requests, keeps the batches in order, never touches a deleted user, keeps a locked client's object until its answer came, and implements QueryService. |
| answer | Answered, DropCompletes | Without FLUSHDB every request of a client who stays is answered, also those a DBDELETE overtakes, and a drop whose clients stay completes. |
| shutdown | SafeHandle, SingleClose, ShutdownCompletes | PrepareExit at any moment: workers finish and are joined before the handles go, each handle is closed once, and the exit terminates. |

Runs of `Keyspace`:

| Run | Properties | Shows |
|---|---|---|
| keyspace_types | TypeOK, OneType, NeverLost | Two clients set, push, rename, copy, move, transfer and delete keys of two selects and two databases, the empty value among what they set, with a crash between any two writes: of two entries under one name the other is an empty key, which CheckDest does not see, and only a deletion empties the store. |
| keyspace_expires | Mirror, NoOrphan | Requests that set, lift, copy, clone or end expirations, an empty value among those they write, with sweeps, resets, two workers and a crash: memory and records agree, and a schedule loses its key only to a command that overtakes the loading of its database or to a crash inside COPY. |
| keyspace_fair | FuturesKept, ExpiredGoes, FutureFires | Under fairness, with two workers and two crashes, a due key is deleted or given another schedule (expirations are dropped at the restart, as <ttls> may ask) and a due future is executed or dropped, also when its key meanwhile has another type; a future of the last database, here the only one, is scheduled again before clients are served. |

Runs of `Structures`, `CommandQueue` and `Sessions`:

| Run | Properties | Shows |
|---|---|---|
| structures | TypeOK, ReadBack, Inverses, PagesCoverRange, ListedOnce, AnswersAgree, LastElementDeletes | Every data command on two keys of any type, with numbers, words, empty and unquoted values: no key gets two types, what is written is read back, inverse commands undo each other, partial answers cover the range asked for, listings name each key once, what a command answers agrees with what the keys hold, and a structure goes with its last element. |
| queue | Accounted, InOrder, NoStrangers, Contiguous, OnlyLoginBefore, Served | A client that pipelines five lines of MULTI, MULTIRESET, MRUN and queries beside one that logs in, pauses it, quits or breaks: no line is lost or run twice, lines keep their order, a transaction is neither interleaved nor joined by others' commands, a command waits for its turn only while others have theirs, and transactions end. |
| sessions | TypeOK, SessionsShared, CacheCurrent, GroupsMatchRecord, SubscriptionsPaired, NoDangling | An administrator and two instances of one account, with logins, changes of flags, groups, password and status, removal and logout, channels, monitors, locked queries and lost connections in any order: sessions are shared and end in time, cached passwords are current, groups follow the record, subscriptions have two sides and nothing keeps a deleted user. |

The larger runs are exhaustive over the instances named in their configurations.
`shutdown`, `queue` and `sessions` set CHECK_DEADLOCK FALSE: a halted process, a
client whose lines are used up and a server whose clients have all gone have no step. The
other runs check deadlock. Symmetry over users, databases or clients is used in safety
runs only. `pipeline` lets clients flush databases while they are iterated, `answer` and `shutdown`
drop them;
`SafeHandle` is not among the properties of `pipeline` because FLUSHDB breaks it (section
9). The server's own requests are in `shutdown` and, as what they do, in the runs of `Keyspace`.

## 9. Where the code disagrees

Three runs are kept that show a violation.

- **v_awaiting** violates `AwaitingExitDrains` (src/src/brldb/dbflush.cpp:430). The code locks a user until GetResults delivers her answer, but GetResults visits clientlist only and Disconnect removes the user from it first; the worker's own unlocking branch tests !request->user && request->user->IsQuitting(), which no request with a user satisfies. src/include/clientmanager.h:64 says 'ForceExits() flushes this queue.' and src/src/brldb/dbflush.cpp:428 'Let's release the locked user.': the run shows a user who disconnects while locked and is never deleted.
- **keyspace_v_early** violates `SweepDeletesDue` (src/src/brldb/expires.cpp:168). Flush pushes a deletion for a due entry, and del_query does not look at the schedule again: a key that was given more time by EXPIRE in between is deleted. src/src/coremods/core_expires/core_expires.h:47 says "this command may be used even when a key is already expiring."
- **keyspace_v_ready** violates `ReadyMeansLoaded` (src/src/brldb/etc.cpp:126). The list of futures is posted last (src/src/coremods/core_dbload.cpp:223) and its Process sets Ready, but with two workers, the default (src/src/configprocess.cpp:285), it may finish before a list of expirations posted earlier: commands are served with expirations missing. src/src/brldb/etc.cpp:129 says "We may now begin processing queries."

Other disagreements met while modelling. The modules have these behaviours too;
no run is kept for them. The passing runs leave the command at fault out, or their
properties are stated for what the code does.

- `brldb/dbflush.cpp:472`: src/README.md:16 says of commands that they 'are later queued, processed, and dispatched'. A request whose iteration ends with DBL_INTERRUPT is dispatched to nobody: FLUSHDB pauses the flusher while a client iterates, AttachResult is skipped, and the client, who stays connected, is locked for ever.
- `brldb/database.cpp:105`: src/README.md:28 says 'Our server aims at being crash-free'. Database::FlushDB deletes the rocksdb handle on the main thread without taking query_mute, so a worker that already passed QueryBase::Check runs on a deleted handle.
- `brldb/query.cpp:471`: src/README.md:28 says 'Our server aims at being crash-free'. QueryBase::Check looks at the source database of a TRANSFER only; when DBDELETE removes the target between the command and its execution, CheckDest and Write use the target's deleted handle.
- `brldb/database.cpp:56`: src/README.md:28 says 'Our server aims at being crash-free'. Database::Close deletes db and leaves the pointer set; only the requester of DBDELETE forgets the database (SetNullDB), so FLUSHDB by another client whose current database it was deletes the handle again.
- `brldb/query.cpp:27`: Swap puts newdest and then deletes ldest in one batch; CheckDest answers 1 when both are the same key, so RENAME of a key to its own name deletes it. coremods/core_hints/core_hints.h:87 says "Renames a key. If key is a simple string and has an expire, it will be changed to the new name."
- `brldb/clone_hints.cpp:26`: clone_query::Keys reads the value and then hands this->value, the number of the destination select, to ExpireBatch: the clone of an expiring key holds that number. coremods/core_hints/core_hints.h:175 says "Clones (copies a key into another select) a given key."
- `brldb/query.cpp:54`: SwapWithExpire writes the record of the new name and never deletes that of the old one, which a restart loads again. coremods/core_hints/core_hints.h:87 says of the expire that "it will be changed to the new name."
- `brldb/query.cpp:105`: WriteExpire names the target database in the record but writes it into the database of the request; start-up reads the records of a database from its own store, so the expiration is lost at a restart. src/docs/conf/databases.conf.example:25 says "expires (true/false): Keep expires active after restarting Beryl."
- `brldb/keys.cpp:590`: WDEL removes the list entry of each key it deletes, but calls DelExpire, which deletes the record of this->key, the pattern: the records of the deleted keys stay and a restart loads them. brldb/query.cpp:143 says of DelExpire "Deletes key in case it is expiring."
- `coremods/core_dbload.cpp:223`: ListFutures is called for the last database of the list only, so the futures of the others are not scheduled after a restart; `FuturesKept` says what is kept, and `ReadyMeansLoaded` fails by this too, with one worker. src/docs/conf/databases.conf.example:22 says "futures (true/false): Keep futures active after restarting Beryl"
- `brldb/query.cpp:185`: CheckDest tests !dbvalue.empty() where GetRegistry asks for a record, so a destination whose value is the empty string passes as undefined: RENAMENX writes over it, and RENAME, COPY, CLONE, MOVE and TRANSFER put a list beside it. coremods/core_hints/core_hints.h:110 says "Renames a key, only if dest key has not been defined."
- `coremods/core_expires/cmd_expire.cpp:192`: `use = user->select' assigns the number of the select to a string as one character; convto_num makes 0 of it, or another select (49 becomes 1). coremods/core_expires/core_expires.h:242 says "Removes all expires in current select."
- `brldb/keys.cpp:481`: GETDEL deletes the key but neither its entry in ExpireList nor its record; a key created later under the name is deleted by it. coremods/core_expires/core_expires.h:46 says of EXPIRE "In order to use this command, provided key MUST be defined."
- `clients.cpp:213` (`Sessions!Disconnect`): A locked client that leaves is never unlocked, so it stays in AwaitingExit (the run v_awaiting shows it on the pipeline).
- `login.cpp:119` (`Accounts!Attach`): The second instance of a login sets the flags with which the session was made for all of them: what ADDFLAG and DELFLAG changed since is undone.
- `coremods/core_umanager/cmd_users.cpp:54` (`Sessions!DELUSER`): `include/clientmanager.h:82` says "Disconnects all users that are using a given login.", but a client that has given its password and waits to be let in is not disconnected and works on under the removed account.
- `group.cpp:64` (`Accounts!UpdateFlags`): Only the flags given are stored, not those the group has: a restart loses the others. A letter that is no flag stays among the raw flags of the group, and stops the rest.
- `coremods/core_groups/cmd_commands.cpp:68` (`Accounts!DELGROUP`): The protection compares with "default" as it was typed: DELGROUP DEFAULT deletes the default group.
- `coremods/core_groups/cmd_commands.cpp:17` (`Accounts!GROUPADD`): After DELGROUP DEFAULT, ADDUSER still writes "default" into the record of a new account, whose instances log in without the group. GROUPADD default then makes it again, and GLIST shows it while MYGROUPS of those instances does not (with such menus `GroupsMatchRecord` fails).
- `coremods/core_groups/cmd_commands.cpp:328` (`Accounts!GRESET`): GRESET and GSET answer FAILED when they succeed.
- `coremods/core_channel/cmd_commands.cpp:164` (`Subscriptions!HOP`): The only client of a muted channel can lift the mute with HOP, which deletes the channel and makes a new one.
- `coremods/core_channel/cmd_commands.cpp:95` (`Subscriptions!PART`): PART and PARTALL delete the channel from the record of the login though another instance stays in it. A login with a living session gets no automatic joins.
- `coremods/core_monitor/cmd_monitor.cpp:17` (`Subscriptions!MONITOR`): MONITOR and NOTIFY with an unknown level stop the current subscription, then answer with an error.
- `coremods/core_monitor/cmd_monitor.cpp:71` (`Inquiries!MONITORLIST`): `arg != "DEFAULT" || arg != "DEBUG"` refuses every argument.
- `clients.cpp:471` (`Inquiries!SessionsReadable`): FINDFLAGS dereferences the session of a client that has none yet.
- `instances.cpp:457` (`Sessions!LOGIN`): The login is set before the password is checked, so a client with a wrong one bears the name until it is deleted.
- `commandproc.cpp:532` (`CommandQueue!Add`): What a client sends between the turn that starts MRUN and the end of the transaction goes to PendingList; what it sends between MULTIRESET and its execution joins the next transaction. MULTI, SET, MRUN in one write run the SET outside and refuse the MRUN, because Multi is set when MULTI is executed. Q or QUIT behind a MULTI queue their EXIT in the transaction.
- `coremods/core_user/cmd_login.cpp:98` (`CommandQueue!ILogin`): ILOGIN queues its three commands behind what the client has pipelined.
- `commandproc.cpp:610` (`CommandQueue!Turn`): A PONG, or a client that leaves in its turn, ends the loop over all clients.
- `commandproc.cpp:160` (`CommandQueue!Verdict`): A paused client's commands are dropped without an answer. The number of parameters is compared with `>=` against the index of the key.
- `coremods/core_admin/cmd_finger.cpp:17` (`CommandQueue!AutoResume`): The timer of an earlier PAUSE ends a later pause that has no end.
- `brldb/maps.cpp:215` (`Maps!hsetnx`): HSETNX on a key that does not exist writes a record with an empty key. `core_maps.h:65` says "HSet defines a map in the server, only if NOT previously defined."
- `brldb/lists.cpp:415` (`Lists!lpopall`): LPOPALL on a list of one element deletes the list whatever the value. LPOPALL, LDEL, VDEL, VFIND, HDEL and MDEL rewrite a key of another type.
- `coremods/core_list/cmd_lget.cpp:17` (`Commands!ListCommands1`): LFPOP issues lrop, and takes the last element like LRPOP; VFIND issues vdel.
- `brldb/lists.cpp:244` (`Lists!lsort`): LSORT writes the reverse of the list.
- `brldb/multis.cpp:24` (`Maps!mdel`): MDEL of a hash that is not there deletes a multimap of one pair; MDEL and MREPEATS strip the first and last characters of a hash without quotes.
- `brldb/lists.cpp:655` (`Lists!lrepeats`): LREPEATS keeps the quotes of its value and finds nothing.
- `brldb/maps.cpp:349` (`Maps!hdel`): HDEL answers OK for a pair with an empty value and leaves it in place.
- `brldb/geo.cpp:67` (`Strings!geoadd_pub`): GAPUB swaps longitude and latitude.
- `brldb/maps.cpp:394` (`Maps!hlist`): A second page of a map starts at an iterator of a container that has been cleared; LPOS and LLOW read beyond an empty list. Both are undefined.
- `brldb/operation.cpp:88` (`Strings!Quotient`): DIV by zero stores "inf".
- `brldb/geo.cpp:333` (`Scans!geodistance`): GDIST lists what is farther than the distance.
- `brldb/diff.cpp:83` (`Scans!CompareMap`): DIFF keeps an item if it differs from some item of the other map; equal plain keys answer "0", equal locations "1".

## 10. What is proved

TLC checks small instances; the theorems below hold for every value of the
constants, from the named assumptions of the models alone (`ConstantsAssumption`:
`Global` is no user, there is at least one worker, the bounds are naturals;
`KeyspaceAssumption`: finite sets of databases and slots, times to live above
zero, at least one worker; the three of `CommandQueue`, below; `AccountsAssumption`:
clients are numbered from 1, there are `Root` and the group `default`, `None` is
nothing else; `SessionsAssumption`: the accounts that exist at first, the logins
that clients try and their menus are made of these). A theorem is about the same
definitions as the runs.

| Module | Theorem | Statement |
|---|---|---|
| `DataFlushProofs` | `TypeCorrect` | `Spec => []TypeOK` |
| | `Serialised` | `Spec => []Serial` |
| | `LockedUsersStay` | `Spec => []LockedStays` |
| | `Ownership` | `Spec => []NoUseAfterFree` |
| `DataFlushOrderProofs` | `InOrderDelivery` | `Spec => []StreamOrder` |
| | `PipelineImplementsService` | `Spec => Implements`, the refinement of `QueryService` |
| `DataFlushHandleProofs` | `QueriesRunOnOpenHandles` | `SafeHandle`, if `NoFlush` and `NoDropUnderTransfer` |
| | `DatabasesCloseOnce` | `SingleClose`, if `NoFlushOfDropped` |
| `KeyspaceProofs` | `KeyspaceTyped` | `Spec => []TypeOK` |
| | `OneTypePerKey` | `Spec => []OneType` |
| | `NothingLost` | `Spec => NeverLost`, if `~SelfTargets` |
| `KeyspaceLoadProofs` | `FuturesStay` | `Spec => []FuturesKept` |
| `KeyspaceExpireProofs` | `RecordsMirrored` | `Spec => []Mirror`, without `Uneven` commands, if `Orderly` |
| | `NoOrphans` | `Spec => NoOrphan`, without those and GETDEL |
| `CommandQueueProofs` | `LinesAccounted` | `Spec => []Accounted` |
| | `LinesInOrder` | `Spec => []InOrder` |
| | `TransactionsSeparate` | `Spec => []NoStrangers` |
| | `TransactionsContiguous` | `Spec => []Contiguous` |
| | `LoginFirst` | `Spec => []OnlyLoginBefore` |
| `SessionsProofs` | `TypeCorrect` | `Spec => []TypeOK` |
| | `SessionsAreShared` | `Spec => []SessionsShared` |
| | `CacheIsCurrent` | `Spec => []CacheCurrent` |
| | `GroupsFollowRecords` | `Spec => []GroupsMatchRecord`, if `~DefaultReturns` |
| | `SubscriptionsArePaired` | `Spec => []SubscriptionsPaired` |
| | `NothingDangles` | `Spec => []NoDangling` |

**Why there are hypotheses.** Each names a use of the program in which the
property fails, and leaving out any one of them makes TLC find a counterexample
on an instance of two slots:

- FLUSHDB closes and opens a database under running queries, and names databases
  that DBDELETE has taken from DBMap; TRANSFER does not look whether its second
  database is closing (`NoFlush`, `NoDropUnderTransfer`, `NoFlushOfDropped`).
- A RENAME of a key to itself deletes it (`~SelfTargets`).
- With several workers a request may overtake the deletion of all records with
  which start-up begins when expirations are not kept: `Mirror` asks for one worker
  or for `KeepExpires` (`Orderly`).
- RENAME, RENAMENX, MOVE and TRANSFER leave a record behind, WDEL drops only the
  entries of the list (`Uneven`); GETDEL leaves both behind.
- A group `default` that has been deleted under its other name and is made again
  (`~DefaultReturns`: no menus have both DELGROUP DEFAULT and GROUPADD default). The
  run has the deletion and not the return.

**The pipeline.** The theorems of `DataFlushProofs` come from one inductive invariant,

    IInv == TypeOK /\ Owned /\ Visiting /\ Serial /\ LockedStays

Neither `Serial` nor `NoUseAfterFree` is inductive. The Reducer deletes users
without looking at the workers: that it deletes nobody in flight follows from
`LockedStays` (a locked user is not in the Reducer's list) and `Serial` (a user
in flight is locked). `Serial` survives the unlocking in GetResults because the
final notification it delivers excludes any request in flight, and survives
Post because the user was unlocked, hence had nothing in flight, and the request
posted is her own (`Owned`). `LockedStays` survives Post because the pass of
GetPending visits connected users only (`Visiting`). There is one lemma per way a
step can move a request: `PostSerial` (a new place), `TakeSerial` (places shift by
one), `BatchSerial` and `AttachSerial` (a result is appended), `SettleSerial`
(results are consumed or forgotten) and `FrameSerial` (nothing moves).

`StreamOrder` needs to know of requests that are not waiting yet. `OInv` adds that
whatever is in flight of a client is number `Len(answered) + 1` (`FlightNext`),
that who waits is locked, and that the requests of a client are, without a gap,
those answered, the one she is locked for, and those pending (`Numbered`, until
the queues are emptied at exit). With it every step maps to a step of
`QueryService` or to none: a push to its Request, the delivery of final results to
the Answer of all who get one, a request dropped because its database is closing to
the Answer of one, and each way out to Leave.

For `SafeHandle`, `HInv` says that a query holds `query_mute` alone, that a deleted
handle belongs to a closing database and that a running query's databases are
not closing: `Closing` is set under `query_mute`, before the handle goes. A
DBDELETE that succeeded has closed its own database (`DropsClosing`), through
every queue its result passes, and PrepareExit closes databases when no worker is
left (`WorkersGone`).

**The key space.** `KInv` is the inductive invariant behind all theorems about
`Keyspace`: a good disk (beside a list there is nothing or an empty key, futures are
either absent or have a time), typed lists, and requests of the form their commands
push. `RunSound` shows for each class of command that *every* disk its writes go
through is good, so that a crash finds one too; `NothingLost` follows the same way,
from `RunKeeps`.

The other theorems are about start-up, for any number of workers unless they say
otherwise. `FuturesKept` is inductive in `FInv`, which adds that no client has a
request out before Ready (`Unserved`), so that whatever stands on disk then is listed,
that the futures to list are those of the last database (`LastOnly`), and that nothing
is left to load before the first crash (`Fresh`). `Mirror` holds because each command
changes both list and record, or the record of a database not loaded yet (`RunLevel`,
`Level`). When expirations are not kept, nothing may run before the lists of start-up
(`StartupFirst`): hence the one worker in `Orderly`.

`NoOrphan` is an action property. Half of `Mirror` is enough for it, that the record of
a loaded database is in the list (`Backed`): DEL clears the record only if the list says
so, so the key it deletes leaves no record behind unless the DEL overtakes the loading.
Each intermediate disk keeps every record beside its key (`RunBeside`), but for the
destination of a COPY, which writes the record first (`CopyBeside`): a crash there is
the exception that `NoOrphan` names, and the COPY that ends has its key.

**The command queue.** The theorems hold for every menu of commands, unknown ones
included, and need only the assumptions in the module: `Order` lists the users,
a PAUSE or RESUME that is not refused names an instance, `None` is no command.
Since no command looks into the queue of another client, the invariant `QInv` says
one thing of each record, `Good`:

- `Known`: a request carries the command of its line, or the one Execute has put
  in its place; nothing that moves the boundary of a transaction waits in one;
- `Counted`: a line is in one of the five places where it can be;
- `Entitled`: who has a transaction is logged in. Otherwise an ILOGIN could put its
  three commands into it;
- `Together`: an open transaction has a number no entry bears; since the first
  entry of the running one only its own entries and PONGs have come;
- `Separate`: a request older than the MULTI of its transaction is one of those
  `NoStrangers` excuses, and so is one for which a MULTI still waits that is younger;
- `Lined`: without commands that spoil the order, while a transaction is collected
  all that waits in `PendingList` is older than all in `PendingMulti`, while it runs all
  is younger, and behind a waiting MRUN only PONG and MRUN stand: that is why
  the order survives the change from one to the other.

Twelve relations between a record before and after (`Quiet`, `Starts`, `Ends`, ...)
say what steps do to it. `QuietGood`, `StartsGood` and so on show that they keep it
`Good`; `AddShape`, `HandleShape` and `ExecuteShape` that the code takes no other
steps. `TurnGood` puts them together for the turn of one client. `PassGood` is the
induction over the clients of a pass: as no prover here can instantiate an induction
theorem with an operator, `Climb` derives it from the well-founded order on the
numbers, for sets, and `PassIs` shows that the recursive function exists.

**The sessions.** The theorems hold for any number of clients, accounts, groups and
channels, for every menu made of `AllCommands` and either value of each setting.
Operators map states to states, so the invariant is of a state, too: `SInv` is
`Good(State, commands)`, where `Good(s, now)` is the conjunction of

- `Placed`: who has given a login and not left, and nobody else, is in `logins`, once;
  who waits for the Reducer is still there and has left; who is on the list of the
  Monitor or the Notifier is registered; the count of the unregistered is exact;
- `Attached`: a client that is logged in has the session of its login; a session was
  made for a client *of that login*, without which a flag given to one login could
  reach another, and somebody of the login still exists; root's has the flag r;
- `Cached`: as in `CacheCurrent`, and an account that does not exist is disabled and in
  no group, without which LOGIN could cache a password of nobody;
- `Grouped`: a group that is not listed can do nothing, and records name listed
  groups or `default`;
- `Dated`: accounts are made at different times, so an instance let in under a removed
  account is not one of the account that comes after;
- `Matching` with `DefaultKept`, if `~DefaultReturns`; `Paired`.

None of the six properties is inductive. That the Reducer leaves no dangling entry
needs `Placed` (it deletes who has left; `Disconnect` takes clients out of `logins` and
their channels; `Destroy` out of the two lists); that a session goes with the last
object of its login, and not while somebody works with it, needs `FindLoginIs`, which
says that `logins` finds exactly those who are logged in. There is a lemma for each
operator `op`, `Good(s, now) => Good(op(s, ...), now)`; ADDUSER and DELUSER alone give
`Good(..., now + 1)`. `GoodKept` says which parts of the invariant a step keeps by what
it leaves alone. DELUSER goes through a state that is not `Good`, its account gone and
its instances still there, so `DisconnectKeeps` asks for `Matching` of those who stay
only. `RoundGood` is the induction over the clients in a round of Flush, by `Climb` as
above. `HandleGood` puts the commands together.

**Only model-checked.** All liveness, which with fairness and ENABLED is beyond the
installed provers; the equations of
`Structures`, which are about what folds over texts compute and would need induction over
data. `SweepDeletesDue` and `ReadyMeansLoaded` are stated and violated (section 9).

## 11. What is not modelled

- *Main loop and shutdown (Beryl::Dispatcher, Loop, Timed, PrepareExit)* (partly): The order of the phases and of the exit are in DataFlush; timers, monitor, notifier, atomics and start-up are not.
- *Database life cycle (Database, DBManager, DBDELETE, FLUSHDB, FLUSHALL)* (partly): Closing, handle, DBMap and the commands that change them; creation, start-up loading and the default database are not modelled yet.
- *Expires (ExpireManager, its records and helpers)* (partly): List, records, EXPIRE, SETEX, PERSIST, RESET, ERESET, SRESET, the sweep, loading at start-up. EXPIREAT is EXPIRE with another schedule; the removal of a database's entries when it is dropped is in DataFlush only as the step that does it.
- *Futures (FutureManager)* (partly): FUTURE, EXEC, CANCEL, FRESET, FRESETALL, the sweep, loading at start-up. FUTSET is FUTURE with another schedule; TTE and the lists only read.
- *Channels, monitor, notifier and publishing* (partly): Joining, leaving, muting, automatic joins, the lists of the Monitor and the Notifier, and whom PUBLISH, a monitored command and an event reach. Not modelled: the levels of events, their texts, SQUERY, and the queues in which they wait.
- *Timers, actions and settings* (not modelled): Planned for a later stage: the ordered timer map.
- *Sockets and stream buffers* (not modelled): Event masks and partial writes may follow; the rest is system calls.
- *Modules, events and serializer* (not modelled): Dynamic loading and priorities; later, if the plan allows.
- *Configuration, logging, protocol formatting, strings* (not modelled): Parsing and wording; no shared state worth checking.

Data races on containers other than the queues above, the wording of replies, the
codecs and system calls are left out throughout. Levels of events and the limit of
1024 cached passwords are left out of `Sessions`.
