------------------------------ MODULE DataFlush ------------------------------
(***************************************************************************)
(* The query pipeline of BerylDB: the main loop (Beryl::Loop), the worker  *)
(* threads (DataThread), the requests that travel between them, the life   *)
(* of a client connection and the life of a database handle.               *)
(*                                                                         *)
(* A command pushes a request on the `pending' queue of its user.  Once in *)
(* every loop the main thread posts the first pending request of every     *)
(* unlocked user to a worker and locks the user; the worker runs it under  *)
(* query_mute and appends the outcome to the user's `notifications'; a     *)
(* later loop delivers it and unlocks the user.  The pseudo user Global    *)
(* carries the server's own requests (expirations, futures).               *)
(***************************************************************************)
EXTENDS Integers, Sequences, FiniteSets

CONSTANTS
  Users,       \* connections; each connects at most once (a LocalUser object)
  Global,      \* ClientManager::Global, the server acting as a user
  NThreads,    \* Config->DB.datathread, the number of workers
  Databases,   \* the databases in DBMap
  MaxReq,      \* bound: requests a user pushes in its life
  MaxGlobal,   \* bound: requests the server pushes through Global
  MaxParts,    \* bound: ITER_LIMIT batches one iteration delivers
  Kinds,       \* kinds of request clients push, a subset of AllKinds
  AdminOps,    \* administrative commands issued, a subset of AllAdminOps
  CanExit      \* TRUE when the process may receive SIGTERM

AllKinds    == {"point", "scan", "transfer", "invalid"}
AllAdminOps == {"FLUSHDB", "FLUSHALL", "DBDELETE"}

ASSUME ConstantsAssumption ==
  /\ Global \notin Users
  /\ NThreads \in Nat \ {0}
  /\ MaxReq \in Nat /\ MaxGlobal \in Nat /\ MaxParts \in Nat
  /\ Kinds \subseteq AllKinds
  /\ AdminOps \subseteq AllAdminOps
  /\ CanExit \in BOOLEAN

Threads == 1 .. NThreads

(* A QueryBase: `id' numbers the requests of one user in push order.       *)
(*   point    one result;        scan     an iteration with CheckIterator; *)
(*   invalid  ValidKey failed, access is DBL_INVALID_FORMAT before Push;   *)
(*   transfer TRANSFER, which also touches a second database, `target';    *)
(*   dbreset  DBDELETE;          quiet    QUERY_FLAGS_QUIET, user Global.  *)
ReqKinds == AllKinds \cup {"dbreset", "quiet"}
Requests == [user : Users \cup {Global}, db : Databases, target : Databases,
             kind : ReqKinds, id : Nat]

(* A worker that has popped no request.                                    *)
NoRequest == [idle |-> TRUE]

(* QueryBase::access when the worker is done: DBL_STATUS_OK, _BROKEN (the  *)
(* database is closing), DBL_INVALID_FORMAT, DBL_INTERRUPT.                *)
AccessCodes == {"ok", "broken", "format", "interrupt"}

(* What AttachResult appends: a request with its access and partial flags. *)
Results == [req : Requests, access : AccessCodes, partial : BOOLEAN]

VARIABLES
  pc,            \* phase of the main thread
  todo,          \* users the current pass over clientlist has yet to visit
  remaining,     \* databases a FLUSHDB or FLUSHALL has yet to start on
  flushing,      \* the database it works on, as a set
  running,       \* DataFlush::running
  clients,       \* life cycle of every connection
  locked,        \* User::Locked
  pending,       \* User::pending
  notifications, \* User::notifications
  queue,         \* DataThread::queue
  wpc,           \* phase of every worker
  exiting,       \* workers whose queue ends with PROC_EXIT_THREAD
  current,       \* the request a worker has popped
  access,        \* access code of that request
  parts,         \* partial results the current iteration has attached
  busy,          \* DataThread::busy
  query_mute,    \* the worker holding DataFlush::query_mute, as a set
  DBMap,         \* the databases DBManager::Find finds
  Closing,       \* Database::Closing
  handle,        \* the rocksdb::DB behind Database::db
  issued,        \* number of requests pushed so far, per user (history)
  answered       \* ids of the requests answered, per user (history)

mainVars   == <<pc, todo, remaining, flushing, running>>
clientVars == <<clients, locked, pending, issued, answered>>
workerVars == <<queue, exiting, wpc, current, access, parts, busy, query_mute>>
dbVars     == <<DBMap, Closing, handle>>
vars == <<mainVars, clientVars, notifications, workerVars, dbVars>>

Actors == Users \cup {Global}

(* The phases of Beryl::Dispatcher and Beryl::Loop, FLUSHDB's stages       *)
(* and the stages of Beryl::PrepareExit.                                   *)
MainPhases == {"timed", "commands", "sockets", "reduce", "results", "pending",
               "flush_mark", "flush_close", "flush_open",
               "exit_reset", "exit_join", "exit_close", "halted"}

(* A connection: not accepted yet, in clientlist, in AwaitingExit, in the  *)
(* Reducer's list, deleted.  All but the first two have IsQuitting().      *)
ClientStates == {"new", "live", "awaiting", "reducing", "freed"}
WorkerPhases == {"wait", "popped", "run", "leave", "attach", "exited"}

IsQuitting(a) == a \in Users /\ clients[a] \in {"awaiting", "reducing", "freed"}
Live == {u \in Users : clients[u] = "live"}

Init ==
  /\ pc = "timed"
  /\ todo = {}
  /\ remaining = {}
  /\ flushing = {}
  /\ running = TRUE
  /\ clients = [u \in Users |-> "new"]
  /\ locked = [u \in Users |-> FALSE]
  /\ pending = [a \in Actors |-> <<>>]
  /\ notifications = [u \in Users |-> <<>>]
  /\ queue = [t \in Threads |-> <<>>]
  /\ exiting = {}
  /\ wpc = [t \in Threads |-> "wait"]
  /\ current = [t \in Threads |-> NoRequest]
  /\ access = [t \in Threads |-> "ok"]
  /\ parts = [t \in Threads |-> 0]
  /\ busy = [t \in Threads |-> FALSE]
  /\ query_mute = {}
  /\ DBMap = Databases
  /\ Closing = [d \in Databases |-> FALSE]
  /\ handle = [d \in Databases |-> "open"]
  /\ issued = [a \in Actors |-> 0]
  /\ answered = [u \in Users |-> <<>>]

-----------------------------------------------------------------------------
(* The main thread, phase by phase.                                        *)

(* StoreManager::Push: a quitting user is refused.                         *)
Push(a, d, e, kind) ==
  /\ ~IsQuitting(a)
  /\ issued' = [issued EXCEPT ![a] = @ + 1]
  /\ pending' = [pending EXCEPT ![a] =
        Append(@, [user |-> a, db |-> d, target |-> e, kind |-> kind,
                   id |-> issued[a] + 1])]

(* Timed: Expires->Flush and Futures->Flush push quiet requests; every     *)
(* other second ForceExits hands the unlocked users of AwaitingExit to the *)
(* Reducer.                                                                *)
TimedFlush(d) ==
  /\ pc = "timed"
  /\ issued[Global] < MaxGlobal
  /\ d \in DBMap
  /\ Push(Global, d, d, "quiet")
  /\ UNCHANGED <<mainVars, clients, locked, answered, notifications,
                 workerVars, dbVars>>

ForceExits ==
  /\ pc = "timed"
  /\ clients' = [u \in Users |->
        IF clients[u] = "awaiting" /\ ~locked[u] THEN "reducing" ELSE clients[u]]
  /\ pc' = "commands"
  /\ todo' = Live
  /\ UNCHANGED <<remaining, flushing, running, locked, pending, issued,
                 answered, notifications, workerVars, dbVars>>

(* Mutant: the pass over the clients visits Global as well.                *)
EndTimed_VisitsGlobal ==
  /\ pc = "timed"
  /\ pc' = "commands"
  /\ todo' = Live \cup {Global}
  /\ UNCHANGED <<remaining, flushing, running, clientVars, notifications,
                 workerVars, dbVars>>

(* A loop in which the second has not changed, or is an odd one.           *)
EndTimed ==
  /\ pc = "timed"
  /\ pc' = "commands"
  /\ todo' = Live
  /\ UNCHANGED <<remaining, flushing, running, clientVars, notifications,
                 workerVars, dbVars>>

(* CommandQueue::Flush runs one command of every unlocked client.          *)
Turn(u) ==
  /\ pc = "commands"
  /\ u \in todo
  /\ u \in Live
  /\ ~locked[u]
  /\ todo' = todo \ {u}

Command(u, d, e, kind) ==
  /\ Turn(u)
  /\ issued[u] < MaxReq
  /\ Push(u, d, e, kind)
  /\ UNCHANGED <<pc, remaining, flushing, running, clients, locked, answered,
                 notifications, workerVars, dbVars>>

(* A command on the user's current database, which may have been dropped   *)
(* since USE; CommandTransfer::Handle wants another, existing database.    *)
Execute(u, d, kind) ==
  /\ kind # "transfer"
  /\ Command(u, d, d, kind)

Transfer(u, d, e) ==
  /\ "transfer" \in Kinds
  /\ e \in DBMap \ {d}
  /\ Command(u, d, e, "transfer")

(* CommandDBDelete::Handle: refused while the database is closing.         *)
DBDelete(u, d) ==
  /\ "DBDELETE" \in AdminOps
  /\ d \in DBMap
  /\ ~Closing[d]
  /\ Command(u, d, d, "dbreset")

(* CommandFlushDB::Handle pauses the flusher (DBHelper::FlushDB), works on *)
(* the user's current database or on one that Find finds, and resumes;     *)
(* CommandFlushAll::Handle works on all of DBMap and pauses nothing.       *)
FlushCommand(u) ==
  /\ Turn(u)
  /\ \/ /\ "FLUSHDB" \in AdminOps
        /\ \E d \in Databases : remaining' = {d}
        /\ running' = FALSE
     \/ /\ "FLUSHALL" \in AdminOps
        /\ DBMap # {}
        /\ remaining' = DBMap
        /\ UNCHANGED running
  /\ pc' = "flush_mark"
  /\ UNCHANGED <<flushing, clientVars, notifications, workerVars, dbVars>>

(* Database::FlushDB: SetClosing(true), then Close deletes the handle.     *)
FlushMark(d) ==
  /\ pc = "flush_mark"
  /\ d \in remaining
  /\ remaining' = remaining \ {d}
  /\ flushing' = {d}
  /\ Closing' = [Closing EXCEPT ![d] = TRUE]
  /\ pc' = "flush_close"
  /\ UNCHANGED <<todo, running, clientVars, notifications, workerVars, DBMap,
                 handle>>

FlushClose ==
  /\ pc = "flush_close"
  /\ handle' = [d \in Databases |->
        IF d \in flushing THEN "deleted" ELSE handle[d]]
  /\ pc' = "flush_open"
  /\ UNCHANGED <<todo, remaining, flushing, running, clientVars, notifications,
                 workerVars, DBMap, Closing>>

(* DestroyDB, SetClosing(false) and Open; after the last one, Resume.      *)
FlushOpen ==
  /\ pc = "flush_open"
  /\ Closing' = [d \in Databases |-> Closing[d] /\ d \notin flushing]
  /\ handle' = [d \in Databases |->
        IF d \in flushing THEN "open" ELSE handle[d]]
  /\ flushing' = {}
  /\ \/ remaining # {} /\ pc' = "flush_mark" /\ UNCHANGED running
     \/ remaining = {} /\ pc' = "commands" /\ running' = TRUE
  /\ UNCHANGED <<todo, remaining, clientVars, notifications, workerVars, DBMap>>

(* ClientManager::AddUser, from SocketPool::Events.                        *)
AddUser(u) ==
  /\ pc = "sockets"
  /\ clients[u] = "new"
  /\ clients' = [clients EXCEPT ![u] = "live"]
  /\ UNCHANGED <<mainVars, locked, pending, issued, answered, notifications,
                 workerVars, dbVars>>

(* Mutant: the lock is not looked at.                                      *)
Disconnect_IgnoresLock(u) ==
  /\ pc \in {"commands", "sockets"}
  /\ u \in Live
  /\ clients' = [clients EXCEPT ![u] = "reducing"]
  /\ UNCHANGED <<mainVars, locked, pending, issued, answered, notifications,
                 workerVars, dbVars>>

(* ClientManager::Disconnect, from a command, a timeout or a socket event. *)
Disconnect(u) ==
  /\ pc \in {"commands", "sockets"}
  /\ u \in Live
  /\ clients' = [clients EXCEPT ![u] =
        IF locked[u] THEN "awaiting" ELSE "reducing"]
  /\ UNCHANGED <<mainVars, locked, pending, issued, answered, notifications,
                 workerVars, dbVars>>

(* The client-driven phases end when the main thread has seen every event. *)
EndPhase ==
  /\ \/ pc = "commands" /\ pc' = "sockets"
     \/ pc = "sockets" /\ pc' = "reduce"
  /\ todo' = {}
  /\ UNCHANGED <<remaining, flushing, running, clientVars, notifications,
                 workerVars, dbVars>>

Leaving == {u \in Users : clients[u] = "reducing"}

(* ReducerHandler::Apply deletes the User objects; ~User clears its lock   *)
(* and both of its queues.                                                 *)
Reduce ==
  /\ pc = "reduce"
  /\ clients' = [u \in Users |-> IF u \in Leaving THEN "freed" ELSE clients[u]]
  /\ locked' = [u \in Users |-> locked[u] /\ u \notin Leaving]
  /\ pending' = [a \in Actors |-> IF a \in Leaving THEN <<>> ELSE pending[a]]
  /\ notifications' = [u \in Users |->
        IF u \in Leaving THEN <<>> ELSE notifications[u]]
  /\ pc' = "results"
  /\ UNCHANGED <<todo, remaining, flushing, running, issued, answered, workerVars, dbVars>>

-----------------------------------------------------------------------------
(* DataFlush::Process: GetResults, then GetPending.                        *)

(* GetResults delivers the first notification of every live user, holding  *)
(* `mute' throughout; a result that is not partial unlocks its user.       *)
(* dbreset_query::Process then removes the database (DBManager::Delete).   *)

(* Mutant: quitting users that are not deleted yet are answered too.       *)
Delivering_Quitting ==
  {u \in Users : clients[u] \in {"live", "awaiting"} /\ notifications[u] # <<>>}

Delivering == {u \in Live : notifications[u] # <<>>}

(* Mutant: every result unlocks.                                           *)
Final_Partial(u) == u \in Delivering

Final(u) == u \in Delivering /\ ~Head(notifications[u]).partial

(* Mutant: a request on a closing database goes to StatusFailed.           *)
Removed_NotClosing == {d \in Databases : ~Closing[d] /\ \E u \in Delivering :
              LET r == Head(notifications[u]) IN
                /\ r.req.kind = "dbreset" /\ r.access = "ok"
                /\ r.req.db = d /\ d \in DBMap}

Removed == {d \in Databases : \E u \in Delivering :
              LET r == Head(notifications[u]) IN
                /\ r.req.kind = "dbreset" /\ r.access = "ok"
                /\ r.req.db = d /\ d \in DBMap}

(* Mutant: DBManager::Delete leaves the entry in DBMap.                    *)
DeleteRemoved_KeepsEntry ==
  /\ handle' = [d \in Databases |->
        IF d \in Removed THEN "deleted" ELSE handle[d]]
  /\ UNCHANGED DBMap

DeleteRemoved ==
  /\ handle' = [d \in Databases |->
        IF d \in Removed THEN "deleted" ELSE handle[d]]
  /\ DBMap' = DBMap \ Removed

GetResults ==
  /\ pc = "results"
  /\ running
  /\ notifications' = [u \in Users |->
        IF u \in Delivering THEN Tail(notifications[u]) ELSE notifications[u]]
  /\ locked' = [u \in Users |-> locked[u] /\ ~Final(u)]
  /\ answered' = [u \in Users |->
        IF Final(u) THEN Append(answered[u], Head(notifications[u]).req.id)
                    ELSE answered[u]]
  /\ DeleteRemoved
  /\ todo' = Live
  /\ pc' = "pending"
  /\ UNCHANGED <<remaining, flushing, running, clients, pending, issued,
                 workerVars, Closing>>

(* DataFlush::Process(user, signal): the first idle worker, or any one     *)
(* when all are busy.                                                      *)
Idle == {t \in Threads : ~busy[t]}
Chosen(t) == Idle = {} \/ (t \in Idle /\ \A s \in Idle : t <= s)

(* Mutant: GetPending does not lock the user.                              *)
Locking_Forgotten(a) == locked

Locking(a) == [u \in Users |-> locked[u] \/ u = a]

(* DataThread::Post refuses a request whose database is closing.           *)
Post(t, a) ==
  LET req == Head(pending[a]) IN
  /\ Chosen(t)
  /\ pending' = [pending EXCEPT ![a] = Tail(@)]
  /\ \/ /\ ~Closing[req.db]
        /\ queue' = [queue EXCEPT ![t] = Append(@, req)]
        /\ locked' = Locking(a)
        /\ UNCHANGED answered
     \/ /\ Closing[req.db]
        /\ answered' = [u \in Users |->
              IF u = a THEN Append(answered[u], req.id) ELSE answered[u]]
        /\ UNCHANGED <<queue, locked>>
  /\ UNCHANGED <<exiting, wpc, current, access, parts, busy, query_mute>>

(* GetPending: a request of Global goes first and ends the pass.           *)
PendingGlobal(t) ==
  /\ pc = "pending"
  /\ pending[Global] # <<>>
  /\ Post(t, Global)
  /\ todo' = {}
  /\ pc' = "timed"
  /\ UNCHANGED <<remaining, flushing, running, clients, issued, notifications,
                 dbVars>>

PendingUser(t, u) ==
  /\ pc = "pending"
  /\ pending[Global] = <<>>
  /\ u \in todo
  /\ pending[u] # <<>>
  /\ ~locked[u]
  /\ Post(t, u)
  /\ todo' = todo \ {u}
  /\ UNCHANGED <<pc, remaining, flushing, running, clients, issued, notifications,
                 dbVars>>

EndPending ==
  /\ pc = "pending"
  /\ pending[Global] = <<>>
  /\ \A u \in todo : pending[u] = <<>> \/ locked[u]
  /\ todo' = {}
  /\ pc' = "timed"
  /\ UNCHANGED <<remaining, flushing, running, clientVars, notifications,
                 workerVars, dbVars>>

-----------------------------------------------------------------------------
(* DataThread::Process, the loop of worker t.                              *)

(* Mutant: a worker told to exit takes no more requests.                   *)
Take_NotExiting(t) ==
  /\ t \notin exiting
  /\ wpc[t] = "wait"
  /\ queue[t] # <<>>
  /\ running
  /\ busy' = [busy EXCEPT ![t] = TRUE]
  /\ current' = [current EXCEPT ![t] = Head(queue[t])]
  /\ queue' = [queue EXCEPT ![t] = Tail(@)]
  /\ wpc' = [wpc EXCEPT ![t] = "popped"]
  /\ UNCHANGED <<mainVars, clientVars, notifications, exiting, access, parts,
                 query_mute, dbVars>>

(* The head of the queue is read and, unless the flusher is paused (the    *)
(* worker then tries again), popped; the request waits for query_mute.     *)
Take(t) ==
  /\ wpc[t] = "wait"
  /\ queue[t] # <<>>
  /\ running
  /\ busy' = [busy EXCEPT ![t] = TRUE]
  /\ current' = [current EXCEPT ![t] = Head(queue[t])]
  /\ queue' = [queue EXCEPT ![t] = Tail(@)]
  /\ wpc' = [wpc EXCEPT ![t] = "popped"]
  /\ UNCHANGED <<mainVars, clientVars, notifications, exiting, access, parts,
                 query_mute, dbVars>>

(* Mutant: QueryBase::Check is not called.                                 *)
Outcome_NoCheck(req) == IF req.kind = "invalid" THEN "format" ELSE "ok"

(* With query_mute held: a request refused before Push skips Prepare, one  *)
(* whose database is closing fails QueryBase::Check.                       *)
Outcome(req) ==
  CASE req.kind = "invalid" -> "format"
    [] req.kind # "invalid" /\ Closing[req.db] -> "broken"
    [] OTHER -> "ok"

Lock(t) ==
  /\ wpc[t] = "popped"
  /\ query_mute = {}
  /\ query_mute' = {t}
  /\ access' = [access EXCEPT ![t] = Outcome(current[t])]
  /\ wpc' = [wpc EXCEPT ![t] =
        IF Outcome(current[t]) = "ok" THEN "run" ELSE "leave"]
  /\ UNCHANGED <<mainVars, clientVars, notifications, queue, exiting, current,
                 parts, busy, dbVars>>

(* Run of anything but an iteration; dbreset_query::Run marks the database *)
(* as closing.                                                             *)
Run(t) ==
  /\ wpc[t] = "run"
  /\ current[t].kind # "scan"
  /\ Closing' = [d \in Databases |->
        Closing[d] \/ (current[t].kind = "dbreset" /\ current[t].db = d)]
  /\ wpc' = [wpc EXCEPT ![t] = "leave"]
  /\ UNCHANGED <<mainVars, clientVars, notifications, queue, exiting, current,
                 access, parts, busy, query_mute, DBMap, handle>>

(* Dispatcher::CheckIterator, before every element of an iteration.        *)
CheckIterator(req) ==
  /\ ~IsQuitting(req.user)
  /\ running
  /\ ~Closing[req.db]

Interrupt(t) ==
  /\ wpc[t] = "run"
  /\ current[t].kind = "scan"
  /\ ~CheckIterator(current[t])
  /\ access' = [access EXCEPT ![t] = "interrupt"]
  /\ wpc' = [wpc EXCEPT ![t] = "leave"]
  /\ UNCHANGED <<mainVars, clientVars, notifications, queue, exiting, current,
                 parts, busy, query_mute, dbVars>>

(* AttachResult: the result travels as a copy of the request.              *)
AttachResult(t, isPartial) ==
  LET u == current[t].user IN
  notifications' = [notifications EXCEPT ![u] =
    Append(@, [req |-> current[t], access |-> access[t], partial |-> isPartial])]

(* ITER_LIMIT elements were collected: they go out as a partial result.    *)
Batch(t) ==
  /\ wpc[t] = "run"
  /\ current[t].kind = "scan"
  /\ CheckIterator(current[t])
  /\ parts[t] < MaxParts
  /\ AttachResult(t, TRUE)
  /\ parts' = [parts EXCEPT ![t] = @ + 1]
  /\ UNCHANGED <<mainVars, clientVars, queue, exiting, wpc, current, access,
                 busy, query_mute, dbVars>>

(* The iterator is exhausted; the final result is not partial.             *)
Exhausted(t) ==
  /\ wpc[t] = "run"
  /\ current[t].kind = "scan"
  /\ wpc' = [wpc EXCEPT ![t] = "leave"]
  /\ UNCHANGED <<mainVars, clientVars, notifications, queue, exiting, current,
                 access, parts, busy, query_mute, dbVars>>

(* SetStatus(false), then query_mute is released.                          *)
Unlock(t) ==
  /\ wpc[t] = "leave"
  /\ busy' = [busy EXCEPT ![t] = FALSE]
  /\ query_mute' = {}
  /\ wpc' = [wpc EXCEPT ![t] = "attach"]
  /\ UNCHANGED <<mainVars, clientVars, notifications, queue, exiting, current,
                 access, parts, dbVars>>

(* Mutant: only requests that succeeded are reported.                      *)
Reported_OnlyOK(t) == current[t].kind # "quiet" /\ access[t] = "ok"

(* A quiet request reports nothing, and neither does an interrupted one.   *)
Reported(t) == current[t].kind # "quiet" /\ access[t] # "interrupt"

Attach(t) ==
  /\ wpc[t] = "attach"
  /\ \/ Reported(t) /\ AttachResult(t, FALSE)
     \/ ~Reported(t) /\ UNCHANGED notifications
  /\ wpc' = [wpc EXCEPT ![t] = "wait"]
  /\ current' = [current EXCEPT ![t] = NoRequest]
  /\ access' = [access EXCEPT ![t] = "ok"]
  /\ parts' = [parts EXCEPT ![t] = 0]
  /\ UNCHANGED <<mainVars, clientVars, queue, exiting, busy, query_mute, dbVars>>

(* PROC_EXIT_THREAD is the last message a worker ever receives.            *)
ExitThread(t) ==
  /\ wpc[t] = "wait"
  /\ t \in exiting
  /\ queue[t] = <<>>
  /\ running
  /\ query_mute = {}
  /\ wpc' = [wpc EXCEPT ![t] = "exited"]
  /\ UNCHANGED <<mainVars, clientVars, notifications, queue, exiting, current,
                 access, parts, busy, query_mute, dbVars>>

-----------------------------------------------------------------------------
(* Beryl::PrepareExit, on SIGTERM, between Timed and the rest of the loop. *)

(* DataFlush::ResetAll pauses the flusher while it empties every queue of  *)
(* clientlist (it unlocks nobody); Expires->Reset pushes again for Global. *)
ExitBegin ==
  /\ CanExit
  /\ pc = "timed"
  /\ running' = FALSE
  /\ pc' = "exit_reset"
  /\ UNCHANGED <<todo, remaining, flushing, clientVars, notifications,
                 workerVars, dbVars>>

ResetAll ==
  /\ pc = "exit_reset"
  /\ LET emptied == [a \in Actors |->
           IF a = Global \/ a \in Live THEN <<>> ELSE pending[a]]
     IN \/ pending' = emptied /\ UNCHANGED issued
        \/ /\ issued[Global] < MaxGlobal
           /\ issued' = [issued EXCEPT ![Global] = @ + 1]
           /\ \E d \in DBMap : pending' = [emptied EXCEPT ![Global] =
                 <<[user |-> Global, db |-> d, target |-> d, kind |-> "quiet",
                    id |-> issued[Global] + 1]>>]
  /\ notifications' = [u \in Users |->
        IF u \in Live THEN <<>> ELSE notifications[u]]
  /\ running' = TRUE
  /\ pc' = "exit_join"
  /\ UNCHANGED <<todo, remaining, flushing, clients, locked, answered,
                 workerVars, dbVars>>

(* CloseThreads: DataThread::Exit posts PROC_EXIT_THREAD and joins, one    *)
(* worker after the other.                                                 *)
Exit(t) ==
  /\ pc = "exit_join"
  /\ exiting = 1 .. (t - 1)
  /\ \A s \in exiting : wpc[s] = "exited"
  /\ exiting' = exiting \cup {t}
  /\ UNCHANGED <<mainVars, clientVars, notifications, queue, wpc, current,
                 access, parts, busy, query_mute, dbVars>>

Joined == \A t \in Threads : wpc[t] = "exited"

(* Pause, Disconnect for every client, Reducer->Apply.                     *)
ExitClients ==
  /\ pc = "exit_join"
  /\ Joined
  /\ running' = FALSE
  /\ clients' = [u \in Users |->
        CASE clients[u] = "live" /\ locked[u] -> "awaiting"
          [] clients[u] = "live" /\ ~locked[u] -> "freed"
          [] clients[u] = "reducing" -> "freed"
          [] OTHER -> clients[u]]
  /\ pending' = [a \in Actors |-> IF a \in Users /\ clients'[a] = "freed"
                                  THEN <<>> ELSE pending[a]]
  /\ notifications' = [u \in Users |->
        IF clients'[u] = "freed" THEN <<>> ELSE notifications[u]]
  /\ pc' = "exit_close"
  /\ UNCHANGED <<todo, remaining, flushing, locked, issued, answered,
                 workerVars, dbVars>>

(* DBManager::CloseAll.                                                    *)
CloseAll ==
  /\ pc = "exit_close"
  /\ Closing' = [d \in Databases |-> Closing[d] \/ d \in DBMap]
  /\ handle' = [d \in Databases |->
        IF d \in DBMap THEN "deleted" ELSE handle[d]]
  /\ pc' = "halted"
  /\ UNCHANGED <<todo, remaining, flushing, running, clientVars, notifications,
                 workerVars, DBMap>>

-----------------------------------------------------------------------------
(* What clients and operators cause, what the main thread does on its own, *)
(* what a worker does.                                                     *)
Clients ==
  \/ \E u \in Users : AddUser(u) \/ Disconnect(u) \/ FlushCommand(u)
  \/ \E u \in Users, d \in Databases :
        \/ \E kind \in Kinds : Execute(u, d, kind)
        \/ \E e \in Databases : Transfer(u, d, e)
        \/ DBDelete(u, d)
  \/ \E d \in Databases : TimedFlush(d)
  \/ ExitBegin

Main ==
  \/ EndTimed \/ EndPhase \/ Reduce \/ GetResults \/ EndPending
  \/ \E t \in Threads : PendingGlobal(t) \/ \E u \in Users : PendingUser(t, u)
  \/ (\E d \in Databases : FlushMark(d)) \/ FlushClose \/ FlushOpen
  \/ ResetAll \/ (\E t \in Threads : Exit(t)) \/ ExitClients \/ CloseAll

Worker(t) ==
  \/ Take(t) \/ Lock(t) \/ Run(t) \/ Interrupt(t) \/ Batch(t) \/ Exhausted(t)
  \/ Unlock(t) \/ Attach(t) \/ ExitThread(t)

Next == Clients \/ ForceExits \/ Main \/ (\E t \in Threads : Worker(t))

Spec == Init /\ [][Next]_vars

(* The main loop never blocks, and leaves the phases that serve clients    *)
(* because one pass serves finitely many events (EndPhase is only enabled  *)
(* again and again when FLUSHDB interrupts the phase).  The clock shows an *)
(* even second again and again (ForceExits).  A paused worker polls its    *)
(* queue, so it sees the flusher resumed (Take).  A worker that can run    *)
(* runs.                                                                   *)
Fairness ==
  /\ WF_vars(Main)
  /\ SF_vars(EndPhase)
  /\ SF_vars(ForceExits)
  /\ \A t \in Threads : WF_vars(Worker(t)) /\ SF_vars(Take(t))

FairSpec == Spec /\ Fairness

-----------------------------------------------------------------------------
Working(t) == wpc[t] \in {"popped", "run", "leave", "attach"}

(* Every variable has its type; in particular only requests of known users *)
(* and databases travel through the queues.                                *)
TypeOK ==
  /\ pc \in MainPhases
  /\ todo \subseteq Users
  /\ remaining \subseteq Databases
  /\ flushing \subseteq Databases
  /\ running \in BOOLEAN
  /\ clients \in [Users -> ClientStates]
  /\ locked \in [Users -> BOOLEAN]
  /\ pending \in [Actors -> Seq(Requests)]
  /\ notifications \in [Users -> Seq(Results)]
  /\ queue \in [Threads -> Seq(Requests)]
  /\ exiting \subseteq Threads
  /\ wpc \in [Threads -> WorkerPhases]
  /\ current \in [Threads -> Requests \cup {NoRequest}]
  /\ \A t \in Threads : Working(t) => current[t] \in Requests
  /\ access \in [Threads -> AccessCodes]
  /\ parts \in [Threads -> Nat]
  /\ busy \in [Threads -> BOOLEAN]
  /\ query_mute \subseteq Threads
  /\ DBMap \subseteq Databases
  /\ Closing \in [Databases -> BOOLEAN]
  /\ handle \in [Databases -> {"open", "deleted"}]
  /\ issued \in [Actors -> Nat]
  /\ answered \in [Users -> Seq(Nat)]

(* A request of user u sits at place i of worker t: 0 is the request t has *)
(* popped, the others are positions of its queue.                          *)
At(t, i, u) ==
  \/ i = 0 /\ Working(t) /\ current[t].user = u
  \/ i \in DOMAIN queue[t] /\ queue[t][i].user = u

Finals(u) == {i \in DOMAIN notifications[u] : ~notifications[u][i].partial}

(* A worker holds a User* in every request it has queued or popped: that   *)
(* user's object is never handed to the Reducer, let alone deleted, while  *)
(* the request is in flight (DataThread::Process, AttachResult).           *)
NoUseAfterFree ==
  /\ \A t \in Threads : Working(t) /\ current[t].user \in Users =>
        clients[current[t].user] \in {"live", "awaiting"}
  /\ \A t \in Threads : \A i \in DOMAIN queue[t] : queue[t][i].user \in Users =>
        clients[queue[t][i].user] \in {"live", "awaiting"}

(* While a request of u is in flight, u is locked and not yet answered.    *)
InFlightLocked(u) ==
  \A t \in Threads : \A i \in 0 .. Len(queue[t]) :
    At(t, i, u) => locked[u] /\ Finals(u) = {}

OneInFlight(u) ==
  \A t, s \in Threads : \A i \in 0 .. Len(queue[t]), j \in 0 .. Len(queue[s]) :
    At(t, i, u) /\ At(s, j, u) => t = s /\ i = j

OneFinal(u) ==
  /\ Finals(u) # {} => locked[u]
  /\ \A i, j \in Finals(u) : i = j

(* The lock serialises a client's requests: across all worker queues, the  *)
(* workers themselves and its notifications there is at most one request   *)
(* of hers that has not been delivered, and she is locked while it is out. *)
Serial == \A u \in Users : InFlightLocked(u) /\ OneInFlight(u) /\ OneFinal(u)

(* A locked client's connection is never on its way to deletion: it is in  *)
(* clientlist or kept back in AwaitingExit (ClientManager::Disconnect).    *)
LockedStays == \A u \in Users : locked[u] => clients[u] \in {"live", "awaiting"}

(* Whatever waits in a client's notifications belongs to her oldest        *)
(* unanswered request, and the final part of an iteration comes last:      *)
(* batches of two requests never interleave in what GetResults delivers.   *)
StreamOrder ==
  \A u \in Users : \A i \in DOMAIN notifications[u] :
    LET r == notifications[u][i] IN
    /\ r.req.user = u
    /\ r.req.id = Len(answered[u]) + 1
    /\ ~r.partial => i = Len(notifications[u])

(* No query runs against a rocksdb handle that Database::Close has         *)
(* deleted, its own database's or, for TRANSFER, the target's.             *)
SafeHandle ==
  \A t \in Threads : wpc[t] = "run" =>
    /\ handle[current[t].db] = "open"
    /\ handle[current[t].target] = "open"

(* Database::Close is never applied to a handle it has already deleted.    *)
SingleClose ==
  /\ pc = "flush_close" => \A d \in flushing : handle[d] = "open"
  /\ pc = "exit_close" => \A d \in DBMap : handle[d] = "open"

(* The pipeline is the service of QueryService: in order, at most once and *)
(* only to connected clients, whatever the interleaving of main thread,    *)
(* workers, disconnections and shutdown.                                   *)
Service == INSTANCE QueryService WITH
  present <- Live,
  issued <- [u \in Users |-> issued[u]]

Implements == Service!Spec

(* A request of a client who stays is eventually answered.                 *)
Answered ==
  \A u \in Users, n \in 1 .. MaxReq :
    (issued[u] >= n) ~> (Len(answered[u]) >= n \/ clients[u] # "live")

(* A database that DBDELETE has started to close is eventually removed,    *)
(* unless somebody disconnects: the removal happens when the requester is  *)
(* answered (dbreset_query::Process).                                      *)
DropCompletes ==
  \A d \in Databases :
    (Closing[d] /\ d \in DBMap) ~> (d \notin DBMap \/ \E u \in Users : IsQuitting(u))

(* PrepareExit terminates: every worker sees its PROC_EXIT_THREAD, also    *)
(* the ones that were iterating or waiting for query_mute.                 *)
ShutdownCompletes == (pc = "exit_reset") ~> (pc = "halted")

(* A client who disconnected while locked is eventually deleted: that is   *)
(* what AwaitingExit and ForceExits are for.                               *)
AwaitingExitDrains ==
  \A u \in Users : (clients[u] = "awaiting") ~> (clients[u] = "freed")
=============================================================================
