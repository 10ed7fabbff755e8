------------------------ MODULE DataFlushHandleProofs -------------------------
(* When the pipeline is safe with the handles of its databases: for every  *)
(* set of clients and databases, every number of workers, and for the      *)
(* administrative commands the theorems name.                              *)
EXTENDS DataFlushProofs

-----------------------------------------------------------------------------
(* The requests there are.                                                 *)

(* Only the commands that are issued put requests into the queues, and     *)
(* only TRANSFER names a second database.                                  *)
LawfulRequest(r) ==
  /\ r.kind = "dbreset" => "DBDELETE" \in AdminOps
  /\ r.kind = "transfer" => "transfer" \in Kinds
  /\ r.kind # "transfer" => r.target = r.db

Lawful ==
  /\ \A a \in Actors : \A i \in DOMAIN pending[a] : LawfulRequest(pending[a][i])
  /\ \A t \in Threads : \A i \in DOMAIN queue[t] : LawfulRequest(queue[t][i])
  /\ \A t \in Threads : Working(t) => LawfulRequest(current[t])
  /\ \A u \in Users : \A i \in DOMAIN notifications[u] : LawfulRequest(notifications[u][i].req)

-----------------------------------------------------------------------------
(* query_mute excludes: who runs a query holds it.                         *)
Exclusive == \A t \in Threads : wpc[t] \in {"run", "leave"} => query_mute = {t}

(* PrepareExit closes databases when every worker has left.                *)
WorkersGone == pc \in {"exit_close", "halted"} => \A t \in Threads : wpc[t] = "exited"

(* FLUSHDB and FLUSHALL are not issued; if TRANSFER is, DBDELETE is not.   *)
NoFlush == AdminOps \cap {"FLUSHDB", "FLUSHALL"} = {}
NoDropUnderTransfer == "transfer" \in Kinds => "DBDELETE" \notin AdminOps

NotFlushing == pc \notin {"flush_mark", "flush_close", "flush_open"}

(* A handle that is gone belongs to a closing database, a query runs on    *)
(* databases that are not, and a DBDELETE that succeeded has closed its.   *)
DeletedClosing == \A d \in Databases : handle[d] = "deleted" => Closing[d]

RunsOpen ==
  \A t \in Threads : wpc[t] = "run" =>
    ~Closing[current[t].db] /\ ~Closing[current[t].target]

Drops(r, a) == r.kind = "dbreset" /\ a = "ok"

DropsClosing ==
  /\ \A t \in Threads :
        wpc[t] \in {"leave", "attach"} /\ Drops(current[t], access[t]) => Closing[current[t].db]
  /\ \A u \in Users : \A i \in DOMAIN notifications[u] :
        LET r == notifications[u][i] IN Drops(r.req, r.access) => Closing[r.req.db]

ClosedByDrop == "DBDELETE" \notin AdminOps /\ pc # "halted" => \A d \in Databases : ~Closing[d]

Handles == NotFlushing /\ DeletedClosing /\ RunsOpen /\ DropsClosing /\ ClosedByDrop

HInv ==
  /\ TypeOK /\ Lawful /\ Exclusive /\ WorkersGone
  /\ NoFlush /\ NoDropUnderTransfer => Handles

-----------------------------------------------------------------------------
(* No two databases are closed over each other.                            *)
NoFlushOfDropped == ~ ({"FLUSHDB", "DBDELETE"} \subseteq AdminOps)

Mapped ==
  /\ pc # "halted" => \A d \in DBMap :
        handle[d] = "open" \/ (pc = "flush_open" /\ d \in flushing)
  /\ remaining \cup flushing \subseteq DBMap
  /\ NotFlushing => remaining \cup flushing = {}
  /\ "DBDELETE" \notin AdminOps => DBMap = Databases

SInv == TypeOK /\ Lawful /\ (NoFlushOfDropped => Mapped)

-----------------------------------------------------------------------------
(* Requests stay lawful on their way.                                      *)

(* Steps that move no request.                                             *)
LEMMA FrameLawful ==
  ASSUME Lawful, UNCHANGED <<pending, queue, current, notifications>>,
         \A t \in Threads : Working(t)' => Working(t)
  PROVE  Lawful'
BY DEF Lawful, LawfulRequest

(* A command that names one database is not TRANSFER, and only DBDELETE    *)
(* and TRANSFER push what is of their kind.                                *)
LEMMA PushLawful ==
  ASSUME TypeOK, Lawful, NEW a \in Actors, NEW d, NEW e, NEW kind, Push(a, d, e, kind),
         kind = "dbreset" => "DBDELETE" \in AdminOps,
         kind = "transfer" => "transfer" \in Kinds,
         kind # "transfer" => e = d,
         UNCHANGED <<queue, wpc, current, notifications>>
  PROVE  Lawful'
<1> DEFINE req == [user |-> a, db |-> d, target |-> e, kind |-> kind, id |-> issued[a] + 1]
<1>1. LawfulRequest(req)
  BY DEF LawfulRequest
<1>2. pending[a] \in Seq(Requests) /\ pending' = [pending EXCEPT ![a] = Append(pending[a], req)]
  BY DEF Push, TypeOK
<1> HIDE DEF req
<1>3. \A i \in DOMAIN Append(pending[a], req) :
         \/ i \in DOMAIN pending[a] /\ Append(pending[a], req)[i] = pending[a][i]
         \/ Append(pending[a], req)[i] = req
  BY <1>2
<1>4. \A b \in Actors : \A i \in DOMAIN pending'[b] : LawfulRequest(pending'[b][i])
  BY <1>1, <1>2, <1>3 DEF Lawful, TypeOK
<1> QED
  BY <1>4 DEF Lawful, Working, LawfulRequest

(* GetPending moves the oldest pending request to the queue of a worker,   *)
(* or drops it.                                                            *)
LEMMA PostLawful ==
  ASSUME TypeOK, Lawful, NEW t \in Threads, NEW a \in Actors, pending[a] # <<>>,
         Post(t, a), UNCHANGED notifications
  PROVE  Lawful'
<1> DEFINE req == Head(pending[a])
<1>1. pending[a] \in Seq(Requests) /\ pending' = [pending EXCEPT ![a] = Tail(pending[a])]
  BY DEF Post, TypeOK
<1>2. LawfulRequest(req)
  BY <1>1 DEF Lawful
<1>3. \A b \in Actors : \A i \in DOMAIN pending'[b] : LawfulRequest(pending'[b][i])
  <2>1. \A i \in DOMAIN Tail(pending[a]) :
           i + 1 \in DOMAIN pending[a] /\ Tail(pending[a])[i] = pending[a][i + 1]
    BY <1>1
  <2> QED
    BY <1>1, <2>1 DEF Lawful, TypeOK
<1>4. queue' = queue \/ queue' = [queue EXCEPT ![t] = Append(queue[t], req)]
  BY DEF Post
<1> HIDE DEF req
<1>5. \A s \in Threads : \A i \in DOMAIN queue'[s] : LawfulRequest(queue'[s][i])
  <2>1. queue[t] \in Seq(Requests)
    BY DEF TypeOK
  <2>2. \A i \in DOMAIN Append(queue[t], req) :
           \/ i \in DOMAIN queue[t] /\ Append(queue[t], req)[i] = queue[t][i]
           \/ Append(queue[t], req)[i] = req
    BY <2>1
  <2> QED
    BY <1>2, <1>4, <2>2 DEF Lawful, TypeOK
<1>6. UNCHANGED <<wpc, current>>
  BY DEF Post
<1> QED
  BY <1>3, <1>5, <1>6 DEF Lawful, Working, LawfulRequest

(* A worker takes the oldest request of its queue (DataThread::Process).   *)
LEMMA TakeLawful ==
  ASSUME TypeOK, Lawful, NEW t \in Threads, Take(t)
  PROVE  Lawful'
<1>1. queue[t] \in Seq(Requests) /\ queue[t] # <<>>
  BY DEF Take, TypeOK
<1>2. /\ queue' = [queue EXCEPT ![t] = Tail(queue[t])] /\ current'[t] = queue[t][1]
      /\ \A s \in Threads : s # t => Working(s)' = Working(s) /\ current'[s] = current[s]
      /\ UNCHANGED <<pending, notifications>>
  BY <1>1 DEF Take, TypeOK, Working, clientVars
<1>3. \A i \in DOMAIN Tail(queue[t]) :
         i + 1 \in DOMAIN queue[t] /\ Tail(queue[t])[i] = queue[t][i + 1]
  BY <1>1
<1>4. \A s \in Threads : \A i \in DOMAIN queue'[s] : LawfulRequest(queue'[s][i])
  BY <1>2, <1>3 DEF Lawful, TypeOK
<1>5. LawfulRequest(current'[t])
  BY <1>1, <1>2 DEF Lawful
<1> QED
  BY <1>2, <1>4, <1>5 DEF Lawful, LawfulRequest

(* What a worker reports is the request it has run (AttachResult, and the  *)
(* batches of a scan).                                                     *)
LEMMA AttachLawful ==
  ASSUME TypeOK, Lawful, NEW t \in Threads, Batch(t) \/ Attach(t)
  PROVE  Lawful'
<1>1. UNCHANGED <<queue, pending>> /\ Working(t) /\ LawfulRequest(current[t])
  BY DEF Batch, Attach, clientVars, Working, Lawful
<1>2. \A s \in Threads : Working(s)' => Working(s) /\ current'[s] = current[s]
  BY DEF Batch, Attach, Working, TypeOK
<1>3. ASSUME NEW u \in Users, NEW i \in DOMAIN notifications'[u]
      PROVE  \/ i \in DOMAIN notifications[u] /\ notifications'[u][i] = notifications[u][i]
             \/ notifications'[u][i].req = current[t]
  <2>1. \/ notifications'[u] = notifications[u]
        \/ \E p \in BOOLEAN : notifications'[u] =
             Append(notifications[u], [req |-> current[t], access |-> access[t], partial |-> p])
    <3>1. CASE u # current[t].user
      BY <3>1 DEF Batch, Attach, AttachResult, TypeOK
    <3>2. CASE u = current[t].user
      BY <3>2 DEF Batch, Attach, AttachResult, TypeOK
    <3> QED
      BY <3>1, <3>2
  <2>2. notifications[u] \in Seq(Results)
    BY DEF TypeOK
  <2>3. CASE notifications'[u] = notifications[u]
    BY <2>3
  <2>4. ASSUME NEW p \in BOOLEAN, notifications'[u] =
             Append(notifications[u], [req |-> current[t], access |-> access[t], partial |-> p])
        PROVE  \/ i \in DOMAIN notifications[u] /\ notifications'[u][i] = notifications[u][i]
               \/ notifications'[u][i].req = current[t]
    <3> DEFINE r == [req |-> current[t], access |-> access[t], partial |-> p]
    <3>1. r.req = current[t]
      OBVIOUS
    <3> HIDE DEF r
    <3>2. notifications'[u] = Append(notifications[u], r)
      BY <2>4 DEF r
    <3>3. \/ i \in DOMAIN notifications[u] /\ notifications'[u][i] = notifications[u][i]
          \/ notifications'[u][i] = r
      BY <2>2, <3>2
    <3> QED
      BY <3>1, <3>3
  <2> QED
    BY <2>1, <2>3, <2>4
<1>4. \A u \in Users : \A i \in DOMAIN notifications'[u] : LawfulRequest(notifications'[u][i].req)
  BY <1>1, <1>3 DEF Lawful
<1> QED
  BY <1>1, <1>2, <1>4 DEF Lawful, LawfulRequest

(* Steps of the main thread that only take notifications away.             *)
LEMMA ForgetLawful ==
  ASSUME TypeOK, Lawful, GetResults \/ Reduce \/ ExitClients \/ ResetAll
  PROVE  Lawful'
<1>1. UNCHANGED <<queue, wpc, current>>
  BY DEF GetResults, Reduce, ExitClients, ResetAll, workerVars
<1>2. ASSUME NEW u \in Users, NEW i \in DOMAIN notifications'[u]
      PROVE  LawfulRequest(notifications'[u][i].req)
  <2>1. \/ notifications'[u] \in {<<>>, notifications[u]}
        \/ notifications[u] # <<>> /\ notifications'[u] = Tail(notifications[u])
    BY DEF GetResults, Delivering, Reduce, ExitClients, ResetAll
  <2>2. notifications[u] \in Seq(Results)
    BY DEF TypeOK
  <2>3. CASE notifications'[u] \in {<<>>, notifications[u]}
    BY <2>3 DEF Lawful
  <2>4. CASE notifications[u] # <<>> /\ notifications'[u] = Tail(notifications[u])
    <3>1. i + 1 \in DOMAIN notifications[u] /\ notifications'[u][i] = notifications[u][i + 1]
      BY <2>2, <2>4
    <3> QED
      BY <3>1 DEF Lawful
  <2> QED
    BY <2>1, <2>3, <2>4
<1>3. ASSUME NEW a \in Actors, NEW i \in DOMAIN pending'[a]
      PROVE  LawfulRequest(pending'[a][i])
  <2>1. CASE pending'[a] \in {<<>>, pending[a]}
    BY <2>1 DEF Lawful
  <2>2. CASE ResetAll
    <3> DEFINE emptied == [b \in Actors |->
                 IF b = Global \/ b \in Live THEN <<>> ELSE pending[b]]
               quiet(d) == [user |-> Global, db |-> d, target |-> d, kind |-> "quiet",
                            id |-> issued[Global] + 1]
    <3>1. emptied \in [Actors -> Seq(Requests)] /\ emptied[a] \in {<<>>, pending[a]}
      BY DEF TypeOK
    <3>2. \A d : LawfulRequest(quiet(d))
      BY DEF LawfulRequest
    <3>3. \/ pending' = emptied
          \/ \E d \in DBMap : pending' = [emptied EXCEPT ![Global] = <<quiet(d)>>]
      BY <2>2 DEF ResetAll
    <3> HIDE DEF emptied, quiet
    <3>4. CASE pending'[a] = emptied[a]
      BY <2>1, <3>1, <3>4
    <3>5. ASSUME NEW d \in DBMap, pending' = [emptied EXCEPT ![Global] = <<quiet(d)>>],
                 pending'[a] # emptied[a]
          PROVE  LawfulRequest(pending'[a][i])
      <4>1. pending'[a] = <<quiet(d)>>
        BY <3>1, <3>5
      <4>2. i = 1 /\ pending'[a][i] = quiet(d)
        BY <4>1
      <4> QED
        BY <3>2, <4>2
    <3> QED
      BY <3>3, <3>4, <3>5
  <2>3. CASE GetResults \/ Reduce \/ ExitClients
    <3>1. pending'[a] \in {<<>>, pending[a]}
      BY <2>3 DEF GetResults, Reduce, ExitClients
    <3> QED
      BY <2>1, <3>1
  <2> QED
    BY <2>2, <2>3
<1> QED
  BY <1>1, <1>2, <1>3 DEF Lawful, Working, LawfulRequest

(* Every request anybody holds is one the constants allow.                 *)
LEMMA LawfulStep == TypeOK /\ Lawful /\ [Next]_vars => Lawful'
<1> SUFFICES ASSUME TypeOK, Lawful, [Next]_vars PROVE Lawful'
  OBVIOUS
<1>1. CASE UNCHANGED vars
  BY <1>1, FrameLawful DEF vars, workerVars, clientVars, Working
<1>2. CASE Clients
  <2>1. CASE ExitBegin \/ \E u \in Users : AddUser(u) \/ Disconnect(u) \/ FlushCommand(u)
    BY <2>1, FrameLawful DEF AddUser, Disconnect, FlushCommand, ExitBegin, workerVars,
       clientVars, Working
  <2>2. ASSUME NEW d \in Databases, TimedFlush(d)
        PROVE  Lawful'
    BY <2>2, PushLawful DEF TimedFlush, Actors, workerVars
  <2>3. ASSUME NEW u \in Users, NEW d \in Databases, NEW e \in Databases, NEW kind,
               Command(u, d, e, kind),
               kind = "dbreset" => "DBDELETE" \in AdminOps,
               kind = "transfer" => "transfer" \in Kinds,
               kind # "transfer" => e = d
        PROVE  Lawful'
    BY <2>3, PushLawful DEF Command, Actors, workerVars
  <2>4. "dbreset" \notin Kinds
    BY ConstantsAssumption DEF AllKinds
  <2> QED
    BY <1>2, <2>1, <2>2, <2>3, <2>4 DEF Clients, Execute, Transfer, DBDelete
<1>3. CASE \/ ForceExits \/ EndTimed \/ EndPhase \/ EndPending \/ FlushClose \/ FlushOpen
           \/ CloseAll \/ (\E d \in Databases : FlushMark(d)) \/ (\E t \in Threads : Exit(t))
  BY <1>3, FrameLawful DEF ForceExits, EndTimed, EndPhase, EndPending, FlushClose,
     FlushOpen, CloseAll, FlushMark, Exit, workerVars, clientVars, Working
<1>4. CASE GetResults \/ Reduce \/ ExitClients \/ ResetAll
  BY <1>4, ForgetLawful
<1>5. ASSUME NEW t \in Threads, PendingGlobal(t) \/ \E u \in Users : PendingUser(t, u)
      PROVE  Lawful'
  BY <1>5, PostLawful DEF PendingGlobal, PendingUser, Actors
<1>6. ASSUME NEW t \in Threads, Worker(t)
      PROVE  Lawful'
  <2>1. CASE Lock(t) \/ Run(t) \/ Interrupt(t) \/ Exhausted(t) \/ Unlock(t) \/ ExitThread(t)
    <3>1. UNCHANGED <<queue, current, notifications, pending>>
      BY <2>1 DEF Lock, Run, Interrupt, Exhausted, Unlock, ExitThread, clientVars
    <3>2. \A s \in Threads : Working(s)' => Working(s)
      BY <2>1 DEF Lock, Run, Interrupt, Exhausted, Unlock, ExitThread, Working, TypeOK
    <3> QED
      BY <3>1, <3>2, FrameLawful
  <2> QED
    BY <1>6, <2>1, TakeLawful, AttachLawful DEF Worker
<1> QED
  BY <1>1, <1>2, <1>3, <1>4, <1>5, <1>6 DEF Next, Main

-----------------------------------------------------------------------------
(* query_mute.                                                             *)

(* Who enters takes query_mute when nobody holds it, who leaves gives it   *)
(* back.                                                                   *)
LEMMA ExclusiveStep == TypeOK /\ Exclusive /\ [Next]_vars => Exclusive'
<1> SUFFICES ASSUME TypeOK, Exclusive, [Next]_vars PROVE Exclusive'
  OBVIOUS
<1>1. CASE UNCHANGED <<wpc, query_mute>>
  BY <1>1 DEF Exclusive
<1>2. ASSUME NEW t \in Threads, Worker(t)
      PROVE  Exclusive'
  <2>1. CASE Lock(t)
    BY <2>1 DEF Lock, Exclusive, TypeOK
  <2>2. CASE Unlock(t)
    BY <2>2 DEF Unlock, Exclusive, TypeOK
  <2>3. CASE Take(t) \/ Run(t) \/ Interrupt(t) \/ Batch(t) \/ Exhausted(t) \/ Attach(t) \/ ExitThread(t)
    <3>1. query_mute' = query_mute
      BY <2>3 DEF Take, Run, Interrupt, Batch, Exhausted, Attach, ExitThread
    <3>2. \A s \in Threads : wpc'[s] \in {"run", "leave"} => wpc[s] \in {"run", "leave"}
      BY <2>3 DEF Take, Run, Interrupt, Batch, Exhausted, Attach, ExitThread, TypeOK
    <3> QED
      BY <3>1, <3>2 DEF Exclusive
  <2> QED
    BY <1>2, <2>1, <2>2, <2>3 DEF Worker
<1>3. CASE ~ \E t \in Threads : Worker(t)
  <2>1. UNCHANGED <<wpc, query_mute>>
    BY <1>3 DEF Next, Clients, Main, AddUser, Disconnect, FlushCommand, Execute, Transfer,
       DBDelete, Command, TimedFlush, ExitBegin, ForceExits, EndTimed, EndPhase, Reduce,
       GetResults, EndPending, PendingGlobal, PendingUser, Post, FlushMark, FlushClose,
       FlushOpen, ResetAll, Exit, ExitClients, CloseAll, vars, workerVars
  <2> QED
    BY <1>1, <2>1
<1> QED
  BY <1>2, <1>3

(* Databases are closed at exit when every worker has left                 *)
(* (PrepareExit joins them first).                                         *)
LEMMA WorkersGoneStep == TypeOK /\ WorkersGone /\ [Next]_vars => WorkersGone'
<1> SUFFICES ASSUME TypeOK, WorkersGone, [Next]_vars PROVE WorkersGone'
  OBVIOUS
<1>1. ASSUME NEW t \in Threads, Worker(t)
      PROVE  WorkersGone'
  <2>1. wpc[t] # "exited" /\ pc' = pc
    BY <1>1 DEF Worker, Take, Lock, Run, Interrupt, Batch, Exhausted, Unlock, Attach,
       ExitThread, mainVars
  <2> QED
    BY <2>1 DEF WorkersGone
<1>2. CASE ~ \E t \in Threads : Worker(t)
  <2>1. UNCHANGED wpc
    BY <1>2 DEF Next, Clients, Main, AddUser, Disconnect, FlushCommand, Execute, Transfer,
       DBDelete, Command, TimedFlush, ExitBegin, ForceExits, EndTimed, EndPhase, Reduce,
       GetResults, EndPending, PendingGlobal, PendingUser, Post, FlushMark, FlushClose,
       FlushOpen, ResetAll, Exit, ExitClients, CloseAll, vars, workerVars
  <2>2. pc' \in {"exit_close", "halted"} => pc \in {"exit_close", "halted"} \/ ExitClients
    BY <1>2 DEF Next, Clients, Main, AddUser, Disconnect, FlushCommand, Execute, Transfer,
       DBDelete, Command, TimedFlush, ExitBegin, ForceExits, EndTimed, EndPhase, Reduce,
       GetResults, EndPending, PendingGlobal, PendingUser, FlushMark, FlushClose,
       FlushOpen, ResetAll, Exit, CloseAll, vars, mainVars
  <2> QED
    BY <2>1, <2>2 DEF WorkersGone, ExitClients, Joined
<1> QED
  BY <1>1, <1>2

-----------------------------------------------------------------------------
(* Handles under DBDELETE and shutdown.                                    *)

(* Steps that touch no database and no worker, and forget notifications at *)
(* most.                                                                   *)
LEMMA FrameHandles ==
  ASSUME Handles, NotFlushing', UNCHANGED <<handle, Closing, wpc, current, access>>,
         pc = "halted" => pc' = "halted",
         \A u \in Users : notifications'[u] \in {<<>>, notifications[u]}
  PROVE  Handles'
<1>1. DeletedClosing' /\ RunsOpen' /\ ClosedByDrop'
  BY DEF Handles, DeletedClosing, RunsOpen, ClosedByDrop
<1>2. DropsClosing'
  BY DEF Handles, DropsClosing, Drops
<1> QED
  BY <1>1, <1>2 DEF Handles

(* What GetResults removes, a DBDELETE has closed before.                  *)
LEMMA GetResultsHandles ==
  ASSUME TypeOK, Handles, GetResults
  PROVE  Handles'
<1>1. UNCHANGED <<Closing, wpc, current, access>> /\ pc' = "pending" /\ pc = "results"
  BY DEF GetResults, workerVars
<1>2. ASSUME NEW d \in Removed
      PROVE  Closing[d]
  <2>1. PICK u \in Delivering :
           LET r == Head(notifications[u]) IN
             r.req.kind = "dbreset" /\ r.access = "ok" /\ r.req.db = d
    BY DEF Removed
  <2>2. u \in Users /\ notifications[u] \in Seq(Results) /\ notifications[u] # <<>>
    BY DEF Delivering, Live, TypeOK
  <2>3. 1 \in DOMAIN notifications[u] /\ Head(notifications[u]) = notifications[u][1]
    BY <2>2
  <2> QED
    BY <2>1, <2>2, <2>3 DEF Handles, DropsClosing, Drops
<1>3. DeletedClosing'
  BY <1>1, <1>2 DEF Handles, DeletedClosing, GetResults, DeleteRemoved
<1>4. RunsOpen' /\ ClosedByDrop' /\ NotFlushing'
  BY <1>1 DEF Handles, RunsOpen, ClosedByDrop, NotFlushing
<1>5. DropsClosing'
  <2> SUFFICES ASSUME NEW u \in Users, NEW i \in DOMAIN notifications'[u]
               PROVE  \E j \in DOMAIN notifications[u] : notifications'[u][i] = notifications[u][j]
    BY <1>1 DEF Handles, DropsClosing, Drops
  <2>1. notifications[u] \in Seq(Results)
    BY DEF TypeOK
  <2>2. CASE notifications'[u] = notifications[u]
    BY <2>2
  <2>3. CASE notifications[u] # <<>> /\ notifications'[u] = Tail(notifications[u])
    <3>1. i + 1 \in DOMAIN notifications[u] /\ notifications'[u][i] = notifications[u][i + 1]
      BY <2>1, <2>3
    <3> QED
      BY <3>1
  <2> QED
    BY <2>2, <2>3 DEF GetResults, Delivering
<1> QED
  BY <1>3, <1>4, <1>5 DEF Handles

(* A query starts when its database is not closing; a second one, only     *)
(* TRANSFER has, and then nobody closes any.                               *)
LEMMA LockHandles ==
  ASSUME TypeOK, Lawful, WorkersGone, NoDropUnderTransfer, Handles,
         NEW t \in Threads, Lock(t)
  PROVE  Handles'
<1>1. /\ UNCHANGED <<Closing, handle, current, notifications, pc>>
      /\ current[t] \in Requests /\ LawfulRequest(current[t]) /\ pc # "halted"
      /\ access'[t] = Outcome(current[t])
      /\ wpc'[t] = IF Outcome(current[t]) = "ok" THEN "run" ELSE "leave"
      /\ \A s \in Threads : s # t => wpc'[s] = wpc[s] /\ access'[s] = access[s]
  BY DEF Lock, TypeOK, Lawful, Working, WorkersGone, dbVars, mainVars
<1>2. ASSUME Outcome(current[t]) = "ok"
      PROVE  ~Closing[current[t].db] /\ ~Closing[current[t].target]
  <2>1. ~Closing[current[t].db]
    BY <1>2 DEF Outcome
  <2>2. current[t].kind = "transfer" => ~Closing[current[t].target]
    BY <1>1 DEF LawfulRequest, NoDropUnderTransfer, Handles, ClosedByDrop, Requests
  <2> QED
    BY <1>1, <2>1, <2>2 DEF LawfulRequest
<1>3. RunsOpen'
  BY <1>1, <1>2 DEF Handles, RunsOpen
<1>4. DropsClosing'
  BY <1>1 DEF Handles, DropsClosing, Drops
<1> QED
  BY <1>1, <1>3, <1>4 DEF Handles, DeletedClosing, ClosedByDrop, NotFlushing

(* A DBDELETE closes its database while nobody else runs.                  *)
LEMMA RunHandles ==
  ASSUME TypeOK, Lawful, Exclusive, Handles, NEW t \in Threads, Run(t)
  PROVE  Handles'
<1>1. /\ UNCHANGED <<handle, current, access, notifications, pc>>
      /\ current[t] \in Requests /\ LawfulRequest(current[t]) /\ wpc'[t] = "leave"
      /\ \A s \in Threads : s # t => wpc'[s] = wpc[s] /\ wpc[s] # "run"
  BY DEF Run, TypeOK, Lawful, Working, Exclusive, mainVars
<1>2. \A d \in Databases : /\ Closing[d] => Closing'[d]
                           /\ current[t].kind = "dbreset" /\ current[t].db = d => Closing'[d]
                           /\ Closing'[d] => Closing[d] \/ current[t].kind = "dbreset"
  BY DEF Run, TypeOK
<1>3. \A r \in Requests : r.db \in Databases
  BY DEF Requests
<1>4. RunsOpen'
  BY <1>1 DEF RunsOpen
<1>5. DropsClosing'
  <2>1. \A s \in Threads : wpc'[s] \in {"leave", "attach"} /\ Drops(current[s], access[s])
                           => Closing'[current[s].db]
    <3> SUFFICES ASSUME NEW s \in Threads, wpc'[s] \in {"leave", "attach"},
                        Drops(current[s], access[s])
                 PROVE  Closing'[current[s].db]
      OBVIOUS
    <3>1. CASE s = t
      BY <1>1, <1>2, <1>3, <3>1 DEF Drops
    <3>2. CASE s # t
      <4>1. Closing[current[s].db] /\ current[s] \in Requests
        BY <1>1, <3>2 DEF Handles, DropsClosing, TypeOK, Working
      <4> QED
        BY <1>2, <1>3, <4>1
    <3> QED
      BY <3>1, <3>2
  <2>2. \A u \in Users : \A i \in DOMAIN notifications[u] :
          LET r == notifications[u][i] IN Drops(r.req, r.access) => Closing'[r.req.db]
    <3> SUFFICES ASSUME NEW u \in Users, NEW i \in DOMAIN notifications[u],
                        Drops(notifications[u][i].req, notifications[u][i].access)
                 PROVE  Closing'[notifications[u][i].req.db]
      OBVIOUS
    <3>1. notifications[u][i].req \in Requests
      <4>1. notifications[u] \in Seq(Results)
        BY DEF TypeOK
      <4>2. notifications[u][i] \in Results
        BY <4>1
      <4> QED
        BY <4>2 DEF Results
    <3> QED
      BY <1>2, <1>3, <3>1 DEF Handles, DropsClosing
  <2> QED
    BY <1>1, <2>1, <2>2 DEF DropsClosing, Drops
<1>6. ClosedByDrop'
  BY <1>1, <1>2 DEF Handles, ClosedByDrop, LawfulRequest
<1> QED
  BY <1>1, <1>2, <1>4, <1>5, <1>6 DEF Handles, DeletedClosing, NotFlushing

(* A worker reports the outcome of the request it has run.                 *)
LEMMA ReportHandles ==
  ASSUME TypeOK, Handles, NEW t \in Threads, Batch(t) \/ Attach(t)
  PROVE  Handles'
<1>1. /\ UNCHANGED <<handle, Closing, pc>>
      /\ \A s \in Threads : wpc'[s] \in {"run", "leave", "attach"} =>
            wpc'[s] = wpc[s] /\ current'[s] = current[s] /\ access'[s] = access[s]
  BY DEF Batch, Attach, dbVars, mainVars, TypeOK
<1>2. Drops(current[t], access[t]) => Closing[current[t].db]
  BY DEF Batch, Attach, Handles, DropsClosing, Drops
<1>3. RunsOpen'
  BY <1>1 DEF Handles, RunsOpen
<1>4. ASSUME NEW u \in Users, NEW i \in DOMAIN notifications'[u],
             Drops(notifications'[u][i].req, notifications'[u][i].access)
      PROVE  Closing[notifications'[u][i].req.db]
  <2>1. \/ notifications'[u] = notifications[u]
        \/ \E p \in BOOLEAN : notifications'[u] =
             Append(notifications[u], [req |-> current[t], access |-> access[t], partial |-> p])
    <3>1. CASE u # current[t].user
      BY <3>1 DEF Batch, Attach, AttachResult, TypeOK
    <3>2. CASE u = current[t].user
      BY <3>2 DEF Batch, Attach, AttachResult, TypeOK
    <3> QED
      BY <3>1, <3>2
  <2>2. notifications[u] \in Seq(Results)
    BY DEF TypeOK
  <2>3. CASE notifications'[u] = notifications[u]
    BY <1>4, <2>3 DEF Handles, DropsClosing
  <2>4. ASSUME NEW p \in BOOLEAN, notifications'[u] =
             Append(notifications[u], [req |-> current[t], access |-> access[t], partial |-> p])
        PROVE  Closing[notifications'[u][i].req.db]
    <3> DEFINE r == [req |-> current[t], access |-> access[t], partial |-> p]
    <3>1. r.req = current[t] /\ r.access = access[t]
      OBVIOUS
    <3> HIDE DEF r
    <3>2. notifications'[u] = Append(notifications[u], r)
      BY <2>4 DEF r
    <3>3. \/ i \in DOMAIN notifications[u] /\ notifications'[u][i] = notifications[u][i]
          \/ notifications'[u][i] = r
      BY <2>2, <3>2
    <3>4. CASE i \in DOMAIN notifications[u] /\ notifications'[u][i] = notifications[u][i]
      BY <1>4, <3>4 DEF Handles, DropsClosing
    <3>5. CASE notifications'[u][i] = r
      BY <1>2, <1>4, <3>1, <3>5
    <3> QED
      BY <3>3, <3>4, <3>5
  <2> QED
    BY <2>1, <2>3, <2>4
<1>5. DropsClosing'
  BY <1>1, <1>4 DEF Handles, DropsClosing
<1> QED
  BY <1>1, <1>3, <1>5 DEF Handles, DeletedClosing, ClosedByDrop, NotFlushing

(* No step of any thread brings a query and a closed handle together.      *)
LEMMA HandlesStep ==
  ASSUME TypeOK, Lawful, Exclusive, WorkersGone, NoFlush, NoDropUnderTransfer, Handles,
         [Next]_vars
  PROVE  Handles'
<1>1. NotFlushing
  BY DEF Handles
<1>2. CASE UNCHANGED vars
  BY <1>1, <1>2, FrameHandles DEF vars, mainVars, workerVars, dbVars, NotFlushing
<1>3. CASE Clients \/ ForceExits
  <2>1. \A u \in Users : ~FlushCommand(u)
    BY DEF FlushCommand, NoFlush
  <2>2. /\ UNCHANGED <<handle, Closing, wpc, current, access, notifications>>
        /\ pc # "halted" /\ NotFlushing'
    BY <1>1, <1>3, <2>1 DEF Clients, ForceExits, AddUser, Disconnect, Execute, Transfer,
       DBDelete, Command, Turn, TimedFlush, ExitBegin, NotFlushing, mainVars, workerVars, dbVars
  <2> QED
    BY <2>2, FrameHandles
<1>4. CASE \/ EndTimed \/ EndPhase \/ EndPending \/ (\E t \in Threads : Exit(t))
           \/ \E t \in Threads : PendingGlobal(t) \/ \E u \in Users : PendingUser(t, u)
  <2>1. /\ UNCHANGED <<handle, Closing, wpc, current, access, notifications>>
        /\ pc # "halted" /\ NotFlushing'
    BY <1>1, <1>4 DEF EndTimed, EndPhase, EndPending, Exit, PendingGlobal, PendingUser, Post,
       NotFlushing, mainVars, workerVars, dbVars
  <2> QED
    BY <2>1, FrameHandles
<1>5. CASE Reduce \/ ResetAll \/ ExitClients
  <2>1. /\ UNCHANGED <<handle, Closing, wpc, current, access>>
        /\ pc # "halted" /\ NotFlushing'
        /\ \A u \in Users : notifications'[u] \in {<<>>, notifications[u]}
    BY <1>1, <1>5 DEF Reduce, ResetAll, ExitClients, NotFlushing, workerVars, dbVars
  <2> QED
    BY <2>1, FrameHandles
<1>6. CASE GetResults
  BY <1>6, GetResultsHandles
<1>7. ~FlushClose /\ ~FlushOpen /\ \A d \in Databases : ~FlushMark(d)
  BY <1>1 DEF FlushClose, FlushOpen, FlushMark, NotFlushing
<1>8. CASE CloseAll
  <2>1. /\ UNCHANGED <<wpc, current, access, notifications>> /\ pc' = "halted"
        /\ \A t \in Threads : wpc[t] = "exited"
        /\ \A d \in Databases : Closing[d] => Closing'[d]
        /\ \A d \in Databases : handle'[d] = "deleted" => Closing'[d]
    BY <1>8 DEF CloseAll, WorkersGone, workerVars, TypeOK, Handles, DeletedClosing
  <2>2. DropsClosing'
    <3> SUFFICES ASSUME NEW u \in Users, NEW i \in DOMAIN notifications[u],
                        Drops(notifications[u][i].req, notifications[u][i].access)
                 PROVE  Closing'[notifications[u][i].req.db]
      BY <2>1 DEF DropsClosing, Drops
    <3>1. notifications[u][i].req.db \in Databases
      <4>1. notifications[u] \in Seq(Results)
        BY DEF TypeOK
      <4>2. notifications[u][i] \in Results
        BY <4>1
      <4> QED
        BY <4>2 DEF Results, Requests
    <3> QED
      BY <2>1, <3>1 DEF Handles, DropsClosing
  <2> QED
    BY <2>1, <2>2 DEF Handles, DeletedClosing, RunsOpen, ClosedByDrop, NotFlushing
<1>9. ASSUME NEW t \in Threads, Worker(t)
      PROVE  Handles'
  <2>1. CASE Take(t) \/ Interrupt(t) \/ Exhausted(t) \/ Unlock(t) \/ ExitThread(t)
    <3>1. UNCHANGED <<handle, Closing, notifications, pc>>
      BY <2>1 DEF Take, Interrupt, Exhausted, Unlock, ExitThread, dbVars, mainVars
    <3>2. \A s \in Threads :
            /\ wpc'[s] = "run" => wpc[s] = "run" /\ current'[s] = current[s]
            /\ wpc'[s] \in {"leave", "attach"} =>
                 /\ current'[s] = current[s]
                 /\ \/ wpc[s] \in {"leave", "attach"} /\ access'[s] = access[s]
                    \/ current[s].kind = "scan"
      BY <2>1 DEF Take, Interrupt, Exhausted, Unlock, ExitThread, TypeOK
    <3>3. RunsOpen'
      BY <3>1, <3>2 DEF Handles, RunsOpen
    <3>4. DropsClosing'
      BY <3>1, <3>2 DEF Handles, DropsClosing, Drops
    <3> QED
      BY <3>1, <3>3, <3>4 DEF Handles, DeletedClosing, ClosedByDrop, NotFlushing
  <2> QED
    BY <1>9, <2>1, LockHandles, RunHandles, ReportHandles DEF Worker
<1> QED
  BY <1>2, <1>3, <1>4, <1>5, <1>6, <1>7, <1>8, <1>9 DEF Next, Main

(* The invariant of the handles.                                           *)
LEMMA HandleInvariant == Spec => []HInv
<1>1. Init => HInv
  <2> SUFFICES ASSUME Init PROVE HInv
    OBVIOUS
  <2>1. TypeOK
    BY InitType
  <2> QED
    BY <2>1 DEF Init, HInv, Lawful, Exclusive, WorkersGone, Handles, NotFlushing, DeletedClosing,
       RunsOpen, DropsClosing, ClosedByDrop, Working
<1>2. HInv /\ [Next]_vars => HInv'
  <2> SUFFICES ASSUME HInv, [Next]_vars PROVE HInv'
    OBVIOUS
  <2>1. TypeOK' /\ Lawful' /\ Exclusive' /\ WorkersGone'
    BY TypeStep, LawfulStep, ExclusiveStep, WorkersGoneStep DEF HInv
  <2>2. NoFlush /\ NoDropUnderTransfer => Handles'
    BY HandlesStep DEF HInv
  <2> QED
    BY <2>1, <2>2 DEF HInv, NoFlush, NoDropUnderTransfer
<1> QED
  BY <1>1, <1>2, PTL DEF Spec

(* Where FLUSHDB and FLUSHALL are not used, and TRANSFER not together with *)
(* DBDELETE, no query ever runs against a handle that Database::Close has  *)
(* deleted: not under DBDELETE of the same database, not at shutdown.      *)
THEOREM QueriesRunOnOpenHandles == Spec => [](NoFlush /\ NoDropUnderTransfer => SafeHandle)
<1>1. HInv => (NoFlush /\ NoDropUnderTransfer => SafeHandle)
  <2> SUFFICES ASSUME HInv, NoFlush, NoDropUnderTransfer, NEW t \in Threads, wpc[t] = "run"
               PROVE  handle[current[t].db] = "open" /\ handle[current[t].target] = "open"
    BY DEF SafeHandle
  <2>1. Handles /\ TypeOK
    BY DEF HInv
  <2>2. current[t].db \in Databases /\ current[t].target \in Databases
    BY <2>1 DEF TypeOK, Working, Requests
  <2> QED
    BY <2>1, <2>2 DEF Handles, DeletedClosing, RunsOpen, TypeOK
<1> QED
  BY <1>1, HandleInvariant, PTL

-----------------------------------------------------------------------------
(* Closing a database once.                                                *)

(* Steps that touch no database outside FLUSHDB and FLUSHALL.              *)
LEMMA FrameMapped ==
  ASSUME Mapped, UNCHANGED <<handle, DBMap, remaining, flushing>>,
         pc = "halted" => pc' = "halted", pc = "flush_open" => pc' = "flush_open",
         NotFlushing' => NotFlushing
  PROVE  Mapped'
BY DEF Mapped

(* DBMap keeps naming open databases while nobody both flushes and drops   *)
(* (DBManager::Delete, FLUSHDB, FLUSHALL).                                 *)
LEMMA MappedStep ==
  ASSUME TypeOK, Lawful, NoFlushOfDropped, Mapped, [Next]_vars
  PROVE  Mapped'
<1>1. CASE UNCHANGED vars
  BY <1>1, FrameMapped DEF vars, mainVars, dbVars, NotFlushing
<1>2. CASE Clients \/ ForceExits
  <2>1. CASE \E u \in Users : FlushCommand(u)
    <3>1. /\ UNCHANGED <<handle, DBMap, flushing>> /\ pc = "commands" /\ pc' = "flush_mark"
          /\ remaining' \subseteq DBMap
      BY <2>1 DEF FlushCommand, Turn, dbVars, Mapped, NoFlushOfDropped
    <3> QED
      BY <3>1 DEF Mapped, NotFlushing
  <2>2. CASE ~ \E u \in Users : FlushCommand(u)
    <3>1. /\ UNCHANGED <<handle, DBMap, remaining, flushing>>
          /\ pc # "halted" /\ pc # "flush_open" /\ NotFlushing
      BY <1>2, <2>2 DEF Clients, ForceExits, AddUser, Disconnect, Execute, Transfer,
         DBDelete, Command, Turn, TimedFlush, ExitBegin, NotFlushing, mainVars, dbVars
    <3> QED
      BY <3>1, FrameMapped
  <2> QED
    BY <2>1, <2>2
<1>3. CASE \/ EndTimed \/ EndPhase \/ EndPending \/ Reduce \/ ResetAll \/ ExitClients
           \/ (\E t \in Threads : Exit(t))
           \/ \E t \in Threads : PendingGlobal(t) \/ \E u \in Users : PendingUser(t, u)
  <2>1. /\ UNCHANGED <<handle, DBMap, remaining, flushing>>
        /\ pc # "halted" /\ pc # "flush_open" /\ NotFlushing
    BY <1>3 DEF EndTimed, EndPhase, EndPending, Reduce, ResetAll, ExitClients, Exit,
       PendingGlobal, PendingUser, NotFlushing, mainVars, dbVars
  <2> QED
    BY <2>1, FrameMapped
<1>4. CASE \E t \in Threads : Worker(t)
  <2>1. UNCHANGED <<handle, DBMap, remaining, flushing, pc>>
    BY <1>4 DEF Worker, Take, Lock, Run, Interrupt, Batch, Exhausted, Unlock, Attach,
       ExitThread, mainVars, dbVars
  <2> QED
    BY <2>1, FrameMapped DEF NotFlushing
<1>5. CASE GetResults
  <2>1. /\ pc = "results" /\ pc' = "pending" /\ UNCHANGED <<remaining, flushing>>
        /\ DBMap' = DBMap \ Removed
        /\ \A d \in Databases \ Removed : handle'[d] = handle[d]
    BY <1>5 DEF GetResults, DeleteRemoved
  <2>2. "DBDELETE" \notin AdminOps => Removed = {}
    <3> SUFFICES ASSUME NEW d \in Removed PROVE "DBDELETE" \in AdminOps
      OBVIOUS
    <3>1. PICK u \in Delivering : Head(notifications[u]).req.kind = "dbreset"
      BY DEF Removed
    <3>2. u \in Users /\ notifications[u] \in Seq(Results) /\ notifications[u] # <<>>
      BY DEF Delivering, Live, TypeOK
    <3>3. 1 \in DOMAIN notifications[u] /\ Head(notifications[u]) = notifications[u][1]
      BY <3>2
    <3> QED
      BY <3>1, <3>2, <3>3 DEF Lawful, LawfulRequest
  <2>3. remaining = {} /\ flushing = {}
    BY <2>1 DEF Mapped, NotFlushing
  <2> QED
    BY <2>1, <2>2, <2>3 DEF Mapped, TypeOK, NotFlushing
<1>6. ASSUME NEW d \in Databases, FlushMark(d)
      PROVE  Mapped'
  BY <1>6 DEF FlushMark, NotFlushing, Mapped
<1>7. CASE FlushClose
  BY <1>7 DEF FlushClose, NotFlushing, Mapped, TypeOK, dbVars
<1>8. CASE FlushOpen
  BY <1>8 DEF FlushOpen, NotFlushing, Mapped, TypeOK
<1>9. CASE CloseAll
  BY <1>9 DEF CloseAll, NotFlushing, Mapped
<1> QED
  BY <1>1, <1>2, <1>3, <1>4, <1>5, <1>6, <1>7, <1>8, <1>9 DEF Next, Main

(* The invariant of DBMap.                                                 *)
LEMMA MappedInvariant == Spec => []SInv
<1>1. Init => SInv
  <2> SUFFICES ASSUME Init PROVE SInv
    OBVIOUS
  <2>1. TypeOK
    BY InitType
  <2> QED
    BY <2>1 DEF Init, SInv, Lawful, Working, Mapped
<1>2. SInv /\ [Next]_vars => SInv'
  <2> SUFFICES ASSUME SInv, [Next]_vars PROVE SInv'
    OBVIOUS
  <2>1. TypeOK' /\ Lawful'
    BY TypeStep, LawfulStep DEF SInv
  <2>2. NoFlushOfDropped => Mapped'
    BY MappedStep DEF SInv
  <2> QED
    BY <2>1, <2>2 DEF SInv, NoFlushOfDropped
<1> QED
  BY <1>1, <1>2, PTL DEF Spec

(* Where FLUSHDB and DBDELETE are not both used, Database::Close is never  *)
(* applied to a handle it has already deleted: FLUSHDB alone can name a    *)
(* database that DBManager::Delete has taken from DBMap.                   *)
THEOREM DatabasesCloseOnce == Spec => [](NoFlushOfDropped => SingleClose)
<1>1. SInv => (NoFlushOfDropped => SingleClose)
  BY DEF SInv, Mapped, SingleClose
<1> QED
  BY <1>1, MappedInvariant, PTL
=============================================================================
