--------------------------- MODULE DataFlushProofs ---------------------------
(* Theorems about DataFlush, for every set of clients and databases and    *)
(* every number of workers.                                                *)
EXTENDS DataFlush, TLAPS

USE ConstantsAssumption DEF AllKinds, AllAdminOps

-----------------------------------------------------------------------------
(* Type correctness.                                                       *)

(* An initial state has every variable in its type.                        *)
LEMMA InitType == Init => TypeOK
BY DEF Init, TypeOK, Working, Actors, Threads, MainPhases, ClientStates, WorkerPhases,
       AccessCodes, Results, Requests, ReqKinds, NoRequest

(* Push appends a request of the pushing user to its pending queue.        *)
LEMMA PushType ==
  ASSUME TypeOK,
         NEW a \in Actors, NEW d \in Databases, NEW e \in Databases,
         NEW kind \in ReqKinds, Push(a, d, e, kind)
  PROVE  /\ pending' \in [Actors -> Seq(Requests)]
         /\ issued' \in [Actors -> Nat]
<1> DEFINE req == [user |-> a, db |-> d, target |-> e, kind |-> kind,
                   id |-> issued[a] + 1]
<1>1. req \in Requests
  BY DEF TypeOK, Requests, Actors
<1>2. pending' = [pending EXCEPT ![a] = Append(pending[a], req)]
  BY DEF Push
<1>3. pending[a] \in Seq(Requests)
  BY DEF TypeOK
<1>4. Append(pending[a], req) \in Seq(Requests)
  BY <1>1, <1>3
<1>5. pending' \in [Actors -> Seq(Requests)]
  BY <1>2, <1>4 DEF TypeOK
<1>6. issued' \in [Actors -> Nat]
  BY DEF TypeOK, Push
<1> QED
  BY <1>5, <1>6

(* What a worker attaches to the notifications of its request's user.      *)
LEMMA AttachType ==
  ASSUME TypeOK, NEW t \in Threads, Working(t), NEW p \in BOOLEAN,
         AttachResult(t, p)
  PROVE  notifications' \in [Users -> Seq(Results)]
<1> DEFINE u == current[t].user
           r == [req |-> current[t], access |-> access[t], partial |-> p]
<1>1. r \in Results
  BY DEF TypeOK, Results
<1>2. notifications' = [notifications EXCEPT ![u] = Append(notifications[u], r)]
  BY DEF AttachResult
<1>3. CASE u \in Users
  <2>1. notifications[u] \in Seq(Results)
    BY <1>3 DEF TypeOK
  <2>2. Append(notifications[u], r) \in Seq(Results)
    BY <1>1, <2>1
  <2> QED
    BY <1>2, <2>2, <1>3 DEF TypeOK
<1>4. CASE u \notin Users
  BY <1>2, <1>4 DEF TypeOK
<1> QED
  BY <1>3, <1>4

(* Post moves the oldest pending request of a to the queue of worker t, or *)
(* refuses it; either way every queue keeps its type.                      *)
PostTyped ==
  /\ pending \in [Actors -> Seq(Requests)]
  /\ queue \in [Threads -> Seq(Requests)]
  /\ locked \in [Users -> BOOLEAN]
  /\ answered \in [Users -> Seq(Nat)]

LEMMA PostType ==
  ASSUME TypeOK, NEW t \in Threads, NEW a \in Actors, pending[a] # <<>>,
         Post(t, a)
  PROVE  PostTyped'
<1> DEFINE req == Head(pending[a])
<1>1. pending[a] \in Seq(Requests)
  BY DEF TypeOK
<1>2. req \in Requests /\ Tail(pending[a]) \in Seq(Requests)
  BY <1>1
<1>3. pending' = [pending EXCEPT ![a] = Tail(pending[a])]
  BY DEF Post
<1>4. pending' \in [Actors -> Seq(Requests)]
  BY <1>2, <1>3 DEF TypeOK
<1>5. queue' \in [Threads -> Seq(Requests)]
  <2>1. queue[t] \in Seq(Requests)
    BY DEF TypeOK
  <2>2. Append(queue[t], req) \in Seq(Requests)
    BY <2>1, <1>2
  <2>3. queue' = queue \/ queue' = [queue EXCEPT ![t] = Append(queue[t], req)]
    BY DEF Post
  <2>4. queue \in [Threads -> Seq(Requests)]
    BY DEF TypeOK
  <2> QED
    BY <2>2, <2>3, <2>4
<1>6. answered' \in [Users -> Seq(Nat)]
  <2>1. req.id \in Nat
    BY <1>2 DEF Requests
  <2>2. \A u \in Users : Append(answered[u], req.id) \in Seq(Nat)
    BY <2>1 DEF TypeOK
  <2>3. \/ answered' = answered
        \/ answered' = [u \in Users |->
             IF u = a THEN Append(answered[u], req.id) ELSE answered[u]]
    BY DEF Post
  <2>4. answered \in [Users -> Seq(Nat)]
    BY DEF TypeOK
  <2>5. CASE answered' = answered
    BY <2>4, <2>5
  <2>6. CASE answered' = [u \in Users |->
               IF u = a THEN Append(answered[u], req.id) ELSE answered[u]]
    <3>1. \A u \in Users : (IF u = a THEN Append(answered[u], req.id)
                                     ELSE answered[u]) \in Seq(Nat)
      BY <2>2, <2>4
    <3> HIDE DEF req
    <3> QED
      BY <2>6, <3>1
  <2> QED
    BY <2>3, <2>5, <2>6
<1>7. locked' \in [Users -> BOOLEAN]
  BY DEF Post, Locking, TypeOK
<1> QED
  BY <1>4, <1>5, <1>6, <1>7 DEF PostTyped


(* Every step of the specification keeps every variable in its type.       *)
LEMMA TypeStep == TypeOK /\ [Next]_vars => TypeOK'
<1> SUFFICES ASSUME TypeOK, [Next]_vars PROVE TypeOK'
  OBVIOUS
<1> USE DEF Working
<1>1. CASE UNCHANGED vars
  BY <1>1 DEF TypeOK, vars, mainVars, clientVars, workerVars, dbVars
<1>2. ASSUME NEW u \in Users, AddUser(u)
       PROVE  TypeOK'
  BY <1>2 DEF AddUser, Live, ClientStates, TypeOK, mainVars, clientVars, workerVars, dbVars
<1>3. ASSUME NEW u \in Users, Disconnect(u)
       PROVE  TypeOK'
  BY <1>3 DEF Disconnect, Live, ClientStates, TypeOK, mainVars, clientVars, workerVars, dbVars
<1>4. ASSUME NEW u \in Users, FlushCommand(u)
       PROVE  TypeOK'
  BY <1>4 DEF FlushCommand, Turn, Live, MainPhases, TypeOK, mainVars, clientVars, workerVars, dbVars
<1>5. ASSUME NEW u \in Users, NEW d \in Databases, NEW e \in Databases, NEW kind \in ReqKinds,
            Command(u, d, e, kind)
       PROVE  TypeOK'
  <2>1. u \in Actors
    BY DEF Actors
  <2>2. pending' \in [Actors -> Seq(Requests)] /\ issued' \in [Actors -> Nat]
    BY <1>5, <2>1, PushType DEF Command
  <2> QED
    BY <1>5, <2>2 DEF Command, Turn, TypeOK, mainVars, clientVars, workerVars, dbVars
<1>6. ASSUME NEW d \in Databases, TimedFlush(d)
       PROVE  TypeOK'
  <2>1. Global \in Actors /\ "quiet" \in ReqKinds
    BY DEF Actors, ReqKinds
  <2>2. pending' \in [Actors -> Seq(Requests)] /\ issued' \in [Actors -> Nat]
    BY <1>6, <2>1, PushType DEF TimedFlush
  <2> QED
    BY <1>6, <2>2 DEF TimedFlush, TypeOK, mainVars, clientVars, workerVars, dbVars
<1>7. ASSUME ExitBegin
       PROVE  TypeOK'
  BY <1>7 DEF ExitBegin, MainPhases, TypeOK, mainVars, clientVars, workerVars, dbVars
<1>8. ASSUME ForceExits
       PROVE  TypeOK'
  BY <1>8 DEF ForceExits, Live, MainPhases, ClientStates, TypeOK, mainVars, clientVars, workerVars, dbVars
<1>9. ASSUME EndTimed
       PROVE  TypeOK'
  BY <1>9 DEF EndTimed, Live, MainPhases, TypeOK, mainVars, clientVars, workerVars, dbVars
<1>10. ASSUME EndPhase
       PROVE  TypeOK'
  BY <1>10 DEF EndPhase, MainPhases, TypeOK, mainVars, clientVars, workerVars, dbVars
<1>11. ASSUME Reduce
       PROVE  TypeOK'
  BY <1>11 DEF Reduce, MainPhases, ClientStates, TypeOK, mainVars, clientVars, workerVars, dbVars
<1>12. ASSUME GetResults
       PROVE  TypeOK'
  <2>1. notifications' \in [Users -> Seq(Results)]
    <3>1. \A u \in Delivering : Tail(notifications[u]) \in Seq(Results)
      BY DEF TypeOK, Delivering, Live
    <3> QED
      BY <1>12, <3>1 DEF GetResults, TypeOK
  <2>2. answered' \in [Users -> Seq(Nat)]
    <3>1. ASSUME NEW u \in Users, Final(u)
          PROVE  Append(answered[u], Head(notifications[u]).req.id) \in Seq(Nat)
      <4>1. Head(notifications[u]) \in Results
        BY <3>1 DEF TypeOK, Final, Delivering, Live
      <4>2. Head(notifications[u]).req.id \in Nat
        BY <4>1 DEF Results, Requests
      <4>3. answered[u] \in Seq(Nat)
        BY DEF TypeOK
      <4> QED
        BY <4>2, <4>3
    <3> QED
      BY <1>12, <3>1 DEF GetResults, TypeOK
  <2>3. handle' \in [Databases -> {"open", "deleted"}] /\ DBMap' \subseteq Databases
    BY <1>12 DEF GetResults, DeleteRemoved, TypeOK
  <2> QED
    BY <1>12, <2>1, <2>2, <2>3
       DEF GetResults, Live, MainPhases, TypeOK, mainVars, clientVars, workerVars, dbVars
<1>13. ASSUME EndPending
       PROVE  TypeOK'
  BY <1>13 DEF EndPending, MainPhases, TypeOK, mainVars, clientVars, workerVars, dbVars
<1>14. ASSUME NEW t \in Threads, PendingGlobal(t)
       PROVE  TypeOK'
  <2>1. Global \in Actors /\ pending[Global] # <<>>
    BY <1>14 DEF PendingGlobal, Actors
  <2>2. PostTyped'
    BY <1>14, <2>1, PostType DEF PendingGlobal
  <2> QED
    BY <1>14, <2>2 DEF PendingGlobal, Post, PostTyped, MainPhases, TypeOK, mainVars, clientVars, workerVars, dbVars
<1>15. ASSUME NEW t \in Threads, NEW u \in Users, PendingUser(t, u)
       PROVE  TypeOK'
  <2>1. u \in Actors /\ pending[u] # <<>>
    BY <1>15 DEF PendingUser, Actors
  <2>2. PostTyped'
    BY <1>15, <2>1, PostType DEF PendingUser
  <2> QED
    BY <1>15, <2>2 DEF PendingUser, Post, PostTyped, MainPhases, TypeOK, mainVars, clientVars, workerVars, dbVars
<1>16. ASSUME NEW d \in Databases, FlushMark(d)
       PROVE  TypeOK'
  BY <1>16 DEF FlushMark, MainPhases, TypeOK, mainVars, clientVars, workerVars, dbVars
<1>17. ASSUME FlushClose
       PROVE  TypeOK'
  BY <1>17 DEF FlushClose, MainPhases, TypeOK, mainVars, clientVars, workerVars, dbVars
<1>18. ASSUME FlushOpen
       PROVE  TypeOK'
  BY <1>18 DEF FlushOpen, MainPhases, TypeOK, mainVars, clientVars, workerVars, dbVars
<1>19. ASSUME ResetAll
       PROVE  TypeOK'
  <2>1. pending' \in [Actors -> Seq(Requests)] /\ issued' \in [Actors -> Nat]
    <3> DEFINE emptied == [a \in Actors |->
                 IF a = Global \/ a \in Live THEN <<>> ELSE pending[a]]
    <3>1. emptied \in [Actors -> Seq(Requests)]
      BY DEF TypeOK
    <3>2. CASE pending' = emptied /\ UNCHANGED issued
      BY <3>1, <3>2 DEF TypeOK
    <3>3. ASSUME NEW d \in DBMap,
                 issued' = [issued EXCEPT ![Global] = @ + 1],
                 pending' = [emptied EXCEPT ![Global] =
                   <<[user |-> Global, db |-> d, target |-> d, kind |-> "quiet",
                      id |-> issued[Global] + 1]>>]
          PROVE  pending' \in [Actors -> Seq(Requests)] /\ issued' \in [Actors -> Nat]
      <4> DEFINE req == [user |-> Global, db |-> d, target |-> d, kind |-> "quiet",
                         id |-> issued[Global] + 1]
      <4>1. issued[Global] \in Nat /\ d \in Databases
        BY DEF TypeOK, Actors
      <4>2. req \in Requests
        BY <4>1 DEF Requests, ReqKinds
      <4>3. <<req>> \in Seq(Requests)
        BY <4>2
      <4>4. pending' \in [Actors -> Seq(Requests)]
        BY <3>1, <3>3, <4>3
      <4> QED
        BY <3>3, <4>4 DEF TypeOK
    <3> QED
      BY <1>19, <3>2, <3>3 DEF ResetAll
  <2>2. notifications' \in [Users -> Seq(Results)]
    BY <1>19 DEF ResetAll, TypeOK
  <2> QED
    BY <1>19, <2>1, <2>2 DEF ResetAll, MainPhases, TypeOK, mainVars, clientVars, workerVars, dbVars
<1>20. ASSUME NEW t \in Threads, Exit(t)
       PROVE  TypeOK'
  BY <1>20 DEF Exit, TypeOK, mainVars, clientVars, workerVars, dbVars
<1>21. ASSUME ExitClients
       PROVE  TypeOK'
  <2>1. clients' \in [Users -> ClientStates]
    BY <1>21 DEF ExitClients, TypeOK, ClientStates
  <2>2. pending' \in [Actors -> Seq(Requests)]
    BY <1>21 DEF ExitClients, TypeOK
  <2>3. notifications' \in [Users -> Seq(Results)]
    BY <1>21 DEF ExitClients, TypeOK
  <2> QED
    BY <1>21, <2>1, <2>2, <2>3 DEF ExitClients, MainPhases, TypeOK, mainVars, clientVars, workerVars, dbVars
<1>22. ASSUME CloseAll
       PROVE  TypeOK'
  BY <1>22 DEF CloseAll, MainPhases, TypeOK, mainVars, clientVars, workerVars, dbVars
<1>23. ASSUME NEW t \in Threads, Take(t)
       PROVE  TypeOK'
  <2>1. queue[t] \in Seq(Requests) /\ queue[t] # <<>>
    BY <1>23 DEF Take, TypeOK
  <2>2. Head(queue[t]) \in Requests /\ Tail(queue[t]) \in Seq(Requests)
    BY <2>1
  <2>3. queue' \in [Threads -> Seq(Requests)]
    BY <1>23, <2>2 DEF Take, TypeOK
  <2>4. /\ current' \in [Threads -> Requests \cup {NoRequest}]
        /\ wpc' \in [Threads -> WorkerPhases]
        /\ \A s \in Threads : Working(s)' => current'[s] \in Requests
    BY <1>23, <2>2 DEF Take, TypeOK, WorkerPhases
  <2> QED
    BY <1>23, <2>3, <2>4 DEF Take, TypeOK, mainVars, clientVars, workerVars, dbVars
<1>24. ASSUME NEW t \in Threads, Lock(t)
       PROVE  TypeOK'
  BY <1>24 DEF Lock, Outcome, AccessCodes, WorkerPhases, TypeOK, mainVars, clientVars, workerVars, dbVars
<1>25. ASSUME NEW t \in Threads, Run(t)
       PROVE  TypeOK'
  BY <1>25 DEF Run, WorkerPhases, TypeOK, mainVars, clientVars, workerVars, dbVars
<1>26. ASSUME NEW t \in Threads, Interrupt(t)
       PROVE  TypeOK'
  BY <1>26 DEF Interrupt, AccessCodes, WorkerPhases, TypeOK, mainVars, clientVars, workerVars, dbVars
<1>27. ASSUME NEW t \in Threads, Batch(t)
       PROVE  TypeOK'
  <2>1. notifications' \in [Users -> Seq(Results)]
    BY <1>27, AttachType DEF Batch
  <2> QED
    BY <1>27, <2>1 DEF Batch, TypeOK, mainVars, clientVars, workerVars, dbVars
<1>28. ASSUME NEW t \in Threads, Exhausted(t)
       PROVE  TypeOK'
  BY <1>28 DEF Exhausted, WorkerPhases, TypeOK, mainVars, clientVars, workerVars, dbVars
<1>29. ASSUME NEW t \in Threads, Unlock(t)
       PROVE  TypeOK'
  BY <1>29 DEF Unlock, WorkerPhases, TypeOK, mainVars, clientVars, workerVars, dbVars
<1>30. ASSUME NEW t \in Threads, Attach(t)
       PROVE  TypeOK'
  <2>1. notifications' \in [Users -> Seq(Results)]
    BY <1>30, AttachType DEF Attach, TypeOK
  <2> QED
    BY <1>30, <2>1 DEF Attach, AccessCodes, WorkerPhases, TypeOK, mainVars, clientVars, workerVars, dbVars
<1>31. ASSUME NEW t \in Threads, ExitThread(t)
       PROVE  TypeOK'
  BY <1>31 DEF ExitThread, WorkerPhases, TypeOK, mainVars, clientVars, workerVars, dbVars
<1>32. CASE Clients
  <2>1. \A kind \in Kinds : kind \in ReqKinds
    BY DEF ReqKinds
  <2>2. "transfer" \in ReqKinds /\ "dbreset" \in ReqKinds
    BY DEF ReqKinds
  <2> QED
    BY <1>32, <1>2, <1>3, <1>4, <1>5, <1>6, <1>7, <2>1, <2>2
       DEF Clients, Execute, Transfer, DBDelete
<1>33. CASE Main
  BY <1>33, <1>9, <1>10, <1>11, <1>12, <1>13, <1>14, <1>15, <1>16, <1>17, <1>18, <1>19, <1>20, <1>21, <1>22
     DEF Main
<1>34. CASE \E t \in Threads : Worker(t)
  BY <1>34, <1>23, <1>24, <1>25, <1>26, <1>27, <1>28, <1>29, <1>30, <1>31
     DEF Worker
<1> QED
  BY <1>1, <1>8, <1>32, <1>33, <1>34 DEF Next

(* TypeOK is an invariant of the pipeline.                                 *)
THEOREM TypeCorrect == Spec => []TypeOK
<1>1. Init => TypeOK
  BY InitType
<1>2. TypeOK /\ [Next]_vars => TypeOK'
  BY TypeStep
<1> QED
  BY <1>1, <1>2, PTL DEF Spec

-----------------------------------------------------------------------------
(* The ownership of User objects.  Serial and LockedStays hold each other  *)
(* up: a request in flight means a locked user, and a locked user is not   *)
(* deleted; a user is unlocked by the final notification only, and while   *)
(* that one waits there is no request of hers left in flight.              *)

(* What waits in the pending queue of a user was pushed by her, so the     *)
(* user that GetPending locks is the one the posted request names.         *)
Owned == \A a \in Actors : \A i \in DOMAIN pending[a] : pending[a][i].user = a

(* Nobody leaves clientlist during the pass of GetPending.                 *)
Visiting == pc = "pending" => todo \subseteq Live

IInv == TypeOK /\ Owned /\ Visiting /\ Serial /\ LockedStays

(* Steps that move no request, attach no result and lock nobody.           *)
LEMMA FrameSerial ==
  ASSUME Serial, UNCHANGED <<queue, current, notifications, locked>>,
         \A t \in Threads : Working(t)' = Working(t)
  PROVE  Serial'
<1>1. \A t \in Threads : \A i, u : At(t, i, u)' = At(t, i, u)
  BY DEF At
<1>2. \A u : Finals(u)' = Finals(u)
  BY DEF Finals
<1> QED
  BY <1>1, <1>2 DEF Serial, InFlightLocked, OneInFlight, OneFinal

(* Posting adds one place, for a user who was unlocked and is locked now.  *)
LEMMA PostSerial ==
  ASSUME TypeOK, Owned, Serial, NEW t \in Threads, NEW a \in Actors,
         pending[a] # <<>>, a \in Users => ~locked[a], Post(t, a),
         UNCHANGED notifications
  PROVE  Serial'
<1> DEFINE req == Head(pending[a])
<1>1. Global \notin Users
  BY ConstantsAssumption
<1>2. pending[a] \in Seq(Requests) /\ req \in Requests /\ req.user = a
  BY DEF TypeOK, Owned
<1>3. UNCHANGED <<wpc, current>> /\ \A u : Finals(u)' = Finals(u)
  BY DEF Post, Finals
<1>4. CASE UNCHANGED <<queue, locked>>
  BY <1>3, <1>4, FrameSerial DEF Working
<1>5. CASE queue' = [queue EXCEPT ![t] = Append(queue[t], req)] /\ locked' = Locking(a)
  <2>1. queue \in [Threads -> Seq(Requests)]
    BY DEF TypeOK
  <2>2. Len(queue'[t]) = Len(queue[t]) + 1 /\ queue'[t][Len(queue[t]) + 1] = req
    BY <1>2, <1>5, <2>1
  <2>3. \A i \in 1 .. Len(queue[t]) : queue'[t][i] = queue[t][i]
    BY <1>2, <1>5, <2>1
  <2>4. \A s \in Threads : s # t => queue'[s] = queue[s]
    BY <1>5, <2>1
  <2> HIDE DEF req
  <2>5. \A s \in Threads, u \in Users : \A i \in 0 .. Len(queue'[s]) : At(s, i, u)' =>
           \/ i \in 0 .. Len(queue[s]) /\ At(s, i, u)
           \/ s = t /\ i = Len(queue[t]) + 1 /\ u = a
    BY <1>2, <1>3, <2>1, <2>2, <2>3, <2>4 DEF At, Working
  <2>6. \A u \in Users : locked'[u] = (locked[u] \/ u = a)
    BY <1>5 DEF Locking
  <2>7. a \in Users => /\ Finals(a) = {}
                       /\ \A s \in Threads : \A i \in 0 .. Len(queue[s]) : ~At(s, i, a)
    BY DEF Serial, InFlightLocked, OneFinal
  <2>8. ASSUME NEW u \in Users
        PROVE  InFlightLocked(u)'
    BY <1>3, <2>5, <2>6, <2>7 DEF Serial, InFlightLocked
  <2>9. ASSUME NEW u \in Users
        PROVE  OneInFlight(u)'
    BY <2>5, <2>7 DEF Serial, OneInFlight
  <2>10. ASSUME NEW u \in Users
         PROVE  OneFinal(u)'
    BY <1>3, <2>6 DEF Serial, OneFinal
  <2> QED
    BY <2>8, <2>9, <2>10 DEF Serial
<1> QED
  BY <1>4, <1>5 DEF Post

(* Popping moves a request from the first place of the queue to place 0    *)
(* and every other request of that queue one place forward.                *)
LEMMA TakeSerial ==
  ASSUME TypeOK, Serial, NEW t \in Threads, Take(t)
  PROVE  Serial'
<1>1. UNCHANGED locked /\ \A u : Finals(u)' = Finals(u)
  BY DEF Take, Finals, clientVars
<1>2. queue \in [Threads -> Seq(Requests)] /\ queue[t] # <<>>
  BY DEF TypeOK, Take
<1>3. /\ queue'[t] = Tail(queue[t]) /\ current'[t] = queue[t][1]
      /\ ~Working(t)
      /\ \A s \in Threads : s # t => /\ queue'[s] = queue[s]
                                     /\ current'[s] = current[s]
                                     /\ Working(s)' = Working(s)
  BY <1>2 DEF Take, TypeOK, Working
<1>4. /\ Len(queue'[t]) = Len(queue[t]) - 1
      /\ \A i \in 1 .. Len(queue'[t]) : queue'[t][i] = queue[t][i + 1]
  BY <1>2, <1>3
<1> DEFINE was(s, i) == IF s = t THEN i + 1 ELSE i
<1>5. \A s \in Threads, u \in Users : \A i \in 0 .. Len(queue'[s]) : At(s, i, u)' =>
         was(s, i) \in 0 .. Len(queue[s]) /\ At(s, was(s, i), u)
  <2> SUFFICES ASSUME NEW s \in Threads, NEW u \in Users,
                      NEW i \in 0 .. Len(queue'[s]), At(s, i, u)'
               PROVE  was(s, i) \in 0 .. Len(queue[s]) /\ At(s, was(s, i), u)
    OBVIOUS
  <2>1. CASE s # t
    BY <1>2, <1>3, <2>1 DEF At
  <2>2. CASE s = t /\ i = 0
    BY <1>2, <1>3, <1>4, <2>2 DEF At
  <2>3. CASE s = t /\ i # 0
    <3>1. queue[t] \in Seq(Requests) /\ i \in 1 .. Len(queue'[t])
      BY <1>2, <2>3
    <3>2. queue'[t][i].user = u
      BY <2>3 DEF At
    <3>3. i + 1 \in 1 .. Len(queue[t]) /\ queue[t][i + 1].user = u
      BY <1>4, <3>1, <3>2
    <3>4. At(t, i + 1, u)
      BY <3>1, <3>3 DEF At
    <3> QED
      BY <2>3, <3>1, <3>3, <3>4
  <2> QED
    BY <2>1, <2>2, <2>3
<1>6. \A s, r \in Threads : \A i, j \in Nat :
         s = r /\ was(s, i) = was(r, j) => i = j
  OBVIOUS
<1> HIDE DEF was
<1>7. ASSUME NEW u \in Users
      PROVE  InFlightLocked(u)'
  BY <1>1, <1>5 DEF Serial, InFlightLocked
<1>8. ASSUME NEW u \in Users
      PROVE  OneInFlight(u)'
  BY <1>2, <1>4, <1>5, <1>6 DEF Serial, OneInFlight
<1>9. ASSUME NEW u \in Users
      PROVE  OneFinal(u)'
  BY <1>1 DEF Serial, OneFinal
<1> QED
  BY <1>7, <1>8, <1>9 DEF Serial

(* A partial result leaves the request in flight.                          *)
LEMMA BatchSerial ==
  ASSUME TypeOK, Serial, NEW t \in Threads, Batch(t)
  PROVE  Serial'
<1>1. UNCHANGED <<locked, queue, wpc, current>>
  BY DEF Batch, clientVars
<1>2. \A s \in Threads : \A i, u : At(s, i, u)' = At(s, i, u)
  BY <1>1 DEF At, Working
<1>3. ASSUME NEW u \in Users
      PROVE  Finals(u)' = Finals(u)
  BY SMTT(40) DEF Batch, AttachResult, Finals, TypeOK
<1> QED
  BY <1>1, <1>2, <1>3 DEF Serial, InFlightLocked, OneInFlight, OneFinal

(* The final result takes the place of the request it answers.             *)
LEMMA AttachSerial ==
  ASSUME TypeOK, Serial, NEW t \in Threads, Attach(t)
  PROVE  Serial'
<1>0. PICK a : a = current[t].user
  OBVIOUS
<1>1. UNCHANGED <<locked, queue>>
  BY DEF Attach, clientVars
<1>2. \A s \in Threads : \A i, u : At(s, i, u)' => At(s, i, u) /\ <<s, i>> # <<t, 0>>
  BY <1>1 DEF Attach, At, Working, TypeOK
<1>3. At(t, 0, a) /\ queue[t] \in Seq(Requests)
  BY <1>0 DEF Attach, At, Working, TypeOK
<1>4. ASSUME NEW u \in Users, u # a
      PROVE  Finals(u)' = Finals(u)
  BY <1>0, <1>4 DEF Attach, AttachResult, Finals, TypeOK
<1>5. ASSUME a \in Users
      PROVE  /\ locked[a] /\ Finals(a) = {}
             /\ \A s \in Threads : \A i \in 0 .. Len(queue[s]) : ~At(s, i, a)'
             /\ \A i, j \in Finals(a)' : i = j
  <2>1. locked[a] /\ Finals(a) = {}
    BY <1>3, <1>5 DEF Serial, InFlightLocked
  <2>2. \A s \in Threads : \A i \in 0 .. Len(queue[s]) : At(s, i, a) => s = t /\ i = 0
    BY <1>3, <1>5 DEF Serial, OneInFlight
  <2>3. notifications[a] \in Seq(Results)
    BY <1>5 DEF TypeOK
  <2>4. \/ notifications'[a] = notifications[a]
        \/ \E r : notifications'[a] = Append(notifications[a], r)
    BY <1>0, <1>5 DEF Attach, AttachResult, TypeOK
  <2>5. \A i \in DOMAIN notifications'[a] :
           \/ i \in DOMAIN notifications[a] /\ notifications'[a][i] = notifications[a][i]
           \/ i = Len(notifications[a]) + 1
    BY <2>3, <2>4
  <2>6. \A i \in Finals(a)' : i = Len(notifications[a]) + 1
    BY <2>1, <2>5 DEF Finals
  <2> QED
    BY <1>2, <2>1, <2>2, <2>6
<1>6. ASSUME NEW u \in Users
      PROVE  InFlightLocked(u)'
  BY <1>1, <1>2, <1>4, <1>5 DEF Serial, InFlightLocked
<1>7. ASSUME NEW u \in Users
      PROVE  OneInFlight(u)'
  BY <1>1, <1>2 DEF Serial, OneInFlight
<1>8. ASSUME NEW u \in Users
      PROVE  OneFinal(u)'
  BY <1>1, <1>4, <1>5 DEF Serial, OneFinal
<1> QED
  BY <1>6, <1>7, <1>8 DEF Serial

(* Steps of the main thread that shorten notifications and unlock only     *)
(* users without a request in flight or a final notification.              *)
LEMMA SettleSerial ==
  ASSUME Serial, UNCHANGED <<queue, wpc, current>>,
         \A u \in Users :
           \/ /\ locked'[u] = locked[u]
              /\ Finals(u) = {} => Finals(u)' = {}
              /\ \A i, j \in Finals(u)' : i = j
           \/ /\ Finals(u)' = {}
              /\ \A t \in Threads : \A i \in 0 .. Len(queue[t]) : ~At(t, i, u)
  PROVE  Serial'
<1>1. \A t \in Threads : \A i, u : At(t, i, u)' = At(t, i, u)
  BY DEF At, Working
<1>2. ASSUME NEW u \in Users
      PROVE  InFlightLocked(u)' /\ OneInFlight(u)' /\ OneFinal(u)'
  BY <1>1 DEF Serial, InFlightLocked, OneInFlight, OneFinal
<1> QED
  BY <1>2 DEF Serial

LEMMA ReduceStep ==
  ASSUME TypeOK, Owned, Serial, LockedStays, Reduce
  PROVE  Owned' /\ Serial' /\ LockedStays'
<1>1. UNCHANGED <<queue, wpc, current>>
  BY DEF Reduce, workerVars
<1>2. ASSUME NEW u \in Users, u \notin Leaving
      PROVE  locked'[u] = locked[u] /\ Finals(u)' = Finals(u)
  BY <1>2 DEF Reduce, Finals, TypeOK
<1>3. ASSUME NEW u \in Leaving
      PROVE  /\ Finals(u)' = {}
             /\ \A t \in Threads : \A i \in 0 .. Len(queue[t]) : ~At(t, i, u)
  <2>1. u \in Users /\ ~locked[u] /\ notifications'[u] = <<>>
    BY DEF Leaving, LockedStays, Reduce
  <2> QED
    BY <2>1 DEF Serial, InFlightLocked, Finals
<1>4. Serial'
  BY <1>1, <1>2, <1>3, SettleSerial DEF Serial, OneFinal
<1>5. LockedStays'
  BY DEF Reduce, LockedStays, Leaving, TypeOK
<1>6. Owned'
  BY DEF Reduce, Owned, TypeOK
<1> QED
  BY <1>4, <1>5, <1>6

LEMMA GetResultsStep ==
  ASSUME TypeOK, Owned, Serial, LockedStays, GetResults
  PROVE  Owned' /\ Serial' /\ LockedStays'
<1>1. UNCHANGED <<queue, wpc, current, clients, pending>>
  BY DEF GetResults, workerVars
<1>2. ASSUME NEW u \in Users, ~Final(u)
      PROVE  /\ locked'[u] = locked[u]
             /\ Finals(u) = {} => Finals(u)' = {}
             /\ \A i, j \in Finals(u)' : i = j
  <2>1. locked'[u] = locked[u] /\ notifications[u] \in Seq(Results)
    BY <1>2 DEF GetResults, TypeOK
  <2>2. CASE u \notin Delivering
    BY <2>1, <2>2 DEF GetResults, Finals, Serial, OneFinal
  <2>3. CASE u \in Delivering
    <3>1. notifications'[u] = Tail(notifications[u]) /\ notifications[u] # <<>>
      BY <2>3 DEF GetResults, Delivering
    <3>2. \A i \in DOMAIN notifications'[u] : /\ i \in Nat
                                              /\ i + 1 \in DOMAIN notifications[u]
                                              /\ notifications'[u][i] = notifications[u][i + 1]
      BY <2>1, <3>1
    <3>3. \A i \in Finals(u)' : i \in Nat /\ i + 1 \in Finals(u)
      BY <3>2 DEF Finals
    <3>4. \A i, j \in Finals(u) : i = j
      BY DEF Serial, OneFinal
    <3> QED
      BY <2>1, <3>3, <3>4
  <2> QED
    BY <2>2, <2>3
<1>3. ASSUME NEW u \in Users, Final(u)
      PROVE  /\ Finals(u)' = {}
             /\ \A t \in Threads : \A i \in 0 .. Len(queue[t]) : ~At(t, i, u)
  <2>1. notifications[u] \in Seq(Results) /\ notifications[u] # <<>>
    BY <1>3 DEF TypeOK, Final, Delivering
  <2>2. 1 \in Finals(u)
    BY <1>3, <2>1 DEF Final, Finals
  <2>3. \A i \in Finals(u) : i = 1
    BY <2>2 DEF Serial, OneFinal
  <2>4. notifications'[u] = Tail(notifications[u])
    BY <1>3 DEF GetResults, Final
  <2>5. \A i \in DOMAIN notifications'[u] : /\ i + 1 \in DOMAIN notifications[u]
                                            /\ i + 1 # 1
                                            /\ notifications'[u][i] = notifications[u][i + 1]
    BY <2>1, <2>4
  <2>6. Finals(u)' = {}
    BY <2>3, <2>5 DEF Finals
  <2> QED
    BY <2>2, <2>6 DEF Serial, InFlightLocked
<1>4. Serial'
  BY <1>1, <1>2, <1>3, SettleSerial
<1>5. LockedStays'
  BY <1>1 DEF GetResults, LockedStays
<1> QED
  BY <1>1, <1>4, <1>5 DEF Owned

(* ResetAll and ExitClients forget notifications and keep every lock.      *)
LEMMA ResetStep ==
  ASSUME TypeOK, Owned, Serial, LockedStays, ResetAll \/ ExitClients
  PROVE  Owned' /\ Serial' /\ LockedStays'
<1>1. UNCHANGED <<queue, wpc, current, locked>>
  BY DEF ResetAll, ExitClients, workerVars
<1>2. ASSUME NEW u \in Users
      PROVE  Finals(u)' = {} \/ Finals(u)' = Finals(u)
  BY DEF ResetAll, ExitClients, Finals
<1>3. Serial'
  BY <1>1, <1>2, SettleSerial DEF Serial, OneFinal
<1>4. LockedStays'
  BY <1>1 DEF ResetAll, ExitClients, LockedStays, TypeOK
<1>5. Owned'
  <2>1. CASE ExitClients
    BY <2>1 DEF ExitClients, Owned, TypeOK
  <2>2. CASE ResetAll
    <3>1. ASSUME NEW a \in Actors
          PROVE  \/ pending'[a] \in {<<>>, pending[a]}
                 \/ a = Global /\ \E r : pending'[a] = <<r>> /\ r.user = Global
      <4> DEFINE emptied == [b \in Actors |->
                   IF b = Global \/ b \in Live THEN <<>> ELSE pending[b]]
      <4> DEFINE quiet(d) == [user |-> Global, db |-> d, target |-> d,
                              kind |-> "quiet", id |-> issued[Global] + 1]
      <4>1. emptied \in [Actors -> Seq(Requests)]
        BY DEF TypeOK
      <4>2. \/ pending' = emptied
            \/ \E d \in DBMap : pending' = [emptied EXCEPT ![Global] = <<quiet(d)>>]
        BY <2>2 DEF ResetAll
      <4>3. emptied[a] \in {<<>>, pending[a]}
        OBVIOUS
      <4>4. \A d : quiet(d).user = Global
        OBVIOUS
      <4> HIDE DEF emptied, quiet
      <4>5. CASE pending' = emptied
        BY <4>3, <4>5
      <4>6. ASSUME NEW d \in DBMap, pending' = [emptied EXCEPT ![Global] = <<quiet(d)>>]
            PROVE  \/ pending'[a] \in {<<>>, pending[a]}
                   \/ a = Global /\ \E q : pending'[a] = <<q>> /\ q.user = Global
        <5>1. a # Global => pending'[a] = emptied[a]
          BY <4>1, <4>6
        <5>2. a = Global => pending'[a] = <<quiet(d)>>
          BY <4>1, <4>6
        <5> QED
          BY <4>3, <4>4, <5>1, <5>2
      <4> QED
        BY <4>2, <4>5, <4>6
    <3> QED
      BY <3>1 DEF Owned
  <2> QED
    BY <2>1, <2>2
<1> QED
  BY <1>3, <1>4, <1>5

(* A user who pushes has pushed a request of her own.                      *)
LEMMA PushOwned ==
  ASSUME TypeOK, Owned, NEW a \in Actors, NEW d, NEW e, NEW kind, Push(a, d, e, kind)
  PROVE  Owned'
<1> DEFINE req == [user |-> a, db |-> d, target |-> e, kind |-> kind,
                   id |-> issued[a] + 1]
<1>1. pending[a] \in Seq(Requests) /\ pending' = [pending EXCEPT ![a] = Append(pending[a], req)]
  BY DEF Push, TypeOK
<1>2. req.user = a
  OBVIOUS
<1> HIDE DEF req
<1>3. \A i \in DOMAIN Append(pending[a], req) :
         \/ i \in DOMAIN pending[a] /\ Append(pending[a], req)[i] = pending[a][i]
         \/ Append(pending[a], req)[i] = req
  BY <1>1
<1> QED
  BY <1>1, <1>2, <1>3 DEF Owned, TypeOK

LEMMA PostOwned ==
  ASSUME TypeOK, Owned, NEW t \in Threads, NEW a \in Actors, pending[a] # <<>>,
         Post(t, a)
  PROVE  Owned'
<1>1. pending[a] \in Seq(Requests) /\ pending' = [pending EXCEPT ![a] = Tail(pending[a])]
  BY DEF Post, TypeOK
<1>2. \A i \in DOMAIN Tail(pending[a]) :
         i + 1 \in DOMAIN pending[a] /\ Tail(pending[a])[i] = pending[a][i + 1]
  BY <1>1
<1> QED
  BY <1>1, <1>2 DEF Owned, TypeOK

(* Posting locks a client of clientlist, so she is live.                   *)
LEMMA PendingStep ==
  ASSUME TypeOK, Owned, Visiting, Serial, LockedStays,
         \E t \in Threads : PendingGlobal(t) \/ \E u \in Users : PendingUser(t, u)
  PROVE  Owned' /\ Serial' /\ LockedStays'
<1>1. PICK t \in Threads, a \in Actors :
         /\ Post(t, a) /\ pending[a] # <<>> /\ UNCHANGED <<notifications, clients>>
         /\ a \in Users => ~locked[a] /\ a \in Live
  BY ConstantsAssumption DEF PendingGlobal, PendingUser, Actors, Visiting
<1>2. Owned'
  BY <1>1, PostOwned
<1>3. Serial'
  BY <1>1, PostSerial
<1>4. LockedStays'
  BY <1>1 DEF Post, Locking, LockedStays, Live, TypeOK
<1> QED
  BY <1>2, <1>3, <1>4

LEMMA VisitingStep == TypeOK /\ Visiting /\ [Next]_vars => Visiting'
<1> SUFFICES ASSUME TypeOK, Visiting, [Next]_vars PROVE Visiting'
  OBVIOUS
<1> USE DEF Visiting
<1>1. CASE UNCHANGED vars
  BY <1>1 DEF vars, mainVars, clientVars, Live
<1>2. CASE Clients
  BY <1>2 DEF Clients, AddUser, Disconnect, FlushCommand, Execute, Transfer, DBDelete,
     Command, Turn, TimedFlush, ExitBegin, mainVars, clientVars, Live
<1>3. CASE ForceExits
  BY <1>3 DEF ForceExits
<1>4. CASE EndTimed \/ EndPhase \/ Reduce \/ GetResults \/ EndPending
  BY <1>4 DEF EndTimed, EndPhase, Reduce, GetResults, EndPending, clientVars, Live
<1>5. CASE \E t \in Threads : PendingGlobal(t) \/ \E u \in Users : PendingUser(t, u)
  BY <1>5 DEF PendingGlobal, PendingUser, Live
<1>6. CASE (\E d \in Databases : FlushMark(d)) \/ FlushClose \/ FlushOpen
  BY <1>6 DEF FlushMark, FlushClose, FlushOpen
<1>7. CASE ResetAll \/ (\E t \in Threads : Exit(t)) \/ ExitClients \/ CloseAll
  BY <1>7 DEF ResetAll, Exit, ExitClients, CloseAll, mainVars
<1>8. CASE \E t \in Threads : Worker(t)
  BY <1>8 DEF Worker, Take, Lock, Run, Interrupt, Batch, Exhausted, Unlock, Attach,
     ExitThread, mainVars, clientVars, Live
<1> QED
  BY <1>1, <1>2, <1>3, <1>4, <1>5, <1>6, <1>7, <1>8 DEF Next, Main

(* Every step preserves ownership and serialisation.                       *)
LEMMA IStep == IInv /\ [Next]_vars => IInv'
<1> SUFFICES ASSUME IInv, [Next]_vars PROVE Owned' /\ Serial' /\ LockedStays'
  BY TypeStep, VisitingStep DEF IInv
<1> USE DEF IInv
<1>1. CASE UNCHANGED vars
  <2>1. Serial'
    BY <1>1, FrameSerial DEF vars, workerVars, clientVars, Working
  <2> QED
    BY <1>1, <2>1 DEF vars, clientVars, Owned, LockedStays
<1>2. CASE Clients
  <2>1. UNCHANGED <<queue, wpc, current, notifications, locked>>
    BY <1>2 DEF Clients, AddUser, Disconnect, FlushCommand, Execute, Transfer, DBDelete,
       Command, Turn, TimedFlush, ExitBegin, workerVars, clientVars
  <2>2. Serial'
    BY <2>1, FrameSerial DEF Working
  <2>3. LockedStays'
    BY <1>2 DEF Clients, AddUser, Disconnect, FlushCommand, Execute, Transfer, DBDelete,
       Command, Turn, TimedFlush, ExitBegin, clientVars, Live, LockedStays, TypeOK
  <2>4. Owned'
    <3>1. CASE \E a \in Actors : \E d, e, kind : Push(a, d, e, kind)
      BY <3>1, PushOwned
    <3>2. CASE UNCHANGED pending
      BY <3>2 DEF Owned
    <3> QED
      BY <1>2, <3>1, <3>2 DEF Clients, AddUser, Disconnect, FlushCommand, Execute, Transfer,
         DBDelete, Command, TimedFlush, ExitBegin, clientVars, Actors
  <2> QED
    BY <2>2, <2>3, <2>4
<1>3. CASE ForceExits
  <2>1. Serial'
    BY <1>3, FrameSerial DEF ForceExits, workerVars, Working
  <2> QED
    BY <1>3, <2>1 DEF ForceExits, workerVars, Owned, LockedStays, TypeOK
<1>4. CASE \/ EndTimed \/ EndPhase \/ EndPending \/ FlushClose \/ FlushOpen \/ CloseAll
           \/ (\E d \in Databases : FlushMark(d)) \/ (\E t \in Threads : Exit(t))
  <2>1. UNCHANGED <<queue, wpc, current, notifications, locked, clients, pending>>
    BY <1>4 DEF EndTimed, EndPhase, EndPending, FlushClose, FlushOpen, CloseAll, FlushMark,
       Exit, workerVars, clientVars
  <2>2. Serial'
    BY <2>1, FrameSerial DEF Working
  <2> QED
    BY <2>1, <2>2 DEF Owned, LockedStays
<1>5. CASE Reduce
  BY <1>5, ReduceStep
<1>6. CASE GetResults
  BY <1>6, GetResultsStep
<1>7. CASE \E t \in Threads : PendingGlobal(t) \/ \E u \in Users : PendingUser(t, u)
  BY <1>7, PendingStep
<1>8. CASE ResetAll \/ ExitClients
  BY <1>8, ResetStep
<1>9. ASSUME NEW t \in Threads, Worker(t)
      PROVE  Owned' /\ Serial' /\ LockedStays'
  <2>1. UNCHANGED <<clients, locked, pending>>
    BY <1>9 DEF Worker, Take, Lock, Run, Interrupt, Batch, Exhausted, Unlock, Attach,
       ExitThread, clientVars
  <2>2. CASE Lock(t) \/ Run(t) \/ Interrupt(t) \/ Exhausted(t) \/ Unlock(t) \/ ExitThread(t)
    <3>1. UNCHANGED <<queue, current, notifications, locked>>
      BY <2>1, <2>2 DEF Lock, Run, Interrupt, Exhausted, Unlock, ExitThread
    <3>2. \A s \in Threads : Working(s)' = Working(s)
      BY <2>2 DEF Lock, Run, Interrupt, Exhausted, Unlock, ExitThread, Working, TypeOK
    <3> QED
      BY <2>1, <3>1, <3>2, FrameSerial DEF Owned, LockedStays
  <2>3. CASE Take(t) \/ Batch(t) \/ Attach(t)
    <3>1. Serial'
      BY <2>3, TakeSerial, BatchSerial, AttachSerial
    <3> QED
      BY <2>1, <3>1 DEF Owned, LockedStays
  <2> QED
    BY <1>9, <2>2, <2>3 DEF Worker
<1> QED
  BY <1>1, <1>2, <1>3, <1>4, <1>5, <1>6, <1>7, <1>8, <1>9 DEF Next, Main

LEMMA IInit == Init => IInv
<1> SUFFICES ASSUME Init PROVE Owned /\ Visiting /\ Serial /\ LockedStays
  BY InitType DEF IInv
<1>1. \A t \in Threads : \A i, u : ~At(t, i, u)
  BY DEF Init, At, Working
<1>2. \A u \in Users : Finals(u) = {}
  BY DEF Init, Finals
<1>3. Serial
  BY <1>1, <1>2 DEF Serial, InFlightLocked, OneInFlight, OneFinal
<1> QED
  BY <1>3 DEF Init, Owned, Visiting, LockedStays

(* At most one request of each client is in flight or waiting with its     *)
(* final answer, and the client is locked meanwhile.                       *)
THEOREM Serialised == Spec => []Serial
<1>1. IInv => Serial
  BY DEF IInv
<1> QED
  BY <1>1, IInit, IStep, PTL DEF Spec

(* A locked client is not on its way to deletion.                          *)
THEOREM LockedUsersStay == Spec => []LockedStays
<1>1. IInv => LockedStays
  BY DEF IInv
<1> QED
  BY <1>1, IInit, IStep, PTL DEF Spec

(* No worker ever holds a request of a user handed to the Reducer.         *)
THEOREM Ownership == Spec => []NoUseAfterFree
<1>1. IInv => NoUseAfterFree
  <2> SUFFICES ASSUME IInv PROVE NoUseAfterFree
    OBVIOUS
  <2>1. ASSUME NEW t \in Threads, NEW i \in 0 .. Len(queue[t]), NEW u \in Users, At(t, i, u)
        PROVE  clients[u] \in {"live", "awaiting"}
    BY <2>1 DEF IInv, Serial, InFlightLocked, LockedStays
  <2>2. \A t \in Threads : queue[t] \in Seq(Requests)
    BY DEF IInv, TypeOK
  <2>3. ASSUME NEW t \in Threads, Working(t), current[t].user \in Users
        PROVE  clients[current[t].user] \in {"live", "awaiting"}
    BY <2>1, <2>2, <2>3 DEF At
  <2>4. ASSUME NEW t \in Threads, NEW i \in DOMAIN queue[t], queue[t][i].user \in Users
        PROVE  clients[queue[t][i].user] \in {"live", "awaiting"}
    BY <2>1, <2>2, <2>4 DEF At
  <2> QED
    BY <2>3, <2>4 DEF NoUseAfterFree
<1> QED
  BY <1>1, IInit, IStep, PTL DEF Spec
=============================================================================
