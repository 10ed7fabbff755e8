------------------------- MODULE DataFlushOrderProofs -------------------------
(* In what order the pipeline answers, and that it implements the service  *)
(* of QueryService, for every set of clients and databases and every       *)
(* number of workers.                                                      *)
EXTENDS DataFlushProofs, SequenceTheorems

(* PrepareExit has emptied the queues; nothing is pushed or posted again.  *)
Shutting == pc \in {"exit_join", "exit_close", "halted"}

(* The request at place i of worker t, see At.                             *)
RequestAt(t, i) == IF i = 0 THEN current[t] ELSE queue[t][i]

(* What is in flight of a client is her oldest unanswered request.         *)
FlightNext ==
  \A u \in Users : \A t \in Threads : \A i \in 0 .. Len(queue[t]) :
    At(t, i, u) => RequestAt(t, i).id = Len(answered[u]) + 1

(* Whoever has a notification waiting is locked.                           *)
WaitingLocked == \A u \in Users : notifications[u] # <<>> => locked[u]

(* The requests of a client are, from the oldest on: those answered, the   *)
(* one she is locked for, those pending.                                   *)
Taken(u) == IF locked[u] THEN Len(answered[u]) + 1 ELSE Len(answered[u])

NumberedFor(u) ==
  /\ issued[u] = Taken(u) + Len(pending[u])
  /\ \A i \in DOMAIN pending[u] : pending[u][i].id = Taken(u) + i

Numbered ==
  ~Shutting => \A u \in Users : clients[u] \in {"new", "live"} => NumberedFor(u)

Ordered == StreamOrder /\ FlightNext /\ WaitingLocked /\ Numbered

OInv == IInv /\ Ordered

-----------------------------------------------------------------------------
(* Steps, by what they disturb.                                            *)

(* Steps that move no request, deliver nothing and lock nobody.            *)
LEMMA FrameOrder ==
  ASSUME Ordered,
         UNCHANGED <<queue, current, notifications, answered, locked, issued, pending>>,
         \A t \in Threads : Working(t)' = Working(t),
         Shutting => Shutting',
         \A u \in Users : clients'[u] \in {"new", "live"} => clients[u] \in {"new", "live"}
  PROVE  Ordered'
<1>1. \A t \in Threads : \A i, u : At(t, i, u)' = At(t, i, u) /\ RequestAt(t, i)' = RequestAt(t, i)
  BY DEF At, RequestAt
<1>2. StreamOrder' /\ WaitingLocked'
  BY DEF Ordered, StreamOrder, WaitingLocked
<1>3. FlightNext'
  BY <1>1 DEF Ordered, FlightNext
<1>4. Numbered'
  BY DEF Ordered, Numbered, NumberedFor, Taken
<1> QED
  BY <1>2, <1>3, <1>4 DEF Ordered

(* A pushed request gets the number after the last one pending.            *)
LEMMA PushOrder ==
  ASSUME TypeOK, Ordered, NEW a \in Actors, NEW d, NEW e, NEW kind, Push(a, d, e, kind),
         UNCHANGED <<queue, wpc, current, notifications, answered, locked, clients>>,
         UNCHANGED pc
  PROVE  Ordered'
<1> DEFINE req == [user |-> a, db |-> d, target |-> e, kind |-> kind, id |-> issued[a] + 1]
<1>1. \A t \in Threads : \A i, u : At(t, i, u)' = At(t, i, u) /\ RequestAt(t, i)' = RequestAt(t, i)
  BY DEF At, RequestAt, Working
<1>2. StreamOrder' /\ WaitingLocked'
  BY DEF Ordered, StreamOrder, WaitingLocked
<1>3. FlightNext'
  BY <1>1 DEF Ordered, FlightNext
<1>4. Numbered'
  <2> SUFFICES ASSUME ~Shutting, NEW u \in Users, clients[u] \in {"new", "live"}
               PROVE  NumberedFor(u)'
    BY DEF Numbered, Shutting
  <2>1. NumberedFor(u)
    BY DEF Ordered, Numbered
  <2>2. /\ pending[u] \in Seq(Requests) /\ issued[u] \in Nat /\ u \in Actors
        /\ answered[u] \in Seq(Nat) /\ locked[u] \in BOOLEAN
    BY DEF TypeOK, Actors
  <2>3. Taken(u) \in Nat /\ Taken(u)' = Taken(u)
    BY <2>2 DEF Taken
  <2>4. CASE u # a
    <3>1. pending'[u] = pending[u] /\ issued'[u] = issued[u]
      BY <2>2, <2>4 DEF Push, TypeOK
    <3> QED
      BY <2>1, <2>3, <3>1 DEF NumberedFor
  <2>5. CASE u = a
    <3>1. /\ pending'[u] = Append(pending[u], req)
          /\ issued'[u] = issued[u] + 1
          /\ req.id = issued[u] + 1
      BY <2>2, <2>5 DEF Push, TypeOK
    <3> HIDE DEF req
    <3>2. Len(pending'[u]) = Len(pending[u]) + 1
      BY <2>2, <3>1
    <3>3. ASSUME NEW i \in DOMAIN pending'[u]
          PROVE  pending'[u][i].id = Taken(u) + i
      <4>1. CASE i \in DOMAIN pending[u]
        BY <2>1, <2>2, <3>1, <4>1 DEF NumberedFor
      <4>2. CASE i = Len(pending[u]) + 1
        BY <2>1, <2>2, <2>3, <3>1, <4>2 DEF NumberedFor
      <4> QED
        BY <2>2, <3>1, <4>1, <4>2
    <3> QED
      BY <2>1, <2>2, <2>3, <3>1, <3>2, <3>3 DEF NumberedFor
  <2> QED
    BY <2>4, <2>5
<1> QED
  BY <1>2, <1>3, <1>4 DEF Ordered

(* Clients leave, or PrepareExit forgets what waits for them.              *)
LEMMA ForgetOrder ==
  ASSUME TypeOK, Serial, LockedStays, Ordered, Reduce \/ ResetAll \/ ExitClients
  PROVE  Ordered'
<1>1. UNCHANGED <<queue, wpc, current, answered>>
  BY DEF Reduce, ResetAll, ExitClients, workerVars
<1>2. \A t \in Threads : \A i, u : At(t, i, u)' = At(t, i, u) /\ RequestAt(t, i)' = RequestAt(t, i)
  BY <1>1 DEF At, RequestAt, Working
<1>3. FlightNext'
  BY <1>1, <1>2 DEF Ordered, FlightNext
<1>4. ASSUME NEW u \in Users
      PROVE  notifications'[u] = <<>> \/ (notifications'[u] = notifications[u] /\ locked'[u] = locked[u])
  <2>1. CASE Reduce
    BY <2>1 DEF Reduce, TypeOK
  <2>2. CASE ResetAll
    BY <2>2 DEF ResetAll, TypeOK
  <2>3. CASE ExitClients
    BY <2>3 DEF ExitClients, TypeOK
  <2> QED
    BY <2>1, <2>2, <2>3
<1>5. StreamOrder' /\ WaitingLocked'
  BY <1>1, <1>4 DEF Ordered, StreamOrder, WaitingLocked
<1>6. Numbered'
  <2>1. CASE ResetAll \/ ExitClients
    BY <2>1 DEF ResetAll, ExitClients, Numbered, Shutting
  <2>2. CASE Reduce
    <3> SUFFICES ASSUME NEW u \in Users, clients'[u] \in {"new", "live"}
                 PROVE  NumberedFor(u)'
      BY DEF Numbered
    <3>1. /\ u \notin Leaving /\ clients[u] \in {"new", "live"} /\ u \in Actors
          /\ pending'[u] = pending[u] /\ locked'[u] = locked[u]
          /\ issued'[u] = issued[u] /\ ~Shutting
      BY <2>2 DEF Reduce, Leaving, Shutting, TypeOK, Actors
    <3> QED
      BY <1>1, <3>1 DEF Ordered, Numbered, NumberedFor, Taken
  <2> QED
    BY <2>1, <2>2
<1> QED
  BY <1>3, <1>5, <1>6 DEF Ordered

(* Popping keeps the number of every request in flight.                    *)
LEMMA TakeOrder ==
  ASSUME TypeOK, Ordered, NEW t \in Threads, Take(t)
  PROVE  Ordered'
<1>1. UNCHANGED <<notifications, answered, locked, issued, pending, clients, pc>>
  BY DEF Take, clientVars, mainVars
<1>2. StreamOrder' /\ WaitingLocked' /\ Numbered'
  BY <1>1 DEF Ordered, StreamOrder, WaitingLocked, Numbered, NumberedFor, Taken, Shutting
<1>3. queue \in [Threads -> Seq(Requests)] /\ queue[t] # <<>>
  BY DEF TypeOK, Take
<1>4. /\ queue'[t] = Tail(queue[t]) /\ current'[t] = queue[t][1]
      /\ \A s \in Threads : s # t => /\ queue'[s] = queue[s]
                                     /\ current'[s] = current[s]
                                     /\ Working(s)' = Working(s)
  BY <1>3 DEF Take, TypeOK, Working
<1>5. /\ Len(queue'[t]) = Len(queue[t]) - 1 /\ Len(queue[t]) \in Nat
      /\ \A i \in 1 .. Len(queue'[t]) : queue'[t][i] = queue[t][i + 1]
  BY <1>3, <1>4
<1>6. FlightNext'
  <2> SUFFICES ASSUME NEW u \in Users, NEW s \in Threads,
                      NEW i \in 0 .. Len(queue'[s]), At(s, i, u)'
               PROVE  RequestAt(s, i)'.id = Len(answered[u]) + 1
    BY <1>1 DEF FlightNext
  <2>1. CASE s # t
    BY <1>3, <1>4, <2>1 DEF At, RequestAt, Ordered, FlightNext
  <2>2. CASE s = t
    <3> DEFINE j == i + 1
    <3>1. j \in 1 .. Len(queue[t]) /\ j # 0 /\ j \in DOMAIN queue[t]
      BY <1>3, <1>5, <2>2
    <3>2. RequestAt(s, i)' = queue[t][j]
      BY <1>3, <1>4, <1>5, <2>2 DEF RequestAt
    <3>3. queue[t][j].user = u
      <4>1. CASE i = 0
        BY <1>4, <2>2, <4>1 DEF At
      <4>2. CASE i # 0
        <5>1. i \in 1 .. Len(queue'[t])
          BY <1>5, <2>2, <4>2
        <5>2. queue'[t][i].user = u
          BY <2>2, <4>2 DEF At
        <5> QED
          BY <1>5, <5>1, <5>2
      <4> QED
        BY <4>1, <4>2
    <3>4. At(t, j, u) /\ RequestAt(t, j) = queue[t][j]
      BY <3>1, <3>3 DEF At, RequestAt
    <3> HIDE DEF j
    <3> QED
      BY <3>1, <3>2, <3>4 DEF Ordered, FlightNext
  <2> QED
    BY <2>1, <2>2
<1> QED
  BY <1>2, <1>6 DEF Ordered

(* What a worker attaches belongs to the request it has popped, and        *)
(* nothing final is waiting.                                               *)
LEMMA AttachOrder ==
  ASSUME TypeOK, Serial, Ordered, NEW t \in Threads, Batch(t) \/ Attach(t)
  PROVE  Ordered'
<1>1. UNCHANGED <<queue, answered, locked, issued, pending, clients, pc>> /\ Working(t)
  BY DEF Batch, Attach, clientVars, mainVars, Working
<1>2. Numbered'
  BY <1>1 DEF Ordered, Numbered, NumberedFor, Taken, Shutting
<1>3. FlightNext'
  <2>1. \A s \in Threads : \A i, u : At(s, i, u)' =>
           At(s, i, u) /\ RequestAt(s, i)' = RequestAt(s, i)
    <3> SUFFICES ASSUME NEW s \in Threads, NEW i, NEW u, At(s, i, u)'
                 PROVE  At(s, i, u) /\ RequestAt(s, i)' = RequestAt(s, i)
      OBVIOUS
    <3>1. CASE s # t \/ Batch(t)
      <4>1. wpc'[s] = wpc[s] /\ current'[s] = current[s]
        BY <3>1 DEF Batch, Attach, TypeOK
      <4> QED
        BY <1>1, <4>1 DEF At, RequestAt, Working
    <3>2. CASE s = t /\ Attach(t)
      <4>1. wpc'[s] = "wait"
        BY <3>2 DEF Attach, TypeOK
      <4>2. i \in DOMAIN queue[s] /\ queue[s][i].user = u
        BY <1>1, <4>1 DEF At, Working
      <4>3. i # 0
        BY <4>2 DEF TypeOK
      <4> QED
        BY <1>1, <4>2, <4>3 DEF At, RequestAt
    <3> QED
      BY <3>1, <3>2
  <2> QED
    BY <1>1, <2>1 DEF Ordered, FlightNext
<1>4. PICK a : a = current[t].user
  OBVIOUS
<1>5. /\ a \in Users => At(t, 0, a)
      /\ RequestAt(t, 0) = current[t] /\ queue[t] \in Seq(Requests) /\ current[t] \in Requests
  BY <1>1, <1>4 DEF At, RequestAt, TypeOK
<1>6. ASSUME a \in Users
      PROVE  current[t].id = Len(answered[a]) + 1 /\ locked[a] /\ Finals(a) = {}
  BY <1>5, <1>6 DEF Ordered, FlightNext, Serial, InFlightLocked
<1>7. ASSUME NEW u \in Users, u # a
      PROVE  notifications'[u] = notifications[u]
  BY <1>4, <1>7 DEF Batch, Attach, AttachResult, TypeOK
<1>8. ASSUME a \in Users
      PROVE  \/ notifications'[a] = notifications[a]
             \/ \E p \in BOOLEAN : notifications'[a] =
                  Append(notifications[a], [req |-> current[t], access |-> access[t], partial |-> p])
  BY <1>4, <1>8 DEF Batch, Attach, AttachResult, TypeOK
<1>9. WaitingLocked'
  BY <1>1, <1>6, <1>7 DEF Ordered, WaitingLocked
<1>10. StreamOrder'
  <2> SUFFICES ASSUME NEW u \in Users, NEW i \in DOMAIN notifications'[u]
               PROVE  LET r == notifications'[u][i] IN
                        /\ r.req.user = u
                        /\ r.req.id = Len(answered[u]) + 1
                        /\ ~r.partial => i = Len(notifications'[u])
    BY <1>1 DEF StreamOrder
  <2>1. CASE notifications'[u] = notifications[u]
    BY <2>1 DEF Ordered, StreamOrder
  <2>2. CASE notifications'[u] # notifications[u]
    <3>1. u = a
      BY <1>7, <2>2
    <3>2. PICK p \in BOOLEAN : notifications'[u] =
             Append(notifications[u], [req |-> current[t], access |-> access[t], partial |-> p])
      BY <1>8, <2>2, <3>1
    <3> DEFINE r == [req |-> current[t], access |-> access[t], partial |-> p]
    <3>3. r.req.user = u /\ r.req.id = Len(answered[u]) + 1
      BY <1>4, <1>6, <3>1
    <3> HIDE DEF r
    <3>4. notifications[u] \in Seq(Results)
      BY DEF TypeOK
    <3>5. CASE i = Len(notifications[u]) + 1
      BY <3>2, <3>3, <3>4, <3>5 DEF r
    <3>6. CASE i \in DOMAIN notifications[u]
      <4>1. notifications'[u][i] = notifications[u][i]
        BY <3>2, <3>4, <3>6
      <4>2. notifications[u][i].partial
        BY <1>6, <3>1, <3>6 DEF Finals
      <4> QED
        BY <3>6, <4>1, <4>2 DEF Ordered, StreamOrder
    <3> QED
      BY <3>2, <3>4, <3>5, <3>6
  <2> QED
    BY <2>1, <2>2
<1> QED
  BY <1>2, <1>3, <1>9, <1>10 DEF Ordered

(* The final notification is the only one left, and what it answers is the *)
(* request its user is locked for.                                         *)
LEMMA FinalAlone ==
  ASSUME TypeOK, Serial, Ordered, NEW u \in Users, Final(u)
  PROVE  /\ Len(notifications[u]) = 1 /\ Tail(notifications[u]) = <<>>
         /\ Head(notifications[u]).req.id = Len(answered[u]) + 1
         /\ locked[u]
<1>1. notifications[u] \in Seq(Results) /\ notifications[u] # <<>> /\ ~notifications[u][1].partial
  BY DEF TypeOK, Final, Delivering
<1>2. 1 \in DOMAIN notifications[u] /\ Head(notifications[u]) = notifications[u][1]
  BY <1>1
<1>3. Len(notifications[u]) = 1 /\ notifications[u][1].req.id = Len(answered[u]) + 1
  BY <1>1, <1>2 DEF Ordered, StreamOrder
<1>4. Tail(notifications[u]) = <<>>
  <2>1. Tail(notifications[u]) \in Seq(Results) /\ Len(Tail(notifications[u])) = 0
    BY <1>1, <1>3
  <2> QED
    BY <2>1, EmptySeq
<1> QED
  BY <1>1, <1>2, <1>3, <1>4 DEF Ordered, WaitingLocked

(* A delivered final result is counted as answered and unlocks: the        *)
(* numbers of what is pending come out the same.                           *)
LEMMA GetResultsOrder ==
  ASSUME TypeOK, Serial, Ordered, GetResults
  PROVE  Ordered'
<1>1. UNCHANGED <<queue, wpc, current, pending, issued, clients>> /\ ~Shutting
  BY DEF GetResults, workerVars, Shutting
<1>2. \A t \in Threads : \A i, u : At(t, i, u)' = At(t, i, u) /\ RequestAt(t, i)' = RequestAt(t, i)
  BY <1>1 DEF At, RequestAt, Working
<1>3. ASSUME NEW u \in Users, ~Final(u)
      PROVE  answered'[u] = answered[u] /\ locked'[u] = locked[u]
  BY <1>3 DEF GetResults, TypeOK
<1>4. ASSUME NEW u \in Users, Final(u)
      PROVE  /\ answered[u] \in Seq(Nat) /\ Len(answered'[u]) = Len(answered[u]) + 1
             /\ locked[u] /\ ~locked'[u] /\ notifications'[u] = <<>>
             /\ Finals(u) # {}
  <2>1. answered'[u] = Append(answered[u], Head(notifications[u]).req.id)
    BY <1>4 DEF GetResults
  <2>2. ~locked'[u] /\ notifications'[u] = Tail(notifications[u])
    BY <1>4 DEF GetResults, Final
  <2>3. answered[u] \in Seq(Nat) /\ Len(answered[u]) + 1 \in Nat
    BY DEF TypeOK
  <2>4. Len(answered'[u]) = Len(answered[u]) + 1
    BY <1>4, <2>1, <2>3, FinalAlone
  <2>5. notifications[u] \in Seq(Results) /\ notifications[u] # <<>> /\ ~Head(notifications[u]).partial
    BY <1>4 DEF Final, Delivering, TypeOK
  <2>6. 1 \in Finals(u)
    BY <2>5 DEF Finals
  <2> QED
    BY <1>4, <2>2, <2>3, <2>4, <2>6, FinalAlone
<1>5. FlightNext'
  <2> SUFFICES ASSUME NEW u \in Users, NEW t \in Threads, NEW i \in 0 .. Len(queue[t]), At(t, i, u)
               PROVE  RequestAt(t, i).id = Len(answered'[u]) + 1
    BY <1>1, <1>2 DEF FlightNext
  <2>1. ~Final(u)
    BY <1>4 DEF Serial, InFlightLocked
  <2> QED
    BY <1>3, <2>1 DEF Ordered, FlightNext
<1>6. ASSUME NEW u \in Users
      PROVE  /\ notifications'[u] # <<>> => locked'[u]
             /\ \A i \in DOMAIN notifications'[u] :
                  LET r == notifications'[u][i] IN
                  /\ r.req.user = u
                  /\ r.req.id = Len(answered'[u]) + 1
                  /\ ~r.partial => i = Len(notifications'[u])
  <2>1. CASE Final(u)
    BY <1>4, <2>1
  <2>2. CASE u \notin Delivering
    <3>1. notifications'[u] = notifications[u] /\ ~Final(u)
      BY <2>2 DEF GetResults, Final
    <3> QED
      BY <1>3, <3>1 DEF Ordered, StreamOrder, WaitingLocked
  <2>3. CASE u \in Delivering /\ ~Final(u)
    <3>1. /\ notifications'[u] = Tail(notifications[u])
          /\ notifications[u] # <<>> /\ notifications[u] \in Seq(Results)
      BY <2>3 DEF GetResults, Delivering, TypeOK
    <3>2. /\ Len(notifications'[u]) = Len(notifications[u]) - 1
          /\ Len(notifications[u]) \in Nat
          /\ \A i \in DOMAIN notifications'[u] :
               i \in Nat /\ i + 1 \in DOMAIN notifications[u]
               /\ notifications'[u][i] = notifications[u][i + 1]
      BY <3>1
    <3>3. locked[u]
      BY <3>1 DEF Ordered, WaitingLocked
    <3>4. ASSUME NEW i \in DOMAIN notifications'[u]
          PROVE  LET r == notifications'[u][i] IN
                  /\ r.req.user = u
                  /\ r.req.id = Len(answered'[u]) + 1
                  /\ ~r.partial => i = Len(notifications'[u])
      <4>1. LET r == notifications[u][i + 1] IN
              /\ r.req.user = u
              /\ r.req.id = Len(answered[u]) + 1
              /\ ~r.partial => i + 1 = Len(notifications[u])
        BY <3>2 DEF Ordered, StreamOrder
      <4> QED
        BY <1>3, <2>3, <3>2, <4>1
    <3> QED
      BY <1>3, <2>3, <3>3, <3>4
  <2> QED
    BY <2>1, <2>2, <2>3 DEF Final
<1>7. StreamOrder' /\ WaitingLocked'
  BY <1>6 DEF StreamOrder, WaitingLocked
<1>8. Numbered'
  <2> SUFFICES ASSUME NEW u \in Users, clients[u] \in {"new", "live"}
               PROVE  NumberedFor(u)'
    BY <1>1 DEF Numbered
  <2>1. NumberedFor(u)
    BY <1>1 DEF Ordered, Numbered
  <2>2. Taken(u)' = Taken(u)
    <3>1. CASE Final(u)
      <4>1. Len(answered[u]) \in Nat
        BY <1>4, <3>1
      <4> QED
        BY <1>4, <3>1, <4>1 DEF Taken
    <3>2. CASE ~Final(u)
      BY <1>3, <3>2 DEF Taken
    <3> QED
      BY <3>1, <3>2
  <2> QED
    BY <1>1, <2>1, <2>2 DEF NumberedFor
<1> QED
  BY <1>5, <1>7, <1>8 DEF Ordered

(* Posting a request locks its user for it; refusing it answers it at      *)
(* once.  Either way it was the next one of a user with none in flight.    *)
LEMMA PostOrder ==
  ASSUME TypeOK, Owned, Serial, Ordered, NEW t \in Threads, NEW a \in Actors,
         pending[a] # <<>>, a \in Users => ~locked[a] /\ a \in Live, Post(t, a),
         ~Shutting, UNCHANGED <<notifications, clients, issued>>
  PROVE  /\ Ordered'
         /\ \/ UNCHANGED answered
            \/ /\ a \in Users /\ Len(answered[a]) < issued[a]
               /\ answered' = [u \in Users |->
                    IF u = a THEN Append(answered[u], Len(answered[u]) + 1)
                             ELSE answered[u]]
<1> DEFINE req == Head(pending[a])
<1>1. pending[a] \in Seq(Requests) /\ req \in Requests /\ req.user = a /\ req = pending[a][1]
  BY DEF TypeOK, Owned
<1>2. /\ pending'[a] = Tail(pending[a])
      /\ \A b \in Actors : b # a => pending'[b] = pending[b]
      /\ UNCHANGED <<wpc, current>>
  BY DEF Post, TypeOK
<1>3. /\ Len(pending[a]) \in Nat /\ Len(pending'[a]) = Len(pending[a]) - 1
      /\ \A i \in DOMAIN pending'[a] : /\ i \in Nat /\ i + 1 \in DOMAIN pending[a]
                                       /\ pending'[a][i] = pending[a][i + 1]
  BY <1>1, <1>2
<1>4. ASSUME a \in Users
      PROVE  /\ req.id = Len(answered[a]) + 1 /\ Len(answered[a]) \in Nat
             /\ issued[a] = Len(answered[a]) + Len(pending[a])
             /\ \A i \in DOMAIN pending[a] : pending[a][i].id = Len(answered[a]) + i
             /\ notifications[a] = <<>>
             /\ \A s \in Threads : \A i \in 0 .. Len(queue[s]) : ~At(s, i, a)
             /\ a \in Live /\ ~locked[a]
  <2>1. a \in Live /\ ~locked[a]
    BY <1>4
  <2>2. NumberedFor(a) /\ Taken(a) = Len(answered[a])
    BY <1>4, <2>1 DEF Ordered, Numbered, Live, Taken
  <2>3. 1 \in DOMAIN pending[a]
    BY <1>1
  <2>4. Len(answered[a]) \in Nat
    BY <1>4 DEF TypeOK
  <2>5. notifications[a] = <<>> /\ \A s \in Threads : \A i \in 0 .. Len(queue[s]) : ~At(s, i, a)
    BY <1>4, <2>1 DEF Ordered, WaitingLocked, Serial, InFlightLocked
  <2> QED
    BY <1>1, <2>1, <2>2, <2>3, <2>4, <2>5 DEF NumberedFor
<1>5. \A u \in Users : u \in Actors
  BY DEF Actors
<1>5a. ASSUME a \in Users
      PROVE  /\ Len(answered[a]) < issued[a]
             /\ issued[a] = Len(answered[a]) + 1 + Len(pending'[a])
             /\ \A i \in DOMAIN pending'[a] : pending'[a][i].id = Len(answered[a]) + 1 + i
  <2>1. /\ Len(answered[a]) \in Nat /\ issued[a] = Len(answered[a]) + Len(pending[a])
        /\ \A i \in DOMAIN pending[a] : pending[a][i].id = Len(answered[a]) + i
    BY <1>4, <1>5a
  <2>2. Len(pending[a]) > 0
    BY <1>1
  <2> DEFINE n == Len(answered[a])
  <2>3. n \in Nat
    BY <2>1
  <2>4. \A i \in DOMAIN pending[a] : pending[a][i].id = n + i
    BY <2>1
  <2>5. issued[a] = n + Len(pending[a])
    BY <2>1
  <2> HIDE DEF n
  <2>6. n < issued[a] /\ issued[a] = n + 1 + Len(pending'[a])
    <3> DEFINE k == Len(pending[a])
               m == Len(pending'[a])
    <3>1. k \in Nat /\ k > 0 /\ m = k - 1 /\ issued[a] = n + k
      BY <1>3, <2>2, <2>5
    <3> HIDE DEF k, m
    <3>2. n < n + k /\ n + k = n + 1 + m
      BY <2>3, <3>1
    <3> QED
      BY <3>1, <3>2 DEF m
  <2>7. ASSUME NEW i \in DOMAIN pending'[a]
        PROVE  pending'[a][i].id = n + 1 + i
    <3>1. i \in Nat /\ pending'[a][i].id = n + (i + 1)
      BY <1>3, <2>4
    <3> QED
      BY <2>3, <3>1
  <2> QED
    BY <2>6, <2>7 DEF n
<1> HIDE DEF req
<1>6. CASE UNCHANGED answered /\ queue' = [queue EXCEPT ![t] = Append(@, req)]
           /\ locked' = Locking(a)
  <2>1. \A u \in Users : locked'[u] = (locked[u] \/ u = a)
    BY <1>6 DEF Locking
  <2>2. StreamOrder' /\ WaitingLocked'
    BY <1>6, <2>1 DEF Ordered, StreamOrder, WaitingLocked
  <2>3. FlightNext'
    <3> SUFFICES ASSUME NEW u \in Users, NEW s \in Threads,
                        NEW i \in 0 .. Len(queue'[s]), At(s, i, u)'
                 PROVE  RequestAt(s, i)'.id = Len(answered[u]) + 1
      BY <1>6 DEF FlightNext
    <3>1. queue \in [Threads -> Seq(Requests)]
      BY DEF TypeOK
    <3>2. CASE s # t \/ i # Len(queue[t]) + 1
      <4>1. i \in 0 .. Len(queue[s]) /\ (i # 0 => queue'[s][i] = queue[s][i])
        BY <1>1, <1>6, <3>1, <3>2
      <4>2. At(s, i, u) /\ RequestAt(s, i)' = RequestAt(s, i)
        BY <1>2, <3>1, <4>1 DEF At, RequestAt, Working
      <4> QED
        BY <4>1, <4>2 DEF Ordered, FlightNext
    <3>3. CASE s = t /\ i = Len(queue[t]) + 1
      <4>1. queue'[s][i] = req /\ i # 0
        BY <1>1, <1>6, <3>1, <3>3
      <4>2. RequestAt(s, i)' = req /\ u = a
        BY <1>1, <4>1 DEF At, RequestAt
      <4> QED
        BY <1>4, <4>2
    <3> QED
      BY <3>2, <3>3
  <2>4. Numbered'
    <3> SUFFICES ASSUME NEW u \in Users, clients[u] \in {"new", "live"}
                 PROVE  NumberedFor(u)'
      BY DEF Numbered
    <3>1. CASE u # a
      <4>1. Taken(u)' = Taken(u) /\ pending'[u] = pending[u] /\ NumberedFor(u)
        BY <1>2, <1>5, <1>6, <2>1, <3>1 DEF Taken, Ordered, Numbered
      <4> QED
        BY <4>1 DEF NumberedFor
    <3>2. CASE u = a
      <4>1. Taken(a)' = Len(answered[a]) + 1
        BY <1>6, <2>1, <3>2 DEF Taken
      <4> QED
        BY <1>5a, <3>2, <4>1 DEF NumberedFor
    <3> QED
      BY <3>1, <3>2
  <2> QED
    BY <1>6, <2>2, <2>3, <2>4 DEF Ordered
<1>7. CASE UNCHANGED <<queue, locked>> /\ answered' = [u \in Users |->
              IF u = a THEN Append(answered[u], req.id) ELSE answered[u]]
  <2>1. ASSUME NEW u \in Users, u # a
        PROVE  answered'[u] = answered[u]
    BY <1>7, <2>1
  <2>2. ASSUME a \in Users
        PROVE  Len(answered'[a]) = Len(answered[a]) + 1
    BY <1>1, <1>7, <2>2 DEF TypeOK, Requests
  <2>3. \A s \in Threads : \A i, u : At(s, i, u)' = At(s, i, u) /\ RequestAt(s, i)' = RequestAt(s, i)
    BY <1>2, <1>7 DEF At, RequestAt, Working
  <2>4. StreamOrder' /\ WaitingLocked'
    BY <1>4, <1>7, <2>1 DEF Ordered, StreamOrder, WaitingLocked
  <2>5. FlightNext'
    <3> SUFFICES ASSUME NEW u \in Users, NEW s \in Threads,
                        NEW i \in 0 .. Len(queue[s]), At(s, i, u)
                 PROVE  RequestAt(s, i).id = Len(answered'[u]) + 1
      BY <1>7, <2>3 DEF FlightNext
    <3>1. u # a
      BY <1>4
    <3> QED
      BY <2>1, <3>1 DEF Ordered, FlightNext
  <2>6. Numbered'
    <3> SUFFICES ASSUME NEW u \in Users, clients[u] \in {"new", "live"}
                 PROVE  NumberedFor(u)'
      BY DEF Numbered
    <3>1. CASE u # a
      <4>1. Taken(u)' = Taken(u) /\ pending'[u] = pending[u] /\ NumberedFor(u)
        BY <1>2, <1>5, <1>7, <2>1, <3>1 DEF Taken, Ordered, Numbered
      <4> QED
        BY <4>1 DEF NumberedFor
    <3>2. CASE u = a
      <4>1. Taken(a)' = Len(answered[a]) + 1
        BY <1>4, <1>7, <2>2, <3>2 DEF Taken
      <4> QED
        BY <1>5a, <3>2, <4>1 DEF NumberedFor
    <3> QED
      BY <3>1, <3>2
  <2>7. ASSUME a \in Users
        PROVE  /\ Len(answered[a]) < issued[a]
               /\ answered' = [u \in Users |->
                    IF u = a THEN Append(answered[u], Len(answered[u]) + 1)
                             ELSE answered[u]]
    <3>1. Len(answered[a]) < issued[a]
      BY <1>5a, <2>7
    <3>2. \A u \in Users : u = a => req.id = Len(answered[u]) + 1
      BY <1>4, <2>7
    <3> QED
      BY <1>7, <3>1, <3>2
  <2>8. a \notin Users => UNCHANGED answered
    BY <1>7 DEF TypeOK
  <2> QED
    BY <2>4, <2>5, <2>6, <2>7, <2>8 DEF Ordered
<1> QED
  BY <1>6, <1>7 DEF Post, req

(* Every step keeps the order of what is pending, in flight and delivered. *)
LEMMA OrderStep == OInv /\ [Next]_vars => Ordered'
<1> SUFFICES ASSUME TypeOK, Owned, Visiting, Serial, LockedStays, Ordered, [Next]_vars
             PROVE  Ordered'
  BY DEF OInv, IInv
<1>1. CASE UNCHANGED vars
  BY <1>1, FrameOrder DEF vars, mainVars, workerVars, clientVars, Working, Shutting
<1>2. CASE Clients
  <2>1. CASE \E u \in Users : AddUser(u) \/ Disconnect(u) \/ FlushCommand(u)
    <3>1. /\ UNCHANGED <<queue, wpc, current, notifications, answered, locked, issued, pending>>
          /\ ~Shutting
      BY <2>1 DEF AddUser, Disconnect, FlushCommand, Turn, workerVars, clientVars, Shutting
    <3>2. \A u \in Users : clients'[u] \in {"new", "live"} => clients[u] \in {"new", "live"}
      BY <2>1 DEF AddUser, Disconnect, FlushCommand, clientVars, TypeOK
    <3> QED
      BY <3>1, <3>2, FrameOrder DEF Working
  <2>2. CASE ExitBegin
    BY <2>2, FrameOrder DEF ExitBegin, workerVars, clientVars, Working, Shutting
  <2>3. CASE \/ \E d \in Databases : TimedFlush(d)
             \/ \E u \in Users : \E d, e \in Databases : \E kind : Command(u, d, e, kind)
    <3>1. \E a \in Actors : \E d, e, kind : Push(a, d, e, kind)
      BY <2>3 DEF TimedFlush, Command, Actors
    <3>2. UNCHANGED <<queue, wpc, current, notifications, answered, locked, clients, pc>>
      BY <2>3 DEF TimedFlush, Command, workerVars, mainVars
    <3> QED
      BY <3>1, <3>2, PushOrder
  <2> QED
    BY <1>2, <2>1, <2>2, <2>3 DEF Clients, Execute, Transfer, DBDelete
<1>3. CASE \/ ForceExits \/ EndTimed \/ EndPhase \/ EndPending \/ FlushClose \/ FlushOpen
           \/ CloseAll \/ (\E d \in Databases : FlushMark(d)) \/ (\E t \in Threads : Exit(t))
  <2>1. UNCHANGED <<queue, wpc, current, notifications, answered, locked, issued, pending>>
    BY <1>3 DEF ForceExits, EndTimed, EndPhase, EndPending, FlushClose, FlushOpen, CloseAll,
       FlushMark, Exit, workerVars, clientVars
  <2>2. Shutting => Shutting'
    BY <1>3 DEF ForceExits, EndTimed, EndPhase, EndPending, FlushClose, FlushOpen, CloseAll,
       FlushMark, Exit, mainVars, Shutting
  <2>3. \A u \in Users : clients'[u] \in {"new", "live"} => clients[u] \in {"new", "live"}
    BY <1>3 DEF ForceExits, EndTimed, EndPhase, EndPending, FlushClose, FlushOpen, CloseAll,
       FlushMark, Exit, clientVars, TypeOK
  <2> QED
    BY <2>1, <2>2, <2>3, FrameOrder DEF Working
<1>4. CASE Reduce \/ ResetAll \/ ExitClients
  BY <1>4, ForgetOrder
<1>5. CASE GetResults
  BY <1>5, GetResultsOrder
<1>6. ASSUME NEW t \in Threads, PendingGlobal(t) \/ \E u \in Users : PendingUser(t, u)
      PROVE  Ordered'
  <2>1. PICK a \in Actors :
           /\ Post(t, a) /\ pending[a] # <<>>
           /\ a \in Users => ~locked[a] /\ a \in Live
    BY <1>6, ConstantsAssumption DEF PendingGlobal, PendingUser, Actors, Visiting
  <2>2. ~Shutting /\ UNCHANGED <<notifications, clients, issued>>
    BY <1>6 DEF PendingGlobal, PendingUser, Shutting
  <2> QED
    BY <2>1, <2>2, PostOrder
<1>7. ASSUME NEW t \in Threads, Worker(t)
      PROVE  Ordered'
  <2>1. CASE Take(t)
    BY <2>1, TakeOrder
  <2>2. CASE Batch(t) \/ Attach(t)
    BY <2>2, AttachOrder
  <2>3. CASE Lock(t) \/ Run(t) \/ Interrupt(t) \/ Exhausted(t) \/ Unlock(t) \/ ExitThread(t)
    <3>1. UNCHANGED <<queue, current, notifications, answered, locked, issued, pending, clients, pc>>
      BY <2>3 DEF Lock, Run, Interrupt, Exhausted, Unlock, ExitThread, clientVars, mainVars
    <3>2. \A s \in Threads : Working(s)' = Working(s)
      BY <2>3 DEF Lock, Run, Interrupt, Exhausted, Unlock, ExitThread, Working, TypeOK
    <3> QED
      BY <3>1, <3>2, FrameOrder DEF Shutting
  <2> QED
    BY <1>7, <2>1, <2>2, <2>3 DEF Worker
<1> QED
  BY <1>1, <1>2, <1>3, <1>4, <1>5, <1>6, <1>7 DEF Next, Main

(* Nothing has been asked yet.                                             *)
LEMMA OrderInit == Init => OInv
<1> SUFFICES ASSUME Init PROVE Ordered
  BY IInit DEF OInv
<1>1. \A t \in Threads : \A i, u : ~At(t, i, u)
  BY DEF Init, At, Working
<1>2. Users \subseteq Actors
  BY DEF Actors
<1> QED
  BY <1>1, <1>2 DEF Init, Ordered, StreamOrder, FlightNext, WaitingLocked, Numbered, NumberedFor, Taken

(* The invariant of the pipeline with its order.                           *)
LEMMA OrderInvariant == Spec => []OInv
<1>1. OInv => IInv
  BY DEF OInv
<1>2. OInv /\ [Next]_vars => OInv'
  <2>1. IInv' /\ Ordered' => OInv'
    BY DEF OInv
  <2> QED
    BY <1>1, <2>1, IStep, OrderStep
<1> QED
  BY <1>2, OrderInit, PTL DEF Spec

(* Batches and results reach a client in the order of her requests: all    *)
(* that waits belongs to the oldest one unanswered, its final part last.   *)
THEOREM InOrderDelivery == Spec => []StreamOrder
<1>1. OInv => StreamOrder
  BY DEF OInv, Ordered
<1> QED
  BY <1>1, OrderInvariant, PTL

-----------------------------------------------------------------------------
(* The refinement of QueryService, step by step.                           *)

(* At the start the service has no clients, and nobody has asked.          *)
LEMMA ServiceInit == Init => Service!Init
BY DEF Init, Service!Init, Live, Actors

(* A step that changes neither who is there, nor what was asked, nor what  *)
(* was answered is a step the service does not see.                        *)
LEMMA Unseen ==
  ASSUME UNCHANGED <<clients, answered>>, \A u \in Users : issued'[u] = issued[u]
  PROVE  UNCHANGED Service!serviceVars
<1>1. Live' = Live
  BY DEF Live
<1>2. [u \in Users |-> issued'[u]] = [u \in Users |-> issued[u]]
  OBVIOUS
<1> QED
  BY <1>1, <1>2 DEF Service!serviceVars

(* A push is a request of the service; those of Global are not seen.       *)
LEMMA PushIsRequest ==
  ASSUME TypeOK, NEW u \in Users, u \in Live, NEW d, NEW e, NEW kind, Push(u, d, e, kind),
         UNCHANGED <<clients, answered>>
  PROVE  Service!Request(u)
<1>1. Live' = Live
  BY DEF Live
<1>2. issued' = [issued EXCEPT ![u] = issued[u] + 1] /\ Users \subseteq Actors
  BY DEF Push, Actors
<1>3. [v \in Users |-> issued'[v]] = [[v \in Users |-> issued[v]] EXCEPT ![u] = @ + 1]
  BY <1>2 DEF TypeOK
<1> QED
  BY <1>1, <1>3 DEF Service!Request

(* GetResults answers everybody whose final notification is at the head.   *)
LEMMA DeliveryIsAnswer ==
  ASSUME TypeOK, Serial, Ordered, GetResults
  PROVE  Service!Answer({u \in Users : Final(u)})
<1> DEFINE S == {u \in Users : Final(u)}
<1>1. ASSUME NEW u \in S
      PROVE  u \in Live /\ Len(answered[u]) < issued[u]
             /\ Head(notifications[u]).req.id = Len(answered[u]) + 1
  <2>1. u \in Live /\ Final(u) /\ ~Shutting
    BY DEF Final, Delivering, GetResults, Shutting
  <2>2. locked[u] /\ Head(notifications[u]).req.id = Len(answered[u]) + 1
    BY <2>1, FinalAlone
  <2>3. NumberedFor(u)
    BY <2>1 DEF Ordered, Numbered, Live
  <2>4. Len(answered[u]) \in Nat /\ Len(pending[u]) \in Nat /\ issued[u] \in Nat
    BY DEF TypeOK, Actors
  <2>5. issued[u] = Len(answered[u]) + 1 + Len(pending[u])
    BY <2>2, <2>3 DEF NumberedFor, Taken
  <2>6. \A n, k \in Nat : n < n + 1 + k
    OBVIOUS
  <2> QED
    BY <2>1, <2>2, <2>4, <2>5, <2>6
<1>2. answered' = [u \in Users |->
        IF u \in S THEN Append(answered[u], Len(answered[u]) + 1) ELSE answered[u]]
  <2>1. answered' = [u \in Users |->
          IF Final(u) THEN Append(answered[u], Head(notifications[u]).req.id)
                      ELSE answered[u]]
    BY DEF GetResults
  <2>2. \A u \in Users :
          (IF Final(u) THEN Append(answered[u], Head(notifications[u]).req.id)
                       ELSE answered[u])
          = IF u \in S THEN Append(answered[u], Len(answered[u]) + 1) ELSE answered[u]
    BY <1>1
  <2> HIDE DEF S
  <2> QED
    BY <2>1, <2>2
<1>3. Live' = Live /\ UNCHANGED issued
  BY DEF GetResults, Live
<1> QED
  BY <1>1, <1>2, <1>3 DEF Service!Answer

(* Every step of the pipeline is a step of the service, or unseen.         *)
LEMMA ServiceStep == OInv /\ [Next]_vars => [Service!Next]_(Service!serviceVars)
<1> SUFFICES ASSUME TypeOK, Owned, Visiting, Serial, LockedStays, Ordered, [Next]_vars
             PROVE  [Service!Next]_(Service!serviceVars)
  BY DEF OInv, IInv
<1> USE DEF Service!Next
<1>1. CASE UNCHANGED vars
  BY <1>1, Unseen DEF vars, clientVars
<1>2. ASSUME NEW u \in Users, AddUser(u)
      PROVE  Service!Next
  <2>1. Live' = Live \cup {u} /\ UNCHANGED <<issued, answered>>
    BY <1>2 DEF AddUser, Live, TypeOK
  <2>2. Service!Connect(u)
    BY <2>1 DEF Service!Connect
  <2> QED
    BY <2>2
<1>3. ASSUME NEW S \in SUBSET Users, Live' = Live \ S, UNCHANGED <<issued, answered>>
      PROVE  Service!Next
  <2>1. Service!Leave(S)
    BY <1>3 DEF Service!Leave
  <2> QED
    BY <2>1
<1>4. ASSUME NEW u \in Users, Disconnect(u)
      PROVE  Service!Next
  <2>1. Live' = Live \ {u} /\ UNCHANGED <<issued, answered>>
    BY <1>4 DEF Disconnect, Live, TypeOK
  <2> QED
    BY <1>3, <2>1
<1>5. CASE ExitClients
  <2>1. Live' = Live \ Users /\ UNCHANGED <<issued, answered>>
    BY <1>5 DEF ExitClients, Live, TypeOK, ClientStates
  <2> QED
    BY <1>3, <2>1
<1>6. ASSUME NEW u \in Users, NEW d, NEW e, NEW kind, Command(u, d, e, kind)
      PROVE  Service!Next
  <2>1. Service!Request(u)
    BY <1>6, PushIsRequest DEF Command, Turn
  <2> QED
    BY <2>1
<1>7. CASE GetResults
  <2>1. {u \in Users : Final(u)} \in SUBSET Users
    OBVIOUS
  <2> QED
    BY <1>7, <2>1, DeliveryIsAnswer
<1>8. ASSUME NEW t \in Threads, PendingGlobal(t) \/ \E u \in Users : PendingUser(t, u)
      PROVE  [Service!Next]_(Service!serviceVars)
  <2>1. PICK a \in Actors :
           /\ Post(t, a) /\ pending[a] # <<>>
           /\ a \in Users => ~locked[a] /\ a \in Live
    BY <1>8, ConstantsAssumption DEF PendingGlobal, PendingUser, Actors, Visiting
  <2>2. ~Shutting /\ UNCHANGED <<notifications, clients, issued>>
    BY <1>8 DEF PendingGlobal, PendingUser, Shutting
  <2>3. CASE UNCHANGED answered
    BY <2>2, <2>3, Unseen
  <2>4. CASE /\ a \in Users /\ Len(answered[a]) < issued[a]
             /\ answered' = [u \in Users |->
                  IF u = a THEN Append(answered[u], Len(answered[u]) + 1) ELSE answered[u]]
    <3>1. Live' = Live /\ a \in Live
      BY <2>1, <2>2, <2>4 DEF Live
    <3>2. Service!Answer({a})
      BY <2>2, <2>4, <3>1 DEF Service!Answer
    <3> QED
      BY <2>4, <3>2
  <2> QED
    BY <2>1, <2>2, <2>3, <2>4, PostOrder
<1>9. CASE Reduce \/ ForceExits
  <2>1. Live' = Live /\ UNCHANGED <<issued, answered>>
    BY <1>9 DEF Reduce, ForceExits, Leaving, Live, TypeOK
  <2> QED
    BY <2>1 DEF Service!serviceVars
<1>10. CASE ResetAll \/ \E d \in Databases : TimedFlush(d)
  <2>1. UNCHANGED <<clients, answered>> /\ \A u \in Users : issued'[u] = issued[u]
    BY <1>10, ConstantsAssumption DEF ResetAll, TimedFlush, Push, TypeOK, Actors
  <2> QED
    BY <2>1, Unseen
<1>11. CASE \/ EndTimed \/ EndPhase \/ EndPending \/ FlushClose \/ FlushOpen \/ CloseAll
            \/ (\E d \in Databases : FlushMark(d)) \/ (\E t \in Threads : Exit(t))
            \/ ExitBegin \/ (\E u \in Users : FlushCommand(u)) \/ (\E t \in Threads : Worker(t))
  <2>1. UNCHANGED <<clients, issued, answered>>
    BY <1>11 DEF EndTimed, EndPhase, EndPending, FlushClose, FlushOpen, CloseAll,
       FlushMark, Exit, ExitBegin, FlushCommand, Worker, Take, Lock, Run, Interrupt, Batch,
       Exhausted, Unlock, Attach, ExitThread, clientVars
  <2> QED
    BY <2>1, Unseen
<1> QED
  BY <1>1, <1>2, <1>4, <1>5, <1>6, <1>7, <1>8, <1>9, <1>10, <1>11
     DEF Next, Clients, Main, Execute, Transfer, DBDelete

(* The pipeline implements the service: requests are answered in the order *)
(* they were made, each at most once, and only to clients who are there.   *)
THEOREM PipelineImplementsService == Spec => Implements
<1>1. Init => Service!Init
  BY ServiceInit
<1>2. OInv /\ [Next]_vars => [Service!Next]_(Service!serviceVars)
  BY ServiceStep
<1> QED
  BY <1>1, <1>2, OrderInvariant, PTL DEF Spec, Implements, Service!Spec
=============================================================================
