-------------------------- MODULE KeyspaceLoadProofs --------------------------
(* What start-up promises: the futures of the last database are scheduled  *)
(* when clients are served, and those of the others are until the first    *)
(* restart.  With one worker its requests also run in their order.         *)
EXTENDS KeyspaceProofs

(* One worker takes the requests of Global in order: the lists of start-up *)
(* come first, that of the futures last, and only the sweep's follow.      *)
StartupFirst ==
  /\ ready => \A i \in DOMAIN queue : queue[i].op \notin Loads
  /\ ~ready => \E k \in DOMAIN queue :
                 /\ queue[k].op = "loadfutures"
                 /\ \A i \in DOMAIN queue :
                      /\ i < k => queue[i].op = "loadexpires"
                      /\ i > k => queue[i].op \notin Loads

(* Nobody is served before Ready, and the futures listed are those of the  *)
(* last database.                                                          *)
Unserved == ~ready => \A c \in Clients : inflight[c] = NoRequest
LastOnly == \A i \in DOMAIN queue : queue[i].op = "loadfutures" => queue[i].slot.db = LastDb

(* Until the first restart there is nothing to load.                       *)
Fresh == restarts = 0 => /\ ready
                         /\ \A i \in DOMAIN queue : queue[i].op \notin Loads

-----------------------------------------------------------------------------
(* What each class of commands does to the records of futures and of       *)
(* expirations.                                                            *)

Final(e) == IF e.disks = <<>> THEN disk ELSE e.disks[Len(e.disks)]

(* Nothing but the three commands on futures, and the list of start-up,    *)
(* touches a future.                                                       *)
Apart(e) == e.futures = futures /\ \A n \in DOMAIN e.disks : e.disks[n].future = disk.future

(* An effect of up to four writes is apart from futures when each of them  *)
(* is.                                                                     *)
LEMMA ApartNone ==
  ASSUME NEW e
  PROVE  Apart(Effect(<<>>, e, futures))
BY DEF Apart, Effect

LEMMA ApartOne ==
  ASSUME NEW c1, c1.future = disk.future, NEW e
  PROVE  Apart(Effect(<<c1>>, e, futures))
BY DEF Apart, Effect

LEMMA ApartTwo ==
  ASSUME NEW c1, c1.future = disk.future, NEW c2, c2.future = disk.future, NEW e
  PROVE  Apart(Effect(<<c1, c2>>, e, futures))
BY DEF Apart, Effect

LEMMA ApartFour ==
  ASSUME NEW c1, c1.future = disk.future, NEW c2, c2.future = disk.future,
         NEW c3, c3.future = disk.future, NEW c4, c4.future = disk.future, NEW e
  PROVE  Apart(Effect(<<c1, c2, c3, c4>>, e, futures))
BY DEF Apart, Effect

(* Every other command is apart from futures.                              *)
LEMMA Futureless ==
  ASSUME KInv, NEW r \in Calls(AnyOp), r.op \notin FutureOps \cup {"loadfutures"}
  PROVE  Apart(Run(r))
<1>1. disk \in Disks
  BY DEF KInv, GoodDisks
<1>2. Apart(Nothing)
  BY ApartNone DEF Nothing
<1>3. Apart(Set(r)) /\ Apart(GetDel(r))
  BY <1>1 DEF Set, GetDel, Only, Effect, Apart, Disks
<1>4. Apart(SetEX(r)) /\ Apart(Expire(r)) /\ Apart(DelExpire(r))
  <2> DEFINE both == [disk EXCEPT !.data[<<r.slot, "KEY">>] = r.value, !.expire[Own(r.slot)] = r.at]
             rec  == [disk EXCEPT !.expire[Own(r.slot)] = r.at]
             off  == [disk EXCEPT !.expire[Own(r.slot)] = 0]
  <2>1. both.future = disk.future /\ rec.future = disk.future /\ off.future = disk.future
    BY <1>1 DEF Disks
  <2>2. /\ SetEX(r) = Effect(<<both>>, Armed(r.slot, r.at), futures)
        /\ Expire(r) = Effect(<<rec>>, Armed(r.slot, r.at), futures)
        /\ DelExpire(r) = Effect(<<off>>, Disarmed(r.slot), futures)
    BY DEF SetEX, ExpireBatch, Expire, DelExpire
  <2> HIDE DEF both, rec, off
  <2> QED
    BY <2>1, <2>2, ApartOne
<1>5. Apart(Del(r))
  <2> DEFINE both == [disk EXCEPT !.data[<<r.slot, Found(r.slot)>>] = Absent,
                                  !.expire[Own(r.slot)] = 0]
             gone == [disk EXCEPT !.data[<<r.slot, Found(r.slot)>>] = Absent]
  <2>1. both.future = disk.future /\ gone.future = disk.future
    BY <1>1 DEF Disks
  <2>2. \/ Del(r) = Effect(<<both>>, Disarmed(r.slot), futures)
        \/ Del(r) = Effect(<<gone>>, expires, futures)
    BY DEF Del, Only
  <2> HIDE DEF both, gone
  <2> QED
    BY <2>1, <2>2, ApartOne
<1>6. Apart(Swap(r))
  <2> DEFINE found == Found(r.slot)
             at    == expires[r.slot]
             gone  == [disk EXCEPT !.data[<<r.to, found>>] = Value(r.slot),
                                   !.data[<<r.slot, found>>] = Absent]
             both  == [disk EXCEPT !.data[<<r.to, found>>] = Value(r.slot),
                                   !.data[<<r.slot, found>>] = Absent,
                                   !.expire[Own(r.to)] = at]
             left  == [expires EXCEPT ![r.slot] = 0, ![r.to] = at]
  <2>1. both.future = disk.future /\ gone.future = disk.future
    BY <1>1 DEF Disks
  <2>2. \/ Swap(r) = Effect(<<both>>, left, futures)
        \/ Swap(r) = Effect(<<gone>>, expires, futures)
    BY DEF Swap, Only
  <2> HIDE DEF both, gone, left
  <2> QED
    BY <2>1, <2>2, ApartOne
<1>7. Apart(Copy(r))
  <2> DEFINE rec == [disk EXCEPT !.expire[Own(r.to)] = expires[r.slot]]
             put(d) == [d EXCEPT !.data[<<r.to, Found(r.slot)>>] = Value(r.slot)]
  <2>1. /\ rec.future = disk.future /\ put(rec).future = disk.future
        /\ put(disk).future = disk.future
    BY <1>1 DEF Disks
  <2>2. \/ Copy(r) = Nothing
        \/ Copy(r) = Effect(<<rec, put(rec)>>, Armed(r.to, expires[r.slot]), futures)
        \/ Copy(r) = Effect(<<put(disk)>>, expires, futures)
    BY DEF Copy, Only
  <2> HIDE DEF rec, put
  <2> QED
    BY <1>2, <2>1, <2>2, ApartOne, ApartTwo
<1>8. Apart(Clone(r))
  <2> DEFINE put  == [disk EXCEPT !.data[<<r.to, Found(r.slot)>>] = Value(r.slot)]
             both == [disk EXCEPT !.data[<<r.to, Found(r.slot)>>] = Numeral,
                                  !.expire[Own(r.to)] = expires[r.slot]]
  <2>1. both.future = disk.future /\ put.future = disk.future
    BY <1>1 DEF Disks
  <2>2. \/ Clone(r) = Effect(<<both>>, Armed(r.to, expires[r.slot]), futures)
        \/ Clone(r) = Effect(<<put>>, expires, futures)
    BY DEF Clone, ExpireBatch, Only
  <2> HIDE DEF both, put
  <2> QED
    BY <2>1, <2>2, ApartOne
<1>9. Apart(Transfer(r))
  <2> DEFINE del(d)  == [d EXCEPT !.data[<<r.slot, Found(r.slot)>>] = Absent]
             put(d)  == [d EXCEPT !.data[<<r.to, Found(r.slot)>>] = Value(r.slot)]
             cleared == [disk EXCEPT !.expire[Own(r.slot)] = 0]
             moved   == [cleared EXCEPT !.expire[Foreign(r)] = expires[r.slot]]
             left    == [expires EXCEPT ![r.slot] = 0, ![r.to] = expires[r.slot]]
  <2>1. /\ cleared.future = disk.future /\ moved.future = disk.future
        /\ put(moved).future = disk.future /\ del(put(moved)).future = disk.future
        /\ put(disk).future = disk.future /\ del(put(disk)).future = disk.future
    BY <1>1 DEF Disks
  <2>2. \/ Transfer(r) = Effect(<<cleared, moved, put(moved), del(put(moved))>>, left, futures)
        \/ Transfer(r) = Effect(<<put(disk), del(put(disk))>>, expires, futures)
    BY DEF Transfer
  <2> HIDE DEF del, put, cleared, moved, left
  <2> QED
    BY <2>1, <2>2, ApartTwo, ApartFour
<1>10. Apart(WDel(r))
  BY <1>1 DEF WDel, Effect, Apart, Disks
<1>11. Apart(LoadExpires(r))
  BY <1>1 DEF LoadExpires, Only, Effect, Apart, Disks
<1>12. CASE ~Prepare(r)
  BY <1>2, <1>12 DEF Run, Refused, FutureOps
<1>13. CASE Prepare(r)
  <2>1. r.op \in AnyOp \ (FutureOps \cup {"loadfutures"})
    BY DEF Calls
  <2>2. Run(r) = Execute(r)
    BY <1>13 DEF Run
  <2>3. Execute(r) \in {Set(r), Nothing, GetDel(r), SetEX(r), Expire(r), DelExpire(r), Del(r),
                        Swap(r), Copy(r), Clone(r), Transfer(r), WDel(r), LoadExpires(r)}
    BY <2>1 DEF Execute, GetSet, SetNX, SetTX, Persist, GetPersist, Rename, RenameNX, Move,
       AnyOp, AllOps, KeyOps, HintOps, ExpireOps, FutureOps, ResetOps
  <2> QED
    BY <1>2, <1>3, <1>4, <1>5, <1>6, <1>7, <1>8, <1>9, <1>10, <1>11, <2>2, <2>3
<1> QED
  BY <1>12, <1>13

(* A worker that has run a request leaves the last state of its effect.    *)
LEMMA PerformFinal ==
  ASSUME KInv, NEW r \in Calls(AnyOp), Perform(r)
  PROVE  /\ disk' = Final(Run(r)) /\ expires' = Run(r).expires /\ futures' = Run(r).futures
         /\ Run(r).disks # <<>> => Len(Run(r).disks) \in DOMAIN Run(r).disks
<1>1. Run(r).disks \in Seq(GoodDisks)
  BY RunSound DEF Effects
<1>2. Run(r).disks # <<>> => Len(Run(r).disks) \in DOMAIN Run(r).disks
  <2>1. Run(r).disks # <<>> => Len(Run(r).disks) \in Nat \ {0}
    BY <1>1, EmptySeq
  <2> QED
    BY <1>1, <2>1, LenProperties
<1> QED
  BY <1>2 DEF Perform, Final

(* The last disk of an effect, by the number of its writes.                *)
LEMMA FinalOne ==
  ASSUME NEW c1, NEW e, NEW f
  PROVE  Final(Effect(<<c1>>, e, f)) = c1
BY DEF Final, Effect

LEMMA FinalTwo ==
  ASSUME NEW c1, NEW c2, NEW e, NEW f
  PROVE  Final(Effect(<<c1, c2>>, e, f)) = c2
BY DEF Final, Effect

LEMMA FinalNone ==
  ASSUME NEW e, NEW f
  PROVE  Final(Effect(<<>>, e, f)) = disk
BY DEF Final, Effect

(* A future that is scheduled while it is on disk stays so, whatever runs  *)
(* (WriteFuture, DelFuture, future_exec_query, future_del_query).          *)
LEMMA PlansStayLevel ==
  ASSUME KInv, NEW r \in Calls(AnyOp), Perform(r), NEW s \in Slots,
         KeepFutures \/ r.op # "loadfutures",
         disk.future[s] # NoFuture => futures[s] # 0
  PROVE  disk'.future[s] # NoFuture => futures'[s] # 0
<1> DEFINE e == Run(r)
<1>1. /\ disk' = Final(e) /\ futures' = e.futures
      /\ e.disks # <<>> => Len(e.disks) \in DOMAIN e.disks
  BY PerformFinal
<1>2. r.slot \in Slots /\ disk \in GoodDisks /\ futures \in [Slots -> Nat]
  BY DEF KInv, Calls
<1>3. CASE r.op \notin FutureOps \cup {"loadfutures"}
  <2>1. Apart(e)
    BY <1>3, Futureless
  <2> HIDE DEF e
  <2> QED
    BY <1>1, <2>1 DEF Apart, Final
<1>4. CASE r.op \in FutureOps
  <2> DEFINE plan == disk.future[r.slot]
             put  == [disk EXCEPT !.data[<<r.slot, "KEY">>] = plan.value]
             new  == [disk EXCEPT !.future[r.slot] = [at |-> r.at, value |-> r.value]]
             gone == DelFuture(disk, r.slot)
             done == DelFuture(put, r.slot)
  <2>1. /\ put.future = disk.future
        /\ \A t \in Slots \ {r.slot} : /\ new.future[t] = disk.future[t]
                                       /\ gone.future[t] = disk.future[t]
                                       /\ done.future[t] = disk.future[t]
        /\ gone.future[r.slot] = NoFuture /\ done.future[r.slot] = NoFuture
    BY <1>2 DEF GoodDisks, Disks, DelFuture
  <2>2. /\ Forgotten(r.slot)[r.slot] = 0
        /\ \A t \in Slots \ {r.slot} : Forgotten(r.slot)[t] = futures[t]
        /\ \A t \in Slots \ {r.slot} : [futures EXCEPT ![r.slot] = r.at][t] = futures[t]
        /\ [futures EXCEPT ![r.slot] = r.at][r.slot] = r.at
    BY <1>2 DEF Forgotten
  <2>3. r.op = "future" => r.at # 0
    BY DEF Calls
  <2>4. \/ e = Effect(<<>>, expires, futures)
        \/ e = Effect(<<>>, expires, Forgotten(r.slot)) /\ plan = NoFuture
        \/ e = Effect(<<put, done>>, expires, Forgotten(r.slot))
        \/ e = Effect(<<gone>>, expires, Forgotten(r.slot))
        \/ e = Effect(<<new>>, expires, [futures EXCEPT ![r.slot] = r.at]) /\ r.op = "future"
    BY <1>4 DEF Run, Execute, Refused, Nothing, FutureOps, Future, Exec, Cancel
  <2> HIDE DEF e, put, new, gone, done
  <2>5. CASE e = Effect(<<>>, expires, futures)
    BY <1>1, <2>5, FinalNone DEF Effect
  <2>6. CASE e = Effect(<<>>, expires, Forgotten(r.slot)) /\ plan = NoFuture
    BY <1>1, <2>2, <2>6, FinalNone DEF Effect
  <2>7. CASE e = Effect(<<put, done>>, expires, Forgotten(r.slot))
    BY <1>1, <2>1, <2>2, <2>7, FinalTwo DEF Effect
  <2>8. CASE e = Effect(<<gone>>, expires, Forgotten(r.slot))
    BY <1>1, <2>1, <2>2, <2>8, FinalOne DEF Effect
  <2>9. CASE e = Effect(<<new>>, expires, [futures EXCEPT ![r.slot] = r.at]) /\ r.op = "future"
    BY <1>1, <2>1, <2>2, <2>3, <2>9, FinalOne DEF Effect
  <2> QED
    BY <2>4, <2>5, <2>6, <2>7, <2>8, <2>9
<1>5. CASE r.op = "loadfutures"
  <2>1. e = LoadFutures(r)
    BY <1>5 DEF Run, Prepare, Skips, Execute
  <2>2. Final(e) = disk
    BY <1>5, <2>1, FinalNone DEF LoadFutures
  <2>3. e.futures = [t \in Slots |-> IF Planned(t, r.slot.db) THEN disk.future[t].at ELSE futures[t]]
    BY <1>5, <2>1 DEF LoadFutures, Effect
  <2>4. disk.future[s] # NoFuture => disk.future[s].at # 0
    BY <1>2 DEF GoodDisks, Plans
  <2> HIDE DEF e
  <2> QED
    BY <1>1, <2>2, <2>3, <2>4
<1> QED
  BY <1>3, <1>4, <1>5

(* Start-up schedules every future of the database it lists                *)
(* (future_list_query::Run).                                               *)
LEMMA PlansLoaded ==
  ASSUME KInv, NEW r \in Calls(AnyOp), Perform(r), r.op = "loadfutures", KeepFutures,
         NEW s \in Slots, s.db = r.slot.db
  PROVE  disk'.future[s] # NoFuture => futures'[s] # 0
<1> DEFINE e == Run(r)
<1>1. disk' = Final(e) /\ futures' = e.futures
  BY PerformFinal
<1>2. e = LoadFutures(r)
  BY DEF Run, Prepare, Skips, Execute
<1>3. Final(e) = disk
  BY <1>2, FinalNone DEF LoadFutures
<1>4. e.futures = [t \in Slots |-> IF Planned(t, r.slot.db) THEN disk.future[t].at ELSE futures[t]]
  BY <1>2 DEF LoadFutures, Effect
<1>5. disk.future[s] # NoFuture => disk.future[s].at # 0
  BY DEF KInv, GoodDisks, Plans
<1> HIDE DEF e
<1> QED
  BY <1>1, <1>3, <1>4, <1>5 DEF Planned

-----------------------------------------------------------------------------
(* The queue of Global.                                                    *)

(* The sweep and the resets add to its end, and never a list of start-up   *)
(* (ExpireManager::Flush, FutureManager::Flush, RESET).                    *)
Pushable(r) == r.op \notin Loads

LEMMA QueueGrows ==
  ASSUME KInv, Sweep \/ \E op \in ResetOps, user \in Slots : Reset(op, user)
  PROVE  /\ \E extra \in Seq(Calls(GlobalOps)) :
              /\ queue' = queue \o extra
              /\ \A j \in 1 .. Len(extra) : Pushable(extra[j])
         /\ UNCHANGED <<disk, expires, futures, inflight, ready, restarts>>
<1>1. CASE Sweep
  <2> DEFINE time == IF now < MaxTime THEN now + 1 ELSE now
  <2>1. PICK e \in Orders(Due(expires, time), expires), f \in Orders(Due(futures, time), futures) :
          queue' = queue \o Pushes("del", e) \o Pushes("exec", f)
    BY <1>1 DEF Sweep
  <2>2. Due(expires, time) \in SUBSET Slots /\ Due(futures, time) \in SUBSET Slots
    BY DEF Due
  <2> HIDE DEF time
  <2> DEFINE dels == Pushes("del", e)
             execs == Pushes("exec", f)
  <2>3. /\ dels \in Seq(Calls(GlobalOps)) /\ \A j \in 1 .. Len(dels) : Pushable(dels[j])
        /\ execs \in Seq(Calls(GlobalOps)) /\ \A j \in 1 .. Len(execs) : Pushable(execs[j])
    <3>1. "del" \in {"del", "exec", "persist", "cancel"} /\ "exec" \in {"del", "exec", "persist", "cancel"}
      OBVIOUS
    <3>2. dels \in Seq(Calls(GlobalOps)) /\ \A j \in 1 .. Len(dels) : Pushable(dels[j])
      BY <2>2, <3>1, PushesSound DEF Pushable, Due
    <3>3. execs \in Seq(Calls(GlobalOps)) /\ \A j \in 1 .. Len(execs) : Pushable(execs[j])
      BY <2>2, <3>1, PushesSound DEF Pushable, Due
    <3> QED
      BY <3>2, <3>3
  <2> HIDE DEF dels, execs
  <2>4. /\ Len(dels) \in Nat /\ Len(execs) \in Nat
        /\ Len(dels \o execs) = Len(dels) + Len(execs)
        /\ \A j \in 1 .. Len(dels) + Len(execs) : (dels \o execs)[j] =
              IF j <= Len(dels) THEN dels[j] ELSE execs[j - Len(dels)]
    BY <2>3, ConcatProperties, LenProperties
  <2>5. /\ dels \o execs \in Seq(Calls(GlobalOps))
        /\ \A j \in 1 .. Len(dels \o execs) : Pushable((dels \o execs)[j])
    <3>1. ASSUME NEW j \in 1 .. Len(dels \o execs)
          PROVE  Pushable((dels \o execs)[j])
      <4>1. CASE j <= Len(dels)
        BY <2>3, <2>4, <4>1
      <4>2. CASE ~(j <= Len(dels))
        <5>1. j - Len(dels) \in 1 .. Len(execs)
          BY <2>4, <4>2
        <5> QED
          BY <2>3, <2>4, <4>2, <5>1
      <4> QED
        BY <4>1, <4>2
    <3> QED
      BY <2>3, <3>1, ConcatProperties
  <2>6. queue' = queue \o (dels \o execs)
    BY <2>1, <2>3, ConcatAssociative DEF dels, execs, KInv
  <2> QED
    BY <1>1, <2>5, <2>6 DEF Sweep, memory
<1>2. ASSUME NEW op \in ResetOps, NEW user \in Slots, Reset(op, user)
      PROVE  /\ \E extra \in Seq(Calls(GlobalOps)) :
                   /\ queue' = queue \o extra
                   /\ \A j \in 1 .. Len(extra) : Pushable(extra[j])
             /\ UNCHANGED <<disk, expires, futures, inflight, ready, restarts>>
  <2> DEFINE list    == IF op \in {"freset", "fresetall"} THEN futures ELSE expires
             removal == IF op \in {"freset", "fresetall"} THEN "cancel" ELSE "persist"
             covered == {s \in Slots : list[s] # 0 /\ Covers(op, user, s)}
  <2>1. PICK order \in Orders(covered, list) : queue' = queue \o Pushes(removal, order)
    BY <1>2 DEF Reset
  <2>2. /\ removal \in {"del", "exec", "persist", "cancel"} /\ removal # "del"
        /\ covered \in SUBSET Slots
    OBVIOUS
  <2> HIDE DEF list, removal, covered
  <2> DEFINE extra == Pushes(removal, order)
  <2>3. extra \in Seq(Calls(GlobalOps)) /\ \A j \in 1 .. Len(extra) : Pushable(extra[j])
    <3>1. /\ extra \in Seq(Calls(GlobalOps))
          /\ \A j \in 1 .. Len(extra) : extra[j].op \notin Loads /\ extra[j].slot \in covered
                                     /\ (removal # "del" => extra[j].op # "del")
      BY <2>2, PushesSound
    <3> QED
      BY <2>2, <3>1 DEF Pushable
  <2> QED
    BY <1>2, <2>1, <2>3 DEF Reset, memory
<1> QED
  BY <1>1, <1>2

(* What was there stays where it was, and what came is no list.            *)
LEMMA QueueAfterGrowth ==
  ASSUME KInv, NEW extra \in Seq(Calls(GlobalOps)), queue' = queue \o extra,
         \A j \in 1 .. Len(extra) : Pushable(extra[j])
  PROVE  /\ DOMAIN queue \subseteq DOMAIN queue'
         /\ DOMAIN queue = 1 .. Len(queue) /\ Len(queue) \in Nat
         /\ DOMAIN queue' = 1 .. Len(queue')
         /\ \A j \in DOMAIN queue : queue'[j] = queue[j]
         /\ \A j \in DOMAIN queue' \ DOMAIN queue : Pushable(queue'[j])
<1>1. queue \in Seq(Calls(GlobalOps))
  BY DEF KInv
<1>2. /\ Len(queue) \in Nat /\ Len(extra) \in Nat /\ DOMAIN queue = 1 .. Len(queue)
      /\ queue' \in Seq(Calls(GlobalOps)) /\ Len(queue') = Len(queue) + Len(extra)
      /\ \A j \in 1 .. Len(queue) + Len(extra) : queue'[j] =
            IF j <= Len(queue) THEN queue[j] ELSE extra[j - Len(queue)]
  BY <1>1, ConcatProperties, LenProperties
<1>3. DOMAIN queue' = 1 .. Len(queue) + Len(extra)
  BY <1>2, LenProperties
<1>4. ASSUME NEW j \in DOMAIN queue' \ DOMAIN queue
      PROVE  Pushable(queue'[j])
  <2>1. j - Len(queue) \in 1 .. Len(extra) /\ ~(j <= Len(queue))
    BY <1>2, <1>3
  <2> QED
    BY <1>2, <1>3, <2>1
<1> QED
  BY <1>2, <1>3, <1>4

(* What stays when a request of Global has run.                            *)
LEMMA QueueShrinks ==
  ASSUME KInv, NEW i \in DOMAIN queue, RunGlobal(i)
  PROVE  /\ Len(queue) \in Nat /\ DOMAIN queue = 1 .. Len(queue)
         /\ DOMAIN queue' = 1 .. Len(queue) - 1
         /\ queue[i] \in Calls(GlobalOps) /\ queue[i] \in Calls(AnyOp)
         /\ \A j \in DOMAIN queue' : queue'[j] = IF j < i THEN queue[j] ELSE queue[j + 1]
<1>1. queue \in Seq(Calls(GlobalOps))
  BY DEF KInv
<1>2. /\ queue' \in Seq(Calls(GlobalOps)) /\ Len(queue') = Len(queue) - 1
      /\ \A j \in 1 .. Len(queue') : queue'[j] = IF j < i THEN queue[j] ELSE queue[j + 1]
  BY <1>1, Removal DEF RunGlobal
<1>3. DOMAIN queue' = 1 .. Len(queue') /\ Len(queue) \in Nat /\ DOMAIN queue = 1 .. Len(queue)
  BY <1>1, <1>2, LenProperties
<1>4. queue[i] \in Calls(GlobalOps)
  BY <1>1, <1>3, ElementOfSeq
<1> QED
  BY <1>2, <1>3, <1>4, CallsAreCalls

(* At start-up the lists are all there is in it.                           *)
LEMMA QueueRestarts ==
  ASSUME KInv, NEW d, Restart(d)
  PROVE  /\ Len(queue') \in Nat /\ DOMAIN queue' = 1 .. Len(queue') /\ Len(queue') \in DOMAIN queue'
         /\ queue'[Len(queue')].op = "loadfutures" /\ queue'[Len(queue')].slot.db = LastDb
         /\ \A j \in DOMAIN queue' : j # Len(queue') => queue'[j].op = "loadexpires"
         /\ \A db \in Dbs : Loading(db)'
<1>1. /\ queue' \in Seq(Calls(GlobalOps))
      /\ Cardinality(Dbs) \in Nat /\ Len(queue') = Cardinality(Dbs) + 1
      /\ queue'[Len(queue')].op = "loadfutures" /\ queue'[Len(queue')].slot.db = LastDb
      /\ \A i \in 1 .. Len(queue') - 1 : queue'[i].op = "loadexpires"
      /\ \A db \in Dbs : \E i \in 1 .. Len(queue') - 1 : queue'[i].slot.db = db
      /\ \A i, j \in 1 .. Len(queue') - 1 : queue'[i].slot.db = queue'[j].slot.db => i = j
  BY StartupsSound DEF Restart
<1>2. Len(queue') \in Nat /\ DOMAIN queue' = 1 .. Len(queue') /\ Len(queue') \in DOMAIN queue'
  BY <1>1, LenProperties
<1>3. \A i \in 1 .. Len(queue') - 1 : i \in DOMAIN queue'
  BY <1>2
<1>4. \A j \in DOMAIN queue' : j # Len(queue') => j \in 1 .. Len(queue') - 1
  BY <1>2
<1> QED
  BY <1>1, <1>2, <1>3, <1>4 DEF Loading

-----------------------------------------------------------------------------
(* Futures.                                                                *)

(* The steps, told apart by what they do to the queue.                     *)
LEMMA Steps ==
  ASSUME KInv, [Next]_vars
  PROVE  \/ \E c \in Clients : Command(c)
         \/ \E c \in Clients : RunClient(c)
         \/ /\ \E extra \in Seq(Calls(GlobalOps)) :
                 /\ queue' = queue \o extra
                 /\ \A j \in 1 .. Len(extra) : Pushable(extra[j])
            /\ UNCHANGED <<disk, expires, futures, inflight, ready, restarts>>
         \/ \E i \in DOMAIN queue : RunGlobal(i)
         \/ \E d \in GoodDisks : Restart(d)
         \/ UNCHANGED vars
BY QueueGrows, CrashLeavesGoodDisk DEF Next

(* Before Ready nobody is served, and only the futures of the last         *)
(* database are listed (future_list_query::Process, DBManager).            *)
LEMMA ServedWhenReady ==
  ASSUME KInv, Unserved, LastOnly, [Next]_vars
  PROVE  Unserved' /\ LastOnly'
<1>1. ASSUME NEW c \in Clients, Command(c) PROVE Unserved' /\ LastOnly'
  BY <1>1 DEF Command, Unserved, LastOnly
<1>2. ASSUME NEW c \in Clients, RunClient(c) PROVE Unserved' /\ LastOnly'
  <2>1. ready
    BY <1>2 DEF Unserved, RunClient
  <2> QED
    BY <1>2, <2>1 DEF RunClient, Unserved, LastOnly
<1>3. ASSUME NEW extra \in Seq(Calls(GlobalOps)), queue' = queue \o extra,
             \A j \in 1 .. Len(extra) : Pushable(extra[j]),
             UNCHANGED <<disk, expires, futures, inflight, ready, restarts>>
      PROVE  Unserved' /\ LastOnly'
  BY <1>3, QueueAfterGrowth DEF Unserved, LastOnly, Loads, Pushable
<1>4. ASSUME NEW i \in DOMAIN queue, RunGlobal(i) PROVE Unserved' /\ LastOnly'
  <2>1. /\ Len(queue) \in Nat /\ DOMAIN queue = 1 .. Len(queue)
        /\ DOMAIN queue' = 1 .. Len(queue) - 1
        /\ \A j \in DOMAIN queue' : queue'[j] = IF j < i THEN queue[j] ELSE queue[j + 1]
    BY <1>4, QueueShrinks
  <2>2. \A j \in DOMAIN queue' : j \in DOMAIN queue /\ j + 1 \in DOMAIN queue
    BY <2>1
  <2>3. LastOnly'
    BY <2>1, <2>2 DEF LastOnly
  <2>4. Unserved'
    BY <1>4 DEF RunGlobal, Unserved, KInv
  <2> QED
    BY <2>3, <2>4
<1>5. ASSUME NEW d \in GoodDisks, Restart(d) PROVE Unserved' /\ LastOnly'
  <2>1. LastOnly'
    BY <1>5, QueueRestarts DEF LastOnly
  <2> QED
    BY <1>5, <2>1 DEF Restart, Unserved
<1>6. CASE UNCHANGED vars
  BY <1>6 DEF vars, memory, Unserved, LastOnly
<1> QED
  BY <1>1, <1>2, <1>3, <1>4, <1>5, <1>6, Steps

(* Whatever is pushed before the first restart is no list of start-up.     *)
LEMMA FreshStep ==
  ASSUME KInv, Fresh, [Next]_vars
  PROVE  Fresh'
<1> SUFFICES ASSUME restarts' = 0
             PROVE  ready' /\ \A j \in DOMAIN queue' : queue'[j].op \notin Loads
  BY DEF Fresh
<1>1. CASE UNCHANGED <<queue, ready, restarts>>
  BY <1>1 DEF Fresh
<1>2. ASSUME NEW extra \in Seq(Calls(GlobalOps)), queue' = queue \o extra,
             \A j \in 1 .. Len(extra) : Pushable(extra[j]),
             UNCHANGED <<disk, expires, futures, inflight, ready, restarts>>
      PROVE  ready' /\ \A j \in DOMAIN queue' : queue'[j].op \notin Loads
  <2>1. /\ \A j \in DOMAIN queue : queue'[j] = queue[j]
        /\ \A j \in DOMAIN queue' \ DOMAIN queue : Pushable(queue'[j])
    BY <1>2, QueueAfterGrowth
  <2> QED
    BY <1>2, <2>1 DEF Fresh, Pushable
<1>3. ASSUME NEW i \in DOMAIN queue, RunGlobal(i)
      PROVE  ready' /\ \A j \in DOMAIN queue' : queue'[j].op \notin Loads
  <2>1. /\ Len(queue) \in Nat /\ DOMAIN queue = 1 .. Len(queue)
        /\ DOMAIN queue' = 1 .. Len(queue) - 1
        /\ \A j \in DOMAIN queue' : queue'[j] = IF j < i THEN queue[j] ELSE queue[j + 1]
    BY <1>3, QueueShrinks
  <2>2. \A j \in DOMAIN queue' : j \in DOMAIN queue /\ j + 1 \in DOMAIN queue
    BY <2>1
  <2>3. ready /\ \A j \in DOMAIN queue : queue[j].op \notin Loads
    BY <1>3 DEF RunGlobal, Fresh
  <2> QED
    BY <1>3, <2>1, <2>2, <2>3 DEF RunGlobal
<1>4. ASSUME NEW d \in GoodDisks, Restart(d) PROVE FALSE
  BY <1>4 DEF Restart, KInv
<1>5. ASSUME NEW c \in Clients, Command(c) \/ RunClient(c)
      PROVE  UNCHANGED <<queue, ready, restarts>>
  BY <1>5 DEF Command, RunClient
<1>6. UNCHANGED vars => UNCHANGED <<queue, ready, restarts>>
  BY DEF vars
<1> QED
  BY <1>1, <1>2, <1>3, <1>4, <1>5, <1>6, Steps

(* A future on disk is scheduled once clients are served, and stays so: in *)
(* the last database because start-up lists it, and in the others as long  *)
(* as there has been no start-up to forget it.                             *)
LEMMA FuturesKeptStep ==
  ASSUME KInv, Unserved, LastOnly, Fresh, FuturesKept, [Next]_vars
  PROVE  FuturesKept'
<1> SUFFICES ASSUME ready', KeepFutures, NEW s \in Slots, s.db = LastDb \/ restarts' = 0
             PROVE  disk'.future[s] # NoFuture => futures'[s] # 0
  BY DEF FuturesKept
<1>1. ready /\ (s.db = LastDb \/ restarts = 0) => (disk.future[s] # NoFuture => futures[s] # 0)
  BY DEF FuturesKept
<1>2. CASE UNCHANGED <<disk, futures, ready, restarts>>
  BY <1>1, <1>2
<1>3. ASSUME NEW c \in Clients, RunClient(c)
      PROVE  disk'.future[s] # NoFuture => futures'[s] # 0
  <2>1. inflight[c] \in Calls(AnyOp) /\ Perform(inflight[c]) /\ ready /\ restarts' = restarts
    BY <1>3, CallsAreCalls DEF RunClient, KInv, Unserved
  <2>2. disk.future[s] # NoFuture => futures[s] # 0
    BY <1>1, <2>1
  <2> QED
    BY <2>1, <2>2, PlansStayLevel
<1>4. ASSUME NEW i \in DOMAIN queue, RunGlobal(i)
      PROVE  disk'.future[s] # NoFuture => futures'[s] # 0
  <2>1. queue[i] \in Calls(AnyOp) /\ Perform(queue[i]) /\ restarts' = restarts
    BY <1>4, QueueShrinks DEF RunGlobal
  <2>2. CASE queue[i].op = "loadfutures"
    <3>1. s.db = LastDb
      BY <2>1, <2>2 DEF Fresh, Loads
    <3> QED
      BY <2>1, <2>2, <3>1, PlansLoaded DEF LastOnly
  <2>3. CASE queue[i].op # "loadfutures"
    <3>1. ready
      BY <1>4, <2>3 DEF RunGlobal
    <3>2. disk.future[s] # NoFuture => futures[s] # 0
      BY <1>1, <2>1, <3>1
    <3> QED
      BY <2>1, <2>3, <3>2, PlansStayLevel
  <2> QED
    BY <2>2, <2>3
<1>5. ASSUME NEW d \in GoodDisks, Restart(d) PROVE FALSE
  BY <1>5 DEF Restart
<1>6. ASSUME NEW c \in Clients, Command(c) PROVE UNCHANGED <<disk, futures, ready, restarts>>
  BY <1>6 DEF Command, memory
<1>7. UNCHANGED vars => UNCHANGED <<disk, futures, ready, restarts>>
  BY DEF vars, memory
<1> QED
  BY <1>2, <1>3, <1>4, <1>5, <1>6, <1>7, Steps

FInv == KInv /\ Unserved /\ LastOnly /\ Fresh /\ FuturesKept

(* The invariant of start-up and the futures.                              *)
LEMMA FInvariant == Spec => []FInv
<1>1. Init => FInv
  <2> SUFFICES ASSUME Init PROVE FInv
    OBVIOUS
  <2>1. Unserved /\ LastOnly /\ Fresh
    BY DEF Init, Unserved, LastOnly, Fresh
  <2>2. FuturesKept
    BY DEF Init, FuturesKept
  <2> QED
    BY <2>1, <2>2, KInvInit DEF FInv
<1>2. FInv /\ [Next]_vars => FInv'
  BY KInvStep, ServedWhenReady, FreshStep, FuturesKeptStep DEF FInv
<1> QED
  BY <1>1, <1>2, PTL DEF Spec

(* Whenever clients are served, every future on disk of the last database  *)
(* is scheduled, over any crashes and restarts and with any number of      *)
(* workers, and one of the other databases until the first restart: it     *)
(* will be executed, or can be cancelled (ListFutures, WriteFuture,        *)
(* DelFuture, future_exec_query).                                          *)
THEOREM FuturesStay == Spec => []FuturesKept
<1>1. FInv => FuturesKept
  BY DEF FInv
<1> QED
  BY <1>1, FInvariant, PTL

-----------------------------------------------------------------------------
(* Start-up with one worker.                                               *)

(* With one worker the lists of start-up stay ahead of everything else.    *)
LEMMA StartupStep ==
  ASSUME KInv, Unserved, StartupFirst, NThreads = 1, [Next]_vars
  PROVE  StartupFirst'
<1>1. CASE UNCHANGED <<queue, ready>>
  BY <1>1 DEF StartupFirst
<1>2. ASSUME NEW extra \in Seq(Calls(GlobalOps)), queue' = queue \o extra,
             \A j \in 1 .. Len(extra) : Pushable(extra[j]),
             UNCHANGED <<disk, expires, futures, inflight, ready, restarts>>
      PROVE  StartupFirst'
  <2>1. /\ DOMAIN queue \subseteq DOMAIN queue'
        /\ DOMAIN queue = 1 .. Len(queue) /\ Len(queue) \in Nat
        /\ DOMAIN queue' = 1 .. Len(queue')
        /\ \A j \in DOMAIN queue : queue'[j] = queue[j]
        /\ \A j \in DOMAIN queue' \ DOMAIN queue : queue'[j].op \notin Loads
    BY <1>2, QueueAfterGrowth DEF Pushable
  <2>2. CASE ready
    BY <1>2, <2>1, <2>2 DEF StartupFirst
  <2>3. CASE ~ready
    <3>1. PICK k \in DOMAIN queue :
            /\ queue[k].op = "loadfutures"
            /\ \A i \in DOMAIN queue : /\ i < k => queue[i].op = "loadexpires"
                                       /\ i > k => queue[i].op \notin Loads
      BY <2>3 DEF StartupFirst
    <3>2. \A j \in DOMAIN queue' \ DOMAIN queue : ~(j < k)
      BY <2>1
    <3>3. /\ k \in DOMAIN queue' /\ queue'[k].op = "loadfutures"
          /\ \A i \in DOMAIN queue' : /\ i < k => queue'[i].op = "loadexpires"
                                      /\ i > k => queue'[i].op \notin Loads
      BY <2>1, <3>1, <3>2
    <3> QED
      BY <1>2, <2>3, <3>3 DEF StartupFirst
  <2> QED
    BY <2>2, <2>3 DEF KInv
<1>3. ASSUME NEW i \in DOMAIN queue, RunGlobal(i)
      PROVE  StartupFirst'
  <2>1. i = 1
    BY <1>3 DEF RunGlobal
  <2>2. /\ Len(queue) \in Nat /\ DOMAIN queue = 1 .. Len(queue)
        /\ DOMAIN queue' = 1 .. Len(queue) - 1
        /\ \A j \in DOMAIN queue' : queue'[j] = IF j < i THEN queue[j] ELSE queue[j + 1]
    BY <1>3, QueueShrinks
  <2>3. \A j \in DOMAIN queue' : j + 1 \in DOMAIN queue /\ queue'[j] = queue[j + 1]
    BY <2>1, <2>2
  <2>4. CASE ready
    <3>1. ready' /\ \A j \in DOMAIN queue' : queue'[j].op \notin Loads
      BY <1>3, <2>3, <2>4 DEF StartupFirst, RunGlobal
    <3> QED
      BY <3>1 DEF StartupFirst
  <2>5. CASE ~ready
    <3>1. PICK k \in DOMAIN queue :
            /\ queue[k].op = "loadfutures"
            /\ \A j \in DOMAIN queue : /\ j < k => queue[j].op = "loadexpires"
                                       /\ j > k => queue[j].op \notin Loads
      BY <2>5 DEF StartupFirst
    <3>2. CASE k = 1
      <4>1. ready' = TRUE
        BY <1>3, <2>1, <3>1, <3>2 DEF RunGlobal
      <4>2. \A j \in DOMAIN queue' : j + 1 > k
        BY <2>2, <3>2
      <4>3. \A j \in DOMAIN queue' : queue'[j].op \notin Loads
        BY <2>3, <3>1, <4>2
      <4> QED
        BY <4>1, <4>3 DEF StartupFirst
    <3>3. CASE k # 1
      <4>1. k - 1 \in DOMAIN queue' /\ (k - 1) + 1 = k /\ 1 < k
        BY <2>2, <3>3
      <4>2. queue[1].op = "loadexpires"
        BY <2>1, <3>1, <4>1
      <4>3. ready' = FALSE
        BY <1>3, <2>1, <2>5, <4>2 DEF RunGlobal
      <4>4. \A j \in DOMAIN queue' : /\ j < k - 1 => j + 1 < k
                                     /\ j > k - 1 => j + 1 > k
        BY <2>2, <4>1
      <4>5. /\ queue'[k - 1].op = "loadfutures"
            /\ \A j \in DOMAIN queue' : /\ j < k - 1 => queue'[j].op = "loadexpires"
                                        /\ j > k - 1 => queue'[j].op \notin Loads
        BY <2>3, <3>1, <4>1, <4>4
      <4> QED
        BY <4>1, <4>3, <4>5 DEF StartupFirst
    <3> QED
      BY <3>2, <3>3
  <2> QED
    BY <2>4, <2>5 DEF KInv
<1>4. ASSUME NEW d \in GoodDisks, Restart(d)
      PROVE  StartupFirst'
  <2>1. /\ Len(queue') \in Nat /\ DOMAIN queue' = 1 .. Len(queue') /\ Len(queue') \in DOMAIN queue'
        /\ queue'[Len(queue')].op = "loadfutures"
        /\ \A j \in DOMAIN queue' : j # Len(queue') => queue'[j].op = "loadexpires"
    BY <1>4, QueueRestarts
  <2>2. \A j \in DOMAIN queue' : ~(j > Len(queue')) /\ (j < Len(queue') => j # Len(queue'))
    BY <2>1
  <2>3. ready' = FALSE
    BY <1>4 DEF Restart
  <2> QED
    BY <2>1, <2>2, <2>3 DEF StartupFirst
<1>5. ASSUME NEW c \in Clients, Command(c) \/ RunClient(c) PROVE UNCHANGED <<queue, ready>>
  BY <1>5 DEF Command, RunClient
<1>6. UNCHANGED vars => UNCHANGED <<queue, ready>>
  BY DEF vars
<1> QED
  BY <1>1, <1>2, <1>3, <1>4, <1>5, <1>6, Steps

(* The invariant of start-up with one worker.                              *)
LEMMA StartupInvariant == Spec => [](FInv /\ (NThreads = 1 => StartupFirst))
<1>1. Init => StartupFirst
  BY DEF Init, StartupFirst
<1>2. FInv /\ (NThreads = 1 => StartupFirst) /\ [Next]_vars => (NThreads = 1 => StartupFirst)'
  BY StartupStep DEF FInv
<1> QED
  BY <1>1, <1>2, FInvariant, PTL DEF Spec
=============================================================================
