------------------------- MODULE KeyspaceExpireProofs -------------------------
(* The expirations in memory stay level with their records on disk, and    *)
(* only a key that exists is expiring.                                     *)
EXTENDS KeyspaceLoadProofs

(* The commands that keep list and records level, as long as start-up      *)
(* either keeps the expirations or is over before anything else runs.      *)
Uneven  == {"rename", "renamenx", "move", "transfer", "wdel"}
Orderly == KeepExpires \/ NThreads = 1
Level ==
  \A s \in Slots :
    /\ expires[s] \in {0, disk.expire[Own(s)]}
    /\ ~Loading(s.db) => expires[s] = disk.expire[Own(s)]
    /\ ~KeepExpires /\ ~ready => expires[s] = 0

-----------------------------------------------------------------------------
(* Expirations: the list in memory and the records on disk.                *)

(* What a request does to the schedule of s: nothing to either, or both    *)
(* end the same.                                                           *)
LevelAt(e, s) ==
  \/ e.expires[s] = expires[s] /\ Final(e).expire[Own(s)] = disk.expire[Own(s)]
  \/ e.expires[s] = Final(e).expire[Own(s)]

(* Schedules and records are both left alone, or one entry and its own     *)
(* record get the same value.                                              *)
LEMMA LevelSame ==
  ASSUME NEW e, e.expires = expires, Final(e).expire = disk.expire, NEW s
  PROVE  LevelAt(e, s)
BY DEF LevelAt

LEMMA LevelSet ==
  ASSUME KInv, NEW t \in Slots, NEW at, NEW e, NEW s \in Slots,
         e.expires = [expires EXCEPT ![t] = at],
         Final(e).expire = [disk.expire EXCEPT ![Own(t)] = at]
  PROVE  LevelAt(e, s)
<1>1. /\ expires \in [Slots -> Nat] /\ disk.expire \in [Slots \X Dbs -> Nat]
      /\ Own(t) \in Slots \X Dbs /\ Own(s) \in Slots \X Dbs
  BY Places DEF KInv, GoodDisks, Disks
<1>2. CASE s = t
  BY <1>1, <1>2 DEF LevelAt
<1>3. CASE s # t
  <2>1. Own(s) # Own(t)
    BY <1>3 DEF Own
  <2> QED
    BY <1>1, <1>3, <2>1 DEF LevelAt
<1> QED
  BY <1>2, <1>3

(* Every command but the uneven ones does one or the other.                *)
LEMMA RunLevel ==
  ASSUME KInv, NEW r \in Calls(AnyOp), r.op \notin Uneven \cup Loads, NEW s \in Slots
  PROVE  LevelAt(Run(r), s)
<1>1. /\ disk \in Disks /\ r.slot \in Slots /\ r.to \in Slots
  BY DEF KInv, GoodDisks, Calls
<1>2. LevelAt(Nothing, s)
  BY FinalNone, LevelSame DEF Nothing, Effect
<1>3. ASSUME NEW c1, c1.expire = disk.expire, NEW f
      PROVE  LevelAt(Effect(<<c1>>, expires, f), s)
  BY <1>3, FinalOne, LevelSame DEF Effect
<1>4. ASSUME NEW c1, NEW t \in Slots, NEW at, c1.expire = [disk.expire EXCEPT ![Own(t)] = at]
      PROVE  LevelAt(Effect(<<c1>>, [expires EXCEPT ![t] = at], futures), s)
  BY <1>4, FinalOne, LevelSet DEF Effect
<1>5. LevelAt(Set(r), s) /\ LevelAt(GetDel(r), s)
  <2> DEFINE put  == [disk EXCEPT !.data[<<r.slot, Base(r.op)>>] = r.value]
             gone == [disk EXCEPT !.data[<<r.slot, "KEY">>] = Absent]
  <2>1. put.expire = disk.expire /\ gone.expire = disk.expire
    BY <1>1 DEF Disks
  <2>2. Set(r) = Effect(<<put>>, expires, futures) /\ GetDel(r) = Effect(<<gone>>, expires, futures)
    BY DEF Set, GetDel, Only
  <2> HIDE DEF put, gone
  <2> QED
    BY <1>3, <2>1, <2>2
<1>6. LevelAt(SetEX(r), s) /\ LevelAt(Expire(r), s) /\ LevelAt(DelExpire(r), s)
  <2> DEFINE both == [disk EXCEPT !.data[<<r.slot, "KEY">>] = r.value, !.expire[Own(r.slot)] = r.at]
             rec  == [disk EXCEPT !.expire[Own(r.slot)] = r.at]
             off  == [disk EXCEPT !.expire[Own(r.slot)] = 0]
  <2>1. /\ both.expire = [disk.expire EXCEPT ![Own(r.slot)] = r.at]
        /\ rec.expire = [disk.expire EXCEPT ![Own(r.slot)] = r.at]
        /\ off.expire = [disk.expire EXCEPT ![Own(r.slot)] = 0]
    BY <1>1 DEF Disks
  <2>2. /\ SetEX(r) = Effect(<<both>>, [expires EXCEPT ![r.slot] = r.at], futures)
        /\ Expire(r) = Effect(<<rec>>, [expires EXCEPT ![r.slot] = r.at], futures)
        /\ DelExpire(r) = Effect(<<off>>, [expires EXCEPT ![r.slot] = 0], futures)
    BY DEF SetEX, ExpireBatch, Expire, DelExpire, Armed, Disarmed
  <2> HIDE DEF both, rec, off
  <2>3. LevelAt(SetEX(r), s)
    BY <1>1, <1>4, <2>1, <2>2
  <2>4. LevelAt(Expire(r), s)
    BY <1>1, <1>4, <2>1, <2>2
  <2>5. LevelAt(DelExpire(r), s)
    <3>1. DelExpire(r).expires = [expires EXCEPT ![r.slot] = 0] /\ Final(DelExpire(r)) = off
      BY <2>2, FinalOne DEF Effect
    <3> QED
      BY <1>1, <2>1, <3>1, LevelSet
  <2> QED
    BY <2>3, <2>4, <2>5
<1>7. LevelAt(Del(r), s)
  <2> DEFINE both == [disk EXCEPT !.data[<<r.slot, Found(r.slot)>>] = Absent,
                                  !.expire[Own(r.slot)] = 0]
             gone == [disk EXCEPT !.data[<<r.slot, Found(r.slot)>>] = Absent]
  <2>1. both.expire = [disk.expire EXCEPT ![Own(r.slot)] = 0] /\ gone.expire = disk.expire
    BY <1>1 DEF Disks
  <2>2. \/ Del(r) = Effect(<<both>>, [expires EXCEPT ![r.slot] = 0], futures)
        \/ Del(r) = Effect(<<gone>>, expires, futures)
    BY DEF Del, Only, Disarmed
  <2> HIDE DEF both, gone
  <2> QED
    BY <1>1, <1>3, <1>4, <2>1, <2>2
<1>8. LevelAt(Copy(r), s)
  <2> DEFINE at     == expires[r.slot]
             rec    == [disk EXCEPT !.expire[Own(r.to)] = at]
             put(d) == [d EXCEPT !.data[<<r.to, Found(r.slot)>>] = Value(r.slot)]
  <2>1. /\ put(rec).expire = [disk.expire EXCEPT ![Own(r.to)] = at]
        /\ put(disk).expire = disk.expire
    BY <1>1 DEF Disks
  <2>2. \/ Copy(r) = Nothing
        \/ Copy(r) = Effect(<<rec, put(rec)>>, [expires EXCEPT ![r.to] = at], futures)
        \/ Copy(r) = Effect(<<put(disk)>>, expires, futures)
    BY DEF Copy, Only, Armed
  <2> HIDE DEF rec, put, at
  <2>3. LevelAt(Effect(<<rec, put(rec)>>, [expires EXCEPT ![r.to] = at], futures), s)
    BY <1>1, <2>1, FinalTwo, LevelSet DEF Effect
  <2> QED
    BY <1>2, <1>3, <2>1, <2>2, <2>3
<1>9. LevelAt(Clone(r), s)
  <2> DEFINE put  == [disk EXCEPT !.data[<<r.to, Found(r.slot)>>] = Value(r.slot)]
             both == [disk EXCEPT !.data[<<r.to, Found(r.slot)>>] = Numeral,
                                  !.expire[Own(r.to)] = expires[r.slot]]
  <2>1. /\ both.expire = [disk.expire EXCEPT ![Own(r.to)] = expires[r.slot]]
        /\ put.expire = disk.expire
    BY <1>1 DEF Disks
  <2>2. \/ Clone(r) = Effect(<<both>>, [expires EXCEPT ![r.to] = expires[r.slot]], futures)
        \/ Clone(r) = Effect(<<put>>, expires, futures)
    BY DEF Clone, ExpireBatch, Only, Armed
  <2> HIDE DEF both, put
  <2> QED
    BY <1>1, <1>3, <1>4, <2>1, <2>2
<1>10. LevelAt(Future(r), s) /\ LevelAt(Exec(r), s) /\ LevelAt(Cancel(r), s) /\ LevelAt(Refused(r), s)
  <2> DEFINE put  == [disk EXCEPT !.data[<<r.slot, "KEY">>] = disk.future[r.slot].value]
             new  == [disk EXCEPT !.future[r.slot] = [at |-> r.at, value |-> r.value]]
             gone == DelFuture(disk, r.slot)
             done == DelFuture(put, r.slot)
  <2>1. /\ new.expire = disk.expire /\ gone.expire = disk.expire /\ done.expire = disk.expire
    BY <1>1 DEF Disks, DelFuture
  <2>2. /\ Future(r) = Effect(<<new>>, expires, [futures EXCEPT ![r.slot] = r.at])
        /\ \/ Exec(r) = Effect(<<put, done>>, expires, Forgotten(r.slot))
           \/ Exec(r) = Effect(<<>>, expires, Forgotten(r.slot))
        /\ \/ Cancel(r) = Effect(<<gone>>, expires, Forgotten(r.slot))
           \/ Cancel(r) = Nothing
        /\ \/ Refused(r) = Effect(<<gone>>, expires, Forgotten(r.slot))
           \/ Refused(r) = Nothing
    BY DEF Future, Exec, Cancel, Refused
  <2> HIDE DEF put, new, gone, done
  <2>3. /\ LevelAt(Effect(<<put, done>>, expires, Forgotten(r.slot)), s)
        /\ LevelAt(Effect(<<>>, expires, Forgotten(r.slot)), s)
    BY <2>1, FinalTwo, FinalNone, LevelSame DEF Effect
  <2> QED
    BY <1>2, <1>3, <2>1, <2>2, <2>3
<1>11. CASE ~Prepare(r)
  BY <1>10, <1>11 DEF Run
<1>12. CASE Prepare(r)
  <2>1. r.op \in AnyOp \ (Uneven \cup Loads)
    BY DEF Calls
  <2>2. Run(r) = Execute(r)
    BY <1>12 DEF Run
  <2>3. Execute(r) \in {Set(r), Nothing, GetDel(r), SetEX(r), Expire(r), DelExpire(r), Del(r),
                        Copy(r), Clone(r), Future(r), Exec(r), Cancel(r)}
    BY <2>1 DEF Execute, GetSet, SetNX, SetTX, Persist, GetPersist, Uneven, Loads,
       AnyOp, AllOps, KeyOps, HintOps, ExpireOps, FutureOps, ResetOps
  <2> QED
    BY <1>2, <1>5, <1>6, <1>7, <1>8, <1>9, <1>10, <2>2, <2>3
<1> QED
  BY <1>11, <1>12

-----------------------------------------------------------------------------
(* Which databases are still to be loaded.                                 *)

(* What is pushed later is no list of start-up.                            *)
LEMMA LoadingGrows ==
  ASSUME KInv, NEW extra \in Seq(Calls(GlobalOps)), queue' = queue \o extra,
         \A j \in 1 .. Len(extra) : Pushable(extra[j]), NEW db
  PROVE  Loading(db)' <=> Loading(db)
<1>1. /\ DOMAIN queue \subseteq DOMAIN queue'
      /\ \A j \in DOMAIN queue : queue'[j] = queue[j]
      /\ \A j \in DOMAIN queue' \ DOMAIN queue : queue'[j].op # "loadexpires"
  BY QueueAfterGrowth DEF Pushable, Loads
<1> QED
  BY <1>1 DEF Loading

(* A request that has run changes this for its own database at most, and   *)
(* only if it was its list.                                                *)
LEMMA LoadingShrinks ==
  ASSUME KInv, NEW i \in DOMAIN queue, RunGlobal(i), NEW db
  PROVE  /\ Loading(db)' => Loading(db)
         /\ queue[i].op # "loadexpires" \/ queue[i].slot.db # db =>
              (Loading(db)' <=> Loading(db))
<1>1. /\ Len(queue) \in Nat /\ DOMAIN queue = 1 .. Len(queue)
      /\ DOMAIN queue' = 1 .. Len(queue) - 1
      /\ \A j \in DOMAIN queue' : queue'[j] = IF j < i THEN queue[j] ELSE queue[j + 1]
  BY QueueShrinks
<1> DEFINE old(j) == IF j < i THEN j ELSE j + 1
<1>2. \A j \in DOMAIN queue' : old(j) \in DOMAIN queue /\ old(j) # i /\ queue'[j] = queue[old(j)]
  <2> TAKE j \in DOMAIN queue'
  <2>1. CASE j < i
    BY <1>1, <2>1
  <2>2. CASE ~(j < i)
    <3>1. j + 1 \in DOMAIN queue /\ j + 1 # i
      BY <1>1, <2>2
    <3> QED
      BY <1>1, <2>2, <3>1
  <2> QED
    BY <2>1, <2>2
<1>3. \A k \in DOMAIN queue : k # i => \E j \in DOMAIN queue' : queue'[j] = queue[k]
  <2> TAKE k \in DOMAIN queue
  <2>1. CASE k < i
    <3>1. k \in DOMAIN queue'
      BY <1>1, <2>1
    <3> QED
      BY <1>1, <2>1, <3>1
  <2>2. CASE k > i
    <3>1. k - 1 \in DOMAIN queue' /\ ~(k - 1 < i) /\ (k - 1) + 1 = k
      BY <1>1, <2>2
    <3> QED
      BY <1>1, <3>1
  <2> QED
    BY <1>1, <2>1, <2>2
<1> HIDE DEF old
<1>4. Loading(db)' => Loading(db)
  BY <1>2 DEF Loading
<1>5. ASSUME queue[i].op # "loadexpires" \/ queue[i].slot.db # db, Loading(db)
      PROVE  Loading(db)'
  <2>1. PICK k \in DOMAIN queue : queue[k].op = "loadexpires" /\ queue[k].slot.db = db
    BY <1>5 DEF Loading
  <2>2. PICK j \in DOMAIN queue' : queue'[j] = queue[k]
    BY <1>3, <1>5, <2>1
  <2> QED
    BY <2>1, <2>2 DEF Loading
<1> QED
  BY <1>4, <1>5

(* Starting up, every database is still to be loaded.                      *)
LEMMA LoadingRestarts ==
  ASSUME KInv, NEW d, Restart(d), NEW s \in Slots
  PROVE  Loading(s.db)' /\ expires'[s] = 0
BY QueueRestarts, Places DEF Restart

-----------------------------------------------------------------------------
(* List and records.                                                       *)

(* Loading the records of a database leaves those of other databases and   *)
(* their entries alone, and no record without an entry                     *)
(* (expire_list_query::Run).                                               *)
LEMMA LoadEffect ==
  ASSUME KInv, NEW r \in Calls(AnyOp), r.op = "loadexpires", NEW s \in Slots
  PROVE  /\ s.db = r.slot.db => (Final(Run(r)).expire[Own(s)] # 0 => Run(r).expires[s] # 0)
         /\ s.db # r.slot.db => /\ Run(r).expires[s] = expires[s]
                                /\ Final(Run(r)).expire[Own(s)] = disk.expire[Own(s)]
         /\ Final(Run(r)).data = disk.data
         /\ Run(r).expires[s] \in {expires[s], disk.expire[Own(s)]}
         /\ Final(Run(r)).expire[Own(s)] \in {0, disk.expire[Own(s)]}
         /\ \/ Run(r).disks = <<>>
            \/ Run(r).disks = <<Final(Run(r))>>
         /\ KeepExpires => /\ Final(Run(r)) = disk
                           /\ s.db = r.slot.db /\ disk.expire[Own(s)] # 0 =>
                                Run(r).expires[s] = disk.expire[Own(s)]
                           /\ disk.expire[Own(s)] = 0 => Run(r).expires[s] = expires[s]
         /\ ~KeepExpires => /\ Run(r).expires = expires
                            /\ s.db = r.slot.db => Final(Run(r)).expire[Own(s)] = 0
<1> DEFINE e == Run(r)
<1>1. e = LoadExpires(r)
  BY DEF Run, Prepare, Skips, Execute
<1>2. /\ expires \in [Slots -> Nat] /\ disk.expire \in [Slots \X Dbs -> Nat]
      /\ Own(s) \in Slots \X Dbs /\ Own(s)[1] = s /\ Own(s)[2] = s.db /\ disk \in Disks
  BY Places DEF KInv, GoodDisks, Disks, Own
<1>3. CASE KeepExpires
  <2> DEFINE list == [t \in Slots |-> IF Recorded(t, r.slot.db) THEN disk.expire[Own(t)] ELSE expires[t]]
  <2>1. e = Effect(<<>>, list, futures)
    BY <1>1, <1>3 DEF LoadExpires
  <2>2. list[s] = IF s.db = r.slot.db /\ disk.expire[Own(s)] # 0 THEN disk.expire[Own(s)] ELSE expires[s]
    BY DEF Recorded
  <2> HIDE DEF e, list
  <2>3. e.expires = list /\ Final(e) = disk /\ e.disks = <<>>
    BY <2>1, FinalNone DEF Effect
  <2> HIDE DEF list
  <2> QED
    BY <1>3, <2>2, <2>3 DEF e
<1>4. CASE ~KeepExpires
  <2> DEFINE clear == [disk EXCEPT !.expire = [c \in Slots \X Dbs |->
                         IF c[1].db = r.slot.db /\ c[2] = r.slot.db THEN 0 ELSE disk.expire[c]]]
  <2>1. e = Effect(<<clear>>, expires, futures)
    BY <1>1, <1>4 DEF LoadExpires, Only
  <2>2. clear.expire[Own(s)] = IF s.db = r.slot.db THEN 0 ELSE disk.expire[Own(s)]
    BY <1>2 DEF Disks
  <2>3. clear.data = disk.data
    BY <1>2 DEF Disks
  <2> HIDE DEF e, clear
  <2>4. e.expires = expires /\ Final(e) = clear /\ e.disks = <<clear>>
    BY <2>1, FinalOne DEF Effect
  <2> QED
    BY <1>4, <2>2, <2>3, <2>4 DEF e
<1> QED
  BY <1>3, <1>4

(* A list that was level with the records is so again once they are loaded *)
(* or dropped.                                                             *)
LEMMA LoadLevel ==
  ASSUME KInv, NEW r \in Calls(AnyOp), r.op = "loadexpires", NEW s \in Slots,
         expires[s] \in {0, disk.expire[Own(s)]},
         ~KeepExpires => expires[s] = 0
  PROVE  /\ s.db = r.slot.db => Run(r).expires[s] = Final(Run(r)).expire[Own(s)]
         /\ s.db # r.slot.db => /\ Run(r).expires[s] = expires[s]
                                /\ Final(Run(r)).expire[Own(s)] = disk.expire[Own(s)]
         /\ ~KeepExpires => Run(r).expires[s] = 0
BY LoadEffect

(* Listing the futures leaves expirations alone.                           *)
LEMMA LoadFuturesLevel ==
  ASSUME KInv, NEW r \in Calls(AnyOp), r.op = "loadfutures"
  PROVE  Run(r).expires = expires /\ Final(Run(r)).expire = disk.expire
<1> DEFINE clear == [disk EXCEPT !.future = [t \in Slots |->
                      IF t.db = r.slot.db THEN NoFuture ELSE disk.future[t]]]
           list  == [t \in Slots |-> IF Planned(t, r.slot.db) THEN disk.future[t].at ELSE futures[t]]
<1>1. Run(r) = Effect(<<>>, expires, list) \/ Run(r) = Effect(<<clear>>, expires, futures)
  BY DEF Run, Prepare, Skips, Execute, LoadFutures, Only
<1>2. clear.expire = disk.expire
  BY DEF KInv, GoodDisks, Disks
<1> HIDE DEF clear, list
<1> QED
  BY <1>1, <1>2, FinalNone, FinalOne DEF Effect

(* With one worker, nothing but start-up runs before Ready.                *)
LEMMA ServedInOrder ==
  ASSUME KInv, StartupFirst, NThreads = 1, NEW i \in DOMAIN queue, RunGlobal(i)
  PROVE  queue[i].op \in Loads <=> ~ready
<1>1. /\ i = 1 /\ Len(queue) \in Nat /\ DOMAIN queue = 1 .. Len(queue)
      /\ \A k \in DOMAIN queue : k = 1 \/ 1 < k
  BY QueueShrinks DEF RunGlobal
<1>2. CASE ~ready
  <2>1. PICK k \in DOMAIN queue :
          /\ queue[k].op = "loadfutures"
          /\ \A j \in DOMAIN queue : /\ j < k => queue[j].op = "loadexpires"
                                     /\ j > k => queue[j].op \notin Loads
    BY <1>2 DEF StartupFirst
  <2> QED
    BY <1>1, <1>2, <2>1 DEF Loads
<1>3. CASE ready
  BY <1>3 DEF StartupFirst
<1> QED
  BY <1>2, <1>3

(* A request of a client is none of start-up, and runs once all is loaded  *)
(* when one worker does everything.                                        *)
LEMMA ClientCalls ==
  ASSUME FInv, NEW c \in Clients, RunClient(c)
  PROVE  /\ inflight[c] \in Calls(ClientOps) /\ inflight[c] \in Calls(AnyOp)
         /\ inflight[c].op \in Ops /\ inflight[c].op \notin Loads
         /\ Perform(inflight[c]) /\ ready
         /\ UNCHANGED <<queue, ready>>
<1>1. inflight[c] \in Calls(ClientOps)
  BY DEF FInv, KInv, RunClient
<1>2. inflight[c].op \in Ops /\ inflight[c].op \notin Loads
  BY <1>1, KeyspaceAssumption
     DEF Calls, ClientOps, Loads, AllOps, KeyOps, HintOps, ExpireOps, FutureOps, ResetOps
<1> QED
  BY <1>1, <1>2, CallsAreCalls DEF RunClient, FInv, Unserved

(* No step sets list and records apart.                                    *)
LEMMA LevelStep ==
  ASSUME FInv, NThreads = 1 => StartupFirst, Orderly, Ops \cap Uneven = {}, Level, [Next]_vars
  PROVE  Level'
<1> SUFFICES ASSUME NEW s \in Slots
             PROVE  /\ expires'[s] \in {0, disk'.expire[Own(s)]}
                    /\ ~Loading(s.db)' => expires'[s] = disk'.expire[Own(s)]
                    /\ ~KeepExpires /\ ~ready' => expires'[s] = 0
  BY DEF Level, Own
<1> DEFINE Goal == /\ expires'[s] \in {0, disk'.expire[Own(s)]}
                   /\ ~Loading(s.db)' => expires'[s] = disk'.expire[Own(s)]
                   /\ ~KeepExpires /\ ~ready' => expires'[s] = 0
<1>1. /\ expires[s] \in {0, disk.expire[Own(s)]}
      /\ ~Loading(s.db) => expires[s] = disk.expire[Own(s)]
      /\ ~KeepExpires /\ ~ready => expires[s] = 0
  BY DEF Level
<1>2. ASSUME NEW e, LevelAt(e, s), disk' = Final(e), expires' = e.expires,
             Loading(s.db)' <=> Loading(s.db), ~KeepExpires => ready'
      PROVE  Goal
  BY <1>1, <1>2 DEF LevelAt
<1>3. CASE UNCHANGED <<disk, expires, ready>> /\ (Loading(s.db)' <=> Loading(s.db))
  BY <1>1, <1>3
<1>4. ASSUME NEW c \in Clients, RunClient(c)
      PROVE  Goal
  <2>1. /\ inflight[c] \in Calls(AnyOp) /\ inflight[c].op \notin Uneven \cup Loads
        /\ Perform(inflight[c]) /\ ready' /\ (Loading(s.db)' <=> Loading(s.db))
    BY <1>4, ClientCalls DEF Loading
  <2>2. LevelAt(Run(inflight[c]), s)
    BY <2>1, RunLevel DEF FInv
  <2>3. disk' = Final(Run(inflight[c])) /\ expires' = Run(inflight[c]).expires
    BY <2>1, PerformFinal DEF FInv
  <2> HIDE DEF Goal
  <2> QED
    BY <1>2, <2>1, <2>2, <2>3
<1>5. ASSUME NEW i \in DOMAIN queue, RunGlobal(i)
      PROVE  Goal
  <2> DEFINE r == queue[i]
             e == Run(r)
  <2>1. r \in Calls(GlobalOps) /\ r \in Calls(AnyOp) /\ Perform(r)
    BY <1>5, QueueShrinks DEF RunGlobal, FInv
  <2>2. disk' = Final(e) /\ expires' = e.expires
    BY <2>1, PerformFinal DEF FInv
  <2>3. NThreads = 1 => (r.op \in Loads <=> ~ready)
    BY <1>5, ServedInOrder DEF FInv
  <2>4. ready' = (ready \/ r.op = "loadfutures")
    BY <1>5 DEF RunGlobal
  <2>5. /\ Loading(s.db)' => Loading(s.db)
        /\ r.op # "loadexpires" \/ r.slot.db # s.db => (Loading(s.db)' <=> Loading(s.db))
    BY <1>5, LoadingShrinks DEF FInv
  <2>6. r.op \in GlobalOps
    BY <2>1 DEF Calls
  <2>7. CASE r.op \notin Loads
    <3>1. LevelAt(e, s)
      <4>1. r.op \notin Uneven \cup Loads
        BY <2>6, <2>7 DEF GlobalOps, Uneven
      <4> QED
        BY <2>1, <4>1, RunLevel DEF FInv
    <3>2. ~KeepExpires => ready'
      BY <2>3, <2>4, <2>7 DEF Orderly, FInv, KInv
    <3>3. Loading(s.db)' <=> Loading(s.db)
      BY <2>5, <2>7 DEF Loads
    <3> HIDE DEF Goal, e
    <3> QED
      BY <1>2, <2>2, <3>1, <3>2, <3>3
  <2>8. CASE r.op = "loadfutures"
    <3>1. e.expires = expires /\ Final(e).expire = disk.expire
      BY <2>1, <2>8, LoadFuturesLevel DEF FInv
    <3>2. Loading(s.db)' <=> Loading(s.db)
      BY <2>5, <2>8
    <3>3. ready'
      BY <2>4, <2>8
    <3> HIDE DEF e
    <3> QED
      BY <1>1, <2>2, <3>1, <3>2, <3>3
  <2>9. CASE r.op = "loadexpires"
    <3>1. ~KeepExpires => expires[s] = 0
      BY <1>1, <2>3, <2>9 DEF Orderly, Loads
    <3>2. /\ s.db = r.slot.db => e.expires[s] = Final(e).expire[Own(s)]
          /\ s.db # r.slot.db => /\ e.expires[s] = expires[s]
                                 /\ Final(e).expire[Own(s)] = disk.expire[Own(s)]
          /\ ~KeepExpires => e.expires[s] = 0
      BY <1>1, <2>1, <2>9, <3>1, LoadLevel DEF FInv
    <3> HIDE DEF e
    <3>3. CASE s.db = r.slot.db
      BY <2>2, <3>2, <3>3
    <3>4. CASE s.db # r.slot.db
      BY <1>1, <2>2, <2>5, <3>2, <3>4
    <3> QED
      BY <3>3, <3>4
  <2> QED
    BY <2>7, <2>8, <2>9 DEF Loads
<1>6. ASSUME NEW d \in GoodDisks, Restart(d)
      PROVE  Goal
  BY <1>6, LoadingRestarts DEF FInv
<1>7. ASSUME NEW extra \in Seq(Calls(GlobalOps)), queue' = queue \o extra,
             \A j \in 1 .. Len(extra) : Pushable(extra[j]),
             UNCHANGED <<disk, expires, futures, inflight, ready, restarts>>
      PROVE  Goal
  BY <1>3, <1>7, LoadingGrows DEF FInv
<1>8. ASSUME NEW c \in Clients, Command(c)
      PROVE  Goal
  BY <1>3, <1>8 DEF Command, memory, Loading
<1>9. CASE UNCHANGED vars
  BY <1>3, <1>9 DEF vars, memory, Loading
<1> HIDE DEF Goal
<1> QED
  BY <1>4, <1>5, <1>6, <1>7, <1>8, <1>9, Steps DEF FInv, Goal

(* The invariant of list and records.                                      *)
LEMMA LevelInvariant ==
  ASSUME Ops \cap Uneven = {}, Orderly
  PROVE  Spec => [](FInv /\ (NThreads = 1 => StartupFirst) /\ Level)
<1>1. Init => Level
  <2> SUFFICES ASSUME Init PROVE Level
    OBVIOUS
  <2>1. \A s \in Slots : expires[s] = 0 /\ disk.expire[Own(s)] = 0
    BY Places DEF Init
  <2> QED
    BY <2>1 DEF Level
<1>2. FInv /\ (NThreads = 1 => StartupFirst) /\ Level /\ [Next]_vars => Level'
  BY LevelStep
<1> QED
  BY <1>1, <1>2, StartupInvariant, PTL DEF Spec

(* Whatever clients and the sweep do, and however often the server         *)
(* crashes, the expirations in memory are those on disk of every database  *)
(* that has been loaded: no restart loses one or brings one back.  RENAME, *)
(* MOVE and TRANSFER leave a record behind and WDEL drops only the list's  *)
(* entry, so they are not among the commands; when start-up drops the      *)
(* expirations, one worker has to run it in order.                         *)
THEOREM RecordsMirrored ==
  ASSUME Ops \cap Uneven = {}, Orderly
  PROVE  Spec => []Mirror
<1>1. Level => Mirror
  BY DEF Level, Mirror
<1> QED
  BY <1>1, LevelInvariant, PTL

-----------------------------------------------------------------------------
(* Records and keys.                                                       *)

(* In a database that has been loaded, a record is known to the list: of   *)
(* Mirror, the half that holds whatever start-up keeps and however many    *)
(* workers run it.                                                         *)
Backed ==
  \A s \in Slots : ~Loading(s.db) /\ disk.expire[Own(s)] # 0 => expires[s] # 0

(* No step makes a record that the list does not know.                     *)
LEMMA BackedStep ==
  ASSUME KInv, Backed, Ops \cap Uneven = {}, [Next]_vars
  PROVE  Backed'
<1> SUFFICES ASSUME NEW s \in Slots, ~Loading(s.db)'
             PROVE  disk'.expire[Own(s)] # 0 => expires'[s] # 0
  BY DEF Backed, Own
<1> DEFINE Goal == disk'.expire[Own(s)] # 0 => expires'[s] # 0
<1>1. ~Loading(s.db) => (disk.expire[Own(s)] # 0 => expires[s] # 0)
  BY DEF Backed
<1>2. ASSUME NEW r \in Calls(AnyOp), Perform(r), r.op \notin Uneven \cup Loads, ~Loading(s.db)
      PROVE  Goal
  <2>1. LevelAt(Run(r), s)
    BY <1>2, RunLevel
  <2>2. disk' = Final(Run(r)) /\ expires' = Run(r).expires
    BY <1>2, PerformFinal
  <2> QED
    BY <1>1, <1>2, <2>1, <2>2 DEF LevelAt
<1>3. CASE UNCHANGED <<disk, expires>> /\ ~Loading(s.db)
  BY <1>1, <1>3
<1>4. ASSUME NEW c \in Clients, RunClient(c)
      PROVE  Goal
  <2>1. inflight[c] \in Calls(ClientOps) /\ Perform(inflight[c]) /\ queue' = queue
    BY <1>4 DEF RunClient, KInv
  <2>2. inflight[c] \in Calls(AnyOp) /\ inflight[c].op \in Ops
    BY <2>1, CallsAreCalls DEF Calls, ClientOps
  <2>3. inflight[c].op \notin Uneven \cup Loads
    BY <2>2, KeyspaceAssumption
       DEF Loads, AllOps, KeyOps, HintOps, ExpireOps, FutureOps, ResetOps
  <2>4. ~Loading(s.db)
    BY <2>1 DEF Loading
  <2> HIDE DEF Goal
  <2> QED
    BY <1>2, <2>1, <2>2, <2>3, <2>4
<1>5. ASSUME NEW i \in DOMAIN queue, RunGlobal(i)
      PROVE  Goal
  <2> DEFINE r == queue[i]
             e == Run(r)
  <2>1. r \in Calls(GlobalOps) /\ r \in Calls(AnyOp) /\ Perform(r)
    BY <1>5, QueueShrinks DEF RunGlobal
  <2>2. disk' = Final(e) /\ expires' = e.expires
    BY <2>1, PerformFinal
  <2>3. r.op # "loadexpires" \/ r.slot.db # s.db => ~Loading(s.db)
    BY <1>5, LoadingShrinks
  <2>4. CASE r.op \notin Loads
    <3>1. r.op \notin Uneven \cup Loads /\ ~Loading(s.db)
      BY <2>1, <2>3, <2>4 DEF Calls, GlobalOps, Uneven, Loads
    <3> HIDE DEF Goal
    <3> QED
      BY <1>2, <2>1, <3>1
  <2>5. CASE r.op = "loadfutures"
    <3>1. e.expires = expires /\ Final(e).expire = disk.expire
      BY <2>1, <2>5, LoadFuturesLevel
    <3> HIDE DEF e
    <3> QED
      BY <1>1, <2>2, <2>3, <2>5, <3>1
  <2>6. CASE r.op = "loadexpires"
    <3>1. /\ s.db = r.slot.db => (Final(e).expire[Own(s)] # 0 => e.expires[s] # 0)
          /\ s.db # r.slot.db => /\ e.expires[s] = expires[s]
                                 /\ Final(e).expire[Own(s)] = disk.expire[Own(s)]
      BY <2>1, <2>6, LoadEffect
    <3> HIDE DEF e
    <3> QED
      BY <1>1, <2>2, <2>3, <2>6, <3>1
  <2> QED
    BY <2>4, <2>5, <2>6 DEF Loads
<1>6. ASSUME NEW d \in GoodDisks, Restart(d)
      PROVE  Goal
  BY <1>6, LoadingRestarts
<1>7. ASSUME NEW extra \in Seq(Calls(GlobalOps)), queue' = queue \o extra,
             \A j \in 1 .. Len(extra) : Pushable(extra[j]),
             UNCHANGED <<disk, expires, futures, inflight, ready, restarts>>
      PROVE  Goal
  BY <1>3, <1>7, LoadingGrows
<1>8. ASSUME NEW c \in Clients, Command(c)
      PROVE  Goal
  BY <1>3, <1>8 DEF Command, memory, Loading
<1>9. CASE UNCHANGED vars
  BY <1>3, <1>9 DEF vars, memory, Loading
<1> HIDE DEF Goal
<1> QED
  BY <1>4, <1>5, <1>6, <1>7, <1>8, <1>9, Steps DEF Goal

(* On disk d, a schedule of s, be it at in memory or its record, is beside *)
(* the key it is for.                                                      *)
Beside(d, at, s) ==
  at # 0 \/ d.expire[Own(s)] # 0 => d.data[<<s, "KEY">>] # Absent

(* So it is at the end of an effect, and on every disk a crash may leave,  *)
(* when memory is gone.                                                    *)
AlwaysBeside(e, s) ==
  /\ Beside(Final(e), e.expires[s], s)
  /\ \A n \in DOMAIN e.disks : Beside(e.disks[n], 0, s)

(* An effect of up to two writes, by its parts.                            *)
LEMMA BesideNone ==
  ASSUME NEW x, NEW f, NEW s, Beside(disk, x[s], s)
  PROVE  AlwaysBeside(Effect(<<>>, x, f), s)
BY FinalNone DEF AlwaysBeside, Effect

LEMMA BesideOne ==
  ASSUME NEW c1, NEW x, NEW f, NEW s, Beside(c1, x[s], s)
  PROVE  AlwaysBeside(Effect(<<c1>>, x, f), s)
BY FinalOne DEF AlwaysBeside, Effect, Beside

LEMMA BesideTwo ==
  ASSUME NEW c1, NEW c2, NEW x, NEW f, NEW s, Beside(c1, 0, s), Beside(c2, x[s], s)
  PROVE  AlwaysBeside(Effect(<<c1, c2>>, x, f), s)
BY FinalTwo DEF AlwaysBeside, Effect, Beside

(* What one write makes of the key and the record of s.                    *)
LEMMA ValueWritten ==
  ASSUME NEW d \in Disks, NEW t \in Slots, NEW ty \in Types,
         NEW v \in Contents \cup {Absent}, NEW s \in Slots
  PROVE  LET c == [d EXCEPT !.data[<<t, ty>>] = v]
         IN /\ c \in Disks /\ c.expire = d.expire
            /\ c.data[<<s, "KEY">>] = IF s = t /\ ty = "KEY" THEN v ELSE d.data[<<s, "KEY">>]
BY DEF Disks, Types

LEMMA RecordWritten ==
  ASSUME NEW d \in Disks, NEW t \in Slots, NEW at \in Nat, NEW s \in Slots
  PROVE  LET c == [d EXCEPT !.expire[Own(t)] = at]
         IN /\ c \in Disks /\ c.data = d.data
            /\ c.expire[Own(s)] = IF s = t THEN at ELSE d.expire[Own(s)]
<1>1. Own(t) = Own(s) <=> t = s
  BY DEF Own
<1> QED
  BY <1>1, Places DEF Disks

LEMMA BothWritten ==
  ASSUME NEW d \in Disks, NEW t \in Slots, NEW ty \in Types,
         NEW v \in Contents \cup {Absent}, NEW at \in Nat, NEW s \in Slots
  PROVE  LET c == [d EXCEPT !.data[<<t, ty>>] = v, !.expire[Own(t)] = at]
         IN /\ c.data[<<s, "KEY">>] = IF s = t /\ ty = "KEY" THEN v ELSE d.data[<<s, "KEY">>]
            /\ c.expire[Own(s)] = IF s = t THEN at ELSE d.expire[Own(s)]
<1> DEFINE one == [d EXCEPT !.data[<<t, ty>>] = v]
           two == [one EXCEPT !.expire[Own(t)] = at]
<1>1. /\ one \in Disks /\ one.expire = d.expire
      /\ one.data[<<s, "KEY">>] = IF s = t /\ ty = "KEY" THEN v ELSE d.data[<<s, "KEY">>]
  BY ValueWritten
<1>2. [d EXCEPT !.data[<<t, ty>>] = v, !.expire[Own(t)] = at] = two
  BY DEF Disks
<1> HIDE DEF one
<1>3. two.data = one.data /\ two.expire[Own(s)] = IF s = t THEN at ELSE one.expire[Own(s)]
  BY <1>1, RecordWritten
<1> DEFINE both == [d EXCEPT !.data[<<t, ty>>] = v, !.expire[Own(t)] = at]
<1>4. both = two
  BY <1>2
<1> HIDE DEF both, two
<1>5. /\ both.data[<<s, "KEY">>] = IF s = t /\ ty = "KEY" THEN v ELSE d.data[<<s, "KEY">>]
      /\ both.expire[Own(s)] = IF s = t THEN at ELSE d.expire[Own(s)]
  BY <1>1, <1>3, <1>4
<1> QED
  BY <1>5 DEF both

(* No request that is left parts a schedule from its key, if the record of *)
(* it is known to the list: DEL asks the list whether there is a record.   *)
(* Only COPY goes through such a disk, at the key it copies to.            *)
LEMMA RunBeside ==
  ASSUME KInv, NEW r \in Calls(AnyOp), r.op \notin Uneven \cup {"getdel"}, NEW s \in Slots,
         Beside(disk, expires[s], s),
         disk.expire[Own(s)] # 0 => expires[s] # 0,
         r.op = "copy" => r.to # s
  PROVE  AlwaysBeside(Run(r), s)
<1> DEFINE at == expires[s]
           key == disk.data[<<s, "KEY">>]
           rec == disk.expire[Own(s)]
<1>1. /\ disk \in GoodDisks /\ disk \in Disks /\ r.slot \in Slots /\ r.to \in Slots
      /\ r.at \in Nat /\ expires \in [Slots -> Nat]
  BY DEF KInv, GoodDisks, Calls
<1>2. (at # 0 => key # Absent) /\ (rec # 0 => at # 0)
  BY DEF Beside
<1>3. AlwaysBeside(Nothing, s)
  BY BesideNone DEF Nothing
<1>4. ASSUME NEW c, NEW f, c.expire[Own(s)] = rec, c.data[<<s, "KEY">>] = key \/ c.data[<<s, "KEY">>] # Absent
      PROVE  AlwaysBeside(Effect(<<c>>, expires, f), s)
  <2>1. Beside(c, expires[s], s)
    BY <1>2, <1>4 DEF Beside
  <2> QED
    BY <2>1, BesideOne
<1>5. ASSUME NEW t \in Slots, NEW ty \in Types, NEW v \in Contents
      PROVE  LET c == [disk EXCEPT !.data[<<t, ty>>] = v]
             IN /\ c \in Disks /\ c.expire = disk.expire
                /\ c.data[<<s, "KEY">>] = key \/ c.data[<<s, "KEY">>] # Absent
  <2>1. v # Absent
    BY KeyspaceAssumption DEF Contents
  <2> QED
    BY <1>1, <2>1, ValueWritten
<1>6. ASSUME r.op \in Writes \cup {"getset"}
      PROVE  AlwaysBeside(Set(r), s)
  <2> DEFINE put == [disk EXCEPT !.data[<<r.slot, Base(r.op)>>] = r.value]
  <2>1. r.value \in Contents /\ Base(r.op) \in Types
    BY <1>6 DEF Calls, Contents, Base, Types
  <2>2. put.expire = disk.expire /\ (put.data[<<s, "KEY">>] = key \/ put.data[<<s, "KEY">>] # Absent)
    BY <1>1, <1>5, <2>1
  <2>3. Set(r) = Effect(<<put>>, expires, futures)
    BY DEF Set, Only
  <2> HIDE DEF put
  <2> QED
    BY <1>4, <2>2, <2>3
<1>7. ASSUME NEW t \in Slots, NEW c, NEW x \in Nat,
             c.data[<<s, "KEY">>] = key \/ s = t,
             c.expire[Own(s)] = IF s = t THEN x ELSE rec,
             s = t /\ x # 0 => c.data[<<s, "KEY">>] # Absent
      PROVE  AlwaysBeside(Effect(<<c>>, [expires EXCEPT ![t] = x], futures), s)
  <2>1. [expires EXCEPT ![t] = x][s] = IF s = t THEN x ELSE at
    BY <1>1
  <2>2. Beside(c, [expires EXCEPT ![t] = x][s], s)
    BY <1>2, <1>7, <2>1 DEF Beside
  <2> QED
    BY <2>2, BesideOne
<1>8. 0 \in Nat /\ Absent \in Contents \cup {Absent}
  OBVIOUS
<1>9. ASSUME NEW t \in Slots, NEW x \in Nat
       PROVE  LET c == [disk EXCEPT !.expire[Own(t)] = x]
              IN /\ c \in Disks /\ c.data = disk.data
                 /\ c.expire[Own(s)] = IF s = t THEN x ELSE rec
  BY <1>1, <1>8, RecordWritten
<1>10. ASSUME NEW t \in Slots, NEW ty \in Types, NEW x \in Nat
       PROVE  LET c == [disk EXCEPT !.data[<<t, ty>>] = Absent, !.expire[Own(t)] = x]
              IN /\ c.data[<<s, "KEY">>] = IF s = t /\ ty = "KEY" THEN Absent ELSE key
                 /\ c.expire[Own(s)] = IF s = t THEN x ELSE rec
  BY <1>1, <1>8, BothWritten
<1>11. ASSUME NEW t \in Slots, NEW ty \in Types
       PROVE  LET c == [disk EXCEPT !.data[<<t, ty>>] = Absent]
              IN /\ c.expire = disk.expire
                 /\ c.data[<<s, "KEY">>] = IF s = t /\ ty = "KEY" THEN Absent ELSE key
  BY <1>1, <1>8 DEF Disks, Types
<1>12. AlwaysBeside(DelExpire(r), s)
  <2> DEFINE off == [disk EXCEPT !.expire[Own(r.slot)] = 0]
  <2>1. off.data = disk.data /\ off.expire[Own(s)] = IF s = r.slot THEN 0 ELSE rec
    BY <1>1, <1>8, <1>9
  <2>2. DelExpire(r) = Effect(<<off>>, [expires EXCEPT ![r.slot] = 0], futures)
    BY DEF DelExpire, Disarmed
  <2> HIDE DEF off
  <2> QED
    BY <1>1, <1>7, <2>1, <2>2
<1>13. ASSUME NEW t \in Slots, NEW v \in Contents, NEW x \in Nat
      PROVE  AlwaysBeside(ExpireBatch(t, "KEY", v, x), s)
  <2> DEFINE both == [disk EXCEPT !.data[<<t, "KEY">>] = v, !.expire[Own(t)] = x]
  <2>1. v # Absent /\ "KEY" \in Types
    BY KeyspaceAssumption DEF Contents, Types
  <2>2. /\ both.data[<<s, "KEY">>] = IF s = t THEN v ELSE key
        /\ both.expire[Own(s)] = IF s = t THEN x ELSE rec
    BY <1>1, <2>1, BothWritten
  <2>3. ExpireBatch(t, "KEY", v, x) = Effect(<<both>>, [expires EXCEPT ![t] = x], futures)
    BY DEF ExpireBatch, Armed
  <2> HIDE DEF both
  <2> QED
    BY <1>7, <2>1, <2>2, <2>3
<1>14. ASSUME Found(r.slot) = "KEY"
       PROVE  AlwaysBeside(Expire(r), s)
  <2> DEFINE armed == [disk EXCEPT !.expire[Own(r.slot)] = r.at]
  <2>1. disk.data[<<r.slot, "KEY">>] # Absent
    BY <1>14 DEF Found
  <2>2. armed.data = disk.data /\ armed.expire[Own(s)] = IF s = r.slot THEN r.at ELSE rec
    BY <1>1, <1>9
  <2>3. Expire(r) = Effect(<<armed>>, [expires EXCEPT ![r.slot] = r.at], futures)
    BY DEF Expire, Armed
  <2> HIDE DEF armed
  <2> QED
    BY <1>1, <1>7, <2>1, <2>2, <2>3
<1>15. ASSUME Found(r.slot) # "none"
       PROVE  AlwaysBeside(Del(r), s)
  <2> DEFINE found == Found(r.slot)
             gone  == [disk EXCEPT !.data[<<r.slot, found>>] = Absent]
             both  == [disk EXCEPT !.data[<<r.slot, found>>] = Absent, !.expire[Own(r.slot)] = 0]
  <2>1. found \in Types
    BY <1>1, <1>15, Registry
  <2>2. CASE found = "KEY" /\ Expiring(r.slot)
    <3>1. /\ both.data[<<s, "KEY">>] = IF s = r.slot THEN Absent ELSE key
          /\ both.expire[Own(s)] = IF s = r.slot THEN 0 ELSE rec
      BY <1>1, <1>8, <1>10, <2>1, <2>2
    <3>2. Del(r) = Effect(<<both>>, [expires EXCEPT ![r.slot] = 0], futures)
      BY <2>2 DEF Del, Disarmed
    <3> HIDE DEF both
    <3> QED
      BY <1>1, <1>7, <3>1, <3>2
  <2>3. CASE ~(found = "KEY" /\ Expiring(r.slot))
    <3>1. /\ gone.expire = disk.expire
          /\ gone.data[<<s, "KEY">>] = IF s = r.slot /\ found = "KEY" THEN Absent ELSE key
      BY <1>1, <1>11, <2>1
    <3>2. Del(r) = Effect(<<gone>>, expires, futures)
      BY <2>3 DEF Del, Only
    <3>3. s = r.slot /\ found = "KEY" => at = 0 /\ rec = 0
      BY <1>1, <1>2, <2>3 DEF Expiring
    <3> HIDE DEF gone, found
    <3>4. Beside(gone, expires[s], s)
      BY <1>2, <3>1, <3>3 DEF Beside
    <3> QED
      BY <3>2, <3>4, BesideOne
  <2> QED
    BY <2>2, <2>3
<1>16. ASSUME Found(r.slot) # "none"
       PROVE  /\ Found(r.slot) \in Types
              /\ Value(r.slot) \in Contents
              /\ AlwaysBeside(Only([disk EXCEPT !.data[<<r.to, Found(r.slot)>>] = Value(r.slot)]), s)
  <2> DEFINE put == [disk EXCEPT !.data[<<r.to, Found(r.slot)>>] = Value(r.slot)]
  <2>1. Found(r.slot) \in Types /\ Value(r.slot) \in Contents
    BY <1>1, <1>16, Registry
  <2>2. put.expire = disk.expire /\ (put.data[<<s, "KEY">>] = key \/ put.data[<<s, "KEY">>] # Absent)
    BY <1>1, <1>5, <2>1
  <2>3. AlwaysBeside(Only(put), s)
    <3> HIDE DEF put
    <3> QED
      BY <1>4, <2>2 DEF Only
  <2> QED
    BY <2>1, <2>3
<1>17. ASSUME Found(r.slot) # "none"
       PROVE  AlwaysBeside(Clone(r), s)
  <2>1. CASE Found(r.slot) = "KEY" /\ Expiring(r.slot)
    <3>1. Numeral \in Contents /\ expires[r.slot] \in Nat
      BY <1>1 DEF Contents
    <3> QED
      BY <1>1, <1>13, <2>1, <3>1 DEF Clone
  <2>2. CASE ~(Found(r.slot) = "KEY" /\ Expiring(r.slot))
    BY <1>16, <1>17, <2>2 DEF Clone
  <2> QED
    BY <2>1, <2>2
<1>18. ASSUME r.op = "copy"
       PROVE  AlwaysBeside(Copy(r), s)
  <2>1. CASE Found(r.slot) = "none"
    BY <1>3, <2>1 DEF Copy
  <2>2. CASE Found(r.slot) # "none" /\ ~(Found(r.slot) = "KEY" /\ Expiring(r.slot))
    BY <1>16, <2>2 DEF Copy
  <2>3. CASE Found(r.slot) = "KEY" /\ Expiring(r.slot)
    <3> DEFINE x        == expires[r.slot]
               recorded == [disk EXCEPT !.expire[Own(r.to)] = x]
               put      == [recorded EXCEPT !.data[<<r.to, "KEY">>] = Value(r.slot)]
    <3>1. /\ Value(r.slot) \in Contents /\ "KEY" \in Types /\ x \in Nat /\ r.to # s
      BY <1>1, <1>16, <1>18, <2>3 DEF Types
    <3>2. /\ recorded \in Disks /\ recorded.data = disk.data /\ recorded.expire[Own(s)] = rec
      BY <1>1, <1>9, <3>1
    <3>3. put.expire = recorded.expire /\ put.data[<<s, "KEY">>] = recorded.data[<<s, "KEY">>]
      <4> HIDE DEF recorded
      <4> QED
        BY <1>1, <3>1, <3>2, ValueWritten
    <3>4. Copy(r) = Effect(<<recorded, put>>, [expires EXCEPT ![r.to] = x], futures)
      BY <2>3 DEF Copy, Armed
    <3>5. [expires EXCEPT ![r.to] = x][s] = at
      BY <1>1, <3>1
    <3> HIDE DEF recorded, put, x
    <3>6. Beside(recorded, 0, s) /\ Beside(put, [expires EXCEPT ![r.to] = x][s], s)
      BY <1>2, <3>2, <3>3, <3>5 DEF Beside
    <3> QED
      BY <3>4, <3>6, BesideTwo
  <2> QED
    BY <2>1, <2>2, <2>3
<1>19. ASSUME NEW d \in Disks, NEW plan
       PROVE  LET c == [d EXCEPT !.future[r.slot] = plan]
              IN c.data = d.data /\ c.expire = d.expire
  BY DEF Disks
<1>20. AlwaysBeside(Future(r), s)
  <2> DEFINE new == [disk EXCEPT !.future[r.slot] = [at |-> r.at, value |-> r.value]]
  <2>1. new.data = disk.data /\ new.expire = disk.expire
    BY <1>1, <1>19
  <2>2. Future(r) = Effect(<<new>>, expires, [futures EXCEPT ![r.slot] = r.at])
    BY DEF Future
  <2> HIDE DEF new
  <2> QED
    BY <1>4, <2>1, <2>2
<1>21. AlwaysBeside(Cancel(r), s) /\ AlwaysBeside(Refused(r), s)
  <2>1. DelFuture(disk, r.slot).data = disk.data /\ DelFuture(disk, r.slot).expire = disk.expire
    BY <1>1, <1>19 DEF DelFuture
  <2>2. AlwaysBeside(Effect(<<DelFuture(disk, r.slot)>>, expires, Forgotten(r.slot)), s)
    BY <1>4, <2>1
  <2> QED
    BY <1>3, <2>2 DEF Cancel, Refused
<1>22. AlwaysBeside(Exec(r), s)
  <2> DEFINE put  == [disk EXCEPT !.data[<<r.slot, "KEY">>] = disk.future[r.slot].value]
             done == DelFuture(put, r.slot)
  <2>1. CASE disk.future[r.slot] # NoFuture
    <3>1. disk.future[r.slot].value \in Contents /\ "KEY" \in Types
      BY <1>1, <2>1 DEF GoodDisks, Plans, Contents, Types
    <3>2. /\ put \in Disks /\ put.expire = disk.expire
          /\ put.data[<<s, "KEY">>] = key \/ put.data[<<s, "KEY">>] # Absent
      BY <1>1, <1>5, <3>1
    <3>3. done.data = put.data /\ done.expire = put.expire
      <4> HIDE DEF put
      <4> QED
        BY <1>19, <3>2 DEF DelFuture
    <3>4. Exec(r) = Effect(<<put, done>>, expires, Forgotten(r.slot))
      BY <2>1 DEF Exec
    <3> HIDE DEF put, done
    <3>5. Beside(put, 0, s) /\ Beside(done, expires[s], s)
      BY <1>2, <3>2, <3>3 DEF Beside
    <3> QED
      BY <3>4, <3>5, BesideTwo
  <2>2. CASE disk.future[r.slot] = NoFuture
    BY <2>2, BesideNone DEF Exec
  <2> QED
    BY <2>1, <2>2
<1>23. r.op = "loadexpires" => AlwaysBeside(Run(r), s)
  <2> SUFFICES ASSUME r.op = "loadexpires" PROVE AlwaysBeside(Run(r), s)
    OBVIOUS
  <2> DEFINE e == Run(r)
  <2>1. /\ Final(e).data = disk.data /\ e.expires[s] \in {at, rec}
        /\ Final(e).expire[Own(s)] \in {0, rec}
        /\ e.disks = <<>> \/ e.disks = <<Final(e)>>
    BY LoadEffect
  <2> HIDE DEF e
  <2>2. Beside(Final(e), e.expires[s], s) /\ Beside(Final(e), 0, s)
    BY <1>2, <2>1 DEF Beside
  <2>3. \A n \in DOMAIN e.disks : e.disks[n] = Final(e)
    BY <2>1
  <2>4. AlwaysBeside(e, s)
    BY <2>2, <2>3 DEF AlwaysBeside
  <2> QED
    BY <2>4 DEF e
<1>24. AlwaysBeside(LoadFutures(r), s)
  <2> DEFINE clear == [disk EXCEPT !.future = [t \in Slots |->
                         IF t.db = r.slot.db THEN NoFuture ELSE disk.future[t]]]
             list == [t \in Slots |-> IF Planned(t, r.slot.db) THEN disk.future[t].at ELSE futures[t]]
  <2>1. clear.data = disk.data /\ clear.expire = disk.expire
    BY <1>1 DEF Disks
  <2>2. \/ LoadFutures(r) = Effect(<<>>, expires, list)
        \/ LoadFutures(r) = Effect(<<clear>>, expires, futures)
    BY DEF LoadFutures, Only
  <2> HIDE DEF clear, list
  <2> QED
    BY <1>4, <2>1, <2>2, BesideNone
<1>25. CASE ~Prepare(r)
  BY <1>21, <1>25 DEF Run
<1>26. CASE Prepare(r)
  <2>1. r.op \in AnyOp \ (Uneven \cup {"getdel"})
    BY DEF Calls
  <2>2. Run(r) = Execute(r)
    BY <1>26 DEF Run
  <2>3. CASE r.op \in {"set", "push", "getset", "setnx", "settx"}
    <3>1. Execute(r) \in {Set(r), Nothing}
      BY <2>3 DEF Execute, GetSet, SetNX, SetTX
    <3> QED
      BY <1>3, <1>6, <2>2, <2>3, <3>1 DEF Writes
  <2>4. CASE r.op = "setex"
    <3>1. r.value \in Contents
      BY <2>4 DEF Calls, Contents, Writes
    <3> QED
      BY <1>1, <1>13, <2>2, <2>4, <3>1 DEF Execute, SetEX
  <2>5. CASE r.op = "expire"
    <3>1. Found(r.slot) = "KEY" /\ Execute(r) = Expire(r)
      BY <1>26, <2>5 DEF Prepare, Execute, Base, Skips, Writes, FutureOps, Reads
    <3> QED
      BY <1>14, <2>2, <3>1
  <2>6. CASE r.op = "del"
    <3>1. Found(r.slot) # "none" /\ Execute(r) = Del(r)
      BY <1>26, <2>6 DEF Prepare, Execute, Skips, Writes, FutureOps, Reads
    <3> QED
      BY <1>15, <2>2, <3>1
  <2>7. CASE r.op = "clone"
    <3>1. Found(r.slot) # "none" /\ Execute(r) = Clone(r)
      BY <1>26, <2>7 DEF Prepare, Execute, Skips, Writes, FutureOps, Reads
    <3> QED
      BY <1>17, <2>2, <3>1
  <2>8. CASE r.op = "copy"
    BY <1>18, <2>2, <2>8 DEF Execute
  <2>9. CASE r.op \in {"persist", "getpersist", "future", "exec", "cancel", "loadfutures"}
    <3>1. Execute(r) \in {DelExpire(r), Future(r), Exec(r), Cancel(r), LoadFutures(r)}
      BY <2>9 DEF Execute, Persist, GetPersist
    <3> QED
      BY <1>12, <1>20, <1>21, <1>22, <1>24, <2>2, <3>1
  <2>10. CASE r.op = "loadexpires"
    BY <1>23, <2>10
  <2> QED
    BY <2>1, <2>3, <2>4, <2>5, <2>6, <2>7, <2>8, <2>9, <2>10
       DEF Uneven, AnyOp, AllOps, KeyOps, HintOps, ExpireOps, FutureOps, ResetOps
<1> QED
  BY <1>25, <1>26

(* COPY has put the key beside its record in the end.                      *)
LEMMA CopyBeside ==
  ASSUME KInv, NEW r \in Calls(AnyOp), r.op = "copy", Beside(disk, expires[r.to], r.to)
  PROVE  Beside(Final(Run(r)), Run(r).expires[r.to], r.to)
<1> DEFINE found    == Found(r.slot)
           recorded == [disk EXCEPT !.expire[Own(r.to)] = expires[r.slot]]
           put(d)   == [d EXCEPT !.data[<<r.to, found>>] = Value(r.slot)]
<1>1. /\ disk \in GoodDisks /\ disk \in Disks /\ r.slot \in Slots /\ r.to \in Slots
      /\ expires \in [Slots -> Nat]
  BY DEF KInv, GoodDisks, Calls
<1>2. found # "none" => /\ found \in Types /\ Value(r.slot) \in Contents
                       /\ Value(r.slot) # Absent
  <2>1. found # "none" => found \in Types /\ Value(r.slot) \in Contents
    <3>1. found \in Types \cup {"none"}
      BY <1>1, Registry
    <3>2. found \in Types => Value(r.slot) \in Contents
      BY <1>1, Registry
    <3> QED
      BY <3>1, <3>2
  <2>2. Absent \notin Contents
    BY KeyspaceAssumption DEF Contents
  <2> QED
    BY <2>1, <2>2
<1>3. recorded \in Disks
  BY <1>1, RecordWritten
<1>4. ASSUME found # "none", NEW d \in Disks
      PROVE  /\ put(d).expire = d.expire
             /\ put(d).data[<<r.to, "KEY">>] =
                  IF found = "KEY" THEN Value(r.slot) ELSE d.data[<<r.to, "KEY">>]
  <2>1. /\ <<r.to, found>> \in Slots \X Types /\ <<r.to, "KEY">> \in Slots \X Types
        /\ Value(r.slot) \in Contents
    BY <1>1, <1>2, <1>4 DEF Types
  <2> HIDE DEF found
  <2> QED
    BY <2>1 DEF Disks
<1>5. \/ Run(r) = Effect(<<>>, expires, futures)
      \/ /\ Run(r) = Effect(<<put(disk)>>, expires, futures)
         /\ found # "none"
      \/ /\ Run(r) = Effect(<<recorded, put(recorded)>>, Armed(r.to, expires[r.slot]), futures)
         /\ found = "KEY"
  BY DEF Run, Refused, Execute, Copy, Nothing, Only
<1>6. found # "none" => Beside(put(disk), expires[r.to], r.to)
  BY <1>1, <1>2, <1>4 DEF Beside
<1>7. found = "KEY" => Beside(put(recorded), Armed(r.to, expires[r.slot])[r.to], r.to)
  <2> HIDE DEF recorded
  <2> QED
    BY <1>2, <1>3, <1>4 DEF Beside
<1> HIDE DEF put, recorded, found
<1>8. CASE Run(r) = Effect(<<>>, expires, futures)
  BY <1>8, FinalNone DEF Effect
<1>9. CASE Run(r) = Effect(<<put(disk)>>, expires, futures) /\ found # "none"
  BY <1>6, <1>9, FinalOne DEF Effect
<1>10. CASE /\ Run(r) = Effect(<<recorded, put(recorded)>>, Armed(r.to, expires[r.slot]), futures)
            /\ found = "KEY"
  BY <1>7, <1>10, FinalTwo DEF Effect
<1> QED
  BY <1>5, <1>8, <1>9, <1>10

(* Such requests are all there are when their commands are left out.       *)
LEMMA WaitingIsLeft ==
  ASSUME KInv, Ops \cap (Uneven \cup {"getdel"}) = {}, NEW r \in Waiting
  PROVE  r \in Calls(AnyOp) /\ r.op \notin Uneven \cup {"getdel"}
<1>1. r \in Calls(AnyOp)
  BY WaitingAreCalls
<1>2. CASE r \in {inflight[c] : c \in Clients} \ {NoRequest}
  BY <1>1, <1>2 DEF KInv, Calls, ClientOps
<1>3. CASE \E i \in DOMAIN queue : r = queue[i]
  <2>1. r \in Calls(GlobalOps)
    BY <1>3, ElementOfSeq, LenProperties DEF KInv
  <2> QED
    BY <1>1, <2>1 DEF Calls, GlobalOps, Uneven
<1> QED
  BY <1>2, <1>3 DEF Waiting

(* A schedule loses its key in no step but in those two.                   *)
LEMMA OrphanStep ==
  ASSUME KInv, Backed, Ops \cap (Uneven \cup {"getdel"}) = {}, Next,
         NEW s \in Slots, ~Orphan(s), ~Overtaken(s), ~Interrupted(s)
  PROVE  ~Orphan(s)'
<1>1. /\ Orphan(s) <=> ~Beside(disk, expires[s], s)
      /\ Orphan(s)' <=> ~Beside(disk', expires'[s], s)
  BY DEF Orphan, Beside, Own
<1>2. disk.expire[Own(s)] # 0 => expires[s] # 0
  BY DEF Backed, Overtaken
<1>3. ASSUME NEW r \in Waiting, r.op = "copy" => r.to # s
      PROVE  AlwaysBeside(Run(r), s) /\ r \in Calls(AnyOp)
  BY <1>1, <1>2, <1>3, WaitingIsLeft, RunBeside
<1>4. CASE UNCHANGED <<disk, expires>>
  BY <1>1, <1>4
<1>5. ASSUME NEW r \in Waiting, Perform(r)
      PROVE  ~Orphan(s)'
  <2>1. r \in Calls(AnyOp) /\ r.op \notin Uneven \cup {"getdel"}
    BY WaitingIsLeft
  <2>2. disk' = Final(Run(r)) /\ expires' = Run(r).expires
    BY <1>5, <2>1, PerformFinal
  <2>3. Beside(Final(Run(r)), Run(r).expires[s], s)
    BY <1>1, <1>3, <2>1, CopyBeside DEF AlwaysBeside
  <2> QED
    BY <1>1, <2>2, <2>3
<1>6. ASSUME NEW c \in Clients, RunClient(c)
      PROVE  ~Orphan(s)'
  BY <1>5, <1>6 DEF RunClient, Waiting
<1>7. ASSUME NEW i \in DOMAIN queue, RunGlobal(i)
      PROVE  ~Orphan(s)'
  BY <1>5, <1>7 DEF RunGlobal, Waiting
<1>8. CASE Crash
  <2>1. CASE Restart(disk)
    BY <1>1, <2>1 DEF Restart, Beside
  <2>2. ASSUME NEW r \in Waiting, NEW n \in DOMAIN Run(r).disks, Restart(Run(r).disks[n])
        PROVE  ~Orphan(s)'
    <3>1. disk' = Run(r).disks[n] /\ expires'[s] = 0 /\ restarts' # restarts
      BY <2>2 DEF Restart, KInv
    <3>2. r.op = "copy" => r.to # s
      BY <3>1 DEF Interrupted
    <3>3. Beside(Run(r).disks[n], 0, s)
      BY <1>3, <3>2 DEF AlwaysBeside
    <3> QED
      BY <1>1, <3>1, <3>3
  <2> QED
    BY <1>8, <2>1, <2>2 DEF Crash
<1>9. ASSUME NEW c \in Clients, Command(c) PROVE UNCHANGED <<disk, expires>>
  BY <1>9 DEF Command, memory
<1>10. ASSUME NEW op \in ResetOps, NEW user \in Slots, Reset(op, user)
       PROVE  UNCHANGED <<disk, expires>>
  BY <1>10 DEF Reset, memory
<1>11. Sweep => UNCHANGED <<disk, expires>>
  BY DEF Sweep, memory
<1> QED
  BY <1>4, <1>6, <1>7, <1>8, <1>9, <1>10, <1>11 DEF Next

(* No command, sweep, start-up or crash parts a schedule from its key,     *)
(* with any number of workers and databases, but a command that overtakes  *)
(* the loading of its own database and a crash inside the COPY to that     *)
(* key: the next key of the name is not deleted by a schedule set on       *)
(* another one.  GETDEL leaves the expiration behind, and what is Uneven   *)
(* forgets one of list and record: they are not among the commands.        *)
THEOREM NoOrphans ==
  ASSUME Ops \cap (Uneven \cup {"getdel"}) = {}
  PROVE  Spec => NoOrphan
<1>1. Init => Backed
  <2> SUFFICES ASSUME Init PROVE Backed
    OBVIOUS
  <2>1. \A s \in Slots : disk.expire[Own(s)] = 0
    BY Places DEF Init
  <2> QED
    BY <2>1 DEF Backed
<1>2. KInv /\ Backed /\ [Next]_vars => Backed'
  BY BackedStep
<1>3. KInv /\ Backed /\ [Next]_vars =>
        [\A s \in Slots : Orphan(s)' => Orphan(s) \/ Overtaken(s) \/ Interrupted(s)]_vars
  BY OrphanStep
<1> QED
  BY <1>1, <1>2, <1>3, KInvariant, PTL DEF Spec, NoOrphan
=============================================================================
