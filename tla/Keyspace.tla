------------------------------- MODULE Keyspace -------------------------------
(***************************************************************************)
(* The key space of BerylDB: typed keys in RocksDB, the expirations and    *)
(* futures kept in memory beside their records on disk, the one-second     *)
(* sweep that fires them, crashes and the start-up that loads them again.  *)
(*                                                                         *)
(* A worker runs Prepare and Run of a request with query_mute held         *)
(* (DataThread::Process; module DataFlush), so a request is one step here. *)
(* Other steps fall between the push of a request and its run, and a crash *)
(* falls between two RocksDB writes of one request: a request is modelled  *)
(* by the sequence of disk states its writes produce.                      *)
(***************************************************************************)
EXTENDS Integers, Sequences, FiniteSets

CONSTANTS
  Dbs,          \* the user databases
  LastDb,       \* the last one of the list `databases' of the core database
  Slots,        \* the keys in use, each a name in a select of a database
  Values,
  Empty,        \* the empty string, the value of a key that is set to ""
  Numeral,      \* the text of a select number, where a value is expected
  Absent,       \* RocksDB has no such entry
  Clients,
  NoRequest,
  Ops,          \* commands that clients issue, a subset of AllOps
  TTLs,         \* seconds a client gives to EXPIRE, SETEX and FUTURE
  SelfTargets,  \* TRUE when a client may name the source as destination
  NThreads,     \* Config->DB.datathread
  KeepExpires,  \* <ttls expires>
  KeepFutures,  \* <ttls futures>
  MaxTime,      \* bound: the clock stops counting here
  MaxQueue,     \* bound: requests of Global that wait
  MaxRestarts   \* bound: crashes and restarts

KeyOps    == {"set", "setnx", "settx", "getset", "getdel", "getpersist"}
HintOps   == {"rename", "renamenx", "copy", "clone", "move", "transfer", "del"}
ExpireOps == {"setex", "expire", "persist"}
FutureOps == {"future", "exec", "cancel"}
ResetOps  == {"reset", "ereset", "sreset", "freset", "fresetall"}
AllOps    == KeyOps \cup HintOps \cup ExpireOps \cup FutureOps \cup ResetOps
               \cup {"push", "wdel"}

ASSUME KeyspaceAssumption ==
  /\ IsFiniteSet(Dbs) /\ LastDb \in Dbs
  /\ IsFiniteSet(Slots)
  /\ \A s \in Slots : s.db \in Dbs /\ s.select \in Nat
  /\ \A db \in Dbs : \E s \in Slots : s.db = db
  /\ Absent \notin Values \cup {Numeral, Empty}
  /\ Numeral # Empty
  /\ Ops \subseteq AllOps
  /\ TTLs \subseteq Nat \ {0}
  /\ NThreads \in Nat \ {0}
  /\ KeepExpires \in BOOLEAN /\ KeepFutures \in BOOLEAN
  /\ SelfTargets \in BOOLEAN
  /\ MaxTime \in Nat /\ MaxQueue \in Nat /\ MaxRestarts \in Nat

(* INT_KEY, and LIST for every other type of TypeRegs.                     *)
Types == {"LIST", "KEY"}
Contents == Values \cup {Numeral}

(* What RocksDB holds.  A record of an expiration names the database it is *)
(* for, which need not be the database it is stored in.                    *)
NoFuture == [at |-> 0, value |-> Absent]
Disks == [data : [Slots \X Types -> Contents \cup {Absent}],
          expire : [Slots \X Dbs -> Nat],
          future : [Slots -> [at : Nat, value : Contents \cup {Absent}]]]

(* A QueryBase: the key it is about, the destination, value and schedule   *)
(* its command gave it.                                                    *)
Request(op, slot, to, value, at) ==
  [op |-> op, slot |-> slot, to |-> to, value |-> value, at |-> at]

VARIABLES
  disk,      \* the databases
  expires,   \* ExpireManager::ExpireList: the schedule of a slot, 0 if none
  futures,   \* FutureManager::FutureList, likewise
  now,       \* Kernel->Now()
  inflight,  \* the request of every client that is pushed and has not run
  queue,     \* the requests of Clients->Global that have not run
  ready,     \* Kernel->Ready: the command queues are served
  restarts

memory == <<expires, futures>>
vars == <<disk, expires, futures, now, inflight, queue, ready, restarts>>

Init ==
  /\ disk = [data   |-> [c \in Slots \X Types |-> Absent],
             expire |-> [c \in Slots \X Dbs |-> 0],
             future |-> [s \in Slots |-> NoFuture]]
  /\ expires = [s \in Slots |-> 0]
  /\ futures = [s \in Slots |-> 0]
  /\ now = 0
  /\ inflight = [c \in Clients |-> NoRequest]
  /\ queue = <<>>
  /\ ready = TRUE
  /\ restarts = 0

----------------------------------------------------------------------------
(* Reading the registry.                                                   *)

(* GetRegistry: the type a key is found under, in the order of TypeRegs.   *)
Found(s) ==
  CASE disk.data[<<s, "LIST">>] # Absent -> "LIST"
    [] disk.data[<<s, "LIST">>] = Absent /\ disk.data[<<s, "KEY">>] # Absent -> "KEY"
    [] OTHER -> "none"

Value(s) == IF Found(s) = "none" THEN Absent ELSE disk.data[<<s, Found(s)>>]

(* The type CheckDest finds an entry under.  It reads in the order of      *)
(* TypeRegs too, but asks for a text that is not empty, where GetRegistry  *)
(* asks for a record.                                                      *)
Taken(s) ==
  CASE disk.data[<<s, "LIST">>] \notin {Absent, Empty} -> "LIST"
    [] /\ disk.data[<<s, "LIST">>] \in {Absent, Empty}
       /\ disk.data[<<s, "KEY">>] \notin {Absent, Empty} -> "KEY"
    [] OTHER -> "none"

(* Mutant: a destination of another type is taken for one of the same.     *)
CheckDestAnyType(r) == IF r.to # r.slot /\ Taken(r.to) = "none" THEN 0 ELSE 1

(* CheckDest: the destination is the source itself or has its type (1), is *)
(* undefined (0) or has another type (2).                                  *)
CheckDest(r) ==
  LET same == Taken(r.to) = Found(r.slot) /\ Taken(r.to) # "none"
  IN CASE r.to = r.slot \/ same                     -> 1
       [] r.to # r.slot /\ Taken(r.to) = "none"     -> 0
       [] OTHER                                     -> 2

Base(op) == IF op = "push" THEN "LIST" ELSE "KEY"

(* Prepare, by the QUERY_TYPE of the request: whether Run is reached.      *)
Writes  == {"set", "setnx", "settx", "setex", "push"}
Reads   == {"getset", "getdel", "getpersist", "persist", "expire"}
Skips   == {"wdel", "loadexpires", "loadfutures"}

Prepare(r) ==
  LET found == Found(r.slot) IN
    \/ r.op \in Skips
    \/ r.op \in Writes \cup FutureOps /\ found \in {Base(r.op), "none"}
    \/ r.op \in Reads                 /\ found = Base(r.op)
    \/ r.op = "del"                   /\ found # "none"
    \/ r.op \in {"rename", "clone", "move", "transfer"}
         /\ found # "none" /\ CheckDest(r) \in {0, 1}
    \/ r.op = "renamenx"              /\ found # "none" /\ CheckDest(r) = 0
    \/ r.op = "copy"                  /\ CheckDest(r) \in {0, 1}

----------------------------------------------------------------------------
(* Running a request.  An effect is the disk states its RocksDB writes go  *)
(* through (a WriteBatch is one write) and the lists it leaves in memory.  *)

Effect(disks, e, f) == [disks |-> disks, expires |-> e, futures |-> f]
Only(d)  == Effect(<<d>>, expires, futures)
Nothing  == Effect(<<>>, expires, futures)

(* IsExpiring.                                                             *)
Expiring(s) == expires[s] > 0

(* Places of an expiration record: of the slot's own database, and of a    *)
(* slot of another database written into this one.                         *)
Own(s)     == <<s, s.db>>
Foreign(r) == <<r.slot, r.to.db>>

Armed(s, at) == [expires EXCEPT ![s] = at]
Disarmed(s) == [expires EXCEPT ![s] = 0]

Set(r) == Only([disk EXCEPT !.data[<<r.slot, Base(r.op)>>] = r.value])

SetNX(r) == IF Found(r.slot) = "KEY" THEN Nothing ELSE Set(r)

(* The old value of GETSET is only for the answer.                         *)
GetSet(r) == Set(r)

SetTX(r) == IF Expiring(r.slot) THEN Nothing ELSE Set(r)

GetDel(r) == Only([disk EXCEPT !.data[<<r.slot, "KEY">>] = Absent])

(* DelExpire: the list first, then the record.                             *)
DelExpire(r) ==
  Effect(<<[disk EXCEPT !.expire[Own(r.slot)] = 0]>>, Disarmed(r.slot), futures)

(* expire_del_query::Run and getpersist_query::Run.                        *)
Persist(r)    == DelExpire(r)
GetPersist(r) == DelExpire(r)

(* ExpireBatch: key and record in one batch, then the list.                *)
ExpireBatch(s, type, value, at) ==
  Effect(<<[disk EXCEPT !.data[<<s, type>>] = value, !.expire[Own(s)] = at]>>,
         Armed(s, at), futures)

SetEX(r) == ExpireBatch(r.slot, "KEY", r.value, r.at)

Expire(r) ==
  Effect(<<[disk EXCEPT !.expire[Own(r.slot)] = r.at]>>, Armed(r.slot, r.at),
         futures)

(* Mutants: an expiring key is deleted like any other; the record stays    *)
(* behind the key and its entry.                                           *)
DelKeyOnly(r) == Only([disk EXCEPT !.data[<<r.slot, Found(r.slot)>>] = Absent])

DelWithoutRecord(r) ==
  Effect(<<[disk EXCEPT !.data[<<r.slot, Found(r.slot)>>] = Absent]>>,
         Disarmed(r.slot), futures)

Del(r) ==
  LET found == Found(r.slot) IN
    IF found = "KEY" /\ Expiring(r.slot)
    THEN Effect(<<[disk EXCEPT !.data[<<r.slot, found>>] = Absent,
                               !.expire[Own(r.slot)] = 0]>>,
                Disarmed(r.slot), futures)
    ELSE Only([disk EXCEPT !.data[<<r.slot, found>>] = Absent])

(* Mutant: the schedule is put where the value belongs.                    *)
SwapArguments(r) ==
  Only([disk EXCEPT !.data[<<r.to, Found(r.slot)>>] = expires[r.slot],
                    !.data[<<r.slot, Found(r.slot)>>] = Absent])

(* SwapWithExpire and move_query::Keys: put the destination, delete the    *)
(* source, put the record of the destination; Swap: without the record.    *)
(* The record of the source stays.                                         *)
Swap(r) ==
  LET found == Found(r.slot)
      at    == expires[r.slot]
      value == Value(r.slot)
  IN IF found = "KEY" /\ Expiring(r.slot)
     THEN Effect(<<[disk EXCEPT !.data[<<r.to, found>>] = value,
                                !.data[<<r.slot, found>>] = Absent,
                                !.expire[Own(r.to)] = at]>>,
                 [expires EXCEPT ![r.slot] = 0, ![r.to] = at], futures)
     ELSE Only([disk EXCEPT !.data[<<r.to, found>>] = value,
                            !.data[<<r.slot, found>>] = Absent])

(* What tells these apart is what Prepare asks of the destination.         *)
Rename(r)   == Swap(r)
RenameNX(r) == Swap(r)
Move(r)     == Swap(r)

(* copy_query::Run: the record is written before the key.  The copy of an  *)
(* undefined key is stored under no type of TypeRegs.                      *)
Copy(r) ==
  LET found    == Found(r.slot)
      at       == expires[r.slot]
      put(d)   == [d EXCEPT !.data[<<r.to, found>>] = Value(r.slot)]
      recorded == [disk EXCEPT !.expire[Own(r.to)] = at]
  IN CASE found = "none" -> Nothing
       [] found = "KEY" /\ Expiring(r.slot) ->
            Effect(<<recorded, put(recorded)>>, Armed(r.to, at), futures)
       [] OTHER -> Only(put(disk))

(* clone_query::Keys passes the select number to ExpireBatch as the value. *)
Clone(r) ==
  LET found == Found(r.slot) IN
    IF found = "KEY" /\ Expiring(r.slot)
    THEN ExpireBatch(r.to, found, Numeral, expires[r.slot])
    ELSE Only([disk EXCEPT !.data[<<r.to, found>>] = Value(r.slot)])

(* Mutant: the source is deleted before the target is written.             *)
TransferDeletesFirst(r) ==
  LET found == Found(r.slot)
      gone  == [disk EXCEPT !.data[<<r.slot, found>>] = Absent]
  IN Effect(<<gone, [gone EXCEPT !.data[<<r.to, found>>] = Value(r.slot)]>>,
            expires, futures)

(* transfer_query::Run: DelExpire; WriteExpire for the other database, on  *)
(* this one's disk; put there; delete here.                                *)
Transfer(r) ==
  LET found   == Found(r.slot)
      at      == expires[r.slot]
      del(d)  == [d EXCEPT !.data[<<r.slot, found>>] = Absent]
      put(d)  == [d EXCEPT !.data[<<r.to, found>>] = Value(r.slot)]
      cleared == [disk EXCEPT !.expire[Own(r.slot)] = 0]
      moved   == [cleared EXCEPT !.expire[Foreign(r)] = at]
  IN IF found = "KEY" /\ Expiring(r.slot)
     THEN Effect(<<cleared, moved, put(moved), del(put(moved))>>,
                 [expires EXCEPT ![r.slot] = 0, ![r.to] = at], futures)
     ELSE Effect(<<put(disk), del(put(disk))>>, expires, futures)

(* wdel_query::Run with the pattern *: the keys of a select in the order   *)
(* of the iterator.  DelExpire is given the pattern, never the key.        *)
Matching(r) == {s \in Slots : /\ s.db = r.slot.db /\ s.select = r.slot.select
                              /\ disk.data[<<s, "KEY">>] # Absent}
Iteration(S) == CHOOSE f \in [1 .. Cardinality(S) -> S] :
                  \A i, j \in DOMAIN f : f[i] = f[j] => i = j
WDel(r) ==
  LET order == Iteration(Matching(r))
      after(n) == [disk EXCEPT !.data = [c \in Slots \X Types |->
                     IF c[2] = "KEY" /\ \E i \in 1 .. n : order[i] = c[1]
                     THEN Absent ELSE disk.data[c]]]
  IN Effect([n \in DOMAIN order |-> after(n)],
            [s \in Slots |-> IF s \in Matching(r) THEN 0 ELSE expires[s]],
            futures)

(* WriteFuture, DelFuture, future_exec_query::Run, future_del_query::Run.  *)
Future(r) ==
  Effect(<<[disk EXCEPT !.future[r.slot] = [at |-> r.at, value |-> r.value]]>>,
         expires, [futures EXCEPT ![r.slot] = r.at])

DelFuture(d, s) == [d EXCEPT !.future[s] = NoFuture]
Forgotten(s)    == [futures EXCEPT ![s] = 0]

(* Mutant: the record of an executed future is not deleted.                *)
ExecKeepsRecord(r) ==
  IF disk.future[r.slot] # NoFuture
  THEN Effect(<<[disk EXCEPT !.data[<<r.slot, "KEY">>] = disk.future[r.slot].value]>>,
              expires, Forgotten(r.slot))
  ELSE Effect(<<>>, expires, Forgotten(r.slot))

Exec(r) ==
  LET put == [disk EXCEPT !.data[<<r.slot, "KEY">>] = disk.future[r.slot].value]
  IN IF disk.future[r.slot] # NoFuture
     THEN Effect(<<put, DelFuture(put, r.slot)>>, expires, Forgotten(r.slot))
     ELSE Effect(<<>>, expires, Forgotten(r.slot))

Cancel(r) ==
  IF disk.future[r.slot] # NoFuture
  THEN Effect(<<DelFuture(disk, r.slot)>>, expires, Forgotten(r.slot))
  ELSE Nothing

(* expire_list_query::Run and future_list_query::Run: every record of the  *)
(* database that names it is loaded, or deleted.                           *)
Recorded(s, db) == s.db = db /\ disk.expire[Own(s)] # 0
Planned(s, db)  == s.db = db /\ disk.future[s] # NoFuture

LoadExpires(r) ==
  LET db == r.slot.db IN
    IF KeepExpires
    THEN Effect(<<>>, [s \in Slots |-> IF Recorded(s, db) THEN disk.expire[Own(s)]
                                       ELSE expires[s]], futures)
    ELSE Only([disk EXCEPT !.expire = [c \in Slots \X Dbs |->
                 IF c[1].db = db /\ c[2] = db THEN 0 ELSE disk.expire[c]]])

LoadFutures(r) ==
  LET db == r.slot.db IN
    IF KeepFutures
    THEN Effect(<<>>, expires,
                [s \in Slots |-> IF Planned(s, db) THEN disk.future[s].at
                                 ELSE futures[s]])
    ELSE Only([disk EXCEPT !.future = [s \in Slots |->
                 IF s.db = db THEN NoFuture ELSE disk.future[s]]])

(* Mutant: a future that meets a key of another type is left alone.        *)
RefusedKeepsFuture(r) == Nothing

(* Run, dispatched on the class of the request.  A future that meets a key *)
(* of another type is dropped by Prepare.                                  *)
Refused(r) ==
  IF r.op = "exec"
  THEN Effect(<<DelFuture(disk, r.slot)>>, expires, Forgotten(r.slot))
  ELSE Nothing

Execute(r) ==
  CASE r.op \in {"set", "push"} -> Set(r)
    [] r.op = "getset"          -> GetSet(r)
    [] r.op = "setnx"           -> SetNX(r)
    [] r.op = "settx"           -> SetTX(r)
    [] r.op = "getdel"          -> GetDel(r)
    [] r.op = "persist"         -> Persist(r)
    [] r.op = "getpersist"      -> GetPersist(r)
    [] r.op = "setex"           -> SetEX(r)
    [] r.op = "expire"          -> Expire(r)
    [] r.op = "del"             -> Del(r)
    [] r.op = "rename"          -> Rename(r)
    [] r.op = "renamenx"        -> RenameNX(r)
    [] r.op = "move"            -> Move(r)
    [] r.op = "copy"            -> Copy(r)
    [] r.op = "clone"           -> Clone(r)
    [] r.op = "transfer"        -> Transfer(r)
    [] r.op = "wdel"            -> WDel(r)
    [] r.op = "future"          -> Future(r)
    [] r.op = "exec"            -> Exec(r)
    [] r.op = "cancel"          -> Cancel(r)
    [] r.op = "loadexpires"     -> LoadExpires(r)
    [] r.op = "loadfutures"     -> LoadFutures(r)

Run(r) == IF Prepare(r) THEN Execute(r) ELSE Refused(r)

----------------------------------------------------------------------------
(* The commands of clients, on the main thread.  A command that takes a    *)
(* number of seconds turns it into a schedule when it is pushed.           *)

SameSelect(s) == {t \in Slots : t.db = s.db /\ t.select = s.select}
SameKey(s)    == {t \in Slots : t.db = s.db /\ t.key = s.key}
OtherDbs(s)   == {t \in Slots : /\ t.key = s.key /\ t.select = s.select
                                /\ t.db # s.db}
Destinations(op, s) ==
  LET all == CASE op \in {"rename", "renamenx", "copy"} -> SameSelect(s)
               [] op \in {"move", "clone"}              -> SameKey(s)
               [] op = "transfer"                       -> OtherDbs(s)
  IN IF SelfTargets THEN all ELSE all \ {s}

(* EXPIRE, SETEX and FUTURE count from the moment of the command.          *)
Schedules == {now + ttl : ttl \in TTLs}

(* The request of command op on slot s, for some argument.  lpush_query    *)
(* refuses an empty element, and no text of a list is empty.               *)
Asks(op, s) ==
  CASE op \in {"set", "setnx", "settx", "getset"} ->
         {Request(op, s, s, v, 0) : v \in Values}
    [] op = "push" -> {Request(op, s, s, v, 0) : v \in Values \ {Empty}}
    [] op \in {"setex", "future"} ->
         {Request(op, s, s, v, at) : v \in Values, at \in Schedules}
    [] op = "expire" -> {Request(op, s, s, Absent, at) : at \in Schedules}
    [] op \in HintOps \ {"del"} ->
         {Request(op, s, t, Absent, 0) : t \in Destinations(op, s)}
    [] OTHER -> {Request(op, s, s, Absent, 0)}

(* PERSIST looks the expiration up before it pushes anything.              *)
Admits(op, s) == op = "persist" => Expiring(s)

Command(c) ==
  \E op \in Ops \ ResetOps, s \in Slots :
    /\ ready
    /\ inflight[c] = NoRequest
    /\ Admits(op, s)
    /\ \E r \in Asks(op, s) : inflight' = [inflight EXCEPT ![c] = r]
    /\ UNCHANGED <<disk, memory, now, queue, ready, restarts>>

(* RESET, ERESET and SRESET push a removal for every entry they cover, in  *)
(* the order of the list; FRESET and FRESETALL do so for futures.  With no *)
(* argument SRESET and FRESET assign the number of the select to a string, *)
(* as one character: AsDigit is what convto_num makes of it.               *)
AsDigit(n) == IF n \in 48 .. 57 THEN n - 48 ELSE 0

Covers(op, user, s) ==
  \/ op \in {"reset", "fresetall"}
  \/ op = "ereset" /\ s.db = user.db
  \/ op \in {"sreset", "freset"} /\ s.db = user.db
                                 /\ s.select = AsDigit(user.select)

(* Orders in which a multimap with these schedules is traversed.           *)
Orders(S, list) ==
  {f \in [1 .. Cardinality(S) -> S] :
     \A i, j \in 1 .. Cardinality(S) :
       i < j => f[i] # f[j] /\ list[f[i]] <= list[f[j]]}

Pushes(op, order) ==
  [i \in DOMAIN order |-> Request(op, order[i], order[i], Absent, 0)]

Reset(op, user) ==
  /\ ready
  /\ op \in Ops \cap ResetOps
  /\ LET list    == IF op \in {"freset", "fresetall"} THEN futures ELSE expires
         removal == IF op \in {"freset", "fresetall"} THEN "cancel" ELSE "persist"
         covered == {s \in Slots : list[s] # 0 /\ Covers(op, user, s)}
     IN /\ Len(queue) + Cardinality(covered) <= MaxQueue
        /\ \E order \in Orders(covered, list) :
             queue' = queue \o Pushes(removal, order)
  /\ UNCHANGED <<disk, memory, now, inflight, ready, restarts>>

(* Mutant: only what is due in this very second.                           *)
DueExactly(list, time) == {s \in Slots : list[s] # 0 /\ list[s] = time}

(* Timed, once a second: whatever is due is pushed, and stays in its list. *)
Due(list, time) == {s \in Slots : list[s] # 0 /\ list[s] < time}

Sweep ==
  LET time == IF now < MaxTime THEN now + 1 ELSE now IN
    /\ Len(queue) + Cardinality(Due(expires, time))
         + Cardinality(Due(futures, time)) <= MaxQueue
    /\ \E e \in Orders(Due(expires, time), expires),
          f \in Orders(Due(futures, time), futures) :
         queue' = queue \o Pushes("del", e) \o Pushes("exec", f)
    /\ now' = time
    /\ UNCHANGED <<disk, memory, inflight, ready, restarts>>

----------------------------------------------------------------------------
(* The workers.                                                            *)

Perform(r) ==
  LET effect == Run(r) IN
    /\ disk' = IF effect.disks = <<>> THEN disk
               ELSE effect.disks[Len(effect.disks)]
    /\ expires' = effect.expires
    /\ futures' = effect.futures

RunClient(c) ==
  /\ inflight[c] # NoRequest
  /\ Perform(inflight[c])
  /\ inflight' = [inflight EXCEPT ![c] = NoRequest]
  /\ UNCHANGED <<now, queue, ready, restarts>>

(* Requests of Global are posted in order, but one does not wait for       *)
(* another: with several workers any of them may be the next to run.       *)
(* future_list_query::Process of the last database sets Ready.             *)
RunGlobal(i) ==
  /\ i \in DOMAIN queue
  /\ NThreads = 1 => i = 1
  /\ Perform(queue[i])
  /\ queue' = SubSeq(queue, 1, i - 1) \o SubSeq(queue, i + 1, Len(queue))
  /\ ready' = (ready \/ queue[i].op = "loadfutures")
  /\ UNCHANGED <<now, inflight, restarts>>

(* Start-up: ExpireHelper::List for every database, ListFutures for the    *)
(* last one of the list.                                                   *)
AnyKey(db) == CHOOSE s \in Slots : s.db = db
Load(op, db) == Request(op, AnyKey(db), AnyKey(db), Absent, 0)

Startups ==
  {[i \in 1 .. Cardinality(Dbs) + 1 |->
      IF i <= Cardinality(Dbs) THEN Load("loadexpires", f[i])
                               ELSE Load("loadfutures", LastDb)] :
     f \in {g \in [1 .. Cardinality(Dbs) -> Dbs] :
              /\ g[Cardinality(Dbs)] = LastDb
              /\ \A i, j \in 1 .. Cardinality(Dbs) : g[i] = g[j] => i = j}}

Restart(d) ==
  /\ restarts < MaxRestarts
  /\ restarts' = restarts + 1
  /\ disk' = d
  /\ expires' = [s \in Slots |-> 0]
  /\ futures' = [s \in Slots |-> 0]
  /\ inflight' = [c \in Clients |-> NoRequest]
  /\ queue' \in Startups
  /\ ready' = FALSE
  /\ UNCHANGED now

(* A crash between requests, or after some of the writes of one.           *)
Waiting == ({inflight[c] : c \in Clients} \ {NoRequest})
             \cup {queue[i] : i \in DOMAIN queue}
Crash ==
  \/ Restart(disk)
  \/ \E r \in Waiting : \E n \in DOMAIN Run(r).disks : Restart(Run(r).disks[n])

Next ==
  \/ \E c \in Clients : Command(c) \/ RunClient(c)
  \/ \E op \in ResetOps, user \in Slots : Reset(op, user)
  \/ Sweep
  \/ \E i \in DOMAIN queue : RunGlobal(i)
  \/ Crash

Spec == Init /\ [][Next]_vars

(* Pushed requests run (module DataFlush): those of Global are posted in   *)
(* order and a worker takes its own in order, so the oldest one is never   *)
(* passed over for ever.  The clock keeps being read.                      *)
Fairness ==
  /\ \A c \in Clients : WF_vars(RunClient(c))
  /\ WF_vars(RunGlobal(1))
  /\ WF_vars(Sweep)

FairSpec == Spec /\ Fairness

----------------------------------------------------------------------------
(* Properties.                                                             *)

TypeOK ==
  /\ disk \in Disks
  /\ expires \in [Slots -> Nat]
  /\ futures \in [Slots -> Nat]
  /\ now \in Nat
  /\ \A c \in Clients : inflight[c] # NoRequest => inflight[c].slot \in Slots
  /\ \A i \in DOMAIN queue : queue[i].slot \in Slots
  /\ ready \in BOOLEAN
  /\ restarts \in 0 .. MaxRestarts

(* A key has one type, as far as CheckDest can tell: of two entries under  *)
(* a name, of which GetRegistry only ever sees the first, the other is a   *)
(* key whose value is the empty string, whatever the order of commands,    *)
(* sweeps and crashes (GetRegistry, CheckDest).                            *)
OneType ==
  \A s \in Slots :
    disk.data[<<s, "LIST">>] = Absent \/ disk.data[<<s, "KEY">>] \in {Absent, Empty}

(* The list in memory and the records on disk agree on every database that *)
(* has been loaded, so that a restart neither loses an expiration nor      *)
(* brings one back (WriteExpire, DelExpire, ExpireBatch, expire_list).     *)
Loading(db) ==
  \E i \in DOMAIN queue : queue[i].op = "loadexpires" /\ queue[i].slot.db = db
Mirror ==
  \A s \in Slots : ~Loading(s.db) => expires[s] = disk.expire[Own(s)]

(* A schedule without its key deletes the next key of that name: no        *)
(* command, sweep, start-up or crash leaves one behind, in memory or on    *)
(* disk, but a command that overtakes the loading of its own database and  *)
(* a crash inside the COPY to that name, which writes the record first     *)
(* (DEL, COPY, CLONE, DelExpire, ExpireBatch).                             *)
Orphan(s) ==
  /\ expires[s] # 0 \/ disk.expire[Own(s)] # 0
  /\ disk.data[<<s, "KEY">>] = Absent
Overtaken(s)   == Loading(s.db) /\ expires[s] = 0
Interrupted(s) == restarts' # restarts
                    /\ \E r \in Waiting : r.op = "copy" /\ r.to = s
NoOrphan ==
  [][\A s \in Slots : Orphan(s)' => Orphan(s) \/ Overtaken(s) \/ Interrupted(s)]_vars

(* While clients are served, a future on disk is scheduled: any future     *)
(* until the first restart, and those of the last database of the list     *)
(* over every restart (WriteFuture, DelFuture, future_exec_query,          *)
(* future_list_query).                                                     *)
FuturesKept ==
  ready /\ KeepFutures =>
    \A s \in Slots : /\ s.db = LastDb \/ restarts = 0
                     /\ disk.future[s] # NoFuture
                     => futures[s] # 0

(* "We may now begin processing queries" (etc.cpp), where Ready is set:    *)
(* what the records on disk promise, and is to be kept, is scheduled by    *)
(* then, in every database.                                                *)
ReadyMeansLoaded ==
  ready => \A s \in Slots :
             /\ KeepExpires /\ disk.expire[Own(s)] # 0 => expires[s] # 0
             /\ KeepFutures /\ disk.future[s] # NoFuture => futures[s] # 0

(* Moving keys about, with crashes between any two writes, never leaves    *)
(* the databases without a copy of what they held, unless somebody asked   *)
(* for a deletion (Swap, Transfer).                                        *)
Held      == {c \in Slots \X Types : disk.data[c] # Absent}
Deletions == {r \in Waiting : r.op \in {"del", "getdel", "wdel"}}
NeverLost == [][Held # {} /\ Deletions = {} => Held' # {}]_vars

(* The sweep deletes a key only while an expiration of it is due: not when *)
(* it has been given more time, or was set anew, since it was pushed.      *)
SweepDeletesDue ==
  [][\A i \in DOMAIN queue :
       queue[i].op = "del" /\ RunGlobal(i) =>
         LET s == queue[i].slot
         IN Found(s) # "none" => expires[s] # 0 /\ expires[s] < now]_vars

(* A key whose expiration is due does not stay: it is deleted, or its      *)
(* expiration is moved or removed (ExpireManager::Flush, del_query).       *)
IsDue(s) == expires[s] # 0 /\ expires[s] < now /\ Found(s) = "KEY"
ExpiredGoes == \A s \in Slots : IsDue(s) ~> ~IsDue(s)

(* A future that is due is executed or dropped (FutureManager::Flush,      *)
(* future_exec_query, DelFuture in Prepare).                               *)
FutureIsDue(s) == futures[s] # 0 /\ futures[s] < now
FutureFires == \A s \in Slots : FutureIsDue(s) ~> ~FutureIsDue(s)
=============================================================================
