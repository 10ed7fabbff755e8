---------------------------- MODULE KeyspaceProofs ----------------------------
(* Theorems about Keyspace, for every set of databases, keys and clients   *)
(* and every selection of commands.                                        *)
EXTENDS Keyspace, FiniteSetTheorems, SequenceTheorems, TLAPS

USE KeyspaceAssumption

-----------------------------------------------------------------------------
(* What the disk may hold: a list with some text, beside it nothing or a   *)
(* key that is empty, and for a future either nothing or a time and a      *)
(* value.                                                                  *)
Plans == {NoFuture} \cup [at : Nat \ {0}, value : Values]

GoodDisks ==
  {d \in Disks : \A s \in Slots :
     /\ d.data[<<s, "LIST">>] # Empty
     /\ d.data[<<s, "LIST">>] = Absent \/ d.data[<<s, "KEY">>] \in {Absent, Empty}
     /\ d.future[s] \in Plans}

(* Where an entry of a type may be put, and what.                          *)
Room(d, s, ty) == IF ty = "LIST" THEN d.data[<<s, "KEY">>] \in {Absent, Empty}
                  ELSE d.data[<<s, "LIST">>] = Absent
Fits(ty, v) == ty = "LIST" => v # Empty

(* The requests there are: those of commands, and those the server pushes  *)
(* through Global.                                                         *)
Movers     == HintOps \ {"del"}
GlobalOps  == {"del", "exec", "persist", "cancel", "loadexpires", "loadfutures"}
ClientOps  == Ops \ ResetOps
Loads      == {"loadexpires", "loadfutures"}

Calls(ops) ==
  {r \in [op : ops, slot : Slots, to : Slots, value : Contents \cup {Absent}, at : Nat] :
     /\ r.op \in Writes \cup {"getset", "future"} => r.value \in Values
     /\ r.op = "push" => r.value # Empty
     /\ r.op \in {"setex", "expire", "future"} => r.at > 0
     /\ r.op \in Movers /\ ~SelfTargets => r.to # r.slot}

KInv ==
  /\ disk \in GoodDisks
  /\ expires \in [Slots -> Nat]
  /\ futures \in [Slots -> Nat]
  /\ now \in Nat
  /\ inflight \in [Clients -> Calls(ClientOps) \cup {NoRequest}]
  /\ queue \in Seq(Calls(GlobalOps))
  /\ ready \in BOOLEAN
  /\ restarts \in 0 .. MaxRestarts

(* An effect is sound when every disk state its writes go through is good. *)
Effects == [disks : Seq(GoodDisks), expires : [Slots -> Nat], futures : [Slots -> Nat]]

AnyOp == (AllOps \ ResetOps) \cup {"loadexpires", "loadfutures"}

-----------------------------------------------------------------------------
(* Where an expiration record is kept.                                     *)
LEMMA Places ==
  ASSUME NEW s \in Slots
  PROVE  s.db \in Dbs /\ Own(s) \in Slots \X Dbs
BY DEF Own

(* What GetRegistry finds is an entry with something in it, and nothing    *)
(* but an empty key is under the other type (GetRegistry, on a good disk). *)
LEMMA Registry ==
  ASSUME disk \in GoodDisks, NEW s \in Slots
  PROVE  /\ Found(s) \in Types \cup {"none"}
         /\ Found(s) \in Types => /\ disk.data[<<s, Found(s)>>] \in Contents
                                 /\ Value(s) = disk.data[<<s, Found(s)>>]
                                 /\ Room(disk, s, Found(s)) /\ Fits(Found(s), Value(s))
         /\ Found(s) = "none" => \A ty \in Types : /\ disk.data[<<s, ty>>] = Absent
                                                   /\ Room(disk, s, ty)
         /\ "none" \notin Types
<1> DEFINE l == disk.data[<<s, "LIST">>]
           k == disk.data[<<s, "KEY">>]
<1>1. /\ l \in Contents \cup {Absent} /\ k \in Contents \cup {Absent} /\ l # Empty
      /\ l = Absent \/ k \in {Absent, Empty}
  BY DEF GoodDisks, Disks, Types
<1>2. Found(s) = IF l # Absent THEN "LIST" ELSE IF k # Absent THEN "KEY" ELSE "none"
  BY DEF Found
<1>3. CASE l # Absent
  BY <1>1, <1>2, <1>3 DEF Value, Types, Room, Fits
<1>4. CASE l = Absent /\ k # Absent
  BY <1>1, <1>2, <1>4 DEF Value, Types, Room, Fits
<1>5. CASE l = Absent /\ k = Absent
  BY <1>1, <1>2, <1>5 DEF Value, Types, Room, Fits
<1> QED
  BY <1>3, <1>4, <1>5

(* One write of a key: the disk stays good when the key is erased, or is   *)
(* stored where there is room for it.                                      *)
LEMMA PutKey ==
  ASSUME NEW d \in GoodDisks, NEW s \in Slots, NEW ty \in Types,
         NEW v \in Contents \cup {Absent},
         v # Absent => Room(d, s, ty) /\ Fits(ty, v)
  PROVE  [d EXCEPT !.data[<<s, ty>>] = v] \in GoodDisks
<1> DEFINE e == [d EXCEPT !.data[<<s, ty>>] = v]
<1>1. e \in Disks /\ e.future = d.future
  BY DEF GoodDisks, Disks
<1>2. \A t \in Slots, u \in Types :
        e.data[<<t, u>>] = IF t = s /\ u = ty THEN v ELSE d.data[<<t, u>>]
  BY DEF GoodDisks, Disks
<1> HIDE DEF e
<1>3. ASSUME NEW t \in Slots
      PROVE  /\ e.data[<<t, "LIST">>] # Empty
             /\ e.data[<<t, "LIST">>] = Absent \/ e.data[<<t, "KEY">>] \in {Absent, Empty}
  <2>1. /\ d.data[<<t, "LIST">>] # Empty
        /\ d.data[<<t, "LIST">>] = Absent \/ d.data[<<t, "KEY">>] \in {Absent, Empty}
    BY DEF GoodDisks
  <2>2. /\ e.data[<<t, "LIST">>] = IF t = s /\ "LIST" = ty THEN v ELSE d.data[<<t, "LIST">>]
        /\ e.data[<<t, "KEY">>] = IF t = s /\ "KEY" = ty THEN v ELSE d.data[<<t, "KEY">>]
    BY <1>2 DEF Types
  <2>3. ty \in {"LIST", "KEY"} /\ Absent # Empty
    BY DEF Types
  <2>4. CASE t # s
    BY <2>1, <2>2, <2>4
  <2>5. CASE t = s
    BY <2>1, <2>2, <2>3, <2>5 DEF Room, Fits
  <2> QED
    BY <2>4, <2>5
<1>4. e \in GoodDisks
  BY <1>1, <1>3 DEF GoodDisks
<1> QED
  BY <1>4 DEF e

(* One write of an expiration record.                                      *)
LEMMA PutRecord ==
  ASSUME NEW d \in GoodDisks, NEW p \in Slots \X Dbs, NEW at \in Nat
  PROVE  [d EXCEPT !.expire[p] = at] \in GoodDisks
BY DEF GoodDisks, Disks, Types

(* One write of a future.                                                  *)
LEMMA PutFuture ==
  ASSUME NEW d \in GoodDisks, NEW s \in Slots, NEW plan \in Plans
  PROVE  [d EXCEPT !.future[s] = plan] \in GoodDisks
<1> DEFINE e == [d EXCEPT !.future[s] = plan]
<1>1. plan \in [at : Nat, value : Contents \cup {Absent}]
  BY DEF Plans, NoFuture, Contents
<1>2. e \in Disks /\ e.data = d.data
  BY <1>1 DEF GoodDisks, Disks
<1>3. \A t \in Slots : e.future[t] = IF t = s THEN plan ELSE d.future[t]
  BY DEF GoodDisks, Disks
<1> HIDE DEF e
<1>4. e \in GoodDisks
  BY <1>2, <1>3 DEF GoodDisks
<1> QED
  BY <1>4 DEF e

(* An effect of up to four writes is sound when its parts are.             *)
LEMMA SoundEffect ==
  ASSUME NEW e \in [Slots -> Nat], NEW f \in [Slots -> Nat],
         NEW c1 \in GoodDisks, NEW c2 \in GoodDisks,
         NEW c3 \in GoodDisks, NEW c4 \in GoodDisks
  PROVE  /\ Effect(<<>>, e, f) \in Effects
         /\ Effect(<<c1>>, e, f) \in Effects
         /\ Effect(<<c1, c2>>, e, f) \in Effects
         /\ Effect(<<c1, c2, c3, c4>>, e, f) \in Effects
<1>1. /\ <<>> \in Seq(GoodDisks) /\ <<c1>> \in Seq(GoodDisks)
      /\ <<c1, c2>> \in Seq(GoodDisks) /\ <<c1, c2, c3, c4>> \in Seq(GoodDisks)
  OBVIOUS
<1> HIDE DEF GoodDisks
<1> QED
  BY <1>1 DEF Effect, Effects

(* The lists stay lists of schedules when an entry is set or removed.      *)
LEMMA SoundLists ==
  ASSUME KInv, NEW s \in Slots, NEW at \in Nat
  PROVE  /\ Armed(s, at) \in [Slots -> Nat]
         /\ Disarmed(s) \in [Slots -> Nat]
         /\ Forgotten(s) \in [Slots -> Nat]
         /\ expires[s] \in Nat
BY DEF KInv, Armed, Disarmed, Forgotten

(* A function on 1 .. n is a sequence of length n.                         *)
LEMMA FunctionSeq ==
  ASSUME NEW S, NEW n \in Nat, NEW f \in [1 .. n -> S]
  PROVE  f \in Seq(S) /\ Len(f) = n /\ DOMAIN f = 1 .. n
<1>1. f \in Seq(S)
  BY SeqDef
<1>2. Len(f) \in Nat /\ DOMAIN f = 1 .. Len(f)
  BY <1>1, LenProperties
<1>3. 1 .. Len(f) = 1 .. n
  BY <1>2
<1>4. Len(f) = n
  BY <1>2, <1>3
<1> QED
  BY <1>1, <1>4

-----------------------------------------------------------------------------
(* The commands, one class at a time: what Run writes is good.             *)

(* SET, PUSH, GETSET, SETNX, SETTX, SETEX, EXPIRE (set_query, getset_query,*)
(* setnx_query, settx_query, ExpireBatch, WriteExpire).                    *)
LEMMA StoreSound ==
  ASSUME KInv, NEW r \in Calls(AnyOp), Prepare(r),
         r.op \in Writes \cup {"getset", "expire"}
  PROVE  Run(r) \in Effects
<1> DEFINE ty == Base(r.op)
<1>1. /\ r.slot \in Slots /\ r.at \in Nat /\ ty \in Types
      /\ r.op # "expire" => r.value \in Values
  BY DEF Calls, Base, Types, Writes
<1>2. /\ disk \in GoodDisks
      /\ expires \in [Slots -> Nat] /\ futures \in [Slots -> Nat]
  BY DEF KInv
<1>3. Room(disk, r.slot, ty) /\ (r.op # "expire" => Fits(ty, r.value))
  <2>1. Found(r.slot) \in {ty, "none"}
    BY DEF Prepare, Writes, Reads, FutureOps, Skips, Base
  <2>2. r.op # "expire" => Fits(ty, r.value)
    BY DEF Calls, Base, Fits
  <2> QED
    BY <1>1, <1>2, <2>1, <2>2, Registry
<1>4. CASE r.op # "expire"
  <2> DEFINE put == [disk EXCEPT !.data[<<r.slot, ty>>] = r.value]
  <2>1. put \in GoodDisks
    BY <1>1, <1>2, <1>3, <1>4, PutKey DEF Contents
  <2>2. Set(r) \in Effects
    BY <1>2, <2>1, SoundEffect DEF Set, Only
  <2>3. Nothing \in Effects
    BY <1>2, SoundEffect DEF Nothing
  <2>4. CASE r.op = "setex"
    <3>1. ty = "KEY"
      BY <2>4 DEF Base
    <3>2. [disk EXCEPT !.data[<<r.slot, "KEY">>] = r.value, !.expire[Own(r.slot)] = r.at]
            = [put EXCEPT !.expire[Own(r.slot)] = r.at]
      BY <1>2, <3>1 DEF GoodDisks, Disks
    <3>3. [put EXCEPT !.expire[Own(r.slot)] = r.at] \in GoodDisks
      BY <1>1, <2>1, PutRecord, Places
    <3>4. SetEX(r) \in Effects
      BY <1>1, <1>2, <3>2, <3>3, SoundEffect, SoundLists DEF SetEX, ExpireBatch
    <3> QED
      BY <2>4, <3>4 DEF Run, Execute
  <2> QED
    BY <1>4, <2>2, <2>3, <2>4 DEF Run, Execute, GetSet, SetNX, SetTX, Writes
<1>5. CASE r.op = "expire"
  <2>1. [disk EXCEPT !.expire[Own(r.slot)] = r.at] \in GoodDisks
    BY <1>1, <1>2, PutRecord, Places
  <2>2. Expire(r) \in Effects
    BY <1>1, <1>2, <2>1, SoundEffect, SoundLists DEF Expire
  <2> QED
    BY <1>5, <2>2 DEF Run, Execute
<1> QED
  BY <1>4, <1>5

(* DEL, GETDEL, PERSIST, GETPERSIST (del_query, getdel_query, DelExpire).  *)
LEMMA EraseSound ==
  ASSUME KInv, NEW r \in Calls(AnyOp), Prepare(r),
         r.op \in {"del", "getdel", "persist", "getpersist"}
  PROVE  Run(r) \in Effects
<1>1. r.slot \in Slots
  BY DEF Calls
<1>2. /\ disk \in GoodDisks
      /\ expires \in [Slots -> Nat] /\ futures \in [Slots -> Nat]
  BY DEF KInv
<1>3. CASE r.op \in {"persist", "getpersist"}
  <2>1. [disk EXCEPT !.expire[Own(r.slot)] = 0] \in GoodDisks
    BY <1>1, <1>2, PutRecord, Places
  <2>2. DelExpire(r) \in Effects
    BY <1>1, <1>2, <2>1, SoundEffect, SoundLists DEF DelExpire
  <2> QED
    BY <1>3, <2>2 DEF Run, Execute, Persist, GetPersist
<1>4. CASE r.op = "getdel"
  <2>1. [disk EXCEPT !.data[<<r.slot, "KEY">>] = Absent] \in GoodDisks
    BY <1>1, <1>2, PutKey DEF Types
  <2>2. GetDel(r) \in Effects
    BY <1>2, <2>1, SoundEffect DEF GetDel, Only
  <2> QED
    BY <1>4, <2>2 DEF Run, Execute
<1>5. CASE r.op = "del"
  <2> DEFINE found == Found(r.slot)
             gone  == [disk EXCEPT !.data[<<r.slot, found>>] = Absent]
  <2>1. found \in Types
    BY <1>1, <1>2, <1>5, Registry DEF Prepare, Skips, Writes, Reads, FutureOps
  <2>2. gone \in GoodDisks
    BY <1>1, <1>2, <2>1, PutKey
  <2>3. [gone EXCEPT !.expire[Own(r.slot)] = 0] \in GoodDisks
    BY <1>1, <2>2, PutRecord, Places
  <2>4. [disk EXCEPT !.data[<<r.slot, found>>] = Absent, !.expire[Own(r.slot)] = 0]
          = [gone EXCEPT !.expire[Own(r.slot)] = 0]
    BY <1>2 DEF GoodDisks, Disks
  <2>5. Del(r) \in Effects
    BY <1>1, <1>2, <2>2, <2>3, <2>4, SoundEffect, SoundLists DEF Del, Only
  <2> QED
    BY <1>5, <2>5 DEF Run, Execute
<1> QED
  BY <1>3, <1>4, <1>5

(* What a command that moves or copies a key starts from: the source is    *)
(* under its type, and there is room for it at the destination, where      *)
(* CheckDest has seen nothing or the same type (CheckDest, Prepare).       *)
LEMMA MoverStart ==
  ASSUME KInv, NEW r \in Calls(AnyOp), Prepare(r), r.op \in Movers
  PROVE  /\ r.slot \in Slots /\ r.to \in Slots
         /\ r.op # "copy" => Found(r.slot) \in Types
         /\ Found(r.slot) \in Types =>
              /\ Value(r.slot) \in Contents /\ Fits(Found(r.slot), Value(r.slot))
              /\ disk.data[<<r.slot, Found(r.slot)>>] = Value(r.slot)
              /\ Room(disk, r.to, Found(r.slot))
<1>1. r.slot \in Slots /\ r.to \in Slots
  BY DEF Calls
<1>2. disk \in GoodDisks
  BY DEF KInv
<1>3. CheckDest(r) \in {0, 1} /\ (r.op # "copy" => Found(r.slot) # "none")
  BY DEF Prepare, Movers, HintOps, Skips, Writes, Reads, FutureOps
<1>4. r.to = r.slot \/ Taken(r.to) \in {"none", Found(r.slot)}
  BY <1>3 DEF CheckDest
<1>5. ASSUME Found(r.slot) \in Types
      PROVE  Room(disk, r.to, Found(r.slot))
  <2>1. CASE r.to = r.slot
    BY <1>1, <1>2, <1>5, <2>1, Registry
  <2>2. CASE Taken(r.to) \in {"none", Found(r.slot)}
    <3> DEFINE l == disk.data[<<r.to, "LIST">>]
               k == disk.data[<<r.to, "KEY">>]
    <3>1. l # Empty /\ (l = Absent \/ k \in {Absent, Empty})
      BY <1>1, <1>2 DEF GoodDisks
    <3>2. Taken(r.to) = IF l # Absent THEN "LIST"
                        ELSE IF k \notin {Absent, Empty} THEN "KEY" ELSE "none"
      BY <3>1 DEF Taken
    <3> QED
      BY <1>5, <2>2, <3>1, <3>2 DEF Room, Types
  <2> QED
    BY <1>4, <2>1, <2>2
<1> QED
  BY <1>1, <1>2, <1>3, <1>5, Registry

(* RENAME, RENAMENX, MOVE (SwapWithExpire, Swap, move_query::Keys).        *)
LEMMA SwapSound ==
  ASSUME KInv, NEW r \in Calls(AnyOp), Prepare(r), r.op \in {"rename", "renamenx", "move"}
  PROVE  Run(r) \in Effects
<1> DEFINE found == Found(r.slot)
           value == Value(r.slot)
           at    == expires[r.slot]
           put   == [disk EXCEPT !.data[<<r.to, found>>] = value]
           gone  == [put EXCEPT !.data[<<r.slot, found>>] = Absent]
<1>1. /\ disk \in GoodDisks
      /\ expires \in [Slots -> Nat] /\ futures \in [Slots -> Nat]
  BY DEF KInv
<1>2. /\ r.slot \in Slots /\ r.to \in Slots /\ found \in Types /\ value \in Contents
      /\ Room(disk, r.to, found) /\ Fits(found, value)
  BY MoverStart DEF Movers, HintOps
<1>3. gone \in GoodDisks
  <2>1. put \in GoodDisks
    BY <1>1, <1>2, PutKey
  <2> QED
    BY <1>2, <2>1, PutKey
<1>4. at \in Nat /\ [expires EXCEPT ![r.slot] = 0, ![r.to] = at] \in [Slots -> Nat]
  BY <1>1, <1>2
<1>5. [gone EXCEPT !.expire[Own(r.to)] = at] \in GoodDisks
  BY <1>2, <1>3, <1>4, PutRecord, Places
<1>6. [disk EXCEPT !.data[<<r.to, found>>] = value, !.data[<<r.slot, found>>] = Absent] = gone
  BY <1>1 DEF GoodDisks, Disks
<1>7. [disk EXCEPT !.data[<<r.to, found>>] = value, !.data[<<r.slot, found>>] = Absent,
                   !.expire[Own(r.to)] = at] = [gone EXCEPT !.expire[Own(r.to)] = at]
  BY <1>1 DEF GoodDisks, Disks
<1>8. Swap(r) \in Effects
  BY <1>1, <1>3, <1>4, <1>5, <1>6, <1>7, SoundEffect DEF Swap, Only
<1> QED
  BY <1>8 DEF Run, Execute, Rename, RenameNX, Move

(* COPY and CLONE (copy_query::Run, clone_query::Keys).                    *)
LEMMA CopySound ==
  ASSUME KInv, NEW r \in Calls(AnyOp), Prepare(r), r.op \in {"copy", "clone"}
  PROVE  Run(r) \in Effects
<1> DEFINE found == Found(r.slot)
           value == Value(r.slot)
           at    == expires[r.slot]
           rec   == [disk EXCEPT !.expire[Own(r.to)] = at]
<1>1. /\ disk \in GoodDisks
      /\ expires \in [Slots -> Nat] /\ futures \in [Slots -> Nat]
  BY DEF KInv
<1>2. /\ r.slot \in Slots /\ r.to \in Slots
      /\ found \in Types =>
           /\ value \in Contents
           /\ Room(disk, r.to, found) /\ Fits(found, value)
      /\ r.op = "clone" => found \in Types
  BY MoverStart DEF Movers, HintOps
<1>3. found \in Types \cup {"none"}
  BY <1>1, <1>2, Registry
<1>4. at \in Nat /\ Armed(r.to, at) \in [Slots -> Nat]
  BY <1>1, <1>2, SoundLists
<1>5. rec \in GoodDisks /\ rec.data = disk.data
  <2>1. rec.data = disk.data
    BY <1>1 DEF GoodDisks, Disks
  <2> QED
    BY <1>1, <1>2, <1>4, <2>1, PutRecord, Places
<1>6. ASSUME found \in Types, NEW v \in Contents, Fits(found, v)
      PROVE  /\ [disk EXCEPT !.data[<<r.to, found>>] = v] \in GoodDisks
             /\ [rec EXCEPT !.data[<<r.to, found>>] = v] \in GoodDisks
  <2>1. [disk EXCEPT !.data[<<r.to, found>>] = v] \in GoodDisks
    BY <1>1, <1>2, <1>6, PutKey
  <2> HIDE DEF rec
  <2>2. [rec EXCEPT !.data[<<r.to, found>>] = v] \in GoodDisks
    BY <1>2, <1>5, <1>6, PutKey DEF Room
  <2> QED
    BY <2>1, <2>2
<1>7. CASE r.op = "copy"
  <2>1. CASE found = "none"
    <3>1. Copy(r) = Nothing
      BY <2>1 DEF Copy
    <3>2. Nothing \in Effects
      BY <1>1, SoundEffect DEF Nothing
    <3> QED
      BY <1>7, <3>1, <3>2 DEF Run, Execute
  <2>2. CASE found = "KEY" /\ Expiring(r.slot)
    <3> DEFINE full == [rec EXCEPT !.data[<<r.to, found>>] = value]
    <3>1. Copy(r) = Effect(<<rec, full>>, Armed(r.to, at), futures)
      BY <2>2 DEF Copy
    <3>2. full \in GoodDisks
      BY <1>2, <1>6, <2>2 DEF Types
    <3> HIDE DEF full, rec, at
    <3>3. Effect(<<rec, full>>, Armed(r.to, at), futures) \in Effects
      BY <1>1, <1>4, <1>5, <3>2, SoundEffect
    <3> QED
      BY <1>7, <3>1, <3>3 DEF Run, Execute
  <2>3. CASE found # "none" /\ ~(found = "KEY" /\ Expiring(r.slot))
    <3> DEFINE full == [disk EXCEPT !.data[<<r.to, found>>] = value]
    <3>1. Copy(r) = Effect(<<full>>, expires, futures)
      BY <2>3 DEF Copy, Only
    <3>2. full \in GoodDisks
      BY <1>2, <1>3, <1>6, <2>3
    <3> HIDE DEF full
    <3>3. Effect(<<full>>, expires, futures) \in Effects
      BY <1>1, <3>2, SoundEffect
    <3> QED
      BY <1>7, <3>1, <3>3 DEF Run, Execute
  <2> QED
    BY <2>1, <2>2, <2>3
<1>8. CASE r.op = "clone"
  <2> DEFINE put == [disk EXCEPT !.data[<<r.to, found>>] = Numeral]
  <2>1. put \in GoodDisks
    BY <1>2, <1>6, <1>8, KeyspaceAssumption DEF Contents, Fits
  <2>2. [disk EXCEPT !.data[<<r.to, found>>] = Numeral, !.expire[Own(r.to)] = at]
          = [put EXCEPT !.expire[Own(r.to)] = at]
    BY <1>1 DEF GoodDisks, Disks
  <2>3. [put EXCEPT !.expire[Own(r.to)] = at] \in GoodDisks
    BY <1>2, <1>4, <2>1, PutRecord, Places
  <2>4. ExpireBatch(r.to, found, Numeral, at) \in Effects
    BY <1>1, <1>4, <2>2, <2>3, SoundEffect DEF ExpireBatch
  <2>5. Only([disk EXCEPT !.data[<<r.to, found>>] = value]) \in Effects
    BY <1>1, <1>2, <1>6, <1>8, SoundEffect DEF Only
  <2>6. Clone(r) \in Effects
    BY <2>4, <2>5 DEF Clone
  <2> QED
    BY <1>8, <2>6 DEF Run, Execute
<1> QED
  BY <1>7, <1>8

(* TRANSFER (transfer_query::Run).                                         *)
LEMMA TransferSound ==
  ASSUME KInv, NEW r \in Calls(AnyOp), Prepare(r), r.op = "transfer"
  PROVE  Run(r) \in Effects
<1> DEFINE found   == Found(r.slot)
           value   == Value(r.slot)
           at      == expires[r.slot]
           del(d)  == [d EXCEPT !.data[<<r.slot, found>>] = Absent]
           put(d)  == [d EXCEPT !.data[<<r.to, found>>] = value]
           cleared == [disk EXCEPT !.expire[Own(r.slot)] = 0]
           moved   == [cleared EXCEPT !.expire[Foreign(r)] = at]
<1>1. /\ disk \in GoodDisks
      /\ expires \in [Slots -> Nat] /\ futures \in [Slots -> Nat]
  BY DEF KInv
<1>2. /\ r.slot \in Slots /\ r.to \in Slots /\ found \in Types /\ value \in Contents
      /\ Room(disk, r.to, found) /\ Fits(found, value)
  BY MoverStart DEF Movers, HintOps
<1>3. at \in Nat /\ [expires EXCEPT ![r.slot] = 0, ![r.to] = at] \in [Slots -> Nat]
  BY <1>1, <1>2
<1>4. ASSUME NEW d \in GoodDisks, d.data = disk.data
      PROVE  put(d) \in GoodDisks /\ del(put(d)) \in GoodDisks
  <2>1. put(d) \in GoodDisks
    BY <1>2, <1>4, PutKey DEF Room
  <2> QED
    BY <1>2, <2>1, PutKey
<1>5. cleared \in GoodDisks /\ cleared.data = disk.data
  <2>1. cleared.data = disk.data
    BY <1>1 DEF GoodDisks, Disks
  <2> QED
    BY <1>1, <1>2, <2>1, PutRecord, Places
<1>6. moved \in GoodDisks /\ moved.data = disk.data
  <2>1. moved.data = disk.data
    BY <1>5 DEF GoodDisks, Disks
  <2>2. Foreign(r) \in Slots \X Dbs
    BY <1>2, Places DEF Foreign
  <2> QED
    BY <1>3, <1>5, <2>1, <2>2, PutRecord
<1>7. Transfer(r) \in Effects
  <2>1. Effect(<<cleared, moved, put(moved), del(put(moved))>>,
               [expires EXCEPT ![r.slot] = 0, ![r.to] = at], futures) \in Effects
    BY <1>1, <1>3, <1>4, <1>5, <1>6, SoundEffect
  <2>2. Effect(<<put(disk), del(put(disk))>>, expires, futures) \in Effects
    BY <1>1, <1>4, SoundEffect
  <2> QED
    BY <2>1, <2>2 DEF Transfer
<1> QED
  BY <1>7 DEF Run, Execute

(* The iterator of WDEL meets every matching key once (wdel_query::Run).   *)
LEMMA IterationIsFinite ==
  ASSUME NEW S \in SUBSET Slots
  PROVE  /\ Cardinality(S) \in Nat
         /\ Iteration(S) \in [1 .. Cardinality(S) -> S]
         /\ \A i, j \in 1 .. Cardinality(S) : Iteration(S)[i] = Iteration(S)[j] => i = j
<1> DEFINE n == Cardinality(S)
<1>1. n \in Nat /\ ExistsBijection(1 .. n, S)
  BY FS_Subset, FS_CardinalityType
<1>2. PICK f \in Bijection(1 .. n, S) : TRUE
  BY <1>1 DEF ExistsBijection
<1>3. f \in [1 .. n -> S] /\ \A i, j \in 1 .. n : f[i] = f[j] => i = j
  BY <1>2 DEF Bijection, Injection, IsInjective
<1>4. DOMAIN f = 1 .. n
  BY <1>3
<1>5. \E g \in [1 .. n -> S] : \A i, j \in DOMAIN g : g[i] = g[j] => i = j
  BY <1>3, <1>4
<1>6. /\ Iteration(S) \in [1 .. n -> S]
      /\ \A i, j \in DOMAIN Iteration(S) : Iteration(S)[i] = Iteration(S)[j] => i = j
  BY <1>5 DEF Iteration
<1> QED
  BY <1>1, <1>6

(* WDEL: every state its deletions go through is good (wdel_query::Run).   *)
LEMMA WDelSound ==
  ASSUME KInv, NEW r \in Calls(AnyOp), Prepare(r), r.op = "wdel"
  PROVE  Run(r) \in Effects
<1> DEFINE M     == Matching(r)
           order == Iteration(M)
           after(n) == [disk EXCEPT !.data = [c \in Slots \X Types |->
                          IF c[2] = "KEY" /\ \E i \in 1 .. n : order[i] = c[1]
                          THEN Absent ELSE disk.data[c]]]
           left  == [s \in Slots |-> IF s \in M THEN 0 ELSE expires[s]]
           seq   == [n \in DOMAIN order |-> after(n)]
<1>1. /\ disk \in GoodDisks
      /\ expires \in [Slots -> Nat] /\ futures \in [Slots -> Nat]
  BY DEF KInv
<1>2. Cardinality(M) \in Nat /\ DOMAIN order = 1 .. Cardinality(M)
  BY IterationIsFinite DEF Matching
<1>3. ASSUME NEW n \in DOMAIN order
      PROVE  after(n) \in GoodDisks
  <2> DEFINE erased == [c \in Slots \X Types |->
                          IF c[2] = "KEY" /\ \E i \in 1 .. n : order[i] = c[1]
                          THEN Absent ELSE disk.data[c]]
  <2>1. \A c \in Slots \X Types : disk.data[c] \in Contents \cup {Absent}
    BY <1>1 DEF GoodDisks, Disks
  <2>2. /\ erased \in [Slots \X Types -> Contents \cup {Absent}]
        /\ \A c \in Slots \X Types : erased[c] \in {Absent, disk.data[c]}
    BY <2>1
  <2> HIDE DEF erased
  <2>3. /\ [disk EXCEPT !.data = erased] \in Disks
        /\ [disk EXCEPT !.data = erased].data = erased
        /\ [disk EXCEPT !.data = erased].future = disk.future
    BY <1>1, <2>2 DEF GoodDisks, Disks
  <2>4. [disk EXCEPT !.data = erased] \in GoodDisks
    BY <1>1, <2>2, <2>3 DEF GoodDisks, Types
  <2> QED
    BY <2>4 DEF erased
<1>4. left \in [Slots -> Nat]
  BY <1>1
<1>5. seq \in Seq(GoodDisks)
  <2> HIDE DEF order, after, GoodDisks
  <2>1. seq \in [1 .. Cardinality(M) -> GoodDisks]
    BY <1>2, <1>3
  <2> QED
    BY <1>2, <2>1, FunctionSeq
<1>6. WDel(r) = Effect(seq, left, futures)
  BY DEF WDel
<1> HIDE DEF seq, left
<1>7. WDel(r) \in Effects
  BY <1>1, <1>4, <1>5, <1>6 DEF Effect, Effects
<1> QED
  BY <1>7 DEF Run, Execute

(* FUTURE, EXEC, CANCEL (WriteFuture, future_exec_query, future_del_query).*)
LEMMA FutureSound ==
  ASSUME KInv, NEW r \in Calls(AnyOp), Prepare(r), r.op \in FutureOps
  PROVE  Run(r) \in Effects
<1> DEFINE plan == disk.future[r.slot]
           put  == [disk EXCEPT !.data[<<r.slot, "KEY">>] = plan.value]
<1>1. /\ disk \in GoodDisks
      /\ expires \in [Slots -> Nat] /\ futures \in [Slots -> Nat]
  BY DEF KInv
<1>2. r.slot \in Slots /\ r.at \in Nat
  BY DEF Calls
<1>3. Room(disk, r.slot, "KEY")
  <2>1. Found(r.slot) \in {"KEY", "none"}
    BY DEF Prepare, Writes, Reads, FutureOps, Skips, Base
  <2> QED
    BY <1>1, <1>2, <2>1, Registry DEF Types
<1>4. NoFuture \in Plans
  BY DEF Plans
<1>5. CASE r.op = "future"
  <2>1. [at |-> r.at, value |-> r.value] \in Plans
    BY <1>5 DEF Calls, Plans
  <2>2. [disk EXCEPT !.future[r.slot] = [at |-> r.at, value |-> r.value]] \in GoodDisks
    BY <1>1, <1>2, <2>1, PutFuture
  <2>3. [futures EXCEPT ![r.slot] = r.at] \in [Slots -> Nat]
    BY <1>1, <1>2
  <2>4. Future(r) \in Effects
    BY <1>1, <2>2, <2>3, SoundEffect DEF Future
  <2> QED
    BY <1>5, <2>4 DEF Run, Execute
<1>6. CASE r.op = "exec"
  <2>1. CASE plan = NoFuture
    <3>1. Exec(r) \in Effects
      BY <1>1, <1>2, <2>1, SoundEffect, SoundLists DEF Exec
    <3> QED
      BY <1>6, <3>1 DEF Run, Execute
  <2>2. CASE plan # NoFuture
    <3>1. plan.value \in Contents
      BY <1>1, <1>2, <2>2 DEF GoodDisks, Plans, Contents
    <3>2. put \in GoodDisks
      BY <1>1, <1>2, <1>3, <3>1, PutKey DEF Types, Fits
    <3>3. DelFuture(put, r.slot) \in GoodDisks
      BY <1>2, <1>4, <3>2, PutFuture DEF DelFuture
    <3>4. Exec(r) \in Effects
      BY <1>1, <1>2, <2>2, <3>2, <3>3, SoundEffect, SoundLists DEF Exec
    <3> QED
      BY <1>6, <3>4 DEF Run, Execute
  <2> QED
    BY <2>1, <2>2
<1>7. CASE r.op = "cancel"
  <2>1. DelFuture(disk, r.slot) \in GoodDisks
    BY <1>1, <1>2, <1>4, PutFuture DEF DelFuture
  <2>2. Cancel(r) \in Effects
    BY <1>1, <1>2, <2>1, SoundEffect, SoundLists DEF Cancel, Nothing
  <2> QED
    BY <1>7, <2>2 DEF Run, Execute
<1> QED
  BY <1>5, <1>6, <1>7 DEF FutureOps

(* The lists of start-up (expire_list_query::Run, future_list_query::Run). *)
LEMMA LoadSound ==
  ASSUME KInv, NEW r \in Calls(AnyOp), r.op \in {"loadexpires", "loadfutures"}
  PROVE  Run(r) \in Effects
<1> DEFINE db == r.slot.db
<1>1. /\ disk \in GoodDisks
      /\ expires \in [Slots -> Nat] /\ futures \in [Slots -> Nat]
  BY DEF KInv
<1>2. Prepare(r)
  BY DEF Prepare, Skips
<1>3. CASE r.op = "loadexpires" /\ KeepExpires
  <2> DEFINE e == [s \in Slots |-> IF Recorded(s, db) THEN disk.expire[Own(s)] ELSE expires[s]]
  <2>1. \A s \in Slots : disk.expire[Own(s)] \in Nat
    BY <1>1, Places DEF GoodDisks, Disks
  <2>2. e \in [Slots -> Nat]
    BY <1>1, <2>1
  <2>3. LoadExpires(r) = Effect(<<>>, e, futures)
    BY <1>3 DEF LoadExpires
  <2> HIDE DEF e
  <2>4. LoadExpires(r) \in Effects
    BY <1>1, <2>2, <2>3, SoundEffect
  <2> QED
    BY <1>2, <1>3, <2>4 DEF Run, Execute
<1>4. CASE r.op = "loadexpires" /\ ~KeepExpires
  <2> DEFINE erased == [c \in Slots \X Dbs |-> IF c[1].db = db /\ c[2] = db THEN 0
                                                ELSE disk.expire[c]]
             d == [disk EXCEPT !.expire = erased]
  <2>1. \A c \in Slots \X Dbs : disk.expire[c] \in Nat
    BY <1>1 DEF GoodDisks, Disks
  <2>2. erased \in [Slots \X Dbs -> Nat]
    BY <2>1
  <2>3. LoadExpires(r) = Effect(<<d>>, expires, futures)
    BY <1>4 DEF LoadExpires, Only
  <2> HIDE DEF erased
  <2>4. d \in GoodDisks
    BY <1>1, <2>2 DEF GoodDisks, Disks
  <2> HIDE DEF d
  <2>5. Effect(<<d>>, expires, futures) \in Effects
    BY <1>1, <2>4, SoundEffect
  <2> QED
    BY <1>2, <1>4, <2>3, <2>5 DEF Run, Execute
<1>5. CASE r.op = "loadfutures" /\ KeepFutures
  <2> DEFINE f == [s \in Slots |-> IF Planned(s, db) THEN disk.future[s].at ELSE futures[s]]
  <2>1. \A s \in Slots : disk.future[s].at \in Nat
    BY <1>1 DEF GoodDisks, Disks
  <2>2. f \in [Slots -> Nat]
    BY <1>1, <2>1
  <2>3. LoadFutures(r) = Effect(<<>>, expires, f)
    BY <1>5 DEF LoadFutures
  <2> HIDE DEF f
  <2>4. Effect(<<>>, expires, f) \in Effects
    BY <1>1, <2>2, SoundEffect
  <2> QED
    BY <1>2, <1>5, <2>3, <2>4 DEF Run, Execute
<1>6. CASE r.op = "loadfutures" /\ ~KeepFutures
  <2> DEFINE erased == [s \in Slots |-> IF s.db = db THEN NoFuture ELSE disk.future[s]]
             d == [disk EXCEPT !.future = erased]
  <2>1. \A s \in Slots : erased[s] \in {NoFuture, disk.future[s]}
    OBVIOUS
  <2>2. /\ erased \in [Slots -> [at : Nat, value : Contents \cup {Absent}]]
        /\ \A s \in Slots : erased[s] \in Plans
    BY <1>1 DEF GoodDisks, Disks, Plans, NoFuture
  <2>3. LoadFutures(r) = Effect(<<d>>, expires, futures)
    BY <1>6 DEF LoadFutures, Only
  <2> HIDE DEF erased
  <2>4. d \in GoodDisks
    BY <1>1, <2>2 DEF GoodDisks, Disks
  <2> HIDE DEF d
  <2>5. Effect(<<d>>, expires, futures) \in Effects
    BY <1>1, <2>4, SoundEffect
  <2> QED
    BY <1>2, <1>6, <2>3, <2>5 DEF Run, Execute
<1> QED
  BY <1>3, <1>4, <1>5, <1>6

(* A request Prepare refuses: a future is dropped, nothing else happens.   *)
LEMMA RefusedSound ==
  ASSUME KInv, NEW r \in Calls(AnyOp)
  PROVE  Refused(r) \in Effects
<1>1. /\ disk \in GoodDisks /\ r.slot \in Slots
      /\ expires \in [Slots -> Nat] /\ futures \in [Slots -> Nat]
  BY DEF KInv, Calls
<1>2. DelFuture(disk, r.slot) \in GoodDisks
  BY <1>1, PutFuture DEF DelFuture, Plans
<1> QED
  BY <1>1, <1>2, SoundEffect, SoundLists DEF Refused, Nothing

(* Whatever a request is, what it writes is good.                          *)
LEMMA RunSound ==
  ASSUME KInv, NEW r \in Calls(AnyOp)
  PROVE  Run(r) \in Effects
<1>1. CASE ~Prepare(r)
  BY <1>1, RefusedSound DEF Run
<1>2. CASE Prepare(r)
  <2>1. r.op \in AnyOp
    BY DEF Calls
  <2>2. \/ r.op \in Writes \cup {"getset", "expire"}
        \/ r.op \in {"del", "getdel", "persist", "getpersist"}
        \/ r.op \in {"rename", "renamenx", "move"}
        \/ r.op \in {"copy", "clone"}
        \/ r.op = "transfer"
        \/ r.op = "wdel"
        \/ r.op \in FutureOps
        \/ r.op \in {"loadexpires", "loadfutures"}
    BY <2>1 DEF AnyOp, AllOps, KeyOps, HintOps, ExpireOps, FutureOps, ResetOps, Writes
  <2> QED
    BY <1>2, <2>2, StoreSound, EraseSound, SwapSound, CopySound, TransferSound,
       WDelSound, FutureSound, LoadSound
<1> QED
  BY <1>1, <1>2

-----------------------------------------------------------------------------
(* Every step keeps KInv.                                                  *)

(* Requests of clients and of Global are requests.                         *)
LEMMA CallsAreCalls ==
  Calls(ClientOps) \subseteq Calls(AnyOp) /\ Calls(GlobalOps) \subseteq Calls(AnyOp)
<1>1. ClientOps \subseteq AnyOp /\ GlobalOps \subseteq AnyOp
  BY DEF ClientOps, GlobalOps, AnyOp, AllOps, KeyOps, HintOps, ExpireOps, FutureOps,
         ResetOps
<1> QED
  BY <1>1 DEF Calls

(* What a worker leaves behind is good (QueryBase::Process).               *)
LEMMA PerformSound ==
  ASSUME KInv, NEW r \in Calls(AnyOp), Perform(r)
  PROVE  /\ disk' \in GoodDisks
         /\ expires' \in [Slots -> Nat]
         /\ futures' \in [Slots -> Nat]
<1> DEFINE e == Run(r)
<1>1. e \in Effects
  BY RunSound
<1>2. e.disks \in Seq(GoodDisks) /\ e.expires \in [Slots -> Nat] /\ e.futures \in [Slots -> Nat]
  BY <1>1 DEF Effects
<1>3. /\ disk' = IF e.disks = <<>> THEN disk ELSE e.disks[Len(e.disks)]
      /\ expires' = e.expires /\ futures' = e.futures
  BY DEF Perform
<1> HIDE DEF e
<1>4. e.disks # <<>> => e.disks[Len(e.disks)] \in GoodDisks
  <2> HIDE DEF GoodDisks
  <2>1. e.disks # <<>> => Len(e.disks) \in Nat \ {0}
    BY <1>2, EmptySeq
  <2> QED
    BY <1>2, <2>1, ElementOfSeq
<1> QED
  BY <1>2, <1>3, <1>4 DEF KInv

(* What the server pushes through Global, for a list in order.             *)
LEMMA PushesSound ==
  ASSUME NEW S \in SUBSET Slots, NEW list, NEW order \in Orders(S, list),
         NEW op \in {"del", "exec", "persist", "cancel"}
  PROVE  /\ Pushes(op, order) \in Seq(Calls(GlobalOps))
         /\ Len(Pushes(op, order)) = Cardinality(S)
         /\ \A i \in 1 .. Len(Pushes(op, order)) :
              /\ Pushes(op, order)[i].op \notin Loads /\ Pushes(op, order)[i].slot \in S
              /\ op # "del" => Pushes(op, order)[i].op # "del"
<1> DEFINE n == Cardinality(S)
<1>1. n \in Nat
  BY FS_Subset, FS_CardinalityType
<1>2. order \in [1 .. n -> S] /\ DOMAIN order = 1 .. n
  BY DEF Orders
<1>3. \A s \in S : /\ Request(op, s, s, Absent, 0) \in Calls(GlobalOps)
                   /\ Request(op, s, s, Absent, 0).op \notin Loads
                   /\ op # "del" => Request(op, s, s, Absent, 0).op # "del"
                   /\ Request(op, s, s, Absent, 0).slot = s
  BY DEF Request, Calls, GlobalOps, Writes, Movers, HintOps, Loads
<1>4. Pushes(op, order) \in [1 .. n -> Calls(GlobalOps)]
  BY <1>2, <1>3 DEF Pushes
<1>5. \A i \in 1 .. n : Pushes(op, order)[i] = Request(op, order[i], order[i], Absent, 0)
  BY <1>2 DEF Pushes
<1>6. Pushes(op, order) \in Seq(Calls(GlobalOps)) /\ Len(Pushes(op, order)) = n
  BY <1>1, <1>4, FunctionSeq
<1> QED
  BY <1>2, <1>3, <1>5, <1>6

(* The requests of a start-up.                                             *)
LEMMA LoadIsCall ==
  ASSUME NEW op \in {"loadexpires", "loadfutures"}, NEW db \in Dbs
  PROVE  /\ Load(op, db) \in Calls(GlobalOps)
         /\ Load(op, db).op = op /\ Load(op, db).slot.db = db
<1>1. AnyKey(db) \in Slots /\ AnyKey(db).db = db
  BY DEF AnyKey
<1> QED
  BY <1>1 DEF Load, Request, Calls, GlobalOps, Writes, Movers, HintOps

(* The requests of start-up: one list of expirations for every database,   *)
(* then that of the futures of the last one (core_dbload, ExpireHelper).   *)
LEMMA StartupsSound ==
  ASSUME NEW q \in Startups
  PROVE  /\ q \in Seq(Calls(GlobalOps))
         /\ Cardinality(Dbs) \in Nat /\ Len(q) = Cardinality(Dbs) + 1
         /\ q[Len(q)].op = "loadfutures" /\ q[Len(q)].slot.db = LastDb
         /\ \A i \in 1 .. Len(q) - 1 : q[i].op = "loadexpires"
         /\ \A db \in Dbs : \E i \in 1 .. Len(q) - 1 : q[i].slot.db = db
         /\ \A i, j \in 1 .. Len(q) - 1 : q[i].slot.db = q[j].slot.db => i = j
<1> DEFINE n == Cardinality(Dbs)
<1>1. n \in Nat
  BY FS_CardinalityType
<1>2. PICK f \in [1 .. n -> Dbs] :
        /\ \A i, j \in 1 .. n : f[i] = f[j] => i = j
        /\ q = [i \in 1 .. n + 1 |-> IF i <= n THEN Load("loadexpires", f[i])
                                     ELSE Load("loadfutures", LastDb)]
  BY DEF Startups
<1>3. q \in [1 .. n + 1 -> Calls(GlobalOps)]
  BY <1>1, <1>2, LoadIsCall
<1>4. q \in Seq(Calls(GlobalOps)) /\ Len(q) = n + 1
  BY <1>1, <1>3, FunctionSeq
<1>5. /\ q[n + 1] = Load("loadfutures", LastDb)
      /\ \A i \in 1 .. n : q[i] = Load("loadexpires", f[i])
  BY <1>1, <1>2
<1>6. \A db \in Dbs : \E i \in 1 .. n : f[i] = db
  <2>1. f \in Injection(1 .. n, Dbs)
    BY <1>2 DEF Injection, IsInjective
  <2>2. Cardinality(1 .. n) = n
    <3>1. 1 \in Int /\ n \in Int
      BY <1>1
    <3>2. Cardinality(1 .. n) = IF 1 > n THEN 0 ELSE n - 1 + 1
      BY <3>1, FS_Interval, Zenon
    <3> QED
      BY <1>1, <3>2
  <2>3. f \in Surjection(1 .. n, Dbs)
    BY <2>1, <2>2, FS_Injection
  <2> QED
    BY <2>3 DEF Surjection
<1>7. \A i \in 1 .. n : q[i].op = "loadexpires" /\ q[i].slot.db = f[i]
  BY <1>2, <1>5, LoadIsCall
<1>8. q[n + 1].op = "loadfutures" /\ q[n + 1].slot.db = LastDb
  BY <1>5, LoadIsCall
<1>9. Len(q) - 1 = n
  BY <1>1, <1>4
<1>10. q[Len(q)].op = "loadfutures" /\ q[Len(q)].slot.db = LastDb
  BY <1>4, <1>8
<1>11. /\ \A i \in 1 .. Len(q) - 1 : q[i].op = "loadexpires"
       /\ \A db \in Dbs : \E i \in 1 .. Len(q) - 1 : q[i].slot.db = db
  BY <1>6, <1>7, <1>9
<1>12. \A i, j \in 1 .. Len(q) - 1 : q[i].slot.db = q[j].slot.db => i = j
  <2> SUFFICES ASSUME NEW i \in 1 .. n, NEW j \in 1 .. n, q[i].slot.db = q[j].slot.db
               PROVE  i = j
    BY <1>9
  <2>1. f[i] = f[j]
    BY <1>7
  <2> QED
    BY <1>2, <2>1
<1> QED
  BY <1>1, <1>4, <1>10, <1>11, <1>12

(* What a client asks for is a request of its command.                     *)
LEMMA AsksSound ==
  ASSUME KInv, NEW op \in ClientOps, NEW s \in Slots, NEW r \in Asks(op, s)
  PROVE  r \in Calls(ClientOps) /\ r.op = op /\ r.slot = s
<1>1. \A at \in Schedules : at \in Nat \ {0}
  BY DEF Schedules, KInv
<1>2. CASE op \in {"set", "setnx", "settx", "getset", "push"}
  BY <1>2 DEF Asks, Request, Calls, Contents, Writes, Movers, HintOps
<1>3. CASE op \in {"setex", "future"}
  BY <1>1, <1>3 DEF Asks, Request, Calls, Contents, Writes, Movers, HintOps
<1>4. CASE op = "expire"
  BY <1>1, <1>4 DEF Asks, Request, Calls, Contents, Writes, Movers, HintOps
<1>5. CASE op \in Movers
  <2>1. PICK t \in Destinations(op, s) : r = Request(op, s, t, Absent, 0)
    BY <1>5 DEF Asks, Movers, HintOps
  <2>2. t \in Slots /\ (~SelfTargets => t # s)
    BY <1>5, <2>1 DEF Destinations, SameSelect, SameKey, OtherDbs, Movers, HintOps
  <2> QED
    BY <1>5, <2>1, <2>2 DEF Request, Calls, Contents, Writes, Movers, HintOps
<1>6. CASE op \notin {"set", "setnx", "settx", "getset", "push", "setex", "future", "expire"}
             /\ op \notin Movers
  BY <1>6 DEF Asks, Request, Calls, Contents, Writes, Movers, HintOps
<1> QED
  BY <1>2, <1>3, <1>4, <1>5, <1>6

(* At the start the disk is empty and good (Dispatcher::Initialize).       *)
LEMMA KInvInit == Init => KInv
<1> SUFFICES ASSUME Init PROVE KInv
  OBVIOUS
<1>1. disk \in GoodDisks
  <2>1. disk \in Disks
    BY DEF Init, Disks, NoFuture
  <2>2. \A s \in Slots : disk.data[<<s, "LIST">>] = Absent /\ disk.future[s] = NoFuture
    BY DEF Init, Types
  <2> QED
    BY <2>1, <2>2 DEF GoodDisks, Plans
<1> QED
  BY <1>1 DEF Init, KInv

(* A command pushes one request, with the arguments its class takes.       *)
LEMMA CommandKeeps ==
  ASSUME KInv, NEW c \in Clients, Command(c)
  PROVE  KInv'
<1>1. PICK op \in ClientOps, s \in Slots : \E r \in Asks(op, s) : inflight' = [inflight EXCEPT ![c] = r]
  BY DEF Command, ClientOps
<1>2. PICK r \in Asks(op, s) : inflight' = [inflight EXCEPT ![c] = r]
  BY <1>1
<1>3. r \in Calls(ClientOps)
  BY AsksSound
<1>4. inflight' \in [Clients -> Calls(ClientOps) \cup {NoRequest}]
  BY <1>2, <1>3 DEF KInv
<1> QED
  BY <1>4 DEF Command, KInv, memory

(* A worker runs a request of a client.                                    *)
LEMMA RunClientKeeps ==
  ASSUME KInv, NEW c \in Clients, RunClient(c)
  PROVE  KInv'
<1>1. inflight[c] \in Calls(AnyOp)
  BY CallsAreCalls DEF KInv, RunClient
<1>2. /\ disk' \in GoodDisks
      /\ expires' \in [Slots -> Nat]
      /\ futures' \in [Slots -> Nat]
  BY <1>1, PerformSound DEF RunClient
<1> QED
  BY <1>2 DEF RunClient, KInv

(* The queue of Global without the request that ran: the ones before it    *)
(* and the ones after it, in order (ClientManager, DataThread::Process).   *)
LEMMA Removal ==
  ASSUME NEW S, NEW q \in Seq(S), NEW i \in DOMAIN q
  PROVE  LET rest == SubSeq(q, 1, i - 1) \o SubSeq(q, i + 1, Len(q)) IN
         /\ rest \in Seq(S)
         /\ Len(rest) = Len(q) - 1
         /\ \A j \in 1 .. Len(rest) : rest[j] = IF j < i THEN q[j] ELSE q[j + 1]
<1> DEFINE n     == Len(q)
           left  == SubSeq(q, 1, i - 1)
           right == SubSeq(q, i + 1, n)
<1>1. n \in Nat /\ i \in 1 .. n /\ \A j \in 1 .. n : q[j] \in S
  BY LenProperties, ElementOfSeq
<1>2. /\ left \in Seq(S) /\ Len(left) = i - 1
      /\ \A j \in 1 .. i - 1 : left[j] = q[j]
  <2>1. 1 \in Int /\ i - 1 \in Int /\ \A j \in 1 .. i - 1 : q[j] \in S
    BY <1>1
  <2>2. /\ left \in Seq(S) /\ Len(left) = IF 1 <= i - 1 THEN i - 1 - 1 + 1 ELSE 0
        /\ \A j \in 1 .. i - 1 - 1 + 1 : left[j] = q[1 + j - 1]
    BY <2>1, SubSeqProperties, SMTT(60)
  <2>3. \A j \in 1 .. i - 1 : 1 + j - 1 = j /\ j \in 1 .. i - 1 - 1 + 1
    BY <1>1
  <2>4. \A j \in 1 .. i - 1 : left[j] = q[j]
    BY <2>2, <2>3
  <2>5. Len(left) = i - 1
    BY <1>1, <2>2
  <2> QED
    BY <2>2, <2>4, <2>5
<1>3. /\ right \in Seq(S) /\ Len(right) = n - i
      /\ \A j \in 1 .. n - i : right[j] = q[i + j]
  <2>1. i + 1 \in Int /\ n \in Int /\ \A j \in i + 1 .. n : q[j] \in S
    BY <1>1
  <2>2. /\ right \in Seq(S) /\ Len(right) = IF i + 1 <= n THEN n - (i + 1) + 1 ELSE 0
        /\ \A j \in 1 .. n - (i + 1) + 1 : right[j] = q[i + 1 + j - 1]
    BY <2>1, SubSeqProperties, SMTT(60)
  <2>3. \A j \in 1 .. n - i : i + 1 + j - 1 = i + j /\ j \in 1 .. n - (i + 1) + 1
    BY <1>1
  <2>4. \A j \in 1 .. n - i : right[j] = q[i + j]
    BY <2>2, <2>3
  <2>5. Len(right) = n - i
    BY <1>1, <2>2
  <2> QED
    BY <2>2, <2>4, <2>5
<1> HIDE DEF n, left, right
<1> DEFINE rest == left \o right
<1>4. /\ rest \in Seq(S) /\ Len(rest) = n - 1
      /\ \A j \in 1 .. n - 1 : rest[j] = IF j <= i - 1 THEN left[j] ELSE right[j - (i - 1)]
  <2>1. /\ rest \in Seq(S) /\ Len(rest) = Len(left) + Len(right)
        /\ \A j \in 1 .. Len(left) + Len(right) :
             rest[j] = IF j <= Len(left) THEN left[j] ELSE right[j - Len(left)]
    BY <1>2, <1>3, ConcatProperties, ZenonT(60)
  <2>2. Len(left) + Len(right) = n - 1
    BY <1>1, <1>2, <1>3
  <2> QED
    BY <1>2, <2>1, <2>2
<1>5. ASSUME NEW j \in 1 .. n - 1
      PROVE  rest[j] = IF j < i THEN q[j] ELSE q[j + 1]
  <2>1. CASE j < i
    BY <1>1, <1>2, <1>4, <2>1
  <2>2. CASE ~(j < i)
    <3>1. j - (i - 1) \in 1 .. n - i /\ i + (j - (i - 1)) = j + 1 /\ ~(j <= i - 1)
      BY <1>1, <2>2
    <3> QED
      BY <1>3, <1>4, <2>2, <3>1
  <2> QED
    BY <2>1, <2>2
<1> QED
  BY <1>4, <1>5 DEF n, left, right

(* A worker runs a request of Global, which leaves the queue.              *)
LEMMA RunGlobalKeeps ==
  ASSUME KInv, NEW i \in DOMAIN queue, RunGlobal(i)
  PROVE  KInv'
<1>1. queue \in Seq(Calls(GlobalOps))
  BY DEF KInv
<1>2. queue[i] \in Calls(GlobalOps)
  BY <1>1, LenProperties, ElementOfSeq
<1>3. /\ disk' \in GoodDisks
      /\ expires' \in [Slots -> Nat]
      /\ futures' \in [Slots -> Nat]
  BY <1>2, CallsAreCalls, PerformSound DEF RunGlobal
<1>4. queue' \in Seq(Calls(GlobalOps))
  BY <1>1, Removal DEF RunGlobal
<1>5. ready' \in BOOLEAN
  BY <1>2 DEF RunGlobal, KInv
<1> QED
  BY <1>3, <1>4, <1>5 DEF RunGlobal, KInv

(* RESET and its kin push one removal for each entry they cover.           *)
LEMMA ResetKeeps ==
  ASSUME KInv, NEW op \in ResetOps, NEW user \in Slots, Reset(op, user)
  PROVE  KInv'
<1> DEFINE list    == IF op \in {"freset", "fresetall"} THEN futures ELSE expires
           removal == IF op \in {"freset", "fresetall"} THEN "cancel" ELSE "persist"
           covered == {s \in Slots : list[s] # 0 /\ Covers(op, user, s)}
<1>1. PICK order \in Orders(covered, list) : queue' = queue \o Pushes(removal, order)
  BY DEF Reset
<1>2. removal \in {"cancel", "persist"} /\ covered \in SUBSET Slots
  OBVIOUS
<1>3. Pushes(removal, order) \in Seq(Calls(GlobalOps))
  <2> HIDE DEF removal, covered, list
  <2> QED
    BY <1>2, PushesSound
<1>4. queue' \in Seq(Calls(GlobalOps))
  BY <1>1, <1>3, ConcatProperties DEF KInv
<1> QED
  BY <1>4 DEF Reset, KInv, memory

(* The sweep pushes a deletion or an execution for each entry that is due. *)
LEMMA SweepKeeps ==
  ASSUME KInv, Sweep
  PROVE  KInv'
<1> DEFINE time == IF now < MaxTime THEN now + 1 ELSE now
<1>1. PICK e \in Orders(Due(expires, time), expires), f \in Orders(Due(futures, time), futures) :
        queue' = queue \o Pushes("del", e) \o Pushes("exec", f)
  BY DEF Sweep
<1>2. Due(expires, time) \in SUBSET Slots /\ Due(futures, time) \in SUBSET Slots
  BY DEF Due
<1>3. /\ Pushes("del", e) \in Seq(Calls(GlobalOps))
      /\ Pushes("exec", f) \in Seq(Calls(GlobalOps))
  <2> HIDE DEF time
  <2>1. ASSUME NEW S \in SUBSET Slots, NEW list, NEW order \in Orders(S, list)
        PROVE  Pushes("del", order) \in Seq(Calls(GlobalOps)) /\ Pushes("exec", order) \in Seq(Calls(GlobalOps))
    BY PushesSound
  <2> QED
    BY <1>2, <2>1
<1>4. queue' \in Seq(Calls(GlobalOps))
  BY <1>1, <1>3, ConcatProperties DEF KInv
<1>5. now' \in Nat
  BY DEF Sweep, KInv
<1> QED
  BY <1>4, <1>5 DEF Sweep, KInv, memory

(* A restart keeps whatever good disk it finds (Dispatcher::Initialize).   *)
LEMMA RestartKeeps ==
  ASSUME KInv, NEW d \in GoodDisks, Restart(d)
  PROVE  KInv'
<1>1. queue' \in Seq(Calls(GlobalOps))
  BY StartupsSound DEF Restart
<1>2. restarts' \in 0 .. MaxRestarts
  BY DEF Restart, KInv
<1>3. inflight' \in [Clients -> Calls(ClientOps) \cup {NoRequest}]
  BY DEF Restart
<1>4. expires' \in [Slots -> Nat] /\ futures' \in [Slots -> Nat]
  BY DEF Restart
<1> QED
  BY <1>1, <1>2, <1>3, <1>4 DEF Restart, KInv

(* Whatever waits is a request, so a crash leaves a good disk.             *)
LEMMA WaitingAreCalls ==
  ASSUME KInv
  PROVE  Waiting \subseteq Calls(AnyOp)
<1> SUFFICES ASSUME NEW r \in Waiting PROVE r \in Calls(AnyOp)
  OBVIOUS
<1>1. CASE r \in {inflight[c] : c \in Clients} \ {NoRequest}
  BY <1>1, CallsAreCalls DEF KInv
<1>2. CASE \E i \in DOMAIN queue : r = queue[i]
  <2>1. queue \in Seq(Calls(GlobalOps))
    BY DEF KInv
  <2> QED
    BY <1>2, <2>1, CallsAreCalls, LenProperties, ElementOfSeq
<1> QED
  BY <1>1, <1>2 DEF Waiting

(* A crash falls on the disk as it was or on one that a request was going  *)
(* through, and either is good.                                            *)
LEMMA CrashLeavesGoodDisk ==
  ASSUME KInv, Crash
  PROVE  \E d \in GoodDisks : Restart(d)
<1>1. CASE Restart(disk)
  BY <1>1 DEF KInv
<1>2. CASE \E r \in Waiting : \E n \in DOMAIN Run(r).disks : Restart(Run(r).disks[n])
  <2>1. PICK r \in Waiting : \E n \in DOMAIN Run(r).disks : Restart(Run(r).disks[n])
    BY <1>2
  <2>2. PICK n \in DOMAIN Run(r).disks : Restart(Run(r).disks[n])
    BY <2>1
  <2>3. Run(r).disks \in Seq(GoodDisks)
    BY WaitingAreCalls, RunSound DEF Effects
  <2>4. Run(r).disks[n] \in GoodDisks
    <3> HIDE DEF GoodDisks
    <3> QED
      BY <2>3, LenProperties, ElementOfSeq
  <2> QED
    BY <2>2, <2>4
<1> QED
  BY <1>1, <1>2 DEF Crash

(* Every step keeps the types, and a key under one type.                   *)
LEMMA KInvStep == KInv /\ [Next]_vars => KInv'
<1> SUFFICES ASSUME KInv, [Next]_vars PROVE KInv'
  OBVIOUS
<1>1. ASSUME NEW c \in Clients, Command(c) \/ RunClient(c) PROVE KInv'
  BY <1>1, CommandKeeps, RunClientKeeps
<1>2. ASSUME NEW op \in ResetOps, NEW user \in Slots, Reset(op, user) PROVE KInv'
  BY <1>2, ResetKeeps
<1>3. CASE Sweep
  BY <1>3, SweepKeeps
<1>4. ASSUME NEW i \in DOMAIN queue, RunGlobal(i) PROVE KInv'
  BY <1>4, RunGlobalKeeps
<1>5. CASE Crash
  BY <1>5, CrashLeavesGoodDisk, RestartKeeps
<1>6. CASE UNCHANGED vars
  BY <1>6 DEF vars, memory, KInv
<1> QED
  BY <1>1, <1>2, <1>3, <1>4, <1>5, <1>6 DEF Next

(* KInv holds in every reachable state.                                    *)
(* The invariant of the key space.                                         *)
LEMMA KInvariant == Spec => []KInv
<1> QED
  BY KInvInit, KInvStep, PTL DEF Spec

(* Every variable keeps its type, for every set of databases, keys,        *)
(* clients and commands, over crashes between any two writes.              *)
THEOREM KeyspaceTyped == Spec => []TypeOK
<1>1. KInv => TypeOK
  <2> SUFFICES ASSUME KInv PROVE TypeOK
    OBVIOUS
  <2>1. disk \in Disks
    BY DEF KInv, GoodDisks
  <2>2. \A c \in Clients : inflight[c] # NoRequest => inflight[c].slot \in Slots
    BY DEF KInv, Calls
  <2>3. \A i \in DOMAIN queue : queue[i].slot \in Slots
    <3>1. queue \in Seq(Calls(GlobalOps))
      BY DEF KInv
    <3>2. \A i \in DOMAIN queue : queue[i] \in Calls(GlobalOps)
      BY <3>1, LenProperties, ElementOfSeq
    <3> QED
      BY <3>2 DEF Calls
  <2> QED
    BY <2>1, <2>2, <2>3 DEF KInv, TypeOK
<1> QED
  BY <1>1, KInvariant, PTL

(* No order of commands, sweeps and crashes leaves a name under two types, *)
(* but for an empty key, which CheckDest does not see, beside a list that  *)
(* was moved or copied onto it (GetRegistry, CheckDest, Prepare).          *)
THEOREM OneTypePerKey == Spec => []OneType
<1>1. KInv => OneType
  BY DEF KInv, GoodDisks, OneType
<1> QED
  BY <1>1, KInvariant, PTL

-----------------------------------------------------------------------------
(* Nothing is lost.                                                        *)

Holding(d) == \E c \in Slots \X Types : d.data[c] # Absent
Keeping(e) == \A n \in DOMAIN e.disks : Holding(e.disks[n])

(* What keeps something on a disk: a write of a key, or any other write.   *)
LEMMA HoldingPut ==
  ASSUME NEW d \in GoodDisks, NEW s \in Slots, NEW ty \in Types, NEW v \in Contents
  PROVE  Holding([d EXCEPT !.data[<<s, ty>>] = v])
<1>1. [d EXCEPT !.data[<<s, ty>>] = v].data[<<s, ty>>] = v
  BY DEF GoodDisks, Disks
<1>2. v # Absent /\ <<s, ty>> \in Slots \X Types
  BY DEF Contents
<1> QED
  BY <1>1, <1>2 DEF Holding

(* A write of a record or of a future takes no key away.                   *)
LEMMA HoldingSame ==
  ASSUME NEW d, NEW e, Holding(d), e.data = d.data
  PROVE  Holding(e)
BY DEF Holding

(* An effect of one, two or four writes keeps what each of them keeps.     *)
LEMMA KeepingNone ==
  ASSUME NEW e, NEW f
  PROVE  Keeping(Effect(<<>>, e, f))
BY DEF Keeping, Effect

LEMMA KeepingOne ==
  ASSUME NEW c1, Holding(c1), NEW e, NEW f
  PROVE  Keeping(Effect(<<c1>>, e, f))
BY DEF Keeping, Effect

LEMMA KeepingTwo ==
  ASSUME NEW c1, Holding(c1), NEW c2, Holding(c2), NEW e, NEW f
  PROVE  Keeping(Effect(<<c1, c2>>, e, f))
BY DEF Keeping, Effect

LEMMA KeepingFour ==
  ASSUME NEW c1, Holding(c1), NEW c2, Holding(c2), NEW c3, Holding(c3), NEW c4, Holding(c4),
         NEW e, NEW f
  PROVE  Keeping(Effect(<<c1, c2, c3, c4>>, e, f))
BY DEF Keeping, Effect

(* Commands that store a value, or touch no key at all.                    *)
LEMMA StoreKeeps ==
  ASSUME KInv, NEW r \in Calls(AnyOp), Holding(disk),
         r.op \in Writes \cup {"getset", "expire", "persist", "getpersist"}
  PROVE  Keeping(Execute(r))
<1>1. /\ r.slot \in Slots /\ disk \in GoodDisks /\ Base(r.op) \in Types
      /\ r.op \in Writes \cup {"getset"} => r.value \in Contents
  BY DEF KInv, Calls, Base, Types, Contents
<1>2. Keeping(Nothing)
  BY KeepingNone DEF Nothing
<1>3. ASSUME r.op \in Writes \cup {"getset"} PROVE Keeping(Set(r))
  <2> DEFINE put == [disk EXCEPT !.data[<<r.slot, Base(r.op)>>] = r.value]
  <2>1. Holding(put)
    BY <1>1, <1>3, HoldingPut
  <2>2. Set(r) = Effect(<<put>>, expires, futures)
    BY DEF Set, Only
  <2> HIDE DEF put
  <2> QED
    BY <2>1, <2>2, KeepingOne
<1>4. ASSUME r.op = "setex" PROVE Keeping(SetEX(r))
  <2> DEFINE put == [disk EXCEPT !.data[<<r.slot, "KEY">>] = r.value, !.expire[Own(r.slot)] = r.at]
  <2>1. put.data[<<r.slot, "KEY">>] = r.value
    BY <1>1 DEF GoodDisks, Disks, Types
  <2>2. r.value # Absent /\ <<r.slot, "KEY">> \in Slots \X Types
    BY <1>1, <1>4 DEF Writes, Contents, Types
  <2>3. Holding(put)
    BY <2>1, <2>2 DEF Holding
  <2>4. SetEX(r) = Effect(<<put>>, Armed(r.slot, r.at), futures)
    BY DEF SetEX, ExpireBatch
  <2> HIDE DEF put
  <2> QED
    BY <2>3, <2>4, KeepingOne
<1>5. /\ Keeping(Expire(r)) /\ Keeping(DelExpire(r))
  <2> DEFINE armed == [disk EXCEPT !.expire[Own(r.slot)] = r.at]
             off   == [disk EXCEPT !.expire[Own(r.slot)] = 0]
  <2>1. armed.data = disk.data /\ off.data = disk.data
    BY <1>1 DEF GoodDisks, Disks
  <2> HIDE DEF armed, off
  <2>2. Holding(armed) /\ Holding(off)
    BY <2>1, HoldingSame
  <2>3. /\ Expire(r) = Effect(<<armed>>, Armed(r.slot, r.at), futures)
        /\ DelExpire(r) = Effect(<<off>>, Disarmed(r.slot), futures)
    BY DEF Expire, DelExpire, armed, off
  <2> QED
    BY <2>2, <2>3, KeepingOne
<1> QED
  BY <1>2, <1>3, <1>4, <1>5 DEF Execute, Writes, GetSet, SetNX, SetTX, Persist, GetPersist

(* Commands that move or copy a key, to a name that is not its own: the    *)
(* destination holds the value before the source loses it (Swap, Transfer).*)
LEMMA MoverKeeps ==
  ASSUME KInv, NEW r \in Calls(AnyOp), Prepare(r), Holding(disk), ~SelfTargets,
         r.op \in Movers
  PROVE  Keeping(Execute(r))
<1> DEFINE found == Found(r.slot)
           value == Value(r.slot)
           at    == expires[r.slot]
           cell  == <<r.to, found>>
<1>1. /\ r.slot \in Slots /\ r.to \in Slots /\ r.to # r.slot /\ disk \in GoodDisks
      /\ r.op # "copy" => found \in Types
      /\ found \in Types => value \in Contents
  BY MoverStart DEF Calls, KInv
<1>2. found \in Types \cup {"none"}
  BY <1>1, Registry
<1>3. CASE found = "none"
  <2>1. r.op = "copy"
    BY <1>1, <1>3 DEF Types
  <2>2. Execute(r) = Nothing
    BY <1>3, <2>1 DEF Execute, Copy
  <2> QED
    BY <2>2, KeepingNone DEF Nothing
<1>4. CASE found \in Types
  <2>1. cell \in Slots \X Types /\ cell # <<r.slot, found>> /\ value # Absent
    BY <1>1, <1>4 DEF Contents
  <2>2. ASSUME NEW d \in Disks, NEW v \in Contents
        PROVE  /\ Holding([d EXCEPT !.data[cell] = v])
               /\ Holding([d EXCEPT !.data[cell] = v, !.data[<<r.slot, found>>] = Absent])
               /\ Holding([d EXCEPT !.data[cell] = v, !.data[<<r.slot, found>>] = Absent,
                                    !.expire[Own(r.to)] = at])
               /\ Holding([d EXCEPT !.data[cell] = v, !.expire[Own(r.to)] = at])
               /\ Holding([[d EXCEPT !.data[cell] = v] EXCEPT !.data[<<r.slot, found>>] = Absent])
    <3>1. <<r.slot, found>> \in Slots \X Types
      BY <1>1, <1>4
    <3>2. v # Absent
      BY DEF Contents
    <3>3. /\ [d EXCEPT !.data[cell] = v].data[cell] = v
          /\ [d EXCEPT !.data[cell] = v, !.data[<<r.slot, found>>] = Absent].data[cell] = v
          /\ [d EXCEPT !.data[cell] = v, !.data[<<r.slot, found>>] = Absent,
                       !.expire[Own(r.to)] = at].data[cell] = v
          /\ [d EXCEPT !.data[cell] = v, !.expire[Own(r.to)] = at].data[cell] = v
          /\ [[d EXCEPT !.data[cell] = v] EXCEPT !.data[<<r.slot, found>>] = Absent].data[cell] = v
      <4> HIDE DEF cell, found
      <4> QED
        BY <2>1, <3>1 DEF Disks
    <3> HIDE DEF cell, found, at
    <3> QED
      BY <2>1, <3>2, <3>3 DEF Holding
  <2>3. disk \in Disks
    BY <1>1 DEF GoodDisks
  <2>4. CASE r.op \in {"rename", "renamenx", "move"}
    <3>1. Keeping(Swap(r))
      <4>1. /\ Holding([disk EXCEPT !.data[cell] = value, !.data[<<r.slot, found>>] = Absent])
            /\ Holding([disk EXCEPT !.data[cell] = value, !.data[<<r.slot, found>>] = Absent,
                                    !.expire[Own(r.to)] = at])
        BY <1>1, <1>4, <2>2, <2>3
      <4> QED
        BY <4>1, KeepingOne DEF Swap, Only
    <3> QED
      BY <2>4, <3>1 DEF Execute, Rename, RenameNX, Move
  <2>5. CASE r.op = "copy"
    <3> DEFINE rec == [disk EXCEPT !.expire[Own(r.to)] = at]
               one == [disk EXCEPT !.data[cell] = value]
               two == [rec EXCEPT !.data[cell] = value]
    <3>1. rec \in Disks /\ rec.data = disk.data
      <4>1. at \in Nat
        BY <1>1 DEF KInv
      <4> QED
        BY <1>1, <2>3, <4>1, Places DEF Disks
    <3>2. Holding(rec)
      BY <3>1, HoldingSame
    <3>3. Holding(one)
      BY <1>1, <1>4, <2>2, <2>3
    <3>4. Holding(two)
      <4> HIDE DEF rec
      <4> QED
        BY <1>1, <1>4, <2>2, <3>1
    <3>5. Copy(r) = IF found = "KEY" /\ Expiring(r.slot)
                    THEN Effect(<<rec, two>>, Armed(r.to, at), futures)
                    ELSE Effect(<<one>>, expires, futures)
      BY <1>4 DEF Copy, Only, Types
    <3> HIDE DEF rec, one, two, at, found
    <3>6. Keeping(Copy(r))
      BY <3>2, <3>3, <3>4, <3>5, KeepingOne, KeepingTwo
    <3> QED
      BY <2>5, <3>6 DEF Execute
  <2>6. CASE r.op = "clone"
    <3> DEFINE one == [disk EXCEPT !.data[cell] = value]
               two == [disk EXCEPT !.data[cell] = Numeral, !.expire[Own(r.to)] = at]
    <3>1. Numeral \in Contents
      BY DEF Contents
    <3>2. Holding(one) /\ Holding(two)
      BY <1>1, <1>4, <2>2, <2>3, <3>1
    <3>3. Clone(r) = IF found = "KEY" /\ Expiring(r.slot)
                     THEN Effect(<<two>>, Armed(r.to, at), futures)
                     ELSE Effect(<<one>>, expires, futures)
      BY DEF Clone, ExpireBatch, Only
    <3> HIDE DEF one, two, at, found
    <3>4. Keeping(Clone(r))
      BY <3>2, <3>3, KeepingOne
    <3> QED
      BY <2>6, <3>4 DEF Execute
  <2>7. CASE r.op = "transfer"
    <3> DEFINE del(d)  == [d EXCEPT !.data[<<r.slot, found>>] = Absent]
               put(d)  == [d EXCEPT !.data[cell] = value]
               cleared == [disk EXCEPT !.expire[Own(r.slot)] = 0]
               moved   == [cleared EXCEPT !.expire[Foreign(r)] = at]
               left    == [expires EXCEPT ![r.slot] = 0, ![r.to] = at]
    <3>1. /\ cleared \in Disks /\ cleared.data = disk.data
          /\ moved \in Disks /\ moved.data = disk.data
      <4>1. cleared \in Disks /\ cleared.data = disk.data
        BY <1>1, <2>3, Places DEF Disks
      <4> HIDE DEF cleared
      <4>2. at \in Nat /\ Foreign(r) \in Slots \X Dbs
        BY <1>1, Places DEF KInv, Foreign
      <4>3. moved \in Disks /\ moved.data = disk.data
        BY <4>1, <4>2 DEF Disks
      <4> QED
        BY <4>1, <4>3
    <3>2. Holding(cleared) /\ Holding(moved)
      <4> HIDE DEF cleared, moved
      <4> QED
        BY <3>1, HoldingSame
    <3>3. ASSUME NEW d \in Disks
          PROVE  Holding(put(d)) /\ Holding(del(put(d)))
      BY <1>1, <1>4, <2>2
    <3>4. Transfer(r) = IF found = "KEY" /\ Expiring(r.slot)
                        THEN Effect(<<cleared, moved, put(moved), del(put(moved))>>, left, futures)
                        ELSE Effect(<<put(disk), del(put(disk))>>, expires, futures)
      BY DEF Transfer
    <3>5. /\ Holding(put(moved)) /\ Holding(del(put(moved)))
          /\ Holding(put(disk)) /\ Holding(del(put(disk)))
      BY <2>3, <3>1, <3>3
    <3> HIDE DEF put, del, cleared, moved, left, found
    <3>6. Keeping(Transfer(r))
      BY <3>2, <3>4, <3>5, KeepingTwo, KeepingFour
    <3> QED
      BY <2>7, <3>6 DEF Execute
  <2> QED
    BY <2>4, <2>5, <2>6, <2>7 DEF Movers, HintOps
<1> QED
  BY <1>2, <1>3, <1>4

(* Futures: an executed one stores its value before its record is deleted. *)
LEMMA FutureKeeps ==
  ASSUME KInv, NEW r \in Calls(AnyOp), Holding(disk), r.op \in FutureOps
  PROVE  Keeping(Execute(r)) /\ Keeping(Refused(r))
<1> DEFINE plan == disk.future[r.slot]
           put  == [disk EXCEPT !.data[<<r.slot, "KEY">>] = plan.value]
           new  == [disk EXCEPT !.future[r.slot] = [at |-> r.at, value |-> r.value]]
<1>1. r.slot \in Slots /\ disk \in GoodDisks
  BY DEF KInv, Calls
<1>2. ASSUME NEW d \in Disks, Holding(d)
      PROVE  Holding(DelFuture(d, r.slot))
  <2>1. DelFuture(d, r.slot).data = d.data
    BY DEF DelFuture, Disks
  <2> QED
    BY <1>2, <2>1, HoldingSame
<1>3. Holding(new)
  <2>1. new.data = disk.data
    BY <1>1 DEF GoodDisks, Disks
  <2> QED
    BY <2>1, HoldingSame
<1>4. plan # NoFuture => Holding(put) /\ put \in Disks
  <2>1. plan # NoFuture => plan.value \in Contents
    BY <1>1 DEF GoodDisks, Plans, Contents
  <2>2. plan # NoFuture => put \in Disks
    BY <1>1, <2>1 DEF GoodDisks, Disks, Types
  <2> QED
    BY <1>1, <2>1, <2>2, HoldingPut DEF Types
<1>5. disk \in Disks
  BY <1>1 DEF GoodDisks
<1> HIDE DEF put, new
<1>6. Holding(DelFuture(disk, r.slot)) /\ (plan # NoFuture => Holding(DelFuture(put, r.slot)))
  BY <1>2, <1>4, <1>5
<1>7. Keeping(Exec(r)) /\ Keeping(Cancel(r)) /\ Keeping(Future(r)) /\ Keeping(Refused(r))
  <2>1. Keeping(Exec(r))
    <3>1. Exec(r) = IF plan # NoFuture
                    THEN Effect(<<put, DelFuture(put, r.slot)>>, expires, Forgotten(r.slot))
                    ELSE Effect(<<>>, expires, Forgotten(r.slot))
      BY DEF Exec, put
    <3> QED
      BY <1>4, <1>6, <3>1, KeepingNone, KeepingTwo
  <2>2. Keeping(Future(r))
    BY <1>3, KeepingOne DEF Future, new
  <2> QED
    BY <1>6, <2>1, <2>2, KeepingNone, KeepingOne DEF Cancel, Refused, Nothing
<1> QED
  BY <1>7 DEF Execute, FutureOps

(* The lists of start-up touch no key.                                     *)
LEMMA LoadKeeps ==
  ASSUME KInv, NEW r \in Calls(AnyOp), Holding(disk),
         r.op \in {"loadexpires", "loadfutures"}
  PROVE  Keeping(Execute(r))
<1> DEFINE e == [disk EXCEPT !.expire = [c \in Slots \X Dbs |->
                   IF c[1].db = r.slot.db /\ c[2] = r.slot.db THEN 0 ELSE disk.expire[c]]]
           f == [disk EXCEPT !.future = [s \in Slots |->
                   IF s.db = r.slot.db THEN NoFuture ELSE disk.future[s]]]
<1>1. e.data = disk.data /\ f.data = disk.data
  BY DEF KInv, GoodDisks, Disks
<1>2. Holding(e) /\ Holding(f)
  <2> HIDE DEF e, f
  <2> QED
    BY <1>1, HoldingSame
<1>3. /\ ~KeepExpires => LoadExpires(r) = Effect(<<e>>, expires, futures)
      /\ ~KeepFutures => LoadFutures(r) = Effect(<<f>>, expires, futures)
  BY DEF LoadExpires, LoadFutures, Only
<1> HIDE DEF e, f
<1>4. Keeping(LoadExpires(r)) /\ Keeping(LoadFutures(r))
  BY <1>2, <1>3, KeepingNone, KeepingOne DEF LoadExpires, LoadFutures
<1> QED
  BY <1>4 DEF Execute

(* No request but a deletion empties the databases, at any of its writes.  *)
LEMMA RunKeeps ==
  ASSUME KInv, NEW r \in Calls(AnyOp), Holding(disk), ~SelfTargets,
         r.op \notin {"del", "getdel", "wdel"}
  PROVE  Keeping(Run(r))
<1>1. r.op \in AnyOp
  BY DEF Calls
<1>2. CASE ~Prepare(r)
  <2>1. CASE r.op \in FutureOps
    BY <1>2, <2>1, FutureKeeps DEF Run
  <2>2. CASE r.op \notin FutureOps
    BY <1>2, <2>2, KeepingNone DEF Run, Refused, Nothing, FutureOps
  <2> QED
    BY <2>1, <2>2
<1>3. CASE Prepare(r)
  <2>1. \/ r.op \in Writes \cup {"getset", "expire", "persist", "getpersist"}
        \/ r.op \in Movers
        \/ r.op \in FutureOps
        \/ r.op \in {"loadexpires", "loadfutures"}
    BY <1>1 DEF AnyOp, AllOps, KeyOps, HintOps, ExpireOps, FutureOps, ResetOps, Writes, Movers
  <2> QED
    BY <1>3, <2>1, StoreKeeps, MoverKeeps, FutureKeeps, LoadKeeps DEF Run
<1> QED
  BY <1>2, <1>3

(* A worker that has run a request leaves something on the disk.           *)
LEMMA PerformKeeps ==
  ASSUME KInv, NEW r \in Calls(AnyOp), Holding(disk), ~SelfTargets,
         r.op \notin {"del", "getdel", "wdel"}, Perform(r)
  PROVE  Holding(disk')
<1> DEFINE e == Run(r)
<1>1. Keeping(e) /\ e.disks \in Seq(GoodDisks)
  BY RunKeeps, RunSound DEF Effects
<1>2. disk' = IF e.disks = <<>> THEN disk ELSE e.disks[Len(e.disks)]
  BY DEF Perform
<1> HIDE DEF e
<1>3. e.disks # <<>> => Len(e.disks) \in DOMAIN e.disks
  <2>1. e.disks # <<>> => Len(e.disks) \in Nat \ {0}
    BY <1>1, EmptySeq
  <2> QED
    BY <1>1, <2>1, LenProperties
<1> QED
  BY <1>1, <1>2, <1>3 DEF Keeping

(* One step: while nobody has asked for a deletion, the databases still    *)
(* hold something, also after a crash between two writes.                  *)
LEMMA NeverLostStep ==
  ASSUME KInv, [Next]_vars, ~SelfTargets
  PROVE  [Held # {} /\ Deletions = {} => Held' # {}]_vars
<1> SUFFICES ASSUME Next, Held # {}, Deletions = {} PROVE Held' # {}
  BY DEF vars
<1>1. Holding(disk)
  BY DEF Holding, Held
<1>2. ASSUME NEW r \in Waiting
      PROVE  r \in Calls(AnyOp) /\ r.op \notin {"del", "getdel", "wdel"}
  BY WaitingAreCalls DEF Deletions
<1>3. Holding(disk')
  <2>1. ASSUME NEW c \in Clients, RunClient(c) PROVE Holding(disk')
    <3>1. inflight[c] \in Waiting
      BY <2>1 DEF RunClient, Waiting
    <3> QED
      BY <1>1, <1>2, <2>1, <3>1, PerformKeeps DEF RunClient
  <2>2. ASSUME NEW i \in DOMAIN queue, RunGlobal(i) PROVE Holding(disk')
    <3>1. queue[i] \in Waiting
      BY DEF Waiting
    <3> QED
      BY <1>1, <1>2, <2>2, <3>1, PerformKeeps DEF RunGlobal
  <2>3. CASE Crash
    <3>1. CASE Restart(disk)
      BY <1>1, <3>1 DEF Restart
    <3>2. CASE \E r \in Waiting : \E n \in DOMAIN Run(r).disks : Restart(Run(r).disks[n])
      <4>1. PICK r \in Waiting : \E n \in DOMAIN Run(r).disks : Restart(Run(r).disks[n])
        BY <3>2
      <4>2. PICK n \in DOMAIN Run(r).disks : Restart(Run(r).disks[n])
        BY <4>1
      <4>3. Keeping(Run(r))
        BY <1>1, <1>2, RunKeeps
      <4> QED
        BY <4>2, <4>3 DEF Keeping, Restart
    <3> QED
      BY <2>3, <3>1, <3>2 DEF Crash
  <2>4. ASSUME \/ \E c \in Clients : Command(c)
               \/ \E op \in ResetOps, user \in Slots : Reset(op, user)
               \/ Sweep
        PROVE  Holding(disk')
    BY <1>1, <2>4 DEF Command, Reset, Sweep
  <2> QED
    BY <2>1, <2>2, <2>3, <2>4 DEF Next
<1> QED
  BY <1>3 DEF Holding, Held

(* Keys that are moved, copied, renamed and transferred, with a crash      *)
(* between any two writes, are never lost while nobody asks for a          *)
(* deletion, provided that nobody names a key as its own destination       *)
(* (Swap deletes its source after it has written the destination: the      *)
(* source is gone when they are the same).                                 *)
THEOREM NothingLost ==
  ASSUME ~SelfTargets
  PROVE  Spec => NeverLost
<1>1. KInv /\ [Next]_vars => [Held # {} /\ Deletions = {} => Held' # {}]_vars
  BY NeverLostStep
<1> QED
  BY <1>1, KInvariant, PTL DEF Spec, NeverLost
=============================================================================
