-------------------------------- MODULE Scans ---------------------------------
(***************************************************************************)
(* The queries that read more than one record of a database: those that    *)
(* iterate over all of RocksDB (keys, lists, vectors, maps, multimaps,     *)
(* locations, totals) and those that look a second key up (DIFF, GCALC,    *)
(* TOUCH).                                                                 *)
(*                                                                         *)
(* A database is [store, stray]: store[slot][type] is the text of the      *)
(* record "key:select:type", stray that of the record whose key is the     *)
(* empty string.  A slot is <<key, select>>.                               *)
(***************************************************************************)
EXTENDS Strings, FiniteSets

CONSTANTS
  SlotOrder,       \* the slots as RocksDB orders their records
  Distance(_, _)   \* CalculateDistance between two locations

Slots == ToSet(SlotOrder)

(* TypeRegs, in the order in which a key is looked up.                     *)
Types == <<"LIST", "KEY", "GEO", "MAP", "MMAP", "VECTOR">>

(* The constants INT_KEY to INT_VECTOR, as the number they spell.          *)
TypeCode == [KEY |-> 1, MAP |-> 2, LIST |-> 3, GEO |-> 4, MMAP |-> 5, VECTOR |-> 6]

(* GetRegistry.                                                            *)
Registry(db, s) ==
  LET found == SelectSeq(Types, LAMBDA t : db.store[s][t] # Absent)
  IN  IF found = <<>> THEN "null" ELSE Head(found)

(* Mutant: a key of another type passes for none.                          *)
CheckDestOwn(db, s, type) == IF db.store[s]["KEY"] \in {Absent, <<>>} THEN 0 ELSE 1

(* CheckDest: a record whose value is empty passes for none.               *)
CheckDest(db, s, type) ==
  LET found == SelectSeq(Types, LAMBDA t : db.store[s][t] \notin {Absent, <<>>})
  IN  CASE found = <<>>                        -> 0
        [] found # <<>> /\ Head(found) = type  -> 1
        [] OTHER                               -> 2

----------------------------------------------------------------------------
(* An iterator over the database.                                          *)

Record(key, select, type, text) ==
  [key |-> key, select |-> select, type |-> type, text |-> text]

(* SeekToFirst, Next: the empty key comes first.                           *)
Records(db) ==
  LET Of(s) == LET t == SelectSeq(Types, LAMBDA u : db.store[s][u] # Absent)
               IN  [i \in DOMAIN t |->
                      Record(s[1], s[2], t[i], db.store[s][t[i]])]
  IN  (IF db.stray = Absent THEN <<>>
       ELSE <<Record(Empty, 0, "null", db.stray)>>)
        \o FlattenSeq([i \in DOMAIN SlotOrder |-> Of(SlotOrder[i])])

(* The empty key has no tokens, so that no test of a scan applies to it.   *)
Tokenless(r) == r.type = "null"

(* Mutant: the third token is not compared.                                *)
SelectedAnyType(db, select, type, pattern) ==
  SelectSeq(Records(db), LAMBDA r :
    \/ Tokenless(r)
    \/ Match(r.key, pattern) /\ r.select = select)

(* The three tests of the loops in lkeys, vkeys, hfind, mkeys, gkeys, keys *)
(* and count.                                                              *)
Selected(db, select, type, pattern) ==
  SelectSeq(Records(db), LAMBDA r :
    \/ Tokenless(r)
    \/ Match(r.key, pattern) /\ r.select = select /\ r.type = type)

KeysOf(records) == [i \in DOMAIN records |-> records[i].key]

lkeys(db, select, pattern, offset, limit) ==
  Page(KeysOf(Selected(db, select, "LIST", pattern)), offset, limit)

vkeys(db, select, pattern, offset, limit) ==
  Page(KeysOf(Selected(db, select, "VECTOR", pattern)), offset, limit)

hfind(db, select, pattern, offset, limit) ==
  Page(KeysOf(Selected(db, select, "MAP", pattern)), offset, limit)

mkeys(db, select, pattern, offset, limit) ==
  Page(KeysOf(Selected(db, select, "MMAP", pattern)), offset, limit)

gkeys(db, select, pattern, offset, limit) ==
  Page(KeysOf(Selected(db, select, "GEO", pattern)), offset, limit)

keys(db, select, pattern, offset, limit) ==
  Page(KeysOf(Selected(db, select, "KEY", pattern)), offset, limit)

count(db, select, pattern) == Len(Selected(db, select, "KEY", pattern))

(* The pattern is for the value.                                           *)
search(db, select, pattern, offset, limit) ==
  LET found == SelectSeq(Selected(db, select, "KEY", Wildcard),
                         LAMBDA r : Match(Value(r.text), pattern))
  IN  Page([i \in DOMAIN found |-> <<found[i].key, Value(found[i].text)>>],
           offset, limit)

(* IntRand decides after each record but the first whether to take it and  *)
(* whether to stop: any of them may be the answer.  The empty key cannot   *)
(* be told from no key.                                                    *)
random(db, select) ==
  LET found == ToSet(KeysOf(Selected(db, select, "KEY", Wildcard)))
  IN  IF found = {Empty} THEN {Empty} ELSE found \ {Empty}

(* LS and GLS: one count per type.                                         *)
list(db, select) ==
  [t \in ToSet(Types) |->
     Len(SelectSeq(Records(db), LAMBDA r : r.select = select /\ r.type = t))]

glist(db) ==
  [t \in ToSet(Types) |-> Len(SelectSeq(Records(db), LAMBDA r : r.type = t))]

(* TOTAL counts the empty key too.                                         *)
total(db, select) ==
  Len(SelectSeq(Records(db), LAMBDA r : Tokenless(r) \/ r.select = select))

(* What sflush deletes.                                                    *)
sflush(db, select) ==
  [store |-> [s \in Slots |-> IF s[2] = select THEN [t \in ToSet(Types) |-> Absent]
                              ELSE db.store[s]],
   stray |-> Absent]

----------------------------------------------------------------------------
(* Locations.                                                              *)

(* The text of a plain key has no colon: both coordinates are its value.   *)
Coordinates(r) ==
  IF r.type = "KEY" THEN <<Num(Value(r.text)), Num(Value(r.text))>>
  ELSE <<Num(Location(r.text)[1]), Num(Location(r.text)[2])>>

Place(db, s) == Record(s[1], s[2], "GEO", db.store[s]["GEO"])

(* The answer, or Absent when either location is not there.                *)
geocalc(db, s, other) ==
  IF Absent \in {db.store[s]["GEO"], db.store[other]["GEO"]} THEN Absent
  ELSE Distance(Coordinates(Place(db, s)), Coordinates(Place(db, other)))

(* GDIST: the locations farther away than the distance.                    *)
geodistance(db, s, distance, offset, limit) ==
  LET found == SelectSeq(Selected(db, s[2], "GEO", Wildcard), LAMBDA r :
                 /\ r.key # s[1]
                 /\ Distance(Coordinates(Place(db, s)), Coordinates(r)) > distance)
  IN  IF db.store[s]["GEO"] = Absent THEN Absent
      ELSE Page(KeysOf(found), offset, limit)

(* The records that GREM deletes.  Of a record with the name of the query  *)
(* the loop skips the name without counting it, so that the type is        *)
(* compared with the select and nothing with the type.                     *)
georem(db, s, distance) ==
  LET Near(r) == Distance(Coordinates(Place(db, s)), Coordinates(r)) < distance
      Hit(r)  == \/ Tokenless(r)
                 \/ r.key = s[1] /\ TypeCode[r.type] = s[2]
                 \/ r.key # s[1] /\ r.select = s[2] /\ r.type = "GEO"
  IN  SelectSeq(Records(db), LAMBDA r : Hit(r) /\ Near(r))

Without(db, records) ==
  [store |-> [s \in Slots |-> [t \in ToSet(Types) |->
                IF \E i \in DOMAIN records :
                     records[i].type = t /\ s = <<records[i].key, records[i].select>>
                  THEN Absent ELSE db.store[s][t]]],
   stray |-> IF \E i \in DOMAIN records : Tokenless(records[i]) THEN Absent
             ELSE db.stray]

----------------------------------------------------------------------------
(* DIFF.                                                                   *)

CompareList(items, items2) == SelectSeq(items, LAMBDA x : ~Contains(items2, x))

CompareVector(items, items2) == SelectSeq(items, LAMBDA x : ~Contains(items2, x))

(* A hash is kept when some hash of the other map differs from it.         *)
CompareMultiMap(pairs, pairs2) ==
  SelectSeq(Hashes(pairs), LAMBDA h : \E i \in DOMAIN pairs2 : pairs2[i][1] # h)

CompareMap(pairs, pairs2) ==
  SelectSeq(Hashes(pairs), LAMBDA h : \E i \in DOMAIN pairs2 : pairs2[i][1] # h)

DiffKeys(text, text2) == IF text = text2 THEN 0 ELSE 1

DiffGeos(text, text2) == IF text = text2 THEN 1 ELSE 0

DiffLists(text, text2, offset, limit) ==
  Page(CompareList(Create(text2), Create(text)), offset, limit)

DiffVectors(text, text2, offset, limit) ==
  Page(CompareVector(Create(text2), Create(text)), offset, limit)

DiffMaps(text, text2, offset, limit) ==
  Page(CompareMap(CreateMap(text2), CreateMap(text)), offset, limit)

DiffMultis(text, text2, offset, limit) ==
  Page(CompareMultiMap(CreateMultiMap(text2), CreateMultiMap(text)), offset, limit)

(* diff_query::Run, for two keys of the same type.                         *)
diff(db, s, other, offset, limit) ==
  LET type  == Registry(db, s)
      text  == db.store[s][type]
      text2 == db.store[other][type]
  IN  CASE type = "KEY"    -> DiffKeys(text, text2)
        [] type = "MAP"    -> DiffMaps(text, text2, offset, limit)
        [] type = "MMAP"   -> DiffMultis(text, text2, offset, limit)
        [] type = "GEO"    -> DiffGeos(text, text2)
        [] type = "LIST"   -> DiffLists(text, text2, offset, limit)
        [] type = "VECTOR" -> DiffVectors(text, text2, offset, limit)

----------------------------------------------------------------------------
(* Hints.                                                                  *)

exists(db, s) == IF Registry(db, s) = "null" THEN 0 ELSE 1

(* TOUCH and NTOUCH compare with an empty type: every defined key counts.  *)
touch(db, slots) == Cardinality({s \in slots : CheckDest(db, s, Empty) # 0})

ntouch(db, slots) == Cardinality({s \in slots : CheckDest(db, s, Empty) = 0})

=============================================================================
