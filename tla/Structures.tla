------------------------------ MODULE Structures ------------------------------
(***************************************************************************)
(* The data commands on one database: what CommandHandler::Execute and the *)
(* helpers make of the parameters, how QueryBase::Prepare admits the query *)
(* and what its Run does to the records of the database.  A run is atomic  *)
(* (query_mute; module DataFlush).  The commands that move, expire or      *)
(* delete whole keys are those of module Keyspace.                         *)
(***************************************************************************)
EXTENDS Lists, Vectors, Maps, Scans, QueryTable, Commands

CONSTANTS
  Params,       \* the values that clients type: numbers and words
  Quoted,       \* the words among them that stand in quotes
  Stripe,       \* stripe of a word: without its first and last character
  MapHashes,    \* the hashes that clients type, without quotes
  Positions,    \* positions and sizes
  PageBounds,   \* pairs of an offset and a limit
  Numbers,      \* operands and distances
  Places,       \* pairs of coordinates
  ShortKeys,    \* the keys whose name is a number or one character
  MaxTokens,    \* bound: records and tokens in the database
  MaxLength,    \* bound: characters of a value
  MaxNumber     \* bound: numbers

ASSUME StructuresAssumption ==
  /\ Quoted \subseteq DOMAIN Stripe
  /\ DOMAIN Stripe \subseteq Words
  /\ {MaxTokens, MaxLength, MaxNumber} \subseteq Nat

VARIABLES
  store,   \* the records of keys, store[slot][type]
  stray    \* the record with the empty key

vars == <<store, stray>>

NoRecords == [t \in ToSet(Types) |-> Absent]

Init ==
  /\ store = [s \in Slots |-> NoRecords]
  /\ stray = Absent

Database == [store |-> store, stray |-> stray]

----------------------------------------------------------------------------
(* Requests.                                                               *)

(* What a client types with the command: a value, a hash, a position, ...  *)
Arguments(takes) ==
  LET Of(name, typed) == IF name \in takes THEN typed ELSE {Empty}
  IN  [value   : Of("value", Params),     hash    : Of("hash", MapHashes),
       pos     : Of("pos", Positions),    page    : Of("page", PageBounds),
       number  : Of("number", Numbers),   place   : Of("place", Places),
       other   : Of("other", Slots),
       pattern : Of("pattern", {s[1] : s \in Slots} \cup {Wildcard})]

(* CheckFormat.                                                            *)
CheckFormat(x) == IsNumber(x) \/ x \in Quoted

(* check_value looks at the last parameter, which is the key of a command  *)
(* that takes no other.                                                    *)
Checked(cmd, s, a) ==
  "value" \in cmd.checks =>
     IF cmd.takes = {} THEN s[1] \in ShortKeys ELSE CheckFormat(a.value)

Striped(x) == IF x \in DOMAIN Stripe THEN Stripe[x] ELSE x

(* The value of the query: Simple and SimpleHesh stripe, as VFIND does by  *)
(* itself; the others take the parameter as it is.                         *)
QueryValue(c, a) ==
  CASE c \in {"MDEL", "MREPEATS"}                          -> Striped(a.hash)
    [] Commands[c].helper \in {"Simple", "SimpleHesh"} \/ c = "VFIND"
                                                           -> Striped(a.value)
    [] OTHER                                               -> a.value

----------------------------------------------------------------------------
(* QueryBase::Prepare: the record a query runs on ("null": none, so that   *)
(* dest stays the empty string), or the code it ends with.                 *)

RunOn(type) == [run |-> TRUE, on |-> type, code |-> "OK"]
End(code)   == [run |-> FALSE, on |-> "null", code |-> code]

(* Mutant: a write does not look for the type that the key has.            *)
AdmitAnyWrite(db, q, s) ==
  IF q.type = "WRITE" \/ Registry(db, s) = q.base THEN RunOn(q.base)
  ELSE End("NOT_FOUND")

Admit(db, q, s) ==
  LET type   == Registry(db, s)
      absent == type = "null"
      own    == type = q.base
  IN  CASE q.type \in {"WRITE", "READ_ALLOW"} /\ ~absent /\ ~own
                                              -> End("INVALID_TYPE")
        [] q.type \in {"READ", "ITER"} /\ ~absent /\ ~own
                                              -> End("INVALID_TYPE")
        [] q.type = "WRITE" /\ (absent \/ own) -> RunOn(q.base)
        [] q.type = "ITER" /\ absent           -> End("OK")
        [] q.type \in {"READ", "DELETE"} /\ absent -> End("NOT_FOUND")
        [] OTHER                              -> RunOn(type)

TextAt(db, s, type) == IF type = "null" THEN db.stray ELSE db.store[s][type]

WriteAt(db, s, type, text) ==
  IF type = "null" THEN [db EXCEPT !.stray = text]
  ELSE [db EXCEPT !.store[s][type] = text]

----------------------------------------------------------------------------
(* QueryBase::Run of each command's query on the text at its destination.  *)

RunList(c, text, v, a) ==
  CASE c = "LPUSH"     -> lpush(text, v)
    [] c = "LPUSHNX"   -> lpushnx(text, v)
    [] c = "LRESIZE"   -> lresize(text, a.pos)
    [] c = "LGET"      -> lget(text, a.page[1], a.page[2])
    [] c = "LPOS"      -> lpos(text, a.pos)
    [] c = "LREPEATS"  -> lrepeats(text, v)
    [] c \in {"LRPOP", "LFPOP"} -> lrop(text)
    [] c = "LEXISTS"   -> lexist(text, v)
    [] c = "LCOUNT"    -> lcount(text)
    [] c = "LBACK"     -> lback(text)
    [] c = "LFRONT"    -> lfront(text)
    [] c = "LAVG"      -> lavg(text)
    [] c = "LHIGH"     -> lhigh(text)
    [] c = "LLOW"      -> llow(text)
    [] c = "LPOPBACK"  -> lpop_back(text)
    [] c = "LPOPFRONT" -> lpop_front(text)
    [] c = "LPOPALL"   -> lpopall(text, v)
    [] c = "LREVERSE"  -> lreverse(text)
    [] c = "LSORT"     -> lsort(text)
    [] c = "LDEL"      -> ldel(text, v)

RunVector(c, text, v, a) ==
  CASE c = "VPUSH"     -> vpush(text, v)
    [] c = "VPUSHNX"   -> vpushnx(text, v)
    [] c = "VRESIZE"   -> vresize(text, a.pos)
    [] c = "VGET"      -> vget(text, a.page[1], a.page[2])
    [] c = "VPOS"      -> vpos(text, a.pos)
    [] c = "VREPEATS"  -> vrepeats(text, v)
    [] c = "VEXISTS"   -> vexist(text, v)
    [] c = "VCOUNT"    -> vcount(text)
    [] c = "VBACK"     -> vback(text)
    [] c = "VFRONT"    -> vfront(text)
    [] c = "VAVG"      -> vavg(text)
    [] c = "VHIGH"     -> vhigh(text)
    [] c = "VLOW"      -> vlow(text)
    [] c = "VSUM"      -> vsum(text)
    [] c = "VPOPBACK"  -> vpop_back(text)
    [] c = "VPOPFRONT" -> vpop_front(text)
    [] c = "VREVERSE"  -> vreverse(text)
    [] c = "VSORT"     -> vsort(text)
    [] c \in {"VDEL", "VFIND"} -> vdel(text, v)

RunMap(c, text, v, a) ==
  CASE c = "HSET"    -> hset(text, a.hash, v)
    [] c = "HSETNX"  -> hsetnx(text, a.hash, v)
    [] c = "HGET"    -> hget(text, a.hash)
    [] c = "HEXISTS" -> hexists(text, a.hash)
    [] c = "HSTRLEN" -> hstrlen(text, a.hash)
    [] c = "HDEL"    -> hdel(text, a.hash)
    [] c = "HCOUNT"  -> hcount(text)
    [] c = "HLIST"   -> hlist(text, a.page[1], a.page[2])
    [] c = "HVALS"   -> hvals(text, a.page[1], a.page[2])
    [] c = "HGETALL" -> hgetall(text, a.page[1], a.page[2])

RunMultiMap(c, text, v, a) ==
  CASE c = "MPUSH"    -> mset(text, a.hash, v)
    [] c = "MPUSHNX"  -> msetnx(text, a.hash, v)
    [] c = "MDEL"     -> mdel(text, v)
    [] c = "MREPEATS" -> mrepeats(text, v)
    [] c = "MCOUNT"   -> mcount(text)
    [] c = "MGET"     -> mget(text, a.page[1], a.page[2])
    [] c = "MVALS"    -> mvals(text, a.page[1], a.page[2])
    [] c = "MGETALL"  -> mgetall(text, a.page[1], a.page[2])
    [] c = "MITER"    -> miter(text, a.hash, a.page[1], a.page[2])

RunKey(c, text, v, a) ==
  CASE c = "SET"     -> set(text, v)
    [] c = "SETNX"   -> setnx(text, v)
    [] c = "GETSET"  -> getset(text, v)
    [] c = "APPEND"  -> append(text, v)
    [] c = "GET"     -> get(text)
    [] c = "GETDEL"  -> getdel(text)
    [] c = "STRLEN"  -> strlen(text)
    [] c = "CHAR"    -> char(text, a.pos)
    [] c = "SUBSTR"  -> get_substr(text, a.page[1], a.page[2])
    [] c = "INSERT"  -> insert(text, a.pos, v)
    [] c = "ISNUM"   -> isnum(text)
    [] c = "ISMATCH" -> ismatch(text, v)
    [] c \in {"ISALPHA", "ISBOOL", "ASBOOL"} -> among(text, Words)
    [] c = "OCCURS"  -> among(text, {v})
    [] c \in {"TOLOWER", "TOUPPER", "TOCAP"} -> modify(text)
    [] c \in DOMAIN Operations -> op_query(text, Operations[c], a.number)

RunGeo(c, text, a) ==
  CASE c = "GEOADD"   -> geoadd(text, a.place[1], a.place[2])
    [] c = "GEOADDNX" -> geoaddnx(text, a.place[1], a.place[2])
    [] c = "GAPUB"    -> geoadd_pub(text, a.place[1], a.place[2])
    [] c = "GEOGET"   -> geoget(text)
    [] c = "GLOGET"   -> geoget_custom(text, 1)
    [] c = "GLAGET"   -> geoget_custom(text, 2)

(* The commands on one record, by the type they are for.                   *)
ListNames     == (DOMAIN (ListCommands1 @@ ListCommands2 @@ ListRemovals)) \ {"LKEYS"}
VectorNames   == (DOMAIN (VectorEnds @@ VectorCommands1 @@ VectorCommands2)) \ {"VKEYS"}
MapNames      == (DOMAIN (MapCommands @@ MapListings)) \ {"HKEYS"}
MultiMapNames == (DOMAIN MultiMapCommands) \ {"MKEYS"}
GeoNames      == {"GEOADD", "GEOADDNX", "GAPUB", "GEOGET", "GLOGET", "GLAGET"}
KeyNames      ==
  DOMAIN (OperationCommands @@ KeyCommands1 @@ KeyCommands2 @@ KeyCommands3)
    \ {"SETTX", "COUNT", "GETEXP", "GETPERSIST", "WDEL"}

RunQuery(c, text, v, a) ==
  CASE c \in ListNames     -> RunList(c, text, v, a)
    [] c \in VectorNames   -> RunVector(c, text, v, a)
    [] c \in MapNames      -> RunMap(c, text, v, a)
    [] c \in MultiMapNames -> RunMultiMap(c, text, v, a)
    [] c \in GeoNames      -> RunGeo(c, text, a)
    [] c \in KeyNames      -> RunKey(c, text, v, a)

(* The element of a singleton, which binds what is used many times.        *)
The(S) == CHOOSE x \in S : TRUE

(* What becomes of a command: the database it leaves and its answer.       *)
Outcome(db, c, s, a) ==
  LET cmd == Commands[c]
      Answer(to, code, reply) == [db |-> to, access |-> code, reply |-> reply]
      Ran(way) ==
        The({Answer(WriteAt(db, s, way.on, result.text), result.access, result.reply) :
               result \in {RunQuery(c, text, QueryValue(c, a), a) : text \in {TextAt(db, s, way.on)}}})
      Admitted == {Admit(db, q, s) : q \in {Queries[cmd.query]}}
  IN  IF ~Checked(cmd, s, a) THEN Answer(db, "INVALID_VALUE", Empty)
      ELSE The({IF way.run THEN Ran(way) ELSE Answer(db, way.code, Empty) : way \in Admitted})

----------------------------------------------------------------------------
(* The bounds.                                                             *)

(* A location counts as one token.                                         *)
Tokens(type, text) ==
  CASE text = Absent                      -> 0
    [] text # Absent /\ type = "GEO"      -> 2
    [] OTHER                              -> 1 + Len(text)

Bounded(db) ==
  /\ FoldFunctionOnSet(+, 0,
       [s \in Slots |-> FoldFunctionOnSet(+, 0,
          [t \in ToSet(Types) |-> Tokens(t, db.store[s][t])], ToSet(Types))],
       Slots) + Tokens("null", db.stray) <= MaxTokens
  /\ \A s \in Slots : LET x == Value(db.store[s]["KEY"])
                      IN  /\ Length(x) <= MaxLength
                          /\ x \notin Words \cup {Empty, Fraction}
                               => x \in -MaxNumber .. MaxNumber

Become(db) ==
  /\ Bounded(db)
  /\ store' = db.store
  /\ stray' = db.stray

(* One command on one record.                                              *)
Command(names) ==
  \E c \in names, s \in Slots : \E a \in Arguments(Commands[c].takes) :
    Become(Outcome(Database, c, s, a).db)

(* GREM and SFLUSH, which delete what a scan finds.                        *)
GRem ==
  \E s \in Slots, distance \in Numbers :
    /\ store[s]["GEO"] # Absent
    /\ Become(Without(Database, georem(Database, s, distance)))

SFlush == \E s \in Slots : Become(sflush(Database, s[2]))

ListCommand     == Command(ListNames)
VectorCommand   == Command(VectorNames)
MapCommand      == Command(MapNames)
MultiMapCommand == Command(MultiMapNames)
GeoCommand      == Command(GeoNames)
KeyCommand      == Command(KeyNames)

Next ==
  \/ ListCommand
  \/ VectorCommand
  \/ MapCommand
  \/ MultiMapCommand
  \/ GeoCommand
  \/ KeyCommand
  \/ GRem
  \/ SFlush

Spec == Init /\ [][Next]_vars

----------------------------------------------------------------------------
(* Properties.                                                             *)

Strings == ToSet(Order)

(* A key has one type (GetRegistry relies on it: it takes the first type   *)
(* it finds), whatever the commands and their types.                       *)
OneType ==
  \A s \in Slots : Cardinality({t \in ToSet(Types) : store[s][t] # Absent}) <= 1

(* Every record is a text of the strings in use, without empty tokens, and *)
(* the only one of its key.                                                *)
TypeOK ==
  LET Token(x) == x[1] # Empty /\ ToSet(x) \subseteq Strings \cup {Empty}
      Text(text) == text = Absent \/ \A i \in DOMAIN text : Token(text[i])
  IN  /\ \A s \in Slots, t \in ToSet(Types) : Text(store[s][t])
      /\ Text(stray)
      /\ OneType

(* A list, vector, map or multimap that loses its last element is deleted: *)
(* the "Count() > 0 ... else Delete" at the end of the removing queries.   *)
LastElementDeletes ==
  [][\A s \in Slots, t \in {"LIST", "VECTOR", "MAP", "MMAP"} :
       store'[s][t] = <<>> => store[s][t] \in {Absent, <<>>}]_vars

(* The sets bind the database and the arguments, which Outcome uses often. *)
NoArguments == CHOOSE a \in Arguments({}) : TRUE

Ask(db, c, s, args) ==
  The({Outcome(d, c, s, a) : d \in {db}, a \in {args @@ NoArguments}})

(* The key is absent or has the type.                                      *)
Fits(s, type) == Registry(Database, s) \in {"null", type}

(* What a write that answers OK stored is what the matching read answers,  *)
(* through the conversions of the parameter, the text and the handler.     *)
ReadBack ==
  \A s \in Slots, x \in Params, h \in MapHashes :
    LET pair == [value |-> x, hash |-> h]
        Written(c) == {Ask(Database, c, s, pair)}
    IN  /\ \A way \in {<<"KEY", "SET", "GET">>, <<"LIST", "LPUSH", "LBACK">>,
                       <<"VECTOR", "VPUSH", "VBACK">>, <<"MAP", "HSET", "HGET">>} :
             \A put \in Written(way[2]) :
               Fits(s, way[1]) /\ put.access = "OK" /\ Striped(x) # Empty
                 => Ask(put.db, way[3], s, pair).reply = Striped(x)
        /\ \A pushed \in Written("MPUSH") :
             \A pairs \in {CreateMultiMap(pushed.db.store[s]["MMAP"])} :
               Fits(s, "MMAP") /\ pushed.access = "OK" => Last(GetVals(pairs, h)) = Striped(x)

(* A list or vector whose text holds plain tokens: neither hollow nor      *)
(* rewritten by HDEL or MDEL, which take a key of any type.                *)
Plain(s, type) ==
  /\ Fits(s, type)
  /\ store[s][type] # <<>>
  /\ store[s][type] # Absent => \A i \in DOMAIN store[s][type] : Len(store[s][type][i]) = 1

(* A command and the one that takes it back leave the database as it was:  *)
(* push and pop at the same end, INCR and DECR, two reversals.             *)
Inverses ==
  \A s \in Slots, x \in Params :
    \A pair \in
      {p \in {<<"LREVERSE", "LREVERSE">>, <<"VREVERSE", "VREVERSE">>,
             <<"LPUSH", "LRPOP">>, <<"VPUSH", "VPOPBACK">>, <<"INCR", "DECR">>} :
         CASE p[1] = "LREVERSE" -> Plain(s, "LIST")
           [] p[1] = "VREVERSE" -> Plain(s, "VECTOR")
           [] p[1] = "LPUSH"    -> Plain(s, "LIST") /\ Striped(x) # Empty
           [] p[1] = "VPUSH"    -> /\ Plain(s, "VECTOR") /\ Striped(x) # Empty
                                   /\ s[1] \in ShortKeys
           [] p[1] = "INCR"     -> /\ Plain(s, "KEY")
                                   /\ Value(store[s]["KEY"]) \notin {Empty, Fraction}} :
    \A done \in {Ask(Database, pair[1], s, [value |-> x])} :
      done.access = "OK" => Ask(done.db, pair[2], s, [value |-> x]).db = Database

(* The partial answers of LGET, one after the other, are the part of the   *)
(* list that was asked for, and none is longer than ITER_LIMIT.            *)
PagesCoverRange ==
  \A s \in Slots, page \in PageBounds :
    \A items \in {Create(store[s]["LIST"])},
       pages \in {Ask(Database, "LGET", s, [page |-> page])} :
      LET last == IF page[1] + page[2] < Len(items) THEN page[1] + page[2] ELSE Len(items)
      IN  pages.access = "OK" =>
            /\ \A i \in DOMAIN pages.reply : Len(pages.reply[i]) <= IterLimit
            /\ FlattenSeq(pages.reply) =
                 IF page[2] = -1 THEN items ELSE SubSeq(items, page[1] + 1, last)

(* The listings of the six types name every defined key of a select once,  *)
(* beside the empty key; TOTAL counts the same records as LS.              *)
ListedOnce ==
  \A select \in {s[2] : s \in Slots} :
    LET all == FlattenSeq(lkeys(Database, select, Wildcard, 0, -1)
                 \o vkeys(Database, select, Wildcard, 0, -1)
                 \o hfind(Database, select, Wildcard, 0, -1)
                 \o mkeys(Database, select, Wildcard, 0, -1)
                 \o gkeys(Database, select, Wildcard, 0, -1)
                 \o keys(Database, select, Wildcard, 0, -1))
        counts == list(Database, select)
    IN  /\ \A s \in Slots : s[2] = select =>
             Repeats(all, s[1]) = exists(Database, s)
        /\ total(Database, select) =
             FoldFunctionOnSet(+, 0, counts, ToSet(Types))
               + (IF stray = Absent THEN 0 ELSE 1)

(* GDIST lists the locations whose GCALC distance is greater, and GREM     *)
(* deletes the location of another key only if that distance is smaller.   *)
DistancesAgree ==
  \A s, other \in Slots, d \in Numbers :
    LET apart  == geocalc(Database, s, other)
        listed == FlattenSeq(geodistance(Database, s, d, 0, -1))
        gone   == georem(Database, s, d)
    IN  s # other /\ s[2] = other[2] /\ apart # Absent =>
          /\ Contains(listed, other[1]) <=> apart > d
          /\ (\E i \in DOMAIN gone : gone[i].key = other[1] /\ gone[i].type = "GEO")
               <=> apart < d

(* What different commands say of the same database agrees: COUNT, KEYS,   *)
(* SEARCH and RKEY of the plain keys, EXISTS and TOUCH of a key that has a *)
(* value, DIFF of a key with itself, GDIST, GREM and GCALC.                *)
AnswersAgree ==
  /\ \A select \in {s[2] : s \in Slots} :
       LET all == FlattenSeq(keys(Database, select, Wildcard, 0, -1))
           found == FlattenSeq(search(Database, select, Wildcard, 0, -1))
       IN  /\ count(Database, select, Wildcard) = Len(all)
           /\ [i \in DOMAIN found |-> found[i][1]] = all
           /\ random(Database, select) \subseteq ToSet(all)
           /\ all # <<>> => random(Database, select) # {}
  /\ \A s \in Slots : LET type == Registry(Database, s) IN
       /\ touch(Database, {s}) + ntouch(Database, {s}) = 1
       /\ touch(Database, {s}) =
            IF type = "null" \/ store[s][type] = <<>> THEN 0 ELSE exists(Database, s)
       /\ type = "KEY" => diff(Database, s, s, 0, -1) = 0
       /\ type \in {"LIST", "VECTOR"} => FlattenSeq(diff(Database, s, s, 0, -1)) = <<>>
  /\ DistancesAgree

=============================================================================
