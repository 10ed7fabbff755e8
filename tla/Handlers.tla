------------------------------- MODULE Handlers -------------------------------
(***************************************************************************)
(* How BerylDB keeps a list, a vector, a map, a multimap or a location in  *)
(* one RocksDB value, and the handlers (ListHandler, VectorHandler,        *)
(* MapHandler, MultiMapHandler) a query loads that value into.             *)
(*                                                                         *)
(* A stored value is a text of tokens that end in ":".  The bits of one    *)
(* string make a token <<x>>; the bits of two strings around a "/" make a  *)
(* token <<x, y>>.  The text says nothing of the type it was written for,  *)
(* so a handler reads whatever tokens it is given.                         *)
(***************************************************************************)
EXTENDS Integers, Sequences, SequencesExt

CONSTANTS
  Absent,      \* RocksDB has no such entry
  Empty,       \* the empty string
  Words,       \* the strings in use that are not numbers
  Order,       \* the strings of items in use, as operator< orders them
  Wildcard,         \* the pattern "*"
  Undefined,   \* what a read of freed or missing memory yields
  IterLimit    \* ITER_LIMIT: how many items one partial answer holds

ASSUME HandlersAssumption ==
  /\ IterLimit \in Nat \ {0}
  /\ Empty \notin Words
  /\ \A i, j \in DOMAIN Order : Order[i] = Order[j] => i = j

(* is_number: all but the words; the empty string passes for a number.     *)
IsNumber(x) == x \notin Words

(* convto_num: a string that is no number reads as zero.                   *)
Num(x) == IF x \in Words \cup {Empty} THEN 0 ELSE x

(* Daemon::Match, for the pattern "*" and for patterns without a wildcard. *)
Match(x, pattern) == pattern \in {Wildcard, x}

Rank(x) == CHOOSE i \in DOMAIN Order : Order[i] = x

(* What a query leaves at its destination, the code it answers with and    *)
(* what it sends.                                                          *)
Done(text, reply)   == [text |-> text, access |-> "OK", reply |-> reply]
Refuse(text, code)  == [text |-> text, access |-> code, reply |-> Empty]
PROCESS_OK == "OK"

(* Get(dest) that fails ends a query with DBL_NOT_FOUND.                   *)
Loaded(text, outcome) ==
  IF text = Absent THEN Refuse(text, "NOT_FOUND") ELSE outcome

----------------------------------------------------------------------------
(* ListHandler and VectorHandler.                                          *)

NotEmpty(x) == x # Empty

(* Create: Add drops what is empty, and of a token with a "/" the decoder  *)
(* reads no further than the "/".                                          *)
Create(text) ==
  IF text = Absent THEN <<>>
  ELSE SelectSeq([i \in DOMAIN text |-> text[i][1]], NotEmpty)

(* as_string: an empty item leaves no token between its two colons.        *)
AsString(items) ==
  LET kept == SelectSeq(items, NotEmpty)
  IN  [i \in DOMAIN kept |-> <<kept[i]>>]

Exist(items, x) == Contains(items, x)

Add(items, x) == IF x = Empty THEN items ELSE Append(items, x)

PopFront(items) == IF Len(items) <= 1 THEN <<>> ELSE Tail(items)

(* Mutant: the element at the front goes.                                  *)
PopBackFront(items) == IF Len(items) <= 1 THEN <<>> ELSE Tail(items)

PopBack(items) == IF Len(items) <= 1 THEN <<>> ELSE Front(items)

(* PopAll: a list of one element is erased whatever that element is.       *)
PopAll(items, x) ==
  CASE x = Empty                       -> items
    [] x # Empty /\ Len(items) = 1     -> <<>>
    [] OTHER                           -> SelectSeq(items, LAMBDA y : y # x)

(* Remove: the first element that is x.                                    *)
RemoveItem(items, x) ==
  IF Exist(items, x) THEN RemoveFirst(items, x) ELSE items

(* Index returns a null pointer as a string when there are no elements.    *)
Index(items, pos) ==
  CASE items = <<>>                        -> Undefined
    [] items # <<>> /\ pos < Len(items)    -> items[pos + 1]
    [] OTHER                               -> Empty

Repeats(items, x) == Len(SelectSeq(items, LAMBDA y : y = x))

Find(items, pattern) == SelectSeq(items, LAMBDA y : Match(y, pattern))

(* resize: a longer list is filled with empty strings.                     *)
Resize(items, size) ==
  [i \in 1 .. size |-> IF i <= Len(items) THEN items[i] ELSE Empty]

Sort(items) == SortSeq(items, LAMBDA x, y : Rank(x) < Rank(y))

IsNumeric(items) == \A i \in DOMAIN items : IsNumber(items[i])

Sum(items) == FoldLeft(LAMBDA sum, x : sum + Num(x), 0, items)

(* GetSMA, as the fraction it divides.                                     *)
GetSMA(items) == <<Sum(items), Len(items)>>

(* GetHigh starts from zero.                                               *)
GetHigh(items) ==
  FoldLeft(LAMBDA high, x : IF Num(x) > high THEN Num(x) ELSE high, 0, items)

GetLow(items) ==
  IF items = <<>> THEN Undefined
  ELSE FoldLeft(LAMBDA low, x : IF Num(x) < low THEN Num(x) ELSE low,
                Num(Head(items)), items)

(* What a query does with the elements that are left: a list or vector     *)
(* without elements is deleted.                                            *)
Keep(items, reply) ==
  Done(IF Len(items) > 0 THEN AsString(items) ELSE Absent, reply)

----------------------------------------------------------------------------
(* MapHandler and MultiMapHandler: pairs in the order of their hashes.     *)

(* MultiMapHandler::Add: std::multimap inserts after the equal hashes.     *)
AddPair(pairs, pair) ==
  LET before == Len(SelectSeq(pairs, LAMBDA p : Rank(p[1]) <= Rank(pair[1])))
  IN  IF pair[1] = Empty THEN pairs ELSE InsertAt(pairs, before + 1, pair)

(* Mutant: what the hash had stays in front of the new pair.               *)
PutPairKept(pairs, pair) == AddPair(pairs, pair)

(* MapHandler::Add: what the hash had is erased first.                     *)
PutPair(pairs, pair) ==
  IF pair[1] = Empty THEN pairs
  ELSE AddPair(SelectSeq(pairs, LAMBDA p : p[1] # pair[1]), pair)

(* Create: a token without a "/" is the hash and the value.                *)
TokenPair(token) == <<token[1], token[Len(token)]>>

Pairs(text) ==
  IF text = Absent THEN <<>> ELSE [i \in DOMAIN text |-> TokenPair(text[i])]

CreateMap(text) == FoldLeft(PutPair, <<>>, Pairs(text))

CreateMultiMap(text) == FoldLeft(AddPair, <<>>, Pairs(text))

Hashes(pairs) == [i \in DOMAIN pairs |-> pairs[i][1]]

ValuesOf(pairs) == [i \in DOMAIN pairs |-> pairs[i][2]]

Exists(pairs, hash) == Contains(Hashes(pairs), hash)

(* Get: the value of the first pair of the hash.                           *)
GetPair(pairs, hash) ==
  IF Exists(pairs, hash)
    THEN ValuesOf(SelectSeq(pairs, LAMBDA p : p[1] = hash))[1]
    ELSE Empty

(* Remove: a map of one pair is erased whatever its hash is.               *)
RemovePair(pairs, hash) ==
  CASE hash = Empty                        -> pairs
    [] hash # Empty /\ Len(pairs) = 1      -> <<>>
    [] OTHER -> SelectSeq(pairs, LAMBDA p : p[1] # hash)

GetVals(pairs, hash) ==
  ValuesOf(SelectSeq(pairs, LAMBDA p : p[1] = hash))

(* as_string: the tokens of the pairs in order, which are the pairs.       *)
KeepPairs(pairs, reply) ==
  Done(IF Len(pairs) > 0 THEN pairs ELSE Absent, reply)

----------------------------------------------------------------------------
(* Partial answers.                                                        *)

(* Mutant: the items before the offset use up the limit.                   *)
PageFrom0(items, offset, limit) ==
  <<SubSeq(items, offset + 1, IF limit < Len(items) THEN limit ELSE Len(items))>>

(* The loop of the queries that list: items from the offset on, at most    *)
(* limit of them (-1: all), attached in batches of IterLimit, the rest in  *)
(* the final answer.                                                       *)
Page(items, offset, limit) ==
  LET Step(p, x) ==
        CASE p.stop -> p
          [] ~p.stop /\ limit # -1 /\ ~(p.total >= offset /\ p.taken < limit)
               -> [p EXCEPT !.total = @ + 1]
          [] OTHER
               -> LET rest == Append(p.rest, x)
                      full == (p.taken + 1) % IterLimit = 0
                  IN  [total   |-> p.total + 1,
                       taken   |-> p.taken + 1,
                       rest    |-> IF full THEN <<>> ELSE rest,
                       batches |-> IF full THEN Append(p.batches, rest)
                                           ELSE p.batches,
                       stop    |-> p.taken + 1 = limit]
      end == FoldLeft(Step, [total |-> 0, taken |-> 0, rest |-> <<>>,
                             batches |-> <<>>, stop |-> FALSE], items)
  IN  Append(end.batches, end.rest)

(* The loop of the maps' and multimaps' queries clears the container it    *)
(* iterates over in place of the batch: the batch is sent again with the   *)
(* final answer when the limit ends the loop there, and what is read next  *)
(* is undefined when it does not.                                          *)
PageCleared(items, offset, limit) ==
  LET taken == FlattenSeq(Page(items, offset, limit))
  IN  CASE Len(taken) < IterLimit                          -> <<taken>>
        [] Len(taken) = IterLimit /\ limit = IterLimit     -> <<taken, taken>>
        [] OTHER                                           -> Undefined

=============================================================================
