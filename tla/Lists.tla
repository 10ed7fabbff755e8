-------------------------------- MODULE Lists ---------------------------------
(***************************************************************************)
(* The queries on lists (lists.cpp).  Each is an operator on the text at   *)
(* its destination; what it is applied to is checked by Prepare (module    *)
(* Structures), and a run is atomic (query_mute; module DataFlush).        *)
(***************************************************************************)
EXTENDS Handlers

lpush(text, x) ==
  IF x = Empty THEN Refuse(text, "MISS_ARGS")
  ELSE Done(AsString(Add(Create(text), x)), PROCESS_OK)

(* With an empty value nothing is added and what there is gets written.    *)
lpushnx(text, x) ==
  LET items == Create(text)
  IN  IF Exist(items, x) THEN Refuse(text, "ENTRY_EXISTS")
      ELSE Done(AsString(Add(items, x)), PROCESS_OK)

(* Mutant: the reversed list is not written.                               *)
lreverseLost(text) == Done(text, PROCESS_OK)

lreverse(text) ==
  Loaded(text, Done(AsString(Reverse(Create(text))), PROCESS_OK))

(* lsort_query calls Reverse.                                              *)
lsort(text) ==
  Loaded(text, Done(AsString(Reverse(Create(text))), PROCESS_OK))

lpos(text, pos) ==
  LET items == Create(text)
  IN  IF items # <<>> /\ pos >= Len(items) THEN Refuse(text, "NOT_FOUND")
      ELSE Done(text, Index(items, pos))

lresize(text, size) ==
  Loaded(text, Keep(Resize(Create(text), size), PROCESS_OK))

(* Mutant: a list that lost its last element stays, empty.                 *)
lpop_frontKept(text) ==
  Loaded(text, Done(AsString(PopFront(Create(text))), PROCESS_OK))

lpop_front(text) == Loaded(text, Keep(PopFront(Create(text)), PROCESS_OK))

lpop_back(text) == Loaded(text, Keep(PopBack(Create(text)), PROCESS_OK))

lpopall(text, x) == Loaded(text, Keep(PopAll(Create(text), x), PROCESS_OK))

lcount(text) == Loaded(text, Done(text, Len(Create(text))))

lget(text, offset, limit) ==
  Loaded(text, Done(text, Page(Create(text), offset, limit)))

lexist(text, x) ==
  Loaded(text, Done(text, IF Exist(Create(text), x) THEN 1 ELSE 0))

ldel(text, x) ==
  LET items == Create(text)
  IN  IF ~Exist(items, x) THEN Refuse(text, "NOT_FOUND")
      ELSE Keep(RemoveItem(items, x), PROCESS_OK)

lrepeats(text, x) == Loaded(text, Done(text, Repeats(Create(text), x)))

(* RPOP: the element that is removed is the answer.                        *)
lrop(text) ==
  LET items == Create(text)
  IN  IF items = <<>> THEN Refuse(text, "NOT_FOUND")
      ELSE Keep(PopBack(items), Last(items))

(* FPOP reads its answer after it removed the element.  No command issues  *)
(* this query.                                                             *)
lrfront(text) ==
  LET items == Create(text)
  IN  IF items = <<>> THEN Refuse(text, "NOT_FOUND")
      ELSE Keep(PopFront(items), Undefined)

lback(text) ==
  LET items == Create(text)
  IN  IF items = <<>> THEN Refuse(text, "NOT_FOUND") ELSE Done(text, Last(items))

lfront(text) ==
  LET items == Create(text)
  IN  IF items = <<>> THEN Refuse(text, "NOT_FOUND") ELSE Done(text, Head(items))

lavg(text) ==
  IF ~IsNumeric(Create(text)) THEN Refuse(text, "INVALID_RANGE")
  ELSE Done(text, GetSMA(Create(text)))

lhigh(text) ==
  IF ~IsNumeric(Create(text)) THEN Refuse(text, "INVALID_RANGE")
  ELSE Done(text, GetHigh(Create(text)))

llow(text) ==
  IF ~IsNumeric(Create(text)) THEN Refuse(text, "INVALID_RANGE")
  ELSE Done(text, GetLow(Create(text)))

=============================================================================
