------------------------------- MODULE Vectors --------------------------------
(***************************************************************************)
(* The queries on vectors (vectors.cpp), operators on the text at their    *)
(* destination like those of module Lists.                                 *)
(***************************************************************************)
EXTENDS Handlers

vpush(text, x) ==
  IF x = Empty THEN Refuse(text, "MISS_ARGS")
  ELSE Done(AsString(Add(Create(text), x)), PROCESS_OK)

vpushnx(text, x) ==
  LET items == Create(text)
  IN  IF Exist(items, x) THEN Refuse(text, "ENTRY_EXISTS")
      ELSE Done(AsString(Add(items, x)), PROCESS_OK)

vsort(text) == Loaded(text, Done(AsString(Sort(Create(text))), PROCESS_OK))

vreverse(text) ==
  Loaded(text, Done(AsString(Reverse(Create(text))), PROCESS_OK))

vresize(text, size) ==
  Loaded(text, Keep(Resize(Create(text), size), PROCESS_OK))

vpop_front(text) == Keep(PopFront(Create(text)), PROCESS_OK)

vpop_back(text) == Keep(PopBack(Create(text)), PROCESS_OK)

(* Remove erases a vector of one item; Exist has found the item in it.     *)
vdel(text, x) ==
  LET items == Create(text)
  IN  IF ~Exist(items, x) THEN Refuse(text, "NOT_FOUND")
      ELSE Keep(RemoveItem(items, x), PROCESS_OK)

(* No command issues this query.                                           *)
vfind(text, pattern, offset, limit) ==
  Loaded(text, Done(text, Page(Find(Create(text), pattern), offset, limit)))

vget(text, offset, limit) ==
  Loaded(text, Done(text, Page(Create(text), offset, limit)))

vcount(text) == Loaded(text, Done(text, Len(Create(text))))

vpos(text, pos) ==
  LET items == Create(text)
  IN  IF items # <<>> /\ pos >= Len(items) THEN Refuse(text, "NOT_FOUND")
      ELSE Done(text, Index(items, pos))

vexist(text, x) ==
  Loaded(text, Done(text, IF Exist(Create(text), x) THEN 1 ELSE 0))

vrepeats(text, x) == Loaded(text, Done(text, Repeats(Create(text), x)))

vback(text) ==
  LET items == Create(text)
  IN  IF items = <<>> THEN Refuse(text, "NOT_FOUND") ELSE Done(text, Last(items))

vfront(text) ==
  LET items == Create(text)
  IN  IF items = <<>> THEN Refuse(text, "NOT_FOUND") ELSE Done(text, Head(items))

vavg(text) ==
  IF ~IsNumeric(Create(text)) THEN Refuse(text, "INVALID_RANGE")
  ELSE Done(text, GetSMA(Create(text)))

vhigh(text) ==
  IF ~IsNumeric(Create(text)) THEN Refuse(text, "INVALID_RANGE")
  ELSE Done(text, GetHigh(Create(text)))

vlow(text) ==
  IF ~IsNumeric(Create(text)) THEN Refuse(text, "INVALID_RANGE")
  ELSE Done(text, GetLow(Create(text)))

vsum(text) ==
  IF ~IsNumeric(Create(text)) THEN Refuse(text, "INVALID_RANGE")
  ELSE Done(text, Sum(Create(text)))

=============================================================================
