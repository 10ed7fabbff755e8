------------------------------- MODULE Strings --------------------------------
(***************************************************************************)
(* The queries on plain keys (keys.cpp, operation.cpp) and locations       *)
(* (geo.cpp), operators on the text at their destination like those of     *)
(* module Lists.  Strings are taken with their length, concatenation and   *)
(* parts; their characters are not modelled.                               *)
(***************************************************************************)
EXTENDS Handlers

CONSTANTS
  Length(_),       \* std::string::length
  Concat(_, _),    \* operator+
  Part(_, _, _),   \* substr(offset, count)
  Upper(_),        \* toupper, tolower or a capital first letter
  Fraction,        \* a number that is no integer
  NaN              \* "inf" and "nan", which is_number refuses

ASSUME StringsAssumption == NaN \in Words /\ Fraction \notin Words

(* to_bin(value): one token without a colon; the empty string leaves none. *)
StringText(x) == IF x = Empty THEN <<>> ELSE << <<x>> >>

(* to_string of what is stored, which stops at the first colon.            *)
Value(text) == IF text \in {Absent, <<>>} THEN Empty ELSE text[1][1]

set(text, x) == Done(StringText(x), PROCESS_OK)

(* Mutant: a key that exists is overwritten.                               *)
setnxAlways(text, x) == Done(StringText(x), PROCESS_OK)

setnx(text, x) ==
  IF text = Absent THEN Done(StringText(x), PROCESS_OK)
  ELSE Refuse(text, "ENTRY_EXISTS")

get(text) == Done(text, Value(text))

getset(text, x) == Done(StringText(x), Value(text))

getdel(text) == Done(Absent, Value(text))

append(text, x) ==
  LET longer == Concat(Value(text), x) IN Done(StringText(longer), longer)

(* get_substr_query writes the part it answers; a WRITE query, it runs on  *)
(* an absent key too, whose value is the empty string.                     *)
get_substr(text, offset, limit) ==
  LET x == Value(text)
  IN  IF offset + limit > Length(x) THEN Refuse(text, "INVALID_RANGE")
      ELSE Done(StringText(Part(x, offset, limit)), Part(x, offset, limit))

insert(text, at, x) ==
  LET old == Value(text)
      new == Concat(Concat(Part(old, 0, at), x), Part(old, at, Length(old) - at))
  IN  IF Length(old) < at THEN Refuse(text, "INVALID_RANGE")
      ELSE Done(StringText(new), new)

modify(text) == Done(StringText(Upper(Value(text))), PROCESS_OK)

strlen(text) == Done(text, Length(Value(text)))

char(text, at) ==
  IF at >= Length(Value(text)) THEN Refuse(text, "INVALID_RANGE")
  ELSE Done(text, Part(Value(text), at, 1))

isnum(text) == Done(text, IF IsNumber(Value(text)) THEN 1 ELSE 0)

ismatch(text, pattern) == Done(text, IF Match(Value(text), pattern) THEN 1 ELSE 0)

(* isbool, asbool, alpha and get_occurs answer with a property of the      *)
(* characters; here, whether the value is one of a set of strings.         *)
among(text, strings) == Done(text, IF Value(text) \in strings THEN 1 ELSE 0)

----------------------------------------------------------------------------
(* op_query.                                                               *)

(* The string of the double x / y, and of the square root of x.            *)
Quotient(x, y) ==
  LET whole == {n \in (-x .. x) \cup (x .. -x) : n * y = x}
  IN  IF y = 0 THEN NaN
      ELSE IF whole = {} THEN Fraction ELSE CHOOSE n \in whole : TRUE

Root(x) ==
  LET whole == {n \in 0 .. x : n * n = x}
  IN  IF x < 0 THEN NaN
      ELSE IF whole = {} THEN Fraction ELSE CHOOSE n \in whole : TRUE

(* convto_string of the double that the operation yields.  What comes of a *)
(* fraction is taken for one.                                              *)
Computed(op, x, y) ==
  IF Fraction \in {x, y} THEN Fraction
  ELSE CASE op = "INCR" -> x + 1
         [] op = "DECR" -> x - 1
         [] op = "ADD"  -> x + y
         [] op = "MIN"  -> x - y
         [] op = "MULT" -> x * y
         [] op = "AVG"  -> Quotient(x + y, 2)
         [] op = "DIV"  -> Quotient(x, y)
         [] op = "SQRT" -> Root(x)

(* Mutant: a value that is no number counts as zero.                       *)
opAny(text, op, y) ==
  LET new == Computed(op, Num(Value(text)), Num(y))
  IN  Done(StringText(new), new)

(* An absent key counts as zero; a division by zero leaves a value that is *)
(* no number.                                                              *)
op_query(text, op, y) ==
  LET new == Computed(op, Num(Value(text)), Num(y))
  IN  IF ~IsNumber(Value(text)) THEN Refuse(text, "NOT_NUM")
      ELSE Done(StringText(new), new)

----------------------------------------------------------------------------
(* Locations.                                                              *)

geoadd(text, x, y) == Done(<< <<y>>, <<x>> >>, PROCESS_OK)

geoaddnx(text, x, y) ==
  IF text # Absent THEN Refuse(text, "ENTRY_EXISTS")
  ELSE Done(<< <<y>>, <<x>> >>, PROCESS_OK)

(* geoadd_pub_query stores the two the other way round.                    *)
geoadd_pub(text, x, y) == Done(<< <<x>>, <<y>> >>, PROCESS_OK)

(* What stands before and after the first colon.                           *)
Location(text) ==
  <<Value(text), IF Len(text) > 1 THEN text[2][1] ELSE Empty>>

geoget(text) == Done(text, Location(text))

(* geoget_custom_query: GLOGET asks for the first part, GLAGET for the     *)
(* second.                                                                 *)
geoget_custom(text, part) == Done(text, Location(text)[part])

=============================================================================
