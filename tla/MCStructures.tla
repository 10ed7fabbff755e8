----------------------------- MODULE MCStructures -----------------------------
EXTENDS Structures

CONSTANTS k1, k2, w, W, ww, long, q, qe, stump

MCWords == {w, W, ww, long, q, qe, stump, NaN}
MCOrder == <<-2, -1, 0, 1, Fraction, 2, W, NaN, w, ww>>
(* In select 4, the code of the type GEO.                                  *)
MCSlots == << <<k1, 4>>, <<k2, 4>> >>
MCStripe == (q :> w) @@ (qe :> Empty) @@ (w :> stump)

MCLength(x) ==
  CASE x = Empty                             -> 0
    [] x \in {w, W, stump}                   -> 1
    [] x \in {ww, Fraction, NaN}             -> 2
    [] x \in {long, q, qe}                   -> 3
    [] OTHER -> IF x \in 0 .. 9 THEN 1 ELSE 2

MCConcat(x, y) ==
  CASE x = Empty -> y
    [] y = Empty -> x
    [] x # Empty /\ y # Empty /\ MCLength(x) + MCLength(y) = 2 -> ww
    [] OTHER     -> long

(* A part of a longer string: a character of it.                           *)
MCPart(x, offset, size) ==
  CASE size = 0                           -> Empty
    [] offset = 0 /\ size >= MCLength(x)  -> x
    [] OTHER -> IF x \in {ww, NaN} THEN w ELSE 1

MCUpper(x) == IF x = w THEN W ELSE x

Apart(x, y) ==
  LET Whole(n) == IF n = Fraction THEN 1 ELSE n
      d == Whole(x) - Whole(y)
  IN  IF d < 0 THEN -d ELSE d
MCDistance(p, r) == Apart(p[1], r[1]) + Apart(p[2], r[2])

MCPages == {<<0, -1>>, <<0, 1>>, <<1, 2>>}
MCPlaces == {<<0, 1>>, <<1, 2>>}
MCParams == {1, q, qe, w}

=============================================================================
