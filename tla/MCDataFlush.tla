----------------------------- MODULE MCDataFlush -----------------------------
(* DataFlush on small instances; the .cfg files name the bounds.           *)
EXTENDS DataFlush, TLC

CONSTANTS u1, u2, d1, d2

OneUser   == {u1}
TwoUsers  == {u1, u2}
OneDB     == {d1}
TwoDBs    == {d1, d2}

Symmetry == Permutations(TwoUsers) \cup Permutations(TwoDBs)
=============================================================================
