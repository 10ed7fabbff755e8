------------------------------ MODULE MCKeyspace ------------------------------
(* Keyspace on small instances; the .cfg files name the bounds.            *)
EXTENDS Keyspace, TLC

CONSTANTS d1, d2, k1, k2, v1, c1, c2

Slot(d, k, n) == [db |-> d, key |-> k, select |-> n]

(* A key, and one that differs from it in its name, its select, its        *)
(* database: the destinations of RENAME, of MOVE and of TRANSFER.          *)
OneSlot     == {Slot(d1, k1, 1)}
TwoNames    == {Slot(d1, k1, 1), Slot(d1, k2, 1)}
TwoSelects  == {Slot(d1, k1, 1), Slot(d1, k1, 2)}
PerDb       == {Slot(d1, k1, 1), Slot(d2, k1, 1)}
AllTargets  == TwoNames \cup TwoSelects \cup {Slot(d2, k1, 1)}

OneDb       == {d1}
TwoDbs      == {d1, d2}
OneValue    == {v1}
WithEmpty   == {v1, Empty}
OneClient   == {c1}
TwoClients  == {c1, c2}

Symmetry    == Permutations(TwoClients)
=============================================================================
