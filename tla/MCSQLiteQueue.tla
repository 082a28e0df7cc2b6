--------------------------- MODULE MCSQLiteQueue ---------------------------
(* A small instance of SQLiteQueue with the observer of position(): one    *)
(* process with two request threads and two workers.                       *)
EXTENDS SQLitePosition, TLC

CONSTANTS p1, c1, c2, w1, w2, a, b

OneHome == [t \in {c1, c2, w1, w2} |-> p1]

\* Photos are interchangeable.
PhotoSymmetry == Permutations({a, b})
=============================================================================
