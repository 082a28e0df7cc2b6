----------------------------- MODULE MCPgQueue -----------------------------
(* A small instance of PgQueue: two replicas, the first with two workers.  *)
(* Lychee sends its requests to that one.                                  *)
EXTENDS PgQueue

CONSTANTS p1, p2, c1, w1, w2, w3

Homes == [t \in Thread |-> IF t \in {c1, w1, w2} THEN p1 ELSE p2]
=============================================================================
