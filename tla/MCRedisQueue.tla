---------------------------- MODULE MCRedisQueue ----------------------------
(* A small instance of RedisQueue with the observer of position(): two     *)
(* replicas, the first with two workers.                                   *)
EXTENDS RedisPosition

CONSTANTS p1, p2, c1, c2, w1, w2, w3, a, b

Homes == [t \in {c1, c2, w1, w2, w3} |-> IF t \in {c1, w1, w2} THEN p1 ELSE p2]

\* The list still gets every sequence of the two photos.
UploadsOf == [c \in {c1, c2} |-> IF c = c1 THEN {a} ELSE {b}]
=============================================================================
