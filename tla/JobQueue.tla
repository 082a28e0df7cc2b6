------------------------------ MODULE JobQueue ------------------------------
(***************************************************************************)
(* What the JobQueue protocol of app/queue/base.py promises to the routes  *)
(* and to the workers, without saying how a backend stores a job.  A job   *)
(* is known by its ticket: the position at which it was accepted.  The     *)
(* backends are shown to implement this module by refinement.              *)
(*                                                                         *)
(* size() and position() do not appear: they change nothing.  enqueue()    *)
(* that answers False and dequeue() that answers None change nothing       *)
(* either, so a backend may always refuse or find nothing.                 *)
(***************************************************************************)
EXTENDS Integers, FiniteSets

CONSTANT MaxSize      \* queue_max_size; no limit when it is not positive

VARIABLES
  waiting,            \* tickets accepted and not yet handed out
  inflight,           \* tickets handed out and not yet completed
  owned,              \* tickets in flight that a live consumer still holds
  last                \* the last ticket issued

vars == <<waiting, inflight, owned, last>>

Init ==
  /\ waiting = {}
  /\ inflight = {}
  /\ owned = {}
  /\ last = 0

\* "Add a job to the queue. Returns False when the queue is at capacity."
Enqueue ==
  /\ MaxSize <= 0 \/ Cardinality(waiting) < MaxSize
  /\ last' \in Nat /\ last' > last
  /\ waiting' = waiting \cup {last'}
  /\ UNCHANGED <<inflight, owned>>

\* "Pop the next pending job and mark it as processing."  A consumer whose
\* answer gets lost does not know of its ticket.
Dequeue ==
  \E t \in waiting :
    /\ \A u \in waiting : t <= u
    /\ waiting' = waiting \ {t}
    /\ inflight' = inflight \cup {t}
    /\ owned' \in {owned, owned \cup {t}}
    /\ UNCHANGED last

\* "Remove a job after it has been processed (success or failure)."
Complete ==
  \E t \in owned :
    /\ inflight' = inflight \ {t}
    /\ owned' = owned \ {t}
    /\ UNCHANGED <<waiting, last>>

\* Consumers die, or fail to complete: their tickets stay in flight.  A
\* submission that fails may use up its ticket.
Abandon ==
  /\ owned' \in SUBSET owned
  /\ last' \in Nat /\ last' >= last
  /\ UNCHANGED <<waiting, inflight>>

\* "Recover jobs that were processing when the service last crashed": they
\* go back to their old place, at a time when no consumer lives.
Recover ==
  /\ owned = {}
  /\ waiting' = waiting \cup inflight
  /\ inflight' = {}
  /\ UNCHANGED <<owned, last>>

\* "Delete all pending jobs. In-flight jobs are not affected."
Purge ==
  /\ waiting' = {}
  /\ UNCHANGED <<inflight, owned, last>>

Next == Enqueue \/ Dequeue \/ Complete \/ Abandon \/ Recover \/ Purge

Spec == Init /\ [][Next]_vars
=============================================================================
