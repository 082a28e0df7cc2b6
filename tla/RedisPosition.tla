--------------------------- MODULE RedisPosition ---------------------------
(***************************************************************************)
(* Is what position() answers true, with Redis?  HVALS and LRANGE are two  *)
(* commands; the event loop keeps the tasks of the same replica from       *)
(* stepping between them, not those of the others.  As in SQLitePosition,  *)
(* the module adds for each call under way the set of the answers that     *)
(* were right at some moment since its first command; and the tickets of   *)
(* its photo that were then on their way from the list into the hash,      *)
(* which neither of the two commands may have seen.                        *)
(***************************************************************************)
EXTENDS RedisQueue

VARIABLES
  truth,              \* per client, the answers right since its call began
  moved               \* per client, tickets between LPOP and HSET since then

NotQueued == -1       \* None

\* idx + 1 of the first item of the photo, None if there is none.
ListRank(p) ==
  LET here == {i \in DOMAIN jobs : PhotoOf(jobs[i]) = p}
  IN IF here = {} THEN NotQueued
     ELSE CHOOSE i \in here : \A k \in here : i <= k

\* A worker has a job of the photo.
InHand(p) == \E w \in Worker : held[w] # 0 /\ PhotoOf(held[w]) = p

\* base.py, position: 0 "if the job is currently being processed", else the
\* "1-based rank of photo_id in the pending queue", None if it is "not
\* present".  Nobody processes a job whose worker died or whose dequeue() or
\* complete() raised, and it is in the list no more.
Answer(p) ==
  IF InHand(p) THEN 0
  ELSE LET here == {t \in Waiting : PhotoOf(t) = p}
       IN IF here = {} THEN NotQueued
          ELSE Cardinality({t \in Waiting : \A u \in here : t < u}) + 1

\* What a call adds to what it has seen so far, if it is under way.
Since(c, seen, now) ==
  IF pc'[c] # "range" THEN {}
  ELSE (IF pc[c] = "range" THEN seen ELSE {}) \cup now

Observe ==
  /\ truth' = [c \in Client |->
       Since(c, truth[c], {Answer(p)' : p \in {q \in Photo : q = arg'[c]}})]
  /\ moved' = [c \in Client |->
       Since(c, moved[c], {t \in Between : PhotoOf(t) = arg[c]}')]

ObservedInit ==
  /\ Init
  /\ truth = [c \in Client |-> {}]
  /\ moved = [c \in Client |-> {}]

\* Next /\ Observe, written out so that TLC reports on each action.
ObservedNext ==
  \/ \E c \in Client, p \in Photo :
       \/ EnqueueIncr(c, p) /\ Observe
       \/ PositionHash(c, p) /\ Observe
  \/ \E c \in Client :
       \/ EnqueueLen(c) /\ Observe
       \/ EnqueuePush(c) /\ Observe
       \/ EnqueueRepeats(c) /\ Observe
       \/ EnqueueRaises(c) /\ Observe
       \/ Purge(c) /\ Observe
       \/ PositionList(c) /\ Observe
  \/ \E w \in Worker :
       \/ DequeuePop(w) /\ Observe
       \/ DequeueHset(w) /\ Observe
       \/ DequeueRaises(w) /\ Observe
       \/ Complete(w) /\ Observe
       \/ CompleteRaises(w) /\ Observe
  \/ \E P \in Process :
       \/ Crash(P) /\ Observe
       \/ Start(P) /\ Observe

ObservedSpec == ObservedInit /\ [][ObservedNext]_<<vars, truth, moved>>

ObservedFairSpec == ObservedSpec /\ Fairness

-----------------------------------------------------------------------------
(* Properties *)

\* The answer a call would give now.
Given(c) == ListRank(arg[c])

\* api.md, 404: "The job is not in the queue -- it has already completed or
\* was never submitted."  Said only if that was so at some moment.
NotFoundMeansDone ==
  \A c \in Client :
    pc[c] = "range" /\ Given(c) = NotQueued => NotQueued \in truth[c]

\* The job of this ticket was pushed a second time.
PushedTwice(t) == \E u \in DOMAIN pushed : u # t /\ pushed[u] = pushed[t]

\* A job in the hash was seen when the call began, and one that stays in the
\* list is counted: an answer that was never right misses a job that a worker
\* has and that left the list for the hash during the call.  (The first copy
\* of a job whose RPUSH was repeated takes the key of the second with it.)
MissedOnlyByHandOver ==
  \A c \in Client :
    pc[c] = "range" /\ Given(c) \notin truth[c]
      => \E w \in Worker :
           /\ held[w] # 0 /\ PhotoOf(held[w]) = arg[c]
           /\ held[w] \in moved[c] \/ PushedTwice(held[w])

\* A ticket whose key is in the hash, and that no worker has.
LeftBehind == Recorded \ {held[w] : w \in Worker}

\* HVALS answers 0 for a photo with a job in the hash.  Where no worker has
\* one, a replica died or a command failed, and left the entry behind.
ZeroOnlyIfLeftBehind ==
  \A j \in inflight :
    Answer(photo[j]) # 0 =>
      faults > 0 /\ \E t \in LeftBehind : PhotoOf(t) = photo[j]

\* api.md, GET /queue/{photo_id}: "position is 1-based", 0 "means the job is
\* currently being processed", 404 that it is not there -- wrong only for a
\* job that another replica moves into the hash during the call, or that a
\* fault left there.
PositionErrorsExplained == MissedOnlyByHandOver /\ ZeroOnlyIfLeftBehind
=============================================================================
