-------------------------- MODULE SQLitePosition ---------------------------
(***************************************************************************)
(* Is what position() answers true?  _position_sync reads twice without    *)
(* the lock, so other threads step between its two SELECTs.  This module   *)
(* adds to SQLiteQueue, for each call under way, the set of the answers    *)
(* that were right at some moment since the call began.  An answer taken   *)
(* from this set is as good as an atomic one.                              *)
(***************************************************************************)
EXTENDS SQLiteQueue

VARIABLE truth        \* per client, the answers right since its call began

NotQueued == -1       \* None

\* base.py, position: the "1-based rank of photo_id in the pending queue",
\* 0 "if the job is currently being processed", None if it is not present.
\* A photo submitted twice is answered for its older job.
Answer(p) ==
  IF RowsOf(p) = {} THEN NotQueued
  ELSE LET j == CHOOSE i \in RowsOf(p) : \A k \in RowsOf(p) : i <= k
       IN IF status[j] = "processing" THEN 0
          ELSE Cardinality({k \in Pending : k < j}) + 1

Observe ==
  truth' = [c \in Client |->
              IF pc'[c] # "rank" THEN {}
              ELSE (IF pc[c] = "rank" THEN truth[c] ELSE {})
                     \cup {Answer(p)' : p \in {q \in Photo : q = arg'[c]}}]

ObservedInit == Init /\ truth = [c \in Client |-> {}]

\* Next /\ Observe, written out so that TLC reports on each action.
ObservedNext ==
  \/ \E c \in Client, p \in Photo :
       \/ EnqueueCount(c, p) /\ Observe
       \/ PositionFind(c, p) /\ Observe
  \/ \E c \in Client :
       \/ EnqueueInsert(c) /\ Observe
       \/ EnqueueFails(c) /\ Observe
       \/ Purge(c) /\ Observe
       \/ PositionRank(c) /\ Observe
  \/ \E w \in Worker :
       \/ Dequeue(w) /\ Observe
       \/ Complete(w) /\ Observe
       \/ CompleteFails(w) /\ Observe
  \/ \E P \in Process :
       \/ Crash(P) /\ Observe
       \/ Start(P) /\ Observe

ObservedSpec == ObservedInit /\ [][ObservedNext]_<<vars, truth>>

-----------------------------------------------------------------------------
(* Properties *)

\* The answer a call would give now.
Given(c) == Rank(seen[c])

\* api.md: "position: 0 means the job is currently being processed".  The
\* unlocked second SELECT can only err one way: it answers 0 for a job that
\* was pending when the call began and was purged since.  Overtaking,
\* completion, new jobs and the same photo's other jobs are all harmless.
PositionErrsOnlyByPurge ==
  \A c \in Client :
    pc[c] = "rank" /\ Given(c) \notin truth[c]
      => /\ Given(c) = 0
         /\ status[seen[c]] = "none"
         /\ 0 \notin truth[c]

\* While a call is under way the rank it would answer never grows: nobody
\* overtakes a waiting job (FIFO as the caller of position sees it).
RankNeverGrows ==
  [][\A c \in Client : pc[c] = "rank" /\ pc'[c] = "rank"
                         => Given(c)' <= Given(c)]_<<vars, truth>>
=============================================================================
