------------------------------ MODULE PgQueue ------------------------------
(***************************************************************************)
(* PgJobQueue of app/queue/db_queue.py, one SQL statement at a time, on    *)
(* PostgreSQL's READ COMMITTED.                                            *)
(*                                                                         *)
(* Every process has one connection and holds its RLock for a whole        *)
(* operation, also while a statement waits for a row lock; replicas on one *)
(* database interleave freely.  psycopg2 opens a transaction with the      *)
(* first statement.  What enqueue() (when it answers False), size() and    *)
(* position() leave open has only read, and does no harm at this isolation *)
(* level.  A statement that the server refuses leaves the transaction      *)
(* aborted: later statements raise too, until a rollback, and only         *)
(* dequeue() rolls back.  A connection that breaks is opened anew by the   *)
(* next operation.                                                         *)
(*                                                                         *)
(* In two places the model allows more than PostgreSQL and the RLock do: a *)
(* dequeue may take a row that an uncommitted purge has deleted already    *)
(* (SKIP LOCKED skips it), and the other threads of a replica may run      *)
(* while its complete() waits for a row lock.                              *)
(*                                                                         *)
(* A definition X_Y, before X, is a faulty variant of X, in the way the    *)
(* code could be wrong; nothing uses it.  Each shows that some property    *)
(* notices.                                                                *)
(***************************************************************************)
EXTENDS Integers, FiniteSets

CONSTANTS
  Process,            \* replicas that use the same database
  Client,             \* threads that serve requests
  Worker,             \* threads that serve the run_worker tasks
  Home,               \* the process of each thread
  MaxSize,            \* queue_max_size
  MaxJobs,            \* bound: ids drawn from the SERIAL sequence
  MaxFaults           \* bound: crashes, refused statements, lost connections

Thread == Client \cup Worker
JobId == 1 .. MaxJobs

ASSUME PgAssumption ==
  /\ Client \cap Worker = {}
  /\ IsFiniteSet(Worker)
  /\ Home \in [Thread -> Process]
  /\ MaxSize \in Int
  /\ MaxJobs \in Nat
  /\ MaxFaults \in Nat

VARIABLES
  (* the database *)
  status,             \* status column of the committed rows, "none" elsewhere
  lastId,             \* the SERIAL sequence, which no rollback takes back
  (* processes and their threads *)
  up,                 \* does the process run?
  aborted,            \* is the transaction of its connection aborted?
  pc,                 \* the statement a thread is about to send, if any
  row,                \* the row that its transaction has written or locked
  doomed,             \* rows that the DELETE of a purge found
  held,               \* the job a worker got from dequeue, 0 for none
  (* history *)
  retaken,            \* jobs that a Start put back while a worker ran them
  faults              \* how many faults there were

threads == <<pc, row, doomed, held>>
vars == <<status, lastId, up, aborted, threads, retaken, faults>>

Pending == {j \in JobId : status[j] = "pending"}
Processing == {j \in JobId : status[j] = "processing"}

\* SELECT without FOR UPDATE.
Locked_Nothing == {}

\* Rows that a dequeue between its two statements keeps locked.
Locked == {row[w] : w \in {v \in Worker : pc[v] = "update"}}

HasRoom(n) == MaxSize <= 0 \/ n < MaxSize

\* A thread may start an operation: it gets the RLock.
MayRun(t) ==
  /\ up[Home[t]]
  /\ pc[t] \in {"idle", "running"}
  /\ \A u \in Thread : Home[u] = Home[t] => pc[u] \in {"idle", "running"}

\* ... and its first statement is not refused for an earlier one's sake.
MayQuery(t) == MayRun(t) /\ ~aborted[Home[t]]

Fault == faults < MaxFaults /\ faults' = faults + 1

\* A statement is refused.
Abort(P) == aborted' = [aborted EXCEPT ![P] = TRUE]

Goto(t, to) == pc' = [pc EXCEPT ![t] = to]

Init ==
  /\ status = [j \in JobId |-> "none"]
  /\ lastId = 0
  /\ up = [P \in Process |-> FALSE]
  /\ aborted = [P \in Process |-> FALSE]
  /\ pc = [t \in Thread |-> "idle"]
  /\ row = [t \in Thread |-> 0]
  /\ doomed = [c \in Client |-> {}]
  /\ held = [w \in Worker |-> 0]
  /\ retaken = {}
  /\ faults = 0

-----------------------------------------------------------------------------
(* _enqueue_sync *)

\* SELECT COUNT(*) ... 'pending', when it finds room.
EnqueueCount(c) ==
  /\ MayQuery(c)
  /\ lastId + Cardinality({d \in Client : pc[d] = "insert"}) < MaxJobs
  /\ HasRoom(Cardinality(Pending))
  /\ Goto(c, "insert")
  /\ UNCHANGED <<status, lastId, up, aborted, row, doomed, held, retaken, faults>>

\* INSERT: the row gets its id, and nobody else sees it.
EnqueueInsert(c) ==
  /\ pc[c] = "insert"
  /\ lastId < MaxJobs
  /\ lastId' = lastId + 1
  /\ row' = [row EXCEPT ![c] = lastId + 1]
  /\ Goto(c, "commit")
  /\ UNCHANGED <<status, up, aborted, doomed, held, retaken, faults>>

\* commit, whether or not its answer arrives.
EnqueueCommit(c) ==
  /\ pc[c] = "commit"
  /\ status' = [status EXCEPT ![row[c]] = "pending"]
  /\ row' = [row EXCEPT ![c] = 0]
  /\ Goto(c, "idle")
  /\ UNCHANGED <<lastId, up, aborted, doomed, held, retaken, faults>>

-----------------------------------------------------------------------------
(* _dequeue_sync *)

\* Takes no job while another one is being processed.
Free_OneAtATime == IF Processing = {} THEN Pending \ Locked ELSE {}

\* FOR UPDATE SKIP LOCKED.
Free == Pending \ Locked

\* A connection for each dequeue: enqueue, complete and position may fail on
\* the other one for ever.
DequeueSelect_OwnConnection(w) ==
  /\ MayRun(w)
  /\ held[w] = 0
  /\ \E j \in Free :
       /\ \A k \in Free : j <= k
       /\ row' = [row EXCEPT ![w] = j]
  /\ Goto(w, "update")
  /\ UNCHANGED <<status, lastId, up, aborted, doomed, held, retaken, faults>>

\* SELECT ... ORDER BY id LIMIT 1 FOR UPDATE SKIP LOCKED.
DequeueSelect(w) ==
  /\ MayQuery(w)
  /\ held[w] = 0
  /\ \E j \in Free :
       /\ \A k \in Free : j <= k
       /\ row' = [row EXCEPT ![w] = j]
  /\ Goto(w, "update")
  /\ UNCHANGED <<status, lastId, up, aborted, doomed, held, retaken, faults>>

\* UPDATE job_queue SET status = 'processing' WHERE id = %s.
Mark(j) == [status EXCEPT ![j] = IF @ = "none" THEN @ ELSE "processing"]

\* UPDATE and commit; the worker runs the job.
DequeueUpdate(w) ==
  /\ pc[w] = "update"
  /\ status' = Mark(row[w])
  /\ held' = [held EXCEPT ![w] = row[w]]
  /\ row' = [row EXCEPT ![w] = 0]
  /\ Goto(w, "running")
  /\ UNCHANGED <<lastId, up, aborted, doomed, retaken, faults>>

\* UPDATE is refused and rolled back, or the answer of commit is lost.
DequeueRaises(w) ==
  /\ pc[w] = "update"
  /\ Fault
  /\ status' \in {status, Mark(row[w])}
  /\ row' = [row EXCEPT ![w] = 0]
  /\ Goto(w, "idle")
  /\ UNCHANGED <<lastId, up, aborted, doomed, held, retaken>>

\* Raises without the rollback.
Rollback_Missing(P) == UNCHANGED aborted

\* conn.rollback() in the except clause.
Rollback(P) == aborted' = [aborted EXCEPT ![P] = FALSE]

\* The SELECT raises since the transaction is aborted.
DequeueHeals(w) ==
  /\ MayRun(w)
  /\ aborted[Home[w]]
  /\ held[w] = 0
  /\ Rollback(Home[w])
  /\ UNCHANGED <<status, lastId, up, threads, retaken, faults>>

-----------------------------------------------------------------------------
(* _complete_sync, _purge_sync, and calls that raise *)

\* DELETE FROM job_queue WHERE id = %s.
Delete(j) == status' = [status EXCEPT ![j] = "none"]

\* DELETE, which waits while another process has the row locked, and commit.
Complete(w) ==
  /\ MayQuery(w)
  /\ held[w] # 0
  /\ held[w] \notin Locked
  /\ Delete(held[w])
  /\ held' = [held EXCEPT ![w] = 0]
  /\ Goto(w, "idle")
  /\ UNCHANGED <<lastId, up, aborted, row, doomed, retaken, faults>>

\* complete raises, in a transaction aborted before or by this DELETE, or
\* with its connection; run_worker logs it and takes the next job.
CompleteRaises(w) ==
  /\ MayRun(w)
  /\ held[w] # 0
  /\ \/ aborted[Home[w]] /\ UNCHANGED <<aborted, faults>>
     \/ Fault /\ (UNCHANGED aborted \/ Abort(Home[w]))
  /\ held' = [held EXCEPT ![w] = 0]
  /\ Goto(w, "idle")
  /\ UNCHANGED <<status, lastId, up, row, doomed, retaken>>

\* DELETE ... WHERE status = 'pending' finds its rows.  None counts as locked.
PurgeFind(c) ==
  /\ MayQuery(c)
  /\ doomed' = [doomed EXCEPT ![c] = Pending]
  /\ Goto(c, "purge")
  /\ UNCHANGED <<status, lastId, up, aborted, row, held, retaken, faults>>

\* ... waits for those that are locked, leaves those that are pending no
\* longer, and commits.
PurgeCommit(c) ==
  /\ pc[c] = "purge"
  /\ doomed[c] \cap Locked = {}
  /\ status' = [j \in JobId |->
                  IF j \in doomed[c] \cap Pending THEN "none" ELSE status[j]]
  /\ doomed' = [doomed EXCEPT ![c] = {}]
  /\ Goto(c, "idle")
  /\ UNCHANGED <<lastId, up, aborted, row, held, retaken, faults>>

\* A statement of enqueue, size, position or purge is refused, or takes the
\* connection and its transaction with it.
CallRaises(c) ==
  /\ MayRun(c) \/ pc[c] # "idle"
  /\ Fault
  /\ \/ pc[c] # "commit" /\ Abort(Home[c])
     \/ pc[c] # "idle" /\ UNCHANGED aborted
  /\ row' = [row EXCEPT ![c] = 0]
  /\ doomed' = [doomed EXCEPT ![c] = {}]
  /\ Goto(c, "idle")
  /\ UNCHANGED <<status, lastId, up, held, retaken>>

-----------------------------------------------------------------------------
(* Processes *)

\* A process dies, and its transaction is rolled back.
Crash(P) ==
  /\ up[P]
  /\ Fault
  /\ up' = [up EXCEPT ![P] = FALSE]
  /\ aborted' = [aborted EXCEPT ![P] = FALSE]
  /\ pc' = [t \in Thread |-> IF Home[t] = P THEN "idle" ELSE pc[t]]
  /\ row' = [t \in Thread |-> IF Home[t] = P THEN 0 ELSE row[t]]
  /\ doomed' = [c \in Client |-> IF Home[c] = P THEN {} ELSE doomed[c]]
  /\ held' = [w \in Worker |-> IF Home[w] = P THEN 0 ELSE held[w]]
  /\ UNCHANGED <<status, lastId, retaken>>

\* _init_table: UPDATE ... SET status = 'pending' WHERE status = 'processing',
\* of every replica's rows.
Start(P) ==
  /\ ~up[P]
  /\ up' = [up EXCEPT ![P] = TRUE]
  /\ status' = [j \in JobId |->
                  IF j \in Processing THEN "pending" ELSE status[j]]
  /\ retaken' = retaken \cup (Processing \cap {held[w] : w \in Worker})
  /\ UNCHANGED <<lastId, aborted, threads, faults>>

ClientStep(c) ==
  \/ EnqueueCount(c) \/ EnqueueInsert(c) \/ EnqueueCommit(c)
  \/ PurgeFind(c) \/ PurgeCommit(c) \/ CallRaises(c)

WorkerStep(w) ==
  \/ DequeueSelect(w) \/ DequeueUpdate(w) \/ DequeueRaises(w) \/ DequeueHeals(w)
  \/ Complete(w) \/ CompleteRaises(w)

ProcessStep(P) == Crash(P) \/ Start(P)

Next ==
  \/ \E c \in Client : ClientStep(c)
  \/ \E w \in Worker : WorkerStep(w)
  \/ \E P \in Process : ProcessStep(P)

Spec == Init /\ [][Next]_vars

\* A thread that is inside an operation finishes it.
Respond(c) == EnqueueInsert(c) \/ EnqueueCommit(c) \/ PurgeCommit(c)

\* Statements are answered and inference terminates; a worker that asks for
\* the RLock twice a second gets it; the container is started again.
Fairness ==
  /\ \A c \in Client : WF_vars(Respond(c))
  /\ \A w \in Worker : SF_vars(WorkerStep(w))
  /\ \A P \in Process : WF_vars(Start(P))

FairSpec == Spec /\ Fairness

-----------------------------------------------------------------------------
(* Properties *)

TypeOK ==
  /\ status \in [JobId -> {"none", "pending", "processing"}]
  /\ lastId \in 0 .. MaxJobs
  /\ up \in [Process -> BOOLEAN]
  /\ aborted \in [Process -> BOOLEAN]
  /\ pc \in [Thread -> {"idle", "insert", "commit", "purge", "update", "running"}]
  /\ row \in [Thread -> JobId \cup {0}]
  /\ doomed \in [Client -> SUBSET JobId]
  /\ held \in [Worker -> JobId \cup {0}]
  /\ retaken \in SUBSET JobId
  /\ faults \in 0 .. MaxFaults

\* db_queue.py: "SELECT ... FOR UPDATE SKIP LOCKED allows multiple workers".
\* Two workers, of whatever replicas, have the same job only if a replica
\* that started in between put it back.
OneHolder ==
  \A v, w \in Worker :
    v # w /\ held[v] = held[w] /\ held[v] # 0 => held[v] \in retaken

\* A job that a worker gets is marked in the table, so that its photo has a
\* position and a crash does not lose it: no purge or completion comes between
\* the two statements of dequeue().
TakenIsMarked ==
  [][\A w \in Worker :
       held'[w] # held[w] /\ held'[w] # 0 => status'[held'[w]] = "processing"]_vars

\* A row that stays "processing" with no worker on it is one whose worker met
\* a fault, its own or, in the transaction it aborted, another call's: one
\* fault strands one job per worker of a replica at most.
StrandedBounded ==
  \E P \in Process :
    Cardinality(Processing \ {held[w] : w \in Worker})
      <= faults * Cardinality({w \in Worker : Home[w] = P})

\* A refused statement puts its replica's queue out of order only until a
\* worker calls dequeue() again.
AbortedHeals == \A P \in Process : aborted[P] ~> ~aborted[P]

\* The last id whose INSERT is committed or given up.
Issued == IF \E c \in Client : pc[c] = "commit" THEN lastId - 1 ELSE lastId

JQ == INSTANCE JobQueue WITH
        waiting <- Pending,
        inflight <- Processing,
        owned <- {held[w] : w \in Worker} \ {0},
        last <- Issued

\* One replica alone uses the table as base.py intends, whatever statements
\* are refused and wherever it dies.
ImplementsJobQueue == JQ!Spec

\* A committed job is taken or purged, whatever replica it was sent to.
PendingTaken == \A j \in JobId : j \in Pending ~> j \notin Pending
=============================================================================
