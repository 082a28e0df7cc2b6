---------------------------- MODULE SQLiteQueue ----------------------------
(***************************************************************************)
(* SQLiteJobQueue of app/queue/db_queue.py, one SQL statement or           *)
(* transaction at a time.                                                  *)
(*                                                                         *)
(* Every operation runs on a thread of its service process                 *)
(* (asyncio.to_thread), so operations of one process overlap; each process *)
(* has one RLock (self._lock), and the file queue.db may be opened by      *)
(* several processes.  A step is one statement committed to the file:      *)
(*   - dequeue, complete and purge are one transaction each;               *)
(*   - enqueue is two: the SELECT COUNT runs in autocommit, the INSERT     *)
(*     opens and commits a transaction of its own.  Between them the       *)
(*     thread keeps the RLock of its process;                              *)
(*   - position is two SELECTs, and takes no lock.                         *)
(* What lives in the file survives Crash; Start is __init__ with           *)
(* _init_table.  size(), and the answers False, None and 0 that an         *)
(* operation gives at its first statement, change nothing: no action.      *)
(*                                                                         *)
(* A definition X_Y, before X, is a faulty variant of X, in the way the    *)
(* code could be wrong; nothing uses it.  Each shows that some property    *)
(* notices.                                                                *)
(***************************************************************************)
EXTENDS Integers, FiniteSets

CONSTANTS
  Process,            \* service processes that open the same queue.db
  Client,             \* threads that serve requests
  Worker,             \* threads that serve the run_worker tasks
  Home,               \* the process of each thread
  Photo,              \* photo ids
  NoPhoto,            \* the photo of no row
  MaxSize,            \* queue_max_size
  MaxJobs             \* bound: rows ever inserted

Thread == Client \cup Worker
JobId == 1 .. MaxJobs

ASSUME SQLiteAssumption ==
  /\ Client \cap Worker = {}
  /\ Home \in [Thread -> Process]
  /\ NoPhoto \notin Photo
  /\ MaxSize \in Int
  /\ MaxJobs \in Nat

VARIABLES
  (* queue.db *)
  status,             \* status column per row id, "none" where no row
  photo,              \* photo_id column per row id
  lastId,             \* the AUTOINCREMENT sequence
  (* processes and their threads *)
  up,                 \* does the process run?
  pc,                 \* what a request thread does inside its operation
  arg,                \* photo_id argument of the operation
  seen,               \* what its first SELECT returned: a row id, or 0
  held                \* the job a worker got from dequeue, 0 for none

db == <<status, photo, lastId>>
calls == <<pc, arg, seen>>
vars == <<db, up, calls, held>>

Pending == {j \in JobId : status[j] = "pending"}
Processing == {j \in JobId : status[j] = "processing"}
Rows == Pending \cup Processing

\* "row[0] >= max_size and max_size > 0" answers False.
HasRoom(n) == MaxSize <= 0 \/ n < MaxSize

\* Without "with self._lock".
LockFree_NoLock(P) == TRUE

\* Is the RLock of this process free?  Only an enqueue keeps it over a step.
LockFree(P) == \A c \in Client : Home[c] = P => pc[c] # "insert"

\* A thread may start an operation that takes the lock.
MayRun(t) == up[Home[t]] /\ LockFree(Home[t])

Init ==
  /\ status = [j \in JobId |-> "none"]
  /\ photo = [j \in JobId |-> NoPhoto]
  /\ lastId = 0
  /\ up = [P \in Process |-> FALSE]
  /\ pc = [c \in Client |-> "idle"]
  /\ arg = [c \in Client |-> NoPhoto]
  /\ seen = [c \in Client |-> 0]
  /\ held = [w \in Worker |-> 0]

-----------------------------------------------------------------------------
(* _enqueue_sync *)

\* SELECT COUNT(*) ... 'pending', when it finds room.
EnqueueCount(c, p) ==
  /\ MayRun(c)
  /\ pc[c] = "idle"
  /\ lastId < MaxJobs
  /\ HasRoom(Cardinality(Pending))
  /\ pc' = [pc EXCEPT ![c] = "insert"]
  /\ arg' = [arg EXCEPT ![c] = p]
  /\ UNCHANGED <<db, up, seen, held>>

\* INSERT and commit; AUTOINCREMENT never reuses an id.
EnqueueInsert(c) ==
  /\ pc[c] = "insert"
  /\ lastId < MaxJobs
  /\ lastId' = lastId + 1
  /\ status' = [status EXCEPT ![lastId + 1] = "pending"]
  /\ photo' = [photo EXCEPT ![lastId + 1] = arg[c]]
  /\ pc' = [pc EXCEPT ![c] = "idle"]
  /\ arg' = [arg EXCEPT ![c] = NoPhoto]
  /\ UNCHANGED <<up, seen, held>>

\* INSERT or commit raises (locked, disk full): close() rolls back.
EnqueueFails(c) ==
  /\ pc[c] = "insert"
  /\ pc' = [pc EXCEPT ![c] = "idle"]
  /\ arg' = [arg EXCEPT ![c] = NoPhoto]
  /\ UNCHANGED <<db, up, seen, held>>

-----------------------------------------------------------------------------
(* _dequeue_sync, _complete_sync, _purge_sync *)

\* ORDER BY id DESC.
Dequeue_NewestFirst(w) ==
  /\ MayRun(w)
  /\ held[w] = 0
  /\ \E j \in Pending :
       /\ \A k \in Pending : j >= k
       /\ status' = [status EXCEPT ![j] = "processing"]
       /\ held' = [held EXCEPT ![w] = j]
  /\ UNCHANGED <<photo, lastId, up, calls>>

\* BEGIN EXCLUSIVE; SELECT ... ORDER BY id LIMIT 1; UPDATE; COMMIT.
Dequeue(w) ==
  /\ MayRun(w)
  /\ held[w] = 0
  /\ \E j \in Pending :
       /\ \A k \in Pending : j <= k
       /\ status' = [status EXCEPT ![j] = "processing"]
       /\ held' = [held EXCEPT ![w] = j]
  /\ UNCHANGED <<photo, lastId, up, calls>>

\* UPDATE ... SET status = 'done' in place of the DELETE.
Complete_KeepsRow(w) ==
  /\ MayRun(w)
  /\ held[w] # 0
  /\ status' = [status EXCEPT ![held[w]] = "done"]
  /\ held' = [held EXCEPT ![w] = 0]
  /\ UNCHANGED <<photo, lastId, up, calls>>

\* DELETE ... WHERE photo_id = ?, which takes the photo's other jobs along.
Complete_ByPhoto(w) ==
  /\ MayRun(w)
  /\ held[w] # 0
  /\ status' = [j \in JobId |->
                  IF photo[j] = photo[held[w]] THEN "none" ELSE status[j]]
  /\ held' = [held EXCEPT ![w] = 0]
  /\ UNCHANGED <<photo, lastId, up, calls>>

\* DELETE ... WHERE id = ?; by now the row may be in any state.
Complete(w) ==
  /\ MayRun(w)
  /\ held[w] # 0
  /\ status' = [status EXCEPT ![held[w]] = "none"]
  /\ photo' = [photo EXCEPT ![held[w]] = NoPhoto]
  /\ held' = [held EXCEPT ![w] = 0]
  /\ UNCHANGED <<lastId, up, calls>>

\* DELETE or commit raises; run_worker logs it and takes the next job.
CompleteFails(w) ==
  /\ MayRun(w)
  /\ held[w] # 0
  /\ held' = [held EXCEPT ![w] = 0]
  /\ UNCHANGED <<db, up, calls>>

\* DELETE FROM job_queue, of every row.
Purge_AllRows(c) ==
  /\ MayRun(c)
  /\ pc[c] = "idle"
  /\ status' = [j \in JobId |-> "none"]
  /\ photo' = [j \in JobId |-> NoPhoto]
  /\ UNCHANGED <<lastId, up, calls, held>>

\* DELETE ... WHERE status = 'pending'.
Purge(c) ==
  /\ MayRun(c)
  /\ pc[c] = "idle"
  /\ status' = [j \in JobId |-> IF j \in Pending THEN "none" ELSE status[j]]
  /\ photo' = [j \in JobId |-> IF j \in Pending THEN NoPhoto ELSE photo[j]]
  /\ UNCHANGED <<lastId, up, calls, held>>

-----------------------------------------------------------------------------
(* _position_sync *)

RowsOf(p) == {j \in Rows : photo[j] = p}

\* Without "id <= ?".
Rank_OfAll(j) == Cardinality(Pending)

\* "id < ?", a 0-based rank.
Rank_Strict(j) == Cardinality({k \in Pending : k < j})

\* "SELECT COUNT(*) ... status = 'pending' AND id <= ?"
Rank(j) == Cardinality({k \in Pending : k <= j})

\* The first SELECT, when the photo's oldest row is pending.
PositionFind(c, p) ==
  /\ up[Home[c]]
  /\ pc[c] = "idle"
  /\ \E j \in RowsOf(p) :
       /\ \A k \in RowsOf(p) : j <= k
       /\ status[j] = "pending"
       /\ seen' = [seen EXCEPT ![c] = j]
  /\ pc' = [pc EXCEPT ![c] = "rank"]
  /\ arg' = [arg EXCEPT ![c] = p]
  /\ UNCHANGED <<db, up, held>>

\* The second SELECT; the answer is Rank(seen[c]) in this state.
PositionRank(c) ==
  /\ pc[c] = "rank"
  /\ pc' = [pc EXCEPT ![c] = "idle"]
  /\ arg' = [arg EXCEPT ![c] = NoPhoto]
  /\ seen' = [seen EXCEPT ![c] = 0]
  /\ UNCHANGED <<db, up, held>>

-----------------------------------------------------------------------------
(* Processes *)

\* A process dies with all its threads; an uncommitted INSERT is lost.
Crash(P) ==
  /\ up[P]
  /\ up' = [up EXCEPT ![P] = FALSE]
  /\ pc' = [c \in Client |-> IF Home[c] = P THEN "idle" ELSE pc[c]]
  /\ arg' = [c \in Client |-> IF Home[c] = P THEN NoPhoto ELSE arg[c]]
  /\ seen' = [c \in Client |-> IF Home[c] = P THEN 0 ELSE seen[c]]
  /\ held' = [w \in Worker |-> IF Home[w] = P THEN 0 ELSE held[w]]
  /\ UNCHANGED db

\* _init_table: UPDATE ... SET status = 'pending' WHERE status = 'processing'.
Start(P) ==
  /\ ~up[P]
  /\ up' = [up EXCEPT ![P] = TRUE]
  /\ status' = [j \in JobId |->
                  IF j \in Processing THEN "pending" ELSE status[j]]
  /\ UNCHANGED <<photo, lastId, calls, held>>

ClientStep(c) ==
  \/ \E p \in Photo : EnqueueCount(c, p)
  \/ EnqueueInsert(c)
  \/ EnqueueFails(c)
  \/ Purge(c)
  \/ \E p \in Photo : PositionFind(c, p)
  \/ PositionRank(c)

WorkerStep(w) == Dequeue(w) \/ Complete(w) \/ CompleteFails(w)

ProcessStep(P) == Crash(P) \/ Start(P)

Next ==
  \/ \E c \in Client : ClientStep(c)
  \/ \E w \in Worker : WorkerStep(w)
  \/ \E P \in Process : ProcessStep(P)

Spec == Init /\ [][Next]_vars

-----------------------------------------------------------------------------
(* Properties *)

TypeOK ==
  /\ status \in [JobId -> {"none", "pending", "processing"}]
  /\ photo \in [JobId -> Photo \cup {NoPhoto}]
  /\ lastId \in 0 .. MaxJobs
  /\ up \in [Process -> BOOLEAN]
  /\ pc \in [Client -> {"idle", "insert", "rank"}]
  /\ arg \in [Client -> Photo \cup {NoPhoto}]
  /\ seen \in [Client -> 0 .. MaxJobs]
  /\ held \in [Worker -> 0 .. MaxJobs]

\* First in, first out, through crashes and recoveries and with any number
\* of processes: whatever was handed out is older than whatever waits.
\* (dequeue's ORDER BY id, AUTOINCREMENT, and recovery of all rows at once.)
FifoFrontier == \A i \in Processing, j \in Pending : i < j

\* At most one process has the file open: the deployment in the Dockerfile.
SingleProcess == \A P, Q \in Process : P = Q

\* A job handed out by dequeue is its worker's alone until that worker
\* completes it: no second worker gets it and purge does not touch it
\* (base.py: "In-flight jobs are not affected").
OneHolder ==
  /\ \A w \in Worker : held[w] # 0 => held[w] \in Processing
  /\ \A v, w \in Worker : held[v] = held[w] /\ held[v] # 0 => v = w

\* No enqueue leaves more than max_size jobs pending, although it counts and
\* inserts in two transactions (settings.py, queue_max_size).
CapacityRespected ==
  [][lastId' # lastId => MaxSize <= 0 \/ Cardinality(Pending') <= MaxSize]_vars

\* A single process with its file implements the protocol of base.py.
JQ == INSTANCE JobQueue WITH
        waiting <- Pending,
        inflight <- Processing,
        owned <- {held[w] : w \in Worker} \ {0},
        last <- lastId

ImplementsJobQueue == JQ!Spec
=============================================================================
