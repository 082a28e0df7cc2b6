------------------------- MODULE SQLiteQueueProofs -------------------------
(***************************************************************************)
(* Proofs about SQLiteQueue, for every number of processes, threads,       *)
(* photos and rows.  The argument goes up in layers, each using the ones   *)
(* below it: types; rows and ids (FifoInv); who holds what (HolderInv) and *)
(* what an enqueue knows while it has the lock (InsertInv), both for a     *)
(* single process; the refinement of JobQueue; and, for SQLitePosition,    *)
(* what position() knows between its two SELECTs (CallInv).                *)
(***************************************************************************)
EXTENDS SQLitePosition, FiniteSetTheorems, TLAPS

USE SQLiteAssumption

-----------------------------------------------------------------------------
(* Types *)

\* Every operation of db_queue.py keeps the columns and the threads' local
\* variables in their types.
THEOREM TypeCorrect == Spec => []TypeOK
<1>1. Init => TypeOK
  BY DEF Init, TypeOK, JobId
<1>2. TypeOK /\ [Next]_vars => TypeOK'
  <2> SUFFICES ASSUME TypeOK, [Next]_vars
               PROVE  TypeOK'
    OBVIOUS
  <2> USE DEF TypeOK, JobId, Thread, db, calls, Pending, Processing
  <2>1. ASSUME NEW c \in Client, NEW p \in Photo, EnqueueCount(c, p)
        PROVE  TypeOK'
    BY <2>1 DEF EnqueueCount
  <2>2. ASSUME NEW c \in Client, EnqueueInsert(c)
        PROVE  TypeOK'
    BY <2>2 DEF EnqueueInsert
  <2>3. ASSUME NEW c \in Client, EnqueueFails(c)
        PROVE  TypeOK'
    BY <2>3 DEF EnqueueFails
  <2>4. ASSUME NEW c \in Client, Purge(c)
        PROVE  TypeOK'
    BY <2>4 DEF Purge
  <2>5. ASSUME NEW c \in Client, NEW p \in Photo, PositionFind(c, p)
        PROVE  TypeOK'
    BY <2>5 DEF PositionFind, RowsOf, Rows
  <2>6. ASSUME NEW c \in Client, PositionRank(c)
        PROVE  TypeOK'
    BY <2>6 DEF PositionRank
  <2>7. ASSUME NEW w \in Worker, Dequeue(w)
        PROVE  TypeOK'
    BY <2>7 DEF Dequeue
  <2>8. ASSUME NEW w \in Worker, Complete(w)
        PROVE  TypeOK'
    BY <2>8 DEF Complete
  <2>9. ASSUME NEW w \in Worker, CompleteFails(w)
        PROVE  TypeOK'
    BY <2>9 DEF CompleteFails
  <2>10. ASSUME NEW P \in Process, Crash(P)
         PROVE  TypeOK'
    BY <2>10 DEF Crash
  <2>11. ASSUME NEW P \in Process, Start(P)
         PROVE  TypeOK'
    BY <2>11 DEF Start
  <2>12. CASE UNCHANGED vars
    BY <2>12 DEF vars
  <2>13. QED
    BY <2>1, <2>2, <2>3, <2>4, <2>5, <2>6, <2>7, <2>8, <2>9, <2>10, <2>11,
       <2>12 DEF Next, ClientStep, WorkerStep, ProcessStep
<1>3. QED
  BY <1>1, <1>2, PTL DEF Spec

-----------------------------------------------------------------------------
(* Rows and ids *)

\* AUTOINCREMENT: no row has an id that was not issued yet.
Fresh == \A j \in JobId : j > lastId => status[j] = "none"

\* FifoFrontier alone is not inductive: a new row must be younger than all.
FifoInv == Fresh /\ FifoFrontier

\* Steps that leave the table alone leave FifoInv alone.
LEMMA FifoSameRows ==
  ASSUME FifoInv, UNCHANGED <<status, lastId>>
  PROVE  FifoInv'
BY DEF FifoInv, Fresh, FifoFrontier, Pending, Processing

LEMMA FifoInvariant == Spec => []FifoInv
<1>1. Init => FifoInv
  BY DEF Init, FifoInv, Fresh, FifoFrontier, Pending, Processing
<1>2. TypeOK /\ FifoInv /\ [Next]_vars => FifoInv'
  <2> SUFFICES ASSUME TypeOK, FifoInv, [Next]_vars
               PROVE  FifoInv'
    OBVIOUS
  <2> USE DEF TypeOK, JobId, FifoInv, Fresh, FifoFrontier, Pending, Processing
  <2>1. ASSUME NEW c \in Client, EnqueueInsert(c)
        PROVE  FifoInv'
    BY <2>1 DEF EnqueueInsert
  <2>2. ASSUME NEW c \in Client, Purge(c)
        PROVE  FifoInv'
    BY <2>2 DEF Purge
  <2>3. ASSUME NEW w \in Worker, Dequeue(w)
        PROVE  FifoInv'
    BY <2>3 DEF Dequeue
  <2>4. ASSUME NEW w \in Worker, Complete(w)
        PROVE  FifoInv'
    BY <2>4 DEF Complete
  <2>5. ASSUME NEW P \in Process, Start(P)
        PROVE  FifoInv'
    BY <2>5 DEF Start
  <2>6. ASSUME NEW c \in Client,
               \/ \E p \in Photo : EnqueueCount(c, p) \/ PositionFind(c, p)
               \/ EnqueueFails(c) \/ PositionRank(c)
        PROVE  FifoInv'
    BY <2>6, FifoSameRows
    DEF EnqueueCount, PositionFind, EnqueueFails, PositionRank, db
  <2>7. ASSUME NEW w \in Worker, CompleteFails(w)
        PROVE  FifoInv'
    BY <2>7, FifoSameRows DEF CompleteFails, db
  <2>8. ASSUME NEW P \in Process, Crash(P)
        PROVE  FifoInv'
    BY <2>8, FifoSameRows DEF Crash, db
  <2>9. CASE UNCHANGED vars
    BY <2>9, FifoSameRows DEF vars, db
  <2>10. QED
    BY <2>1, <2>2, <2>3, <2>4, <2>5, <2>6, <2>7, <2>8, <2>9
    DEF Next, ClientStep, WorkerStep, ProcessStep
<1>3. QED
  BY <1>1, <1>2, TypeCorrect, PTL DEF Spec

\* FIFO holds for any number of processes on one file, through crashes and
\* through the recovery of each start, whatever a late complete() deletes.
THEOREM Fifo == Spec => []FifoFrontier
<1>1. FifoInv => FifoFrontier
  BY DEF FifoInv
<1>2. QED
  BY <1>1, FifoInvariant, PTL

-----------------------------------------------------------------------------
(* Who holds which row, with a single process *)

\* Only the workers of a running process hold jobs, each its own.
HolderInv ==
  /\ \A w \in Worker : held[w] # 0 => up[Home[w]]
  /\ OneHolder

LEMMA HolderSame ==
  ASSUME HolderInv, UNCHANGED <<status, up, held>>
  PROVE  HolderInv'
BY DEF HolderInv, OneHolder, Processing

\* Recovery is harmless when there is one process: at its start nobody holds
\* a job.  A new row has an id that no worker holds.
LEMMA HolderStep ==
  ASSUME SingleProcess, TypeOK, Fresh, HolderInv, [Next]_vars
  PROVE  HolderInv'
<1> USE DEF TypeOK, JobId, HolderInv, OneHolder, Pending, Processing
<1>1. ASSUME NEW c \in Client, EnqueueInsert(c)
      PROVE  HolderInv'
  BY <1>1 DEF EnqueueInsert, Fresh
<1>2. ASSUME NEW c \in Client, Purge(c)
      PROVE  HolderInv'
  BY <1>2 DEF Purge
<1>3. ASSUME NEW w \in Worker, Dequeue(w)
      PROVE  HolderInv'
  BY <1>3 DEF Dequeue, MayRun
<1>4. ASSUME NEW w \in Worker, Complete(w)
      PROVE  HolderInv'
  BY <1>4 DEF Complete
<1>5. ASSUME NEW w \in Worker, CompleteFails(w)
      PROVE  HolderInv'
  BY <1>5 DEF CompleteFails, db
<1>6. ASSUME NEW P \in Process, Crash(P)
      PROVE  HolderInv'
  BY <1>6 DEF Crash, db, Thread
<1>7. ASSUME NEW P \in Process, Start(P)
      PROVE  HolderInv'
  BY <1>7 DEF Start, SingleProcess, Thread
<1>8. ASSUME NEW c \in Client,
             \/ \E p \in Photo : EnqueueCount(c, p) \/ PositionFind(c, p)
             \/ EnqueueFails(c) \/ PositionRank(c)
      PROVE  HolderInv'
  BY <1>8, HolderSame
  DEF EnqueueCount, PositionFind, EnqueueFails, PositionRank, db
<1>9. CASE UNCHANGED vars
  BY <1>9, HolderSame DEF vars, db
<1>10. QED
  BY <1>1, <1>2, <1>3, <1>4, <1>5, <1>6, <1>7, <1>8, <1>9
  DEF Next, ClientStep, WorkerStep, ProcessStep

-----------------------------------------------------------------------------
(* What an enqueue knows between its two statements, with a single process *)

\* The RLock: one thread inserts at a time, and the count it read still holds.
InsertInv ==
  /\ \A c \in Client : pc[c] = "insert" =>
       up[Home[c]] /\ HasRoom(Cardinality(Pending))
  /\ \A c, d \in Client : pc[c] = "insert" /\ pc[d] = "insert" => c = d

\* A step that starts no insert and keeps the table keeps InsertInv.
LEMMA InsertSame ==
  ASSUME InsertInv, UNCHANGED <<status, up>>,
         \A c \in Client : pc'[c] = "insert" => pc[c] = "insert"
  PROVE  InsertInv'
<1>1. Pending' = Pending
  BY DEF Pending
<1>2. HasRoom(Cardinality(Pending))' = HasRoom(Cardinality(Pending))
  BY <1>1 DEF HasRoom
<1>3. QED
  BY <1>2 DEF InsertInv

\* A step that may change the table happens only while nobody inserts.
LEMMA InsertFree ==
  ASSUME pc' = pc, \A c \in Client : pc[c] # "insert"
  PROVE  InsertInv'
BY DEF InsertInv

LEMMA LockOfTheOnlyProcess ==
  ASSUME SingleProcess, NEW t \in Thread, MayRun(t)
  PROVE  \A c \in Client : pc[c] # "insert"
BY DEF SingleProcess, Thread, MayRun, LockFree

\* Whoever could change the number of pending rows needs the lock, or, as
\* start-up recovery, a process that is not running.
LEMMA InsertStep ==
  ASSUME SingleProcess, TypeOK, InsertInv, [Next]_vars
  PROVE  InsertInv'
<1>1. ASSUME NEW c \in Client, NEW p \in Photo, EnqueueCount(c, p)
      PROVE  InsertInv'
  <2>1. \A d \in Client : pc[d] # "insert"
    BY <1>1, LockOfTheOnlyProcess DEF EnqueueCount, Thread
  <2>2. Pending' = Pending /\ up' = up /\ up[Home[c]]
    BY <1>1 DEF EnqueueCount, Pending, db, MayRun
  <2>3. HasRoom(Cardinality(Pending))'
    BY <1>1, <2>2 DEF EnqueueCount, HasRoom
  <2>4. \A d \in Client : pc'[d] = "insert" => d = c
    BY <1>1, <2>1 DEF EnqueueCount, TypeOK
  <2>5. QED
    BY <2>2, <2>3, <2>4 DEF InsertInv
<1>2. ASSUME NEW c \in Client, EnqueueInsert(c)
      PROVE  InsertInv'
  <2>1. \A d \in Client : pc'[d] # "insert"
    BY <1>2 DEF EnqueueInsert, InsertInv, TypeOK
  <2>2. QED
    BY <2>1 DEF InsertInv
<1>3. ASSUME NEW c \in Client,
             \/ \E p \in Photo : PositionFind(c, p)
             \/ EnqueueFails(c) \/ PositionRank(c)
      PROVE  InsertInv'
  <2>1. \A d \in Client : pc'[d] = "insert" => pc[d] = "insert"
    BY <1>3 DEF PositionFind, EnqueueFails, PositionRank, TypeOK
  <2>2. QED
    BY <1>3, <2>1, InsertSame
    DEF PositionFind, EnqueueFails, PositionRank, db
<1>4. ASSUME NEW c \in Client, Purge(c)
      PROVE  InsertInv'
  BY <1>4, LockOfTheOnlyProcess, InsertFree DEF Purge, calls, Thread
<1>5. ASSUME NEW w \in Worker, WorkerStep(w)
      PROVE  InsertInv'
  BY <1>5, LockOfTheOnlyProcess, InsertFree
  DEF WorkerStep, Dequeue, Complete, CompleteFails, calls, Thread
<1>6. ASSUME NEW P \in Process, Crash(P)
      PROVE  InsertInv'
  <2>1. \A c \in Client : Home[c] = P
    BY DEF SingleProcess, Thread
  <2>2. QED
    BY <1>6, <2>1 DEF Crash, InsertInv
<1>7. ASSUME NEW P \in Process, Start(P)
      PROVE  InsertInv'
  <2>1. \A c \in Client : pc[c] # "insert"
    BY <1>7 DEF Start, InsertInv, SingleProcess, Thread
  <2>2. QED
    BY <1>7, <2>1, InsertFree DEF Start, calls
<1>8. CASE UNCHANGED vars
  BY <1>8, InsertSame DEF vars, db, calls
<1>9. QED
  BY <1>1, <1>2, <1>3, <1>4, <1>5, <1>6, <1>7, <1>8
  DEF Next, ClientStep, ProcessStep

-----------------------------------------------------------------------------
(* The results for a single process *)

SingleInv == TypeOK /\ FifoInv /\ HolderInv /\ InsertInv

LEMMA SingleInvariant ==
  ASSUME SingleProcess
  PROVE  Spec => []SingleInv
<1>1. Init => HolderInv /\ InsertInv
  BY DEF Init, HolderInv, OneHolder, InsertInv
<1>2. TypeOK /\ FifoInv /\ HolderInv /\ InsertInv /\ [Next]_vars
        => HolderInv' /\ InsertInv'
  BY HolderStep, InsertStep DEF FifoInv
<1>3. QED
  BY <1>1, <1>2, TypeCorrect, FifoInvariant, PTL DEF Spec, SingleInv

\* With one process on queue.db no job is ever run by two workers, and no
\* purge, recovery or late complete() touches a row a worker holds.
THEOREM Exclusive ==
  ASSUME SingleProcess
  PROVE  Spec => []OneHolder
<1>1. SingleInv => OneHolder
  BY DEF SingleInv, HolderInv
<1>2. QED
  BY <1>1, SingleInvariant, PTL

LEMMA PendingFinite ==
  IsFiniteSet(Pending) /\ Cardinality(Pending) \in Nat
<1>1. IsFiniteSet(JobId)
  BY FS_Interval DEF JobId
<1>2. Pending \subseteq JobId
  BY DEF Pending
<1>3. QED
  BY <1>1, <1>2, FS_Subset, FS_CardinalityType

\* The insert of a row adds it to the pending rows.
LEMMA InsertAdds ==
  ASSUME TypeOK, Fresh, NEW c \in Client, EnqueueInsert(c)
  PROVE  /\ Pending' = Pending \cup {lastId'}
         /\ Cardinality(Pending') = Cardinality(Pending) + 1
         /\ Processing' = Processing
         /\ lastId' = lastId + 1
<1>1. lastId' = lastId + 1 /\ lastId' \in JobId
  BY DEF TypeOK, JobId, EnqueueInsert
<1>2. lastId' \notin Pending
  BY <1>1 DEF TypeOK, Fresh, Pending
<1>3. Pending' = Pending \cup {lastId'}
  BY <1>1 DEF TypeOK, EnqueueInsert, Pending
<1>4. Processing' = Processing
  BY <1>1 DEF TypeOK, Fresh, EnqueueInsert, Processing
<1>5. Cardinality(Pending') = Cardinality(Pending) + 1
  BY <1>2, <1>3, PendingFinite, FS_AddElement
<1>6. QED
  BY <1>1, <1>3, <1>4, <1>5

\* With one process the count and the insert act as one: the bound of
\* queue_max_size is never overshot by an enqueue.
THEOREM Capacity ==
  ASSUME SingleProcess
  PROVE  Spec => CapacityRespected
<1> DEFINE Bounded == lastId' # lastId
                        => MaxSize <= 0 \/ Cardinality(Pending') <= MaxSize
<1>1. SingleInv /\ [Next]_vars => [Bounded]_vars
  <2> SUFFICES ASSUME SingleInv, [Next]_vars, lastId' # lastId
               PROVE  Bounded
    OBVIOUS
  <2>1. PICK c \in Client : EnqueueInsert(c)
    BY DEF Next, ClientStep, WorkerStep, ProcessStep, vars, db, EnqueueCount,
       EnqueueFails, Purge, PositionFind, PositionRank, Dequeue, Complete,
       CompleteFails, Crash, Start
  <2>2. HasRoom(Cardinality(Pending))
    BY <2>1 DEF SingleInv, InsertInv, EnqueueInsert
  <2>3. Cardinality(Pending') = Cardinality(Pending) + 1
    BY <2>1, InsertAdds DEF SingleInv, FifoInv
  <2>4. QED
    BY <2>2, <2>3, PendingFinite DEF HasRoom
<1>2. QED
  BY <1>1, SingleInvariant, PTL DEF Spec, CapacityRespected

-----------------------------------------------------------------------------
(* Refinement *)

\* The tickets that the workers hold.
Owned == {held[w] : w \in Worker} \ {0}

\* With one process on queue.db, SQLiteJobQueue implements the protocol of
\* base.py: one atomic queue, FIFO, bounded, whose jobs leave only when they
\* are completed or purged while they wait, and recover after a crash.
THEOREM Implements ==
  ASSUME SingleProcess
  PROVE  Spec => ImplementsJobQueue
<1> USE DEF JQ!Init, JQ!Next, JQ!vars
<1>1. Init => JQ!Init
  <2> SUFFICES ASSUME Init PROVE JQ!Init
    OBVIOUS
  <2>1. Pending = {} /\ Processing = {} /\ lastId = 0
    BY DEF Init, Pending, Processing
  <2>2. Owned = {}
    BY DEF Init, Owned
  <2>3. QED
    BY <2>1, <2>2 DEF Owned
<1>2. SingleInv /\ SingleInv' /\ [Next]_vars => [JQ!Next]_(JQ!vars)
  <2> SUFFICES ASSUME SingleInv, SingleInv', [Next]_vars
               PROVE  JQ!Next \/ UNCHANGED JQ!vars
    OBVIOUS
  <2> USE DEF SingleInv, Owned
  <2>1. ASSUME NEW c \in Client, EnqueueInsert(c)
        PROVE  JQ!Enqueue
    <3>1. HasRoom(Cardinality(Pending))
      BY <2>1 DEF InsertInv, EnqueueInsert
    <3>2. lastId' \in Nat /\ lastId' > lastId
      BY <2>1 DEF EnqueueInsert, TypeOK
    <3>3. Owned' = Owned
      BY <2>1 DEF EnqueueInsert
    <3>4. Pending' = Pending \cup {lastId'} /\ Processing' = Processing
      BY <2>1, InsertAdds DEF FifoInv
    <3>5. MaxSize <= 0 \/ JQ!Cardinality(Pending) < MaxSize
      <4>1. JQ!Cardinality(Pending) = Cardinality(Pending)
        BY Zenon DEF JQ!Cardinality, Cardinality
      <4>2. QED
        BY <3>1, <4>1 DEF HasRoom
    <3>6. QED
      BY <3>2, <3>3, <3>4, <3>5 DEF JQ!Enqueue
  <2>2. ASSUME NEW w \in Worker, Dequeue(w)
        PROVE  JQ!Dequeue
    <3>1. PICK j \in Pending :
            /\ \A k \in Pending : j <= k
            /\ status' = [status EXCEPT ![j] = "processing"]
            /\ held' = [held EXCEPT ![w] = j]
      BY <2>2 DEF Dequeue
    <3>2. Pending' = Pending \ {j} /\ Processing' = Processing \cup {j}
      BY <3>1 DEF Pending, Processing, TypeOK
    <3>3. j # 0
      BY DEF Pending, JobId
    <3>4. Owned' = Owned \cup {j}
      BY <2>2, <3>1, <3>3 DEF Dequeue, TypeOK
    <3>5. lastId' = lastId
      BY <2>2 DEF Dequeue
    <3>6. QED
      BY <3>1, <3>2, <3>4, <3>5 DEF JQ!Dequeue
  <2>3. ASSUME NEW w \in Worker, Complete(w)
        PROVE  JQ!Complete
    <3>1. held[w] \in Owned /\ held[w] \in Processing
      BY <2>3 DEF Complete, HolderInv, OneHolder
    <3>2. Pending' = Pending /\ Processing' = Processing \ {held[w]}
      BY <2>3, <3>1 DEF Complete, Pending, Processing, TypeOK
    <3>3. Owned' = Owned \ {held[w]}
      BY <2>3 DEF Complete, HolderInv, OneHolder, TypeOK
    <3>4. lastId' = lastId
      BY <2>3 DEF Complete
    <3>5. QED
      BY <3>1, <3>2, <3>3, <3>4 DEF JQ!Complete
  <2>4. ASSUME NEW w \in Worker, CompleteFails(w)
        PROVE  JQ!Abandon
    <3>1. Owned' \subseteq Owned
      BY <2>4 DEF CompleteFails, TypeOK
    <3>2. Pending' = Pending /\ Processing' = Processing /\ lastId' = lastId
      BY <2>4 DEF CompleteFails, db, Pending, Processing
    <3>3. lastId \in Nat
      BY DEF TypeOK
    <3>4. QED
      BY <3>1, <3>2, <3>3 DEF JQ!Abandon
  <2>5. ASSUME NEW c \in Client, Purge(c)
        PROVE  JQ!Purge
    <3>1. Pending' = {} /\ Processing' = Processing
      BY <2>5 DEF Purge, Pending, Processing
    <3>2. Owned' = Owned /\ lastId' = lastId
      BY <2>5 DEF Purge
    <3>3. QED
      BY <3>1, <3>2 DEF JQ!Purge
  <2>6. ASSUME NEW P \in Process, Crash(P)
        PROVE  JQ!Abandon
    <3>1. Owned' \subseteq Owned
      BY <2>6 DEF Crash, TypeOK
    <3>2. Pending' = Pending /\ Processing' = Processing /\ lastId' = lastId
      BY <2>6 DEF Crash, db, Pending, Processing
    <3>3. lastId \in Nat
      BY DEF TypeOK
    <3>4. QED
      BY <3>1, <3>2, <3>3 DEF JQ!Abandon
  <2>7. ASSUME NEW P \in Process, Start(P)
        PROVE  JQ!Recover
    <3>1. Owned = {} /\ Owned' = {}
      BY <2>7 DEF Start, HolderInv, SingleProcess, Thread
    <3>2. Pending' = Pending \cup Processing /\ Processing' = {}
      BY <2>7 DEF Start, Pending, Processing, TypeOK
    <3>3. lastId' = lastId
      BY <2>7 DEF Start
    <3>4. QED
      BY <3>1, <3>2, <3>3 DEF JQ!Recover
  <2>8. ASSUME UNCHANGED <<db, held>>
        PROVE  UNCHANGED JQ!vars
    BY <2>8 DEF db, Pending, Processing
  <2>9. ASSUME NEW c \in Client,
               \/ \E p \in Photo : EnqueueCount(c, p) \/ PositionFind(c, p)
               \/ EnqueueFails(c) \/ PositionRank(c)
        PROVE  UNCHANGED <<db, held>>
    BY <2>9 DEF EnqueueCount, PositionFind, EnqueueFails, PositionRank
  <2>10. QED
    BY <2>1, <2>2, <2>3, <2>4, <2>5, <2>6, <2>7, <2>8, <2>9
    DEF Next, ClientStep, WorkerStep, ProcessStep, vars
<1>3. QED
  BY <1>1, <1>2, SingleInvariant, PTL DEF Spec, ImplementsJobQueue, JQ!Spec

-----------------------------------------------------------------------------
(* What position() knows between its two SELECTs, with a single process *)

\* The row it saw: if it is still there, it is its photo's oldest; and once it
\* waits no more, nothing older waits.
CallInv ==
  \A c \in Client : pc[c] = "rank" =>
    /\ up[Home[c]]
    /\ arg[c] \in Photo
    /\ seen[c] \in JobId /\ seen[c] <= lastId
    /\ status[seen[c]] # "none" =>
         /\ photo[seen[c]] = arg[c]
         /\ \A k \in JobId : status[k] # "none" /\ photo[k] = arg[c] => seen[c] <= k
    /\ status[seen[c]] # "pending" =>
         \A k \in JobId : status[k] = "pending" => seen[c] < k

\* What no step does to a row that is older than the one that was seen.
LEMMA CallSame ==
  ASSUME CallInv, UNCHANGED <<db, up>>,
         \A c \in Client : pc'[c] = "rank" =>
           pc[c] = "rank" /\ arg'[c] = arg[c] /\ seen'[c] = seen[c]
  PROVE  CallInv'
BY DEF CallInv, db

LEMMA CallStep ==
  ASSUME SingleProcess, TypeOK, FifoInv, HolderInv, CallInv, [Next]_vars
  PROVE  CallInv'
<1> USE DEF TypeOK, JobId, CallInv
<1>1. ASSUME NEW c \in Client, NEW p \in Photo, EnqueueCount(c, p)
      PROVE  CallInv'
  BY <1>1, CallSame DEF EnqueueCount
<1>2. ASSUME NEW c \in Client, EnqueueInsert(c)
      PROVE  CallInv'
  BY <1>2 DEF EnqueueInsert
<1>3. ASSUME NEW c \in Client, EnqueueFails(c) \/ PositionRank(c)
      PROVE  CallInv'
  BY <1>3, CallSame DEF EnqueueFails, PositionRank
<1>4. ASSUME NEW c \in Client, Purge(c)
      PROVE  CallInv'
  BY <1>4 DEF Purge, calls, Pending
<1>5. ASSUME NEW c \in Client, NEW p \in Photo, PositionFind(c, p)
      PROVE  CallInv'
  <2>1. PICK j \in JobId :
          /\ status[j] = "pending" /\ photo[j] = p /\ seen' = [seen EXCEPT ![c] = j]
          /\ \A k \in JobId : status[k] # "none" /\ photo[k] = p => j <= k
    BY <1>5 DEF PositionFind, RowsOf, Rows, Pending, Processing
  <2>2. j <= lastId
    BY <2>1 DEF FifoInv, Fresh
  <2>3. /\ pc' = [pc EXCEPT ![c] = "rank"] /\ arg' = [arg EXCEPT ![c] = p]
        /\ up[Home[c]] /\ UNCHANGED <<db, up, held>>
    BY <1>5 DEF PositionFind
  <2>4. QED
    BY <2>1, <2>2, <2>3 DEF db
<1>6. ASSUME NEW w \in Worker, Dequeue(w)
      PROVE  CallInv'
  <2>1. PICK j \in JobId :
          /\ status[j] = "pending" /\ status' = [status EXCEPT ![j] = "processing"]
          /\ \A k \in JobId : status[k] = "pending" => j <= k
    BY <1>6 DEF Dequeue, Pending
  <2>2. UNCHANGED <<photo, lastId, up, pc, arg, seen>>
    BY <1>6 DEF Dequeue, calls
  <2>3. QED
    BY <2>1, <2>2
<1>7. ASSUME NEW w \in Worker, Complete(w)
      PROVE  CallInv'
  <2>1. held[w] \in JobId /\ status[held[w]] = "processing"
    BY <1>7 DEF Complete, HolderInv, OneHolder, Processing
  <2>2. /\ status' = [status EXCEPT ![held[w]] = "none"]
        /\ photo' = [photo EXCEPT ![held[w]] = NoPhoto]
        /\ UNCHANGED <<lastId, up, pc, arg, seen>>
    BY <1>7 DEF Complete, calls
  <2>3. QED
    BY <2>1, <2>2
<1>8. ASSUME NEW w \in Worker, CompleteFails(w)
      PROVE  CallInv'
  BY <1>8, CallSame DEF CompleteFails, calls
<1>9. ASSUME NEW P \in Process, Crash(P)
      PROVE  CallInv'
  <2>1. \A c \in Client : Home[c] = P
    BY DEF SingleProcess, Thread
  <2>2. QED
    BY <1>9, <2>1 DEF Crash
<1>10. ASSUME NEW P \in Process, Start(P)
       PROVE  CallInv'
  <2>1. \A c \in Client : Home[c] = P
    BY DEF SingleProcess, Thread
  <2>2. QED
    BY <1>10, <2>1 DEF Start, calls
<1>11. CASE UNCHANGED vars
  BY <1>11, CallSame DEF vars, calls
<1>12. QED
  BY <1>1, <1>2, <1>3, <1>4, <1>5, <1>6, <1>7, <1>8, <1>9, <1>10, <1>11
  DEF Next, ClientStep, WorkerStep, ProcessStep

\* As long as the row it saw exists, the unlocked answer is the atomic one.
AnswerInv ==
  \A c \in Client : pc[c] = "rank" /\ status[seen[c]] # "none" =>
    Answer(arg[c]) = Rank(seen[c])

LEMMA AnswerIsRank ==
  ASSUME TypeOK, FifoFrontier, CallInv
  PROVE  AnswerInv
<1> SUFFICES ASSUME NEW c \in Client, pc[c] = "rank", status[seen[c]] # "none"
             PROVE  Answer(arg[c]) = Rank(seen[c])
  BY DEF AnswerInv
<1> DEFINE s == seen[c]
           rows == RowsOf(arg[c])
<1>1. /\ s \in rows /\ s \in JobId
      /\ \A k \in rows : s <= k /\ k \in JobId
  BY DEF CallInv, TypeOK, RowsOf, Rows, Pending, Processing
<1>2. s = CHOOSE i \in rows : \A k \in rows : i <= k
  <2>1. \A i \in rows : (\A k \in rows : i <= k) => i = s
    BY <1>1 DEF JobId
  <2>2. QED
    BY <1>1, <2>1
<1>3. Answer(arg[c]) = IF status[s] = "processing" THEN 0
                       ELSE Cardinality({k \in Pending : k < s}) + 1
  BY <1>1, <1>2 DEF Answer
<1>4. CASE status[s] = "processing"
  <2>1. {k \in Pending : k <= s} = {}
    BY <1>1, <1>4 DEF FifoFrontier, Processing, Pending, JobId
  <2>2. QED
    BY <1>3, <1>4, <2>1, FS_EmptySet DEF Rank
<1>5. CASE status[s] = "pending"
  <2> DEFINE older == {k \in Pending : k < s}
  <2>1. {k \in Pending : k <= s} = older \cup {s}
    BY <1>1, <1>5 DEF Pending, JobId
  <2>2. IsFiniteSet(older) /\ s \notin older
    BY <1>1, PendingFinite, FS_Subset DEF JobId
  <2>3. Cardinality(older \cup {s}) = Cardinality(older) + 1
    BY <2>2, FS_AddElement
  <2>4. QED
    BY <1>3, <1>5, <2>1, <2>3 DEF Rank
<1>6. QED
  BY <1>1, <1>4, <1>5 DEF TypeOK, CallInv

\* The observer takes the steps of the queue and stands beside them.
LEMMA Observed == ObservedSpec => Spec
<1>1. ObservedInit => Init
  BY DEF ObservedInit
<1>2. [ObservedNext]_<<vars, truth>> => [Next]_vars
  <2> SUFFICES ASSUME ObservedNext
               PROVE  Next
    BY DEF vars
  <2>1. QED
    BY DEF ObservedNext, Next, ClientStep, WorkerStep, ProcessStep
<1>3. QED
  BY <1>1, <1>2, PTL DEF ObservedSpec, Spec

LEMMA CallInvariant ==
  ASSUME SingleProcess
  PROVE  Spec => [](SingleInv /\ CallInv /\ AnswerInv)
<1>1. Init => CallInv
  BY DEF Init, CallInv
<1>2. SingleInv /\ CallInv /\ [Next]_vars => CallInv'
  BY CallStep DEF SingleInv
<1>3. SingleInv /\ CallInv => AnswerInv
  BY AnswerIsRank DEF SingleInv, FifoInv
<1>4. QED
  BY <1>1, <1>2, <1>3, SingleInvariant, PTL DEF Spec

\* The answer is the atomic one while the row exists, and 0 afterwards: if 0
\* was never right, the row went from pending to nowhere, and only a purge
\* does that.
THEOREM PositionErrs ==
  ASSUME SingleProcess
  PROVE  ObservedSpec => []PositionErrsOnlyByPurge
<1> DEFINE TruthInv == \A c \in Client :
             pc[c] = "rank" /\ status[seen[c]] # "none" => Rank(seen[c]) \in truth[c]
<1>1. ObservedInit => TruthInv
  BY DEF ObservedInit, Init
<1>2. /\ TruthInv /\ [ObservedNext]_<<vars, truth>>
      /\ (CallInv /\ AnswerInv)'
      => TruthInv'
  <2> SUFFICES ASSUME TruthInv, [ObservedNext]_<<vars, truth>>,
                      CallInv', AnswerInv',
                      NEW c \in Client, pc'[c] = "rank", status'[seen'[c]] # "none"
               PROVE  Rank(seen[c])' \in truth'[c]
    OBVIOUS
  <2>1. CASE Observe
    <3>1. arg'[c] \in Photo
      BY DEF CallInv
    <3>2. Answer(arg[c])' \in truth'[c]
      BY <2>1, <3>1 DEF Observe
    <3>3. QED
      BY <3>2 DEF AnswerInv
  <2>2. CASE UNCHANGED <<vars, truth>>
    BY <2>2 DEF vars, db, calls, Rank, Pending
  <2>3. QED
    BY <2>1, <2>2 DEF ObservedNext
<1>3. SingleInv /\ CallInv /\ TruthInv => PositionErrsOnlyByPurge
  <2> SUFFICES ASSUME SingleInv, CallInv, TruthInv, NEW c \in Client,
                      pc[c] = "rank", Given(c) \notin truth[c]
               PROVE  /\ Given(c) = 0
                      /\ status[seen[c]] = "none"
                      /\ 0 \notin truth[c]
    BY DEF PositionErrsOnlyByPurge
  <2>1. status[seen[c]] = "none"
    BY DEF Given
  <2>2. {k \in Pending : k <= seen[c]} = {}
    BY <2>1 DEF CallInv, Pending, JobId
  <2>3. Given(c) = 0
    BY <2>2, FS_EmptySet DEF Given, Rank
  <2>4. QED
    BY <2>1, <2>3
<1>4. QED
  BY <1>1, <1>2, <1>3, Observed, CallInvariant, PTL DEF ObservedSpec

\* No row becomes pending in front of the one that was seen: new rows have new
\* ids, and recovery waits for a crash, which ends the call.
LEMMA NobodyOvertakes ==
  ASSUME SingleProcess, TypeOK, CallInv, [Next]_vars,
         NEW c \in Client, pc[c] = "rank", pc'[c] = "rank"
  PROVE  /\ seen'[c] = seen[c]
         /\ \A k \in Pending' : k <= seen[c] => k \in Pending
<1> USE DEF TypeOK, JobId, Pending
<1>1. up[Home[c]] /\ seen[c] \in JobId /\ seen[c] <= lastId
  BY DEF CallInv
<1>2. ASSUME NEW d \in Client, ClientStep(d)
      PROVE  /\ seen'[c] = seen[c]
             /\ \A k \in Pending' : k <= seen[c] => k \in Pending
  <2>1. CASE EnqueueInsert(d)
    BY <1>1, <2>1 DEF EnqueueInsert
  <2>2. CASE Purge(d)
    BY <2>2 DEF Purge, calls
  <2>3. ASSUME NEW p \in Photo, EnqueueCount(d, p) \/ PositionFind(d, p)
        PROVE  seen'[c] = seen[c] /\ status' = status
    BY <2>3 DEF EnqueueCount, PositionFind, db
  <2>4. ASSUME EnqueueFails(d) \/ PositionRank(d)
        PROVE  seen'[c] = seen[c] /\ status' = status
    BY <2>4 DEF EnqueueFails, PositionRank, db
  <2>5. QED
    BY <1>2, <2>1, <2>2, <2>3, <2>4 DEF ClientStep
<1>3. ASSUME NEW w \in Worker, WorkerStep(w)
      PROVE  /\ seen'[c] = seen[c]
             /\ \A k \in Pending' : k <= seen[c] => k \in Pending
  BY <1>1, <1>3 DEF WorkerStep, Dequeue, Complete, CompleteFails, db, calls
<1>4. ASSUME NEW P \in Process, ProcessStep(P)
      PROVE  /\ seen'[c] = seen[c]
             /\ \A k \in Pending' : k <= seen[c] => k \in Pending
  <2>1. Home[c] = P
    BY DEF SingleProcess, Thread
  <2>2. QED
    BY <1>1, <1>4, <2>1 DEF ProcessStep, Crash, Start
<1>5. CASE UNCHANGED vars
  BY <1>5 DEF vars, db, calls
<1>6. QED
  BY <1>2, <1>3, <1>4, <1>5 DEF Next

\* A caller of position() sees its rank fall only, whatever other requests,
\* workers and crashes do during the call.
THEOREM RankFalls ==
  ASSUME SingleProcess
  PROVE  ObservedSpec => RankNeverGrows
<1> DEFINE Falls == \A c \in Client : pc[c] = "rank" /\ pc'[c] = "rank"
                                        => Given(c)' <= Given(c)
<1>1. SingleInv /\ CallInv /\ [Next]_vars => Falls
  <2> SUFFICES ASSUME SingleInv, CallInv, [Next]_vars,
                      NEW c \in Client, pc[c] = "rank", pc'[c] = "rank"
               PROVE  Given(c)' <= Given(c)
    OBVIOUS
  <2>1. /\ seen'[c] = seen[c]
        /\ \A k \in Pending' : k <= seen[c] => k \in Pending
    BY NobodyOvertakes DEF SingleInv
  <2>2. {k \in Pending' : k <= seen[c]} \subseteq {k \in Pending : k <= seen[c]}
    BY <2>1
  <2>3. IsFiniteSet({k \in Pending : k <= seen[c]})
    BY PendingFinite, FS_Subset
  <2>4. Cardinality({k \in Pending' : k <= seen[c]})
          <= Cardinality({k \in Pending : k <= seen[c]})
    BY <2>2, <2>3, FS_Subset
  <2>5. QED
    BY <2>1, <2>4 DEF Given, Rank
<1>2. [ObservedNext]_<<vars, truth>> /\ ([Next]_vars => Falls)
        => [Falls]_<<vars, truth>>
  <2> SUFFICES ASSUME ObservedNext, [Next]_vars => Falls
               PROVE  Falls
    OBVIOUS
  <2>1. Next
    BY DEF ObservedNext, Next, ClientStep, WorkerStep, ProcessStep
  <2>2. QED
    BY <2>1
<1>3. QED
  BY <1>1, <1>2, Observed, CallInvariant, PTL DEF ObservedSpec, RankNeverGrows
=============================================================================
