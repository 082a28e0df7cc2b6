--------------------------- MODULE PgQueueProofs ---------------------------
(***************************************************************************)
(* Proofs about PgQueue, for every number of replicas, threads, jobs and   *)
(* faults.  The row locks of dequeue() (LockInv) and the fresh ids of      *)
(* enqueue() (FreshInv) together keep a job with one worker (HolderInv);   *)
(* the RLock (ConnInv) confines what a fault does to one replica's crew.   *)
(***************************************************************************)
EXTENDS PgQueue, FunctionTheorems, FiniteSetTheorems, TLAPS

USE PgAssumption

-----------------------------------------------------------------------------
(* The inductive invariant *)

\* A thread is at a statement of its kind, with what the statement needs.
CallInv ==
  /\ \A w \in Worker :
       /\ pc[w] \in {"idle", "update", "running"}
       /\ pc[w] = "update" => row[w] \in JobId
       /\ held[w] # 0 <=> pc[w] = "running"
  /\ \A c \in Client : pc[c] \in {"idle", "insert", "commit", "purge"}

\* The row that an INSERT wrote is nobody else's, and not visible.
FreshInv ==
  /\ \A j \in JobId : j > lastId => status[j] = "none"
  /\ \A c \in Client : pc[c] = "commit" =>
       row[c] \in JobId /\ row[c] <= lastId /\ status[row[c]] = "none"
  /\ \A c, d \in Client :
       pc[c] = "commit" /\ pc[d] = "commit" /\ row[c] = row[d] => c = d

\* A locked row is pending, and locked once.
LockInv ==
  /\ \A w \in Worker : pc[w] = "update" => status[row[w]] = "pending"
  /\ \A v, w \in Worker :
       pc[v] = "update" /\ pc[w] = "update" /\ row[v] = row[w] => v = w

\* A job that no Start put back is marked, and held by one worker.
HolderInv ==
  \A w \in Worker :
    held[w] # 0 /\ held[w] \notin retaken =>
      /\ status[held[w]] = "processing"
      /\ \A v \in Worker : held[v] = held[w] => v = w

IInv == TypeOK /\ CallInv /\ FreshInv /\ LockInv /\ HolderInv

\* The status of the rows after each kind of statement.
LEMMA StartStatus ==
  ASSUME TypeOK, NEW P \in Process, Start(P)
  PROVE  /\ status' \in [JobId -> {"none", "pending", "processing"}]
         /\ \A j \in JobId : status'[j] =
              IF status[j] = "processing" THEN "pending" ELSE status[j]
BY DEF TypeOK, Start, Processing

LEMMA PurgeStatus ==
  ASSUME TypeOK, NEW c \in Client, PurgeCommit(c)
  PROVE  /\ status' \in [JobId -> {"none", "pending", "processing"}]
         /\ \A j \in JobId :
              \/ status'[j] = status[j]
              \/ status[j] = "pending" /\ status'[j] = "none" /\ j \in doomed[c]
BY DEF TypeOK, PurgeCommit, Pending

LEMMA InvStep ==
  ASSUME IInv, [Next]_vars
  PROVE  IInv'
<1> USE DEF IInv, TypeOK, CallInv, FreshInv, LockInv, HolderInv, Thread, JobId,
            threads, Goto, Fault, Abort
<1>1. ASSUME NEW c \in Client, EnqueueCount(c)
      PROVE  IInv'
  BY <1>1 DEF EnqueueCount
<1>2. ASSUME NEW c \in Client, EnqueueInsert(c)
      PROVE  IInv'
  BY <1>2 DEF EnqueueInsert
<1>3. ASSUME NEW c \in Client, EnqueueCommit(c)
      PROVE  IInv'
  BY <1>3 DEF EnqueueCommit
<1>4. ASSUME NEW c \in Client, PurgeFind(c)
      PROVE  IInv'
  BY <1>4 DEF PurgeFind, Pending
<1>5. ASSUME NEW c \in Client, PurgeCommit(c)
      PROVE  IInv'
  <2>1. \A w \in Worker : pc[w] = "update" => row[w] \notin doomed[c]
    BY <1>5 DEF PurgeCommit, Locked
  <2>2. /\ \A j \in JobId : \/ status'[j] = status[j]
                            \/ /\ status[j] = "pending" /\ status'[j] = "none"
                               /\ j \in doomed[c]
        /\ status' \in [JobId -> {"none", "pending", "processing"}]
    BY <1>5, PurgeStatus
  <2>3. /\ pc' = [pc EXCEPT ![c] = "idle"] /\ doomed' = [doomed EXCEPT ![c] = {}]
        /\ UNCHANGED <<lastId, up, aborted, row, held, retaken, faults>>
    BY <1>5 DEF PurgeCommit
  <2>4. TypeOK' /\ CallInv'
    BY <2>2, <2>3
  <2>5. FreshInv'
    BY <2>2, <2>3
  <2>6. LockInv' /\ HolderInv'
    BY <2>1, <2>2, <2>3
  <2>7. QED
    BY <2>4, <2>5, <2>6
<1>6. ASSUME NEW c \in Client, CallRaises(c)
      PROVE  IInv'
  <2>1. /\ pc' = [pc EXCEPT ![c] = "idle"] /\ row' = [row EXCEPT ![c] = 0]
        /\ doomed' = [doomed EXCEPT ![c] = {}] /\ faults' = faults + 1
        /\ UNCHANGED <<status, lastId, up, held, retaken>>
    BY <1>6 DEF CallRaises
  <2>2. aborted' \in [Process -> BOOLEAN] /\ faults < MaxFaults
    BY <1>6 DEF CallRaises
  <2>3. TypeOK'
    BY <2>1, <2>2
  <2>4. CallInv' /\ FreshInv' /\ LockInv' /\ HolderInv'
    BY <2>1
  <2>5. QED
    BY <2>3, <2>4
<1>7. ASSUME NEW w \in Worker, DequeueSelect(w)
      PROVE  IInv'
  <2>1. PICK j \in Free : row' = [row EXCEPT ![w] = j]
    BY <1>7 DEF DequeueSelect
  <2>2. /\ j \in JobId /\ status[j] = "pending"
        /\ \A v \in Worker : pc[v] = "update" => row[v] # j
    BY DEF Free, Pending, Locked
  <2>3. QED
    BY <1>7, <2>1, <2>2 DEF DequeueSelect
<1>8. ASSUME NEW w \in Worker, DequeueUpdate(w)
      PROVE  IInv'
  BY <1>8 DEF DequeueUpdate, Mark
<1>9. ASSUME NEW w \in Worker, DequeueRaises(w)
      PROVE  IInv'
  <2>1. /\ row[w] \in JobId /\ status[row[w]] = "pending" /\ pc[w] = "update"
        /\ \A v \in Worker : held[v] = row[w] => row[w] \in retaken
    BY <1>9 DEF DequeueRaises
  <2>2. \/ status' = status
        \/ status' = [status EXCEPT ![row[w]] = "processing"]
    BY <1>9, <2>1 DEF DequeueRaises, Mark
  <2>3. /\ pc' = [pc EXCEPT ![w] = "idle"] /\ row' = [row EXCEPT ![w] = 0]
        /\ faults < MaxFaults /\ faults' = faults + 1
        /\ UNCHANGED <<lastId, up, aborted, doomed, held, retaken>>
    BY <1>9 DEF DequeueRaises
  <2>4. TypeOK' /\ CallInv'
    BY <2>1, <2>2, <2>3
  <2>5. FreshInv'
    BY <2>1, <2>2, <2>3
  <2>6. LockInv'
    BY <2>1, <2>2, <2>3
  <2>7. HolderInv'
    BY <2>1, <2>2, <2>3
  <2>8. QED
    BY <2>4, <2>5, <2>6, <2>7
<1>10. ASSUME NEW w \in Worker, DequeueHeals(w)
       PROVE  IInv'
  BY <1>10 DEF DequeueHeals, Rollback
<1>11. ASSUME NEW w \in Worker, Complete(w)
       PROVE  IInv'
  <2>1. \A v \in Worker : pc[v] = "update" => row[v] # held[w]
    BY <1>11 DEF Complete, Locked
  <2>2. QED
    BY <1>11, <2>1 DEF Complete, Delete
<1>12. ASSUME NEW w \in Worker, CompleteRaises(w)
       PROVE  IInv'
  <2>1. /\ pc' = [pc EXCEPT ![w] = "idle"] /\ held' = [held EXCEPT ![w] = 0]
        /\ pc[w] = "running"
        /\ UNCHANGED <<status, lastId, up, row, doomed, retaken>>
    BY <1>12 DEF CompleteRaises
  <2>2. \/ UNCHANGED <<aborted, faults>>
        \/ Fault /\ UNCHANGED aborted
        \/ Fault /\ Abort(Home[w])
    BY <1>12, Zenon DEF CompleteRaises
  <2>3. aborted' \in [Process -> BOOLEAN] /\ faults' \in 0 .. MaxFaults
    <3>1. CASE UNCHANGED <<aborted, faults>>
      BY <3>1
    <3>2. CASE Fault /\ UNCHANGED aborted
      BY <3>2
    <3>3. CASE Fault /\ Abort(Home[w])
      BY <3>3
    <3>4. QED
      BY <2>2, <3>1, <3>2, <3>3
  <2>4. TypeOK'
    BY <2>1, <2>2, <2>3
  <2>5. CallInv' /\ FreshInv' /\ LockInv' /\ HolderInv'
    BY <2>1
  <2>6. QED
    BY <2>4, <2>5
<1>13. ASSUME NEW P \in Process, Crash(P)
       PROVE  IInv'
  BY <1>13 DEF Crash
<1>14. ASSUME NEW P \in Process, Start(P)
       PROVE  IInv'
  <2>1. /\ status' \in [JobId -> {"none", "pending", "processing"}]
        /\ \A j \in JobId : status'[j] =
             IF status[j] = "processing" THEN "pending" ELSE status[j]
    BY <1>14, StartStatus
  <2>2. /\ up' \in [Process -> BOOLEAN]
        /\ UNCHANGED <<lastId, aborted, pc, row, doomed, held, faults>>
    BY <1>14 DEF Start
  <2>3. /\ retaken' \in SUBSET JobId /\ retaken \subseteq retaken'
        /\ \A w \in Worker :
             held[w] \in JobId /\ status[held[w]] = "processing"
               => held[w] \in retaken'
    <3> DEFINE H == {held[w] : w \in Worker}
    <3>1. retaken' = retaken \cup (Processing \cap H) /\ Processing \subseteq JobId
      BY <1>14 DEF Start, Processing
    <3>2. \A w \in Worker : held[w] \in H
      OBVIOUS
    <3> HIDE DEF H
    <3>3. QED
      BY <3>1, <3>2 DEF Processing
  <2>4. TypeOK' /\ CallInv'
    BY <2>1, <2>2, <2>3
  <2>5. FreshInv' /\ LockInv'
    BY <2>1, <2>2
  <2>6. HolderInv'
    BY <2>2, <2>3
  <2>7. QED
    BY <2>4, <2>5, <2>6
<1>15. CASE UNCHANGED vars
  BY <1>15 DEF vars
<1>16. QED
  BY <1>1, <1>2, <1>3, <1>4, <1>5, <1>6, <1>7, <1>8, <1>9, <1>10, <1>11,
     <1>12, <1>13, <1>14, <1>15
  DEF Next, ClientStep, WorkerStep, ProcessStep

LEMMA Invariant == Spec => []IInv
<1>1. Init => IInv
  BY DEF Init, IInv, TypeOK, CallInv, FreshInv, LockInv, HolderInv, Thread, JobId
<1>2. QED
  BY <1>1, InvStep, PTL DEF Spec

-----------------------------------------------------------------------------
(* Theorems *)

\* Rows, connections and threads keep their types.
THEOREM TypeCorrect == Spec => []TypeOK
<1>1. IInv => TypeOK
  BY DEF IInv
<1>2. QED
  BY <1>1, Invariant, PTL

\* FOR UPDATE SKIP LOCKED hands a row to one worker, whatever replicas,
\* crashes, refused statements and lost answers there are; only the recovery
\* of a replica that starts gives a job that is being run to a second one.
THEOREM Exclusive == Spec => []OneHolder
<1>1. IInv => OneHolder
  BY DEF IInv, HolderInv, OneHolder
<1>2. QED
  BY <1>1, Invariant, PTL

\* Nothing comes between the SELECT and the UPDATE of dequeue().
THEOREM Marked == Spec => TakenIsMarked
<1> DEFINE Taken == \A w \in Worker :
      held'[w] # held[w] /\ held'[w] # 0 => status'[held'[w]] = "processing"
<1>1. IInv /\ [Next]_vars => [Taken]_vars
  <2> SUFFICES ASSUME IInv, Next, NEW w \in Worker,
                      held'[w] # held[w], held'[w] # 0
               PROVE  status'[held'[w]] = "processing"
    BY DEF vars
  <2>1. \E v \in Worker : DequeueUpdate(v)
    BY DEF Next, ClientStep, WorkerStep, ProcessStep, EnqueueCount,
           EnqueueInsert, EnqueueCommit, PurgeFind, PurgeCommit, CallRaises,
           DequeueSelect, DequeueRaises, DequeueHeals, Complete,
           CompleteRaises, Crash, Start, threads, IInv, TypeOK
  <2>2. DequeueUpdate(w)
    BY <2>1 DEF DequeueUpdate, IInv, TypeOK
  <2>3. QED
    BY <2>2 DEF DequeueUpdate, Mark, IInv, TypeOK, CallInv, LockInv
<1>2. QED
  BY <1>1, Invariant, PTL DEF Spec, TakenIsMarked

-----------------------------------------------------------------------------
(* Stranded rows: how many rows one fault can leave behind *)

Crew(P) == {w \in Worker : Home[w] = P}

Inside(t) == pc[t] \notin {"idle", "running"}

\* The RLock: one operation at a time in a process, and none that goes on
\* in an aborted transaction.
ConnInv ==
  /\ \A t, u \in Thread : Inside(t) /\ Inside(u) /\ Home[t] = Home[u] => t = u
  /\ \A t \in Thread : Inside(t) => ~aborted[Home[t]]

\* Rows in "processing" that nobody will complete: no worker has them, or
\* only such whose DELETE is going to be refused.
Stuck == {j \in Processing : \A w \in Worker : held[w] = j => aborted[Home[w]]}

LEMMA ConnStep ==
  ASSUME IInv, ConnInv, [Next]_vars
  PROVE  ConnInv'
<1> USE DEF IInv, TypeOK, CallInv, ConnInv, Inside, Thread, threads, Goto, Fault,
            Abort, MayRun, MayQuery
<1>1. ASSUME NEW c \in Client, ClientStep(c)
      PROVE  ConnInv'
  <2>1. CASE EnqueueCount(c)
    BY <2>1 DEF EnqueueCount
  <2>2. CASE EnqueueInsert(c)
    BY <2>2 DEF EnqueueInsert
  <2>3. CASE EnqueueCommit(c)
    BY <2>3 DEF EnqueueCommit
  <2>4. CASE PurgeFind(c)
    BY <2>4 DEF PurgeFind
  <2>5. CASE PurgeCommit(c)
    BY <2>5 DEF PurgeCommit
  <2>6. CASE CallRaises(c)
    <3>1. /\ pc' = [pc EXCEPT ![c] = "idle"]
          /\ aborted' = aborted \/ aborted' = [aborted EXCEPT ![Home[c]] = TRUE]
          /\ \A t \in Thread : Inside(t) /\ Home[t] = Home[c] => t = c
      BY <2>6 DEF CallRaises
    <3>2. QED
      BY <3>1
  <2>7. QED
    BY <1>1, <2>1, <2>2, <2>3, <2>4, <2>5, <2>6 DEF ClientStep
<1>2. ASSUME NEW w \in Worker, WorkerStep(w)
      PROVE  ConnInv'
  <2>1. CASE DequeueSelect(w)
    BY <2>1 DEF DequeueSelect
  <2>2. CASE DequeueUpdate(w)
    BY <2>2 DEF DequeueUpdate
  <2>3. CASE DequeueRaises(w)
    BY <2>3 DEF DequeueRaises
  <2>4. CASE DequeueHeals(w)
    BY <2>4 DEF DequeueHeals, Rollback
  <2>5. CASE Complete(w)
    BY <2>5 DEF Complete
  <2>6. CASE CompleteRaises(w)
    <3>1. /\ pc' = [pc EXCEPT ![w] = "idle"]
          /\ \A t \in Thread : Inside(t) => Home[t] # Home[w]
      BY <2>6 DEF CompleteRaises
    <3>2. aborted' = aborted \/ aborted' = [aborted EXCEPT ![Home[w]] = TRUE]
      BY <2>6, Zenon DEF CompleteRaises
    <3>3. QED
      BY <3>1, <3>2
  <2>7. QED
    BY <1>2, <2>1, <2>2, <2>3, <2>4, <2>5, <2>6 DEF WorkerStep
<1>3. ASSUME NEW P \in Process, ProcessStep(P)
      PROVE  ConnInv'
  BY <1>3 DEF ProcessStep, Crash, Start
<1>4. CASE UNCHANGED vars
  BY <1>4 DEF vars
<1>5. QED
  BY <1>1, <1>2, <1>3, <1>4 DEF Next

\* A step that is no fault leaves no row behind, a fault at most one row for
\* each worker of the replica it hits.
LEMMA StuckStep ==
  ASSUME IInv, ConnInv, [Next]_vars
  PROVE  \/ Stuck' \subseteq Stuck /\ faults' = faults
         \/ /\ faults' = faults + 1
            /\ \E P \in Process, f \in [Worker -> JobId \cup {0}] :
                 Stuck' \subseteq Stuck \cup {f[w] : w \in Crew(P)}
<1> DEFINE Kept == Stuck' \subseteq Stuck /\ faults' = faults
           Left(P) == /\ faults' = faults + 1
                      /\ \E f \in [Worker -> JobId \cup {0}] :
                           Stuck' \subseteq Stuck \cup {f[w] : w \in Crew(P)}
<1> USE DEF IInv, TypeOK, CallInv, LockInv, Thread, threads, Goto, Fault, Abort
<1>a. Home \in [Thread -> Process]
  OBVIOUS
<1>b. ASSUME NEW P \in Process, faults' = faults + 1,
             \A w \in Worker : Home[w] # P => held'[w] = held[w]
                                              /\ (aborted'[Home[w]] => aborted[Home[w]]),
             Processing' \subseteq Processing
      PROVE  Left(P)
  <2>1. Stuck' \subseteq Stuck \cup {held[w] : w \in Crew(P)}
    <3> SUFFICES ASSUME NEW j \in Processing, j \in Stuck', j \notin Stuck
                 PROVE  \E w \in Crew(P) : held[w] = j
      BY <1>b DEF Stuck
    <3>1. PICK w \in Worker : held[w] = j /\ ~aborted[Home[w]]
      BY DEF Stuck
    <3>2. Home[w] = P
      BY <1>b, <3>1 DEF Stuck
    <3>3. QED
      BY <3>1, <3>2 DEF Crew
  <2>2. held \in [Worker -> JobId \cup {0}]
    OBVIOUS
  <2>3. QED
    BY <1>b, <2>1, <2>2
<1>c. ASSUME UNCHANGED <<aborted, held, faults>>, Processing' \subseteq Processing
      PROVE  Kept
  BY <1>c DEF Stuck
<1>1. ASSUME NEW c \in Client, ClientStep(c)
      PROVE  Kept \/ \E P \in Process : Left(P)
  <2>1. CASE EnqueueCount(c)
    BY <1>c, <2>1 DEF EnqueueCount, Processing
  <2>2. CASE EnqueueInsert(c)
    BY <1>c, <2>2 DEF EnqueueInsert, Processing
  <2>3. CASE EnqueueCommit(c)
    BY <1>c, <2>3 DEF EnqueueCommit, Processing
  <2>4. CASE PurgeFind(c)
    BY <1>c, <2>4 DEF PurgeFind, Processing
  <2>5. CASE PurgeCommit(c)
    BY <1>c, <2>5, PurgeStatus DEF PurgeCommit, Processing
  <2>6. CASE CallRaises(c)
    <3>1. Home[c] \in Process
      BY <1>a
    <3>2. /\ faults' = faults + 1 /\ held' = held /\ status' = status
          /\ aborted' = aborted \/ aborted' = [aborted EXCEPT ![Home[c]] = TRUE]
      BY <2>6 DEF CallRaises
    <3>3. Processing' \subseteq Processing
      BY <3>2 DEF Processing
    <3>4. Left(Home[c])
      BY <1>a, <1>b, <3>1, <3>2, <3>3
    <3>5. QED
      BY <3>1, <3>4
  <2>7. QED
    BY <1>1, <2>1, <2>2, <2>3, <2>4, <2>5, <2>6 DEF ClientStep
<1>2. ASSUME NEW w \in Worker, WorkerStep(w)
      PROVE  Kept \/ \E P \in Process : Left(P)
  <2> Home[w] \in Process
    BY <1>a
  <2>1. CASE DequeueSelect(w)
    BY <1>c, <2>1 DEF DequeueSelect, Processing
  <2>2. CASE DequeueUpdate(w)
    <3>1. ~aborted[Home[w]] /\ held[w] = 0 /\ row[w] \in JobId
      BY <2>2 DEF DequeueUpdate, ConnInv, Inside
    <3>2. Processing' \subseteq Processing \cup {row[w]}
      BY <2>2, <3>1 DEF DequeueUpdate, Mark, Processing
    <3>3. /\ held' = [held EXCEPT ![w] = row[w]]
          /\ UNCHANGED <<aborted, faults>>
      BY <2>2 DEF DequeueUpdate
    <3>4. ASSUME NEW j \in Stuck'
          PROVE  j \in Stuck
      <4>1. j # row[w]
        BY <3>1, <3>3 DEF Stuck
      <4>2. j \in Processing
        <5>1. j \in Processing'
          BY DEF Stuck
        <5>2. QED
          BY <3>2, <4>1, <5>1
      <4>3. j # 0
        BY <4>2 DEF Processing, JobId
      <4>4. QED
        BY <3>1, <3>3, <4>2, <4>3 DEF Stuck
    <3>5. QED
      BY <3>3, <3>4
  <2>3. CASE DequeueRaises(w)
    <3>1. row[w] \in JobId
      BY <2>3 DEF DequeueRaises
    <3>2. Processing' \subseteq Processing \cup {row[w]}
      BY <2>3, <3>1 DEF DequeueRaises, Mark, Processing
    <3>3. faults' = faults + 1 /\ UNCHANGED <<aborted, held>>
      BY <2>3 DEF DequeueRaises
    <3> DEFINE f == [held EXCEPT ![w] = row[w]]
    <3>4. f \in [Worker -> JobId \cup {0}] /\ f[w] = row[w] /\ w \in Crew(Home[w])
      BY <3>1 DEF Crew
    <3> HIDE DEF f
    <3>5. Stuck' \subseteq Stuck \cup {f[v] : v \in Crew(Home[w])}
      BY <3>2, <3>3, <3>4 DEF Stuck
    <3>6. QED
      BY <3>3, <3>4, <3>5
  <2>4. CASE DequeueHeals(w)
    BY <2>4, <1>a DEF DequeueHeals, Rollback, Stuck, Processing
  <2>5. CASE Complete(w)
    <3>1. /\ held[w] \in JobId /\ held' = [held EXCEPT ![w] = 0]
          /\ UNCHANGED <<aborted, faults>>
          /\ status' = [status EXCEPT ![held[w]] = "none"]
      BY <2>5 DEF Complete, Delete
    <3>2. ASSUME NEW j \in Stuck'
          PROVE  j \in Stuck
      <4>1. j \in Processing /\ j # held[w] /\ j \in JobId
        BY <3>1 DEF Stuck, Processing
      <4>2. QED
        BY <3>1, <4>1 DEF Stuck
    <3>3. QED
      BY <3>1, <3>2
  <2>6. CASE CompleteRaises(w)
    <3>1. /\ held' = [held EXCEPT ![w] = 0] /\ status' = status
      BY <2>6 DEF CompleteRaises
    <3>2. Processing' = Processing
      BY <3>1 DEF Processing
    <3>3. CASE aborted[Home[w]] /\ UNCHANGED <<aborted, faults>>
      BY <3>1, <3>2, <3>3 DEF Stuck
    <3>4. CASE Fault /\ (UNCHANGED aborted \/ Abort(Home[w]))
      <4>1. aborted' = aborted \/ aborted' = [aborted EXCEPT ![Home[w]] = TRUE]
        BY <3>4, Zenon
      <4>2. faults' = faults + 1
        BY <3>4
      <4>3. Left(Home[w])
        BY <1>a, <1>b, <3>1, <3>2, <4>1, <4>2
      <4>4. QED
        BY <4>3
    <3>5. QED
      BY <2>6, <3>3, <3>4, Zenon DEF CompleteRaises
  <2>7. QED
    BY <1>2, <2>1, <2>2, <2>3, <2>4, <2>5, <2>6 DEF WorkerStep
<1>3. ASSUME NEW P \in Process, Crash(P)
      PROVE  Left(P)
  <2>1. Processing' \subseteq Processing
    BY <1>3 DEF Crash, Processing
  <2>2. QED
    BY <1>a, <1>b, <1>3, <2>1 DEF Crash
<1>4. ASSUME NEW P \in Process, Start(P)
      PROVE  Kept
  <2>1. Processing' = {}
    BY <1>4, StartStatus DEF Processing
  <2>2. QED
    BY <1>4, <2>1 DEF Start, Stuck
<1>5. CASE UNCHANGED vars
  BY <1>c, <1>5 DEF vars, Processing
<1>6. QED
  <2>1. Kept \/ \E P \in Process : Left(P)
    BY <1>1, <1>2, <1>3, <1>4, <1>5 DEF Next, ProcessStep
  <2>2. QED
    BY <2>1

\* n more faults cost n crews more.
LEMMA Rate ==
  ASSUME NEW n \in Nat, NEW m \in Nat
  PROVE  n * m \in Nat /\ (n + 1) * m = n * m + m
OBVIOUS

\* In a replica with the largest crew, a fault strands no more rows than it
\* has workers; so the table does not fill with rows nobody completes unless
\* faults go on, and the next start gives back all of them.
THEOREM Stranded ==
  ASSUME NEW Q \in Process,
         \A P \in Process : Cardinality(Crew(P)) <= Cardinality(Crew(Q))
  PROVE  Spec => []StrandedBounded
<1> DEFINE m == Cardinality(Crew(Q))
           StuckInv == /\ IsFiniteSet(Stuck)
                       /\ Cardinality(Stuck) <= faults * m
<1>1. ASSUME NEW P \in Process
      PROVE  IsFiniteSet(Crew(P)) /\ Cardinality(Crew(P)) \in Nat
  BY FS_Subset, FS_CardinalityType DEF Crew
<1>2. m \in Nat
  BY <1>1
<1>3. Init => ConnInv /\ StuckInv
  <2> SUFFICES ASSUME Init
               PROVE  ConnInv /\ StuckInv
    OBVIOUS
  <2>1. ConnInv
    BY DEF Init, ConnInv, Inside, Thread
  <2>2. Stuck = {}
    BY DEF Init, Stuck, Processing
  <2>3. 0 * m = 0 /\ faults = 0
    BY <1>2 DEF Init
  <2>4. QED
    BY <2>1, <2>2, <2>3, FS_EmptySet
<1>4. IInv /\ ConnInv /\ StuckInv /\ [Next]_vars => ConnInv' /\ StuckInv'
  <2> SUFFICES ASSUME IInv, ConnInv, StuckInv, [Next]_vars
               PROVE  StuckInv'
    BY ConnStep
  <2>1. faults \in Nat
    BY DEF IInv, TypeOK
  <2>2. CASE Stuck' \subseteq Stuck /\ faults' = faults
    <3>1. IsFiniteSet(Stuck') /\ Cardinality(Stuck') <= Cardinality(Stuck)
      BY <2>2, FS_Subset
    <3>2. Cardinality(Stuck) \in Nat /\ Cardinality(Stuck') \in Nat
      BY <3>1, FS_CardinalityType
    <3>3. faults * m \in Nat
      BY <1>2, <2>1, Rate
    <3>4. QED
      BY <2>2, <3>1, <3>2, <3>3
  <2>3. ASSUME NEW P \in Process, NEW f \in [Worker -> JobId \cup {0}],
               Stuck' \subseteq Stuck \cup {f[w] : w \in Crew(P)},
               faults' = faults + 1
        PROVE  StuckInv'
    <3> DEFINE T == {f[w] : w \in Crew(P)}
               g == [w \in Crew(P) |-> f[w]]
    <3>1. g \in Surjection(Crew(P), T)
      BY DEF Surjection
    <3>2. IsFiniteSet(T) /\ Cardinality(T) <= Cardinality(Crew(P))
      <4> HIDE DEF T, g
      <4>1. QED
        BY <1>1, <3>1, FS_Surjection
    <3> HIDE DEF T, g
    <3>3. /\ IsFiniteSet(Stuck \cup T)
          /\ Cardinality(Stuck \cup T)
               = Cardinality(Stuck) + Cardinality(T) - Cardinality(Stuck \cap T)
      BY <3>2, FS_Union
    <3>4. IsFiniteSet(Stuck \cap T)
      BY <3>2, FS_Subset
    <3>5. Stuck' \subseteq Stuck \cup T
      BY <2>3 DEF T
    <3>6. IsFiniteSet(Stuck') /\ Cardinality(Stuck') <= Cardinality(Stuck \cup T)
      BY <3>3, <3>5, FS_Subset
    <3>7. /\ Cardinality(Stuck) \in Nat /\ Cardinality(T) \in Nat
          /\ Cardinality(Stuck \cap T) \in Nat /\ Cardinality(Stuck') \in Nat
      BY <3>2, <3>4, <3>6, FS_CardinalityType
    <3>8. faults * m \in Nat /\ faults' * m = faults * m + m
      BY <1>2, <2>1, <2>3, Rate
    <3>9. Cardinality(T) <= m
      BY <1>1, <1>2, <3>2, <3>7
    <3>10. Cardinality(Stuck') <= faults' * m
      <4> HIDE DEF m
      <4>1. QED
        BY <1>2, <3>3, <3>6, <3>7, <3>8, <3>9
    <3>11. QED
      BY <3>6, <3>10
  <2>4. QED
    BY <2>2, <2>3, StuckStep
<1>5. IInv /\ StuckInv => StrandedBounded
  <2> SUFFICES ASSUME IInv, StuckInv
               PROVE  StrandedBounded
    OBVIOUS
  <2> DEFINE left == Processing \ {held[w] : w \in Worker}
  <2>1. left \subseteq Stuck
    BY DEF Stuck
  <2>2. Cardinality(left) <= Cardinality(Stuck) /\ IsFiniteSet(left)
    BY <2>1, FS_Subset
  <2>3. Cardinality(left) \in Nat /\ Cardinality(Stuck) \in Nat
    BY <2>2, FS_CardinalityType
  <2>4. faults * m \in Nat
    BY <1>2, Rate DEF IInv, TypeOK
  <2>5. Cardinality(left) <= faults * Cardinality({w \in Worker : Home[w] = Q})
    <3>1. Cardinality(left) <= faults * m
      <4> HIDE DEF m, left
      <4>1. QED
        BY <2>2, <2>3, <2>4
    <3>2. QED
      BY <3>1 DEF Crew
  <2>6. QED
    BY <2>5 DEF StrandedBounded
<1>6. QED
  BY <1>3, <1>4, <1>5, Invariant, PTL DEF Spec

-----------------------------------------------------------------------------
(* One replica alone *)

SingleProcess == \A P, Q \in Process : P = Q

\* What a statement has found still holds when the next one is sent, since
\* the RLock keeps every other operation out.  No worker lives while the
\* process is down, so a Start takes no job away.
SingleInv ==
  /\ \A t \in Thread : ~up[Home[t]] => pc[t] = "idle"
  /\ retaken = {}
  /\ \A c \in Client :
       /\ pc[c] \in {"insert", "commit"} => HasRoom(Cardinality(Pending))
       /\ pc[c] = "commit" => row[c] = lastId
       /\ pc[c] = "purge" => doomed[c] = Pending
  /\ \A w \in Worker : pc[w] = "update" => \A j \in Pending : row[w] <= j

\* The RLock of the only process.
LEMMA SingleLock ==
  ASSUME SingleProcess, ConnInv
  PROVE  /\ \A t, u \in Thread : Inside(t) /\ Inside(u) => t = u
         /\ \A t, u \in Thread : MayRun(t) => ~Inside(u)
BY DEF SingleProcess, ConnInv, MayRun, Inside

LEMMA SingleStep ==
  ASSUME SingleProcess, IInv, ConnInv, SingleInv, [Next]_vars
  PROVE  SingleInv'
<1> DEFINE Down == \A t \in Thread : ~up[Home[t]] => pc[t] = "idle"
<1> USE DEF IInv, TypeOK, CallInv, Thread, threads, Goto, Fault, SingleInv
<1>a. ASSUME Down', retaken' = {}, \A t \in Thread : ~Inside(t)'
      PROVE  SingleInv'
  BY <1>a DEF Inside
<1>b. /\ \A t, u \in Thread : Inside(t) /\ Inside(u) => t = u
      /\ \A t, u \in Thread : MayRun(t) => ~Inside(u)
  BY SingleLock
<1>1. ASSUME NEW c \in Client, EnqueueCount(c)
      PROVE  SingleInv'
  <2>1. Pending' = Pending /\ HasRoom(Cardinality(Pending))
    BY <1>1 DEF EnqueueCount, Pending
  <2>2. HasRoom(Cardinality(Pending))'
    BY <2>1 DEF HasRoom
  <2>3. up[Home[c]] /\ pc' = [pc EXCEPT ![c] = "insert"]
    BY <1>1 DEF EnqueueCount, MayQuery, MayRun
  <2>4. \A t \in Thread : ~Inside(t)
    BY <1>1, <1>b DEF EnqueueCount, MayQuery
  <2>5. QED
    BY <1>1, <2>2, <2>3, <2>4 DEF EnqueueCount, Inside
<1>2. ASSUME NEW c \in Client, EnqueueInsert(c)
      PROVE  SingleInv'
  <2>1. Pending' = Pending /\ HasRoom(Cardinality(Pending))
    BY <1>2 DEF EnqueueInsert, Pending
  <2>2. HasRoom(Cardinality(Pending))'
    BY <2>1 DEF HasRoom
  <2>3. \A t \in Thread : t # c => ~Inside(t)
    BY <1>2, <1>b DEF EnqueueInsert, Inside
  <2>4. QED
    BY <1>2, <2>2, <2>3 DEF EnqueueInsert, Inside
<1>3. ASSUME NEW c \in Client, PurgeFind(c)
      PROVE  SingleInv'
  <2>1. Pending' = Pending
    BY <1>3 DEF PurgeFind, Pending
  <2>2. \A t \in Thread : ~Inside(t)
    BY <1>3, <1>b DEF PurgeFind, MayQuery
  <2>3. QED
    BY <1>3, <2>1, <2>2 DEF PurgeFind, MayQuery, MayRun, Inside
<1>4. ASSUME NEW w \in Worker, DequeueSelect(w)
      PROVE  SingleInv'
  <2>1. \A t \in Thread : ~Inside(t)
    BY <1>4, <1>b DEF DequeueSelect, MayQuery
  <2>2. Free = Pending /\ Pending' = Pending
    BY <1>4, <2>1 DEF DequeueSelect, Free, Locked, Pending, Inside
  <2>3. PICK j \in Pending : /\ \A k \in Pending : j <= k
                             /\ row' = [row EXCEPT ![w] = j]
    BY <1>4, <2>2 DEF DequeueSelect
  <2>4. QED
    BY <1>4, <2>1, <2>2, <2>3 DEF DequeueSelect, MayQuery, MayRun, Inside
<1>5. ASSUME NEW t \in Thread, NEW at \in {"idle", "running"},
             pc' = [pc EXCEPT ![t] = at], MayRun(t) \/ Inside(t),
             UNCHANGED <<up, retaken>>
      PROVE  SingleInv'
  <2>1. up[Home[t]] /\ \A u \in Thread : Inside(u) => u = t
    BY <1>5, <1>b DEF MayRun, Inside
  <2>2. Down' /\ \A u \in Thread : ~Inside(u)'
    BY <1>5, <2>1 DEF Inside
  <2>3. QED
    BY <1>5, <1>a, <2>2
<1>6. ASSUME NEW c \in Client, EnqueueCommit(c) \/ PurgeCommit(c) \/ CallRaises(c)
      PROVE  SingleInv'
  <2>1. /\ pc' = [pc EXCEPT ![c] = "idle"] /\ UNCHANGED <<up, retaken>>
        /\ MayRun(c) \/ Inside(c)
    BY <1>6 DEF EnqueueCommit, PurgeCommit, CallRaises, Inside
  <2>2. QED
    BY <1>5, <2>1
<1>7. ASSUME NEW w \in Worker,
             DequeueUpdate(w) \/ DequeueRaises(w) \/ Complete(w) \/ CompleteRaises(w)
      PROVE  SingleInv'
  <2>1. /\ \E at \in {"idle", "running"} : pc' = [pc EXCEPT ![w] = at]
        /\ UNCHANGED <<up, retaken>>
        /\ MayRun(w) \/ Inside(w)
    BY <1>7 DEF DequeueUpdate, DequeueRaises, Complete, CompleteRaises, MayQuery,
                Inside
  <2>2. QED
    BY <1>5, <2>1
<1>8. ASSUME NEW w \in Worker, DequeueHeals(w)
      PROVE  SingleInv'
  BY <1>8, <1>a, <1>b DEF DequeueHeals, Inside
<1>9. ASSUME NEW P \in Process, Crash(P)
      PROVE  SingleInv'
  <2>1. \A t \in Thread : Home[t] = P
    BY DEF SingleProcess
  <2>2. QED
    BY <1>9, <1>a, <2>1 DEF Crash, Inside
<1>10. ASSUME NEW P \in Process, Start(P)
       PROVE  SingleInv'
  <2>1. \A t \in Thread : Home[t] = P /\ pc[t] = "idle"
    BY <1>10 DEF SingleProcess, Start
  <2>2. \A w \in Worker : held[w] = 0
    BY <2>1
  <2>3. 0 \notin Processing
    BY DEF Processing, JobId
  <2>4. Processing \cap {held[w] : w \in Worker} = {}
    BY <2>2, <2>3
  <2>5. retaken' = {}
    BY <1>10, <2>4 DEF Start
  <2>6. QED
    BY <1>10, <1>a, <2>1, <2>5 DEF Start, Inside
<1>11. CASE UNCHANGED vars
  <2>1. Pending' = Pending
    BY <1>11 DEF vars, Pending
  <2>2. HasRoom(Cardinality(Pending)) => HasRoom(Cardinality(Pending))'
    BY <2>1 DEF HasRoom
  <2>3. UNCHANGED <<lastId, up, pc, row, doomed, retaken>>
    BY <1>11 DEF vars
  <2>4. QED
    BY <2>1, <2>2, <2>3
<1>12. QED
  BY <1>1, <1>2, <1>3, <1>4, <1>6, <1>7, <1>8, <1>9, <1>10, <1>11
  DEF Next, ClientStep, WorkerStep, ProcessStep

LEMMA SingleInvariant ==
  ASSUME SingleProcess
  PROVE  Spec => [](IInv /\ ConnInv /\ SingleInv)
<1>1. Init => ConnInv /\ SingleInv
  <2> SUFFICES ASSUME Init
               PROVE  ConnInv /\ SingleInv
    OBVIOUS
  <2>1. /\ \A t \in Thread : pc[t] = "idle"
        /\ \A c \in Client : pc[c] = "idle"
        /\ \A w \in Worker : pc[w] = "idle"
        /\ retaken = {}
    BY DEF Init, Thread
  <2>2. QED
    BY <2>1 DEF ConnInv, SingleInv, Inside
<1>2. IInv /\ ConnInv /\ SingleInv /\ [Next]_vars => ConnInv' /\ SingleInv'
  BY ConnStep, SingleStep
<1>3. QED
  BY <1>1, <1>2, Invariant, PTL DEF Spec

\* The tickets that the workers hold.
Owned == {held[w] : w \in Worker} \ {0}

\* With one replica on the table, PgJobQueue implements the protocol of
\* base.py: one atomic queue, FIFO, bounded, whose jobs leave only when they
\* are completed or purged while they wait, and recover after a crash,
\* whatever statements are refused and connections lost.
THEOREM Implements ==
  ASSUME SingleProcess
  PROVE  Spec => ImplementsJobQueue
<1> USE DEF JQ!Init, JQ!Next, JQ!vars
<1>1. Init => JQ!Init
  <2> SUFFICES ASSUME Init PROVE JQ!Init
    OBVIOUS
  <2>1. Pending = {} /\ Processing = {}
    BY DEF Init, Pending, Processing
  <2>2. Owned = {}
    BY DEF Init, Owned
  <2>3. Issued = 0
    BY DEF Init, Issued, Thread
  <2>4. QED
    BY <2>1, <2>2, <2>3 DEF Owned
<1>2. IInv /\ ConnInv /\ SingleInv /\ [Next]_vars => [JQ!Next]_(JQ!vars)
  <2> SUFFICES ASSUME IInv, ConnInv, SingleInv, [Next]_vars
               PROVE  JQ!Next \/ UNCHANGED JQ!vars
    OBVIOUS
  <2> USE DEF Owned, IInv, TypeOK, CallInv, Thread, threads, Goto, Fault
  <2>a. /\ \A t, u \in Thread : Inside(t) /\ Inside(u) => t = u
        /\ \A t, u \in Thread : MayRun(t) => ~Inside(u)
    BY SingleLock
  <2>b. (\A c \in Client : pc[c] # "commit") => Issued = lastId
    BY DEF Issued
  <2>c. (\A c \in Client : pc'[c] # "commit") => Issued' = lastId'
    BY DEF Issued
  <2>d. Issued \in Nat /\ Issued <= lastId
    BY DEF Issued, FreshInv, JobId
  <2>e. ASSUME UNCHANGED <<status, held>>, Issued' = Issued
        PROVE  UNCHANGED JQ!vars
    BY <2>e DEF Pending, Processing
  <2>f. ASSUME UNCHANGED <<status, lastId>>, Owned' \subseteq Owned,
               \A c \in Client : pc'[c] # "commit"
        PROVE  JQ!Abandon
    <3>1. Issued' \in Nat /\ Issued' >= Issued
      BY <2>c, <2>d, <2>f
    <3>2. Pending' = Pending /\ Processing' = Processing
      BY <2>f DEF Pending, Processing
    <3>3. QED
      BY <2>f, <3>1, <3>2 DEF JQ!Abandon
  <2>1. ASSUME NEW c \in Client, EnqueueCount(c) \/ PurgeFind(c)
        PROVE  UNCHANGED JQ!vars
    <3>1. \A d \in Client : pc[d] # "commit" /\ pc'[d] # "commit"
      BY <2>1, <2>a DEF EnqueueCount, PurgeFind, MayQuery, Inside
    <3>2. QED
      BY <2>1, <2>b, <2>c, <2>e, <3>1 DEF EnqueueCount, PurgeFind
  <2>2. ASSUME NEW c \in Client, EnqueueInsert(c)
        PROVE  UNCHANGED JQ!vars
    <3>1. \A d \in Client : pc[d] # "commit"
      BY <2>2, <2>a DEF EnqueueInsert, Inside
    <3>2. pc'[c] = "commit" /\ lastId' = lastId + 1
      BY <2>2 DEF EnqueueInsert
    <3>3. Issued' = lastId
      BY <3>2 DEF Issued
    <3>4. QED
      BY <2>2, <2>b, <2>e, <3>1, <3>3 DEF EnqueueInsert
  <2>3. ASSUME NEW c \in Client, EnqueueCommit(c)
        PROVE  JQ!Enqueue
    <3>1. /\ pc[c] = "commit" /\ row[c] = lastId /\ lastId \in JobId
          /\ HasRoom(Cardinality(Pending)) /\ status[lastId] = "none"
      BY <2>3 DEF EnqueueCommit, FreshInv, SingleInv
    <3>2. \A d \in Client : pc'[d] # "commit"
      BY <2>3, <2>a, <3>1 DEF EnqueueCommit, Inside
    <3>3. Issued = lastId - 1 /\ Issued' = lastId
      BY <2>3, <2>c, <3>1, <3>2 DEF EnqueueCommit, Issued
    <3>4. Issued' \in Nat /\ Issued' > Issued
      BY <3>1, <3>3 DEF JobId
    <3>5. Pending' = Pending \cup {Issued'} /\ Processing' = Processing
      BY <2>3, <3>1, <3>3 DEF EnqueueCommit, Pending, Processing
    <3>6. Owned' = Owned
      BY <2>3 DEF EnqueueCommit
    <3>7. MaxSize <= 0 \/ JQ!Cardinality(Pending) < MaxSize
      <4>1. JQ!Cardinality(Pending) = Cardinality(Pending)
        BY Zenon DEF JQ!Cardinality, Cardinality
      <4>2. QED
        BY <3>1, <4>1 DEF HasRoom
    <3>8. QED
      BY <3>4, <3>5, <3>6, <3>7 DEF JQ!Enqueue
  <2>4. ASSUME NEW c \in Client, PurgeCommit(c)
        PROVE  JQ!Purge
    <3>1. \A d \in Client : pc[d] # "commit" /\ pc'[d] # "commit"
      BY <2>4, <2>a DEF PurgeCommit, Inside
    <3>2. Issued' = Issued /\ Owned' = Owned
      BY <2>4, <2>b, <2>c, <3>1 DEF PurgeCommit
    <3>3. doomed[c] = Pending
      BY <2>4 DEF PurgeCommit, SingleInv
    <3>4. Pending' = {} /\ Processing' = Processing
      BY <2>4, <3>3 DEF PurgeCommit, Pending, Processing
    <3>5. QED
      BY <3>2, <3>4 DEF JQ!Purge
  <2>5. ASSUME NEW c \in Client, CallRaises(c)
        PROVE  JQ!Abandon
    <3>1. /\ \A t \in Thread : Inside(t) => t = c
          /\ pc' = [pc EXCEPT ![c] = "idle"] /\ UNCHANGED <<status, lastId, held>>
      BY <2>5, <2>a DEF CallRaises, Inside
    <3>2. \A d \in Client : pc'[d] # "commit"
      BY <3>1 DEF Inside
    <3>3. QED
      BY <2>f, <3>1, <3>2
  <2>6. ASSUME NEW w \in Worker, WorkerStep(w)
        PROVE  /\ Issued' = Issued
               /\ \A c \in Client : pc[c] # "commit" /\ pc'[c] # "commit"
    <3>1. /\ MayRun(w) \/ Inside(w)
          /\ \A c \in Client : pc'[c] = pc[c]
          /\ lastId' = lastId
      BY <2>6 DEF WorkerStep, DequeueSelect, DequeueUpdate, DequeueRaises,
                  DequeueHeals, Complete, CompleteRaises, MayQuery, Inside
    <3>2. \A c \in Client : pc[c] # "commit"
      BY <2>a, <3>1 DEF Inside
    <3>3. QED
      BY <2>b, <2>c, <3>1, <3>2
  <2>7. ASSUME NEW w \in Worker, DequeueSelect(w) \/ DequeueHeals(w)
        PROVE  UNCHANGED JQ!vars
    BY <2>6, <2>7, <2>e DEF WorkerStep, DequeueSelect, DequeueHeals
  <2>8. ASSUME NEW w \in Worker, pc[w] = "update", status' = Mark(row[w]),
               Issued' = Issued, Owned' \in {Owned, Owned \cup {row[w]}}
        PROVE  JQ!Dequeue
    <3>1. row[w] \in Pending /\ \A j \in Pending : row[w] <= j
      BY <2>8 DEF LockInv, SingleInv, Pending
    <3>2. /\ Pending' = Pending \ {row[w]}
          /\ Processing' = Processing \cup {row[w]}
      BY <2>8, <3>1 DEF Mark, Pending, Processing
    <3>3. QED
      BY <2>8, <3>1, <3>2 DEF JQ!Dequeue
  <2>9. ASSUME NEW w \in Worker, DequeueUpdate(w)
        PROVE  JQ!Dequeue
    <3>1. row[w] \in JobId /\ held[w] = 0 /\ pc[w] = "update"
      BY <2>9 DEF DequeueUpdate
    <3>2. Owned' = Owned \cup {row[w]}
      BY <2>9, <3>1 DEF DequeueUpdate, JobId
    <3>3. QED
      BY <2>6, <2>8, <2>9, <3>1, <3>2 DEF DequeueUpdate, WorkerStep
  <2>10. ASSUME NEW w \in Worker, DequeueRaises(w)
         PROVE  JQ!Dequeue \/ UNCHANGED JQ!vars
    <3>1. /\ pc[w] = "update" /\ UNCHANGED held /\ Issued' = Issued
          /\ status' = status \/ status' = Mark(row[w])
      BY <2>6, <2>10 DEF DequeueRaises, WorkerStep
    <3>2. Owned' = Owned
      BY <3>1
    <3>3. CASE status' = status
      BY <2>e, <3>1, <3>3
    <3>4. CASE status' = Mark(row[w])
      BY <2>8, <3>1, <3>2, <3>4
    <3>5. QED
      BY <3>1, <3>3, <3>4
  <2>11. ASSUME NEW w \in Worker, Complete(w)
         PROVE  JQ!Complete
    <3>1. /\ held[w] \in JobId /\ status[held[w]] = "processing"
          /\ \A v \in Worker : held[v] = held[w] => v = w
      BY <2>11 DEF Complete, HolderInv, SingleInv
    <3>2. /\ status' = [status EXCEPT ![held[w]] = "none"]
          /\ held' = [held EXCEPT ![w] = 0]
      BY <2>11 DEF Complete, Delete
    <3>3. Pending' = Pending /\ Processing' = Processing \ {held[w]}
      BY <3>1, <3>2 DEF Pending, Processing
    <3>4. held[w] \in Owned /\ Owned' = Owned \ {held[w]}
      BY <3>1, <3>2 DEF JobId
    <3>5. Issued' = Issued
      BY <2>6, <2>11 DEF WorkerStep
    <3>6. QED
      BY <3>3, <3>4, <3>5 DEF JQ!Complete
  <2>12. ASSUME NEW w \in Worker, CompleteRaises(w)
         PROVE  JQ!Abandon
    <3>1. Owned' \subseteq Owned /\ UNCHANGED <<status, lastId>>
      BY <2>12 DEF CompleteRaises
    <3>2. QED
      BY <2>6, <2>12, <2>f, <3>1 DEF WorkerStep
  <2>13. ASSUME NEW P \in Process, Crash(P)
         PROVE  JQ!Abandon
    <3>1. \A t \in Thread : Home[t] = P
      BY DEF SingleProcess
    <3>2. \A c \in Client : pc'[c] # "commit"
      BY <2>13, <3>1 DEF Crash
    <3>3. Owned' \subseteq Owned /\ UNCHANGED <<status, lastId>>
      BY <2>13 DEF Crash
    <3>4. QED
      BY <2>f, <3>2, <3>3
  <2>14. ASSUME NEW P \in Process, Start(P)
         PROVE  JQ!Recover
    <3>1. \A t \in Thread : Home[t] = P /\ pc[t] = "idle"
      BY <2>14 DEF SingleProcess, Start, SingleInv
    <3>2. \A w \in Worker : held[w] = 0 /\ held'[w] = 0
      BY <2>14, <3>1 DEF Start
    <3>3. Owned = {} /\ Owned' = {}
      BY <3>2
    <3>4. Pending' = Pending \cup Processing /\ Processing' = {}
      BY <2>14, StartStatus DEF Pending, Processing
    <3>5. Issued' = Issued
      BY <2>14, <2>b, <2>c, <3>1 DEF Start
    <3>6. QED
      BY <3>3, <3>4, <3>5 DEF JQ!Recover
  <2>15. CASE UNCHANGED vars
    <3>1. Issued' = Issued
      BY <2>15 DEF vars, Issued
    <3>2. QED
      BY <2>15, <2>e, <3>1 DEF vars
  <2>16. QED
    BY <2>1, <2>2, <2>3, <2>4, <2>5, <2>7, <2>9, <2>10, <2>11, <2>12, <2>13,
       <2>14, <2>15
    DEF Next, ClientStep, WorkerStep, ProcessStep
<1>3. QED
  BY <1>1, <1>2, SingleInvariant, PTL DEF Spec, ImplementsJobQueue, JQ!Spec
=============================================================================
