--------------------------- MODULE ServiceProofs ---------------------------
(***************************************************************************)
(* Proofs about Service, for every number of workers, photos, jobs,        *)
(* crashes and shutdowns.  The argument goes up in layers: types; where    *)
(* each task is with which job (Inv), and how many jobs a shutdown loses   *)
(* (LossInv); for a queue whose complete() never raises, which jobs are    *)
(* held (ReliableInv), the bound on the table and the order of the         *)
(* callbacks (OrderInv); and the refinement of JobQueue.  That complete()  *)
(* never raises is needed: if it does, the row stays in flight without a   *)
(* worker, and a cancelled task may go on (see the run                     *)
(* service_shutdown_hangs).                                                *)
(***************************************************************************)
EXTENDS ServiceLoss, FiniteSetTheorems, TLAPS

USE ServiceAssumption

-----------------------------------------------------------------------------
(* Types *)

LEMMA PhaseType == PhaseTypeOK /\ [Next]_vars => PhaseTypeOK'
<1> SUFFICES ASSUME PhaseTypeOK, [Next]_vars
             PROVE  PhaseTypeOK'
  OBVIOUS
<1> USE DEF PhaseTypeOK, stops
<1>1. CASE \E w \in Worker : WorkerStep(w) \/ LycheeHandles(w)
  BY <1>1 DEF WorkerStep, Fetch, Resume, Detect, DetectOk, DetectRaises, Post,
     PostOk, PostFails, ReportDone, Finish, Complete, CompleteFails,
     BeCancelled, CancelFetch, CancelJob, CancelComplete, FinishCancelled,
     Unwind, UnwindFails, LycheeHandles
<1>2. CASE (\E p \in Photo : Submit(p)) \/ Purge
  BY <1>2 DEF Submit, Purge
<1>3. CASE Start \/ Shutdown \/ Stopped \/ Crash \/ UNCHANGED vars
  BY <1>3 DEF Start, Shutdown, Stopped, Crash, vars
<1>4. QED
  BY <1>1, <1>2, <1>3 DEF Next

LEMMA QueueType == QueueTypeOK /\ [Next]_vars => QueueTypeOK'
<1> SUFFICES ASSUME QueueTypeOK, [Next]_vars
             PROVE  QueueTypeOK'
  OBVIOUS
<1> USE DEF QueueTypeOK, JobId, queue
<1>1. ASSUME NEW p \in Photo, Submit(p)
      PROVE  QueueTypeOK'
  BY <1>1 DEF Submit
<1>2. ASSUME NEW w \in Worker, Fetch(w)
      PROVE  QueueTypeOK'
  BY <1>2 DEF Fetch
<1>3. ASSUME NEW w \in Worker, DeleteRow(w) \/ UNCHANGED status, UNCHANGED lastId
      PROVE  QueueTypeOK'
  BY <1>3 DEF DeleteRow
<1>4. CASE Purge
  BY <1>4 DEF Purge
<1>5. CASE Start
  BY <1>5 DEF Start
<1>6. CASE Shutdown \/ Stopped \/ Crash \/ UNCHANGED vars
  BY <1>6 DEF Shutdown, Stopped, Crash, vars
<1>7. ASSUME NEW w \in Worker, Finish(w) \/ BeCancelled(w) \/ FinishCancelled(w)
      PROVE  QueueTypeOK'
  BY <1>3, <1>7 DEF Finish, Complete, CompleteFails, BeCancelled, CancelFetch,
     CancelJob, CancelComplete, FinishCancelled, Unwind, UnwindFails
<1>8. ASSUME NEW w \in Worker, \/ Resume(w) \/ Detect(w) \/ Post(w)
                               \/ ReportDone(w) \/ LycheeHandles(w)
      PROVE  QueueTypeOK'
  BY <1>8 DEF Resume, Detect, DetectOk, DetectRaises, Post, PostOk, PostFails,
     ReportDone, LycheeHandles
<1>9. QED
  BY <1>1, <1>2, <1>4, <1>5, <1>6, <1>7, <1>8 DEF Next, WorkerStep

LEMMA TasksType == TasksTypeOK /\ [Next]_vars => TasksTypeOK'
<1> SUFFICES ASSUME TasksTypeOK, [Next]_vars
             PROVE  TasksTypeOK'
  OBVIOUS
<1> USE DEF TasksTypeOK, Location, tasks, Goto, JobId
<1>1. ASSUME NEW w \in Worker, Fetch(w)
      PROVE  TasksTypeOK'
  BY <1>1 DEF Fetch, Pending
<1>2. ASSUME NEW w \in Worker, Resume(w) \/ Detect(w)
      PROVE  TasksTypeOK'
  BY <1>2 DEF Resume, Detect, DetectOk, DetectRaises
<1>3. ASSUME NEW w \in Worker, Post(w) \/ ReportDone(w)
      PROVE  TasksTypeOK'
  BY <1>3 DEF Post, PostOk, PostFails, ReportDone
<1>4. ASSUME NEW w \in Worker, LycheeHandles(w)
      PROVE  TasksTypeOK'
  BY <1>4 DEF LycheeHandles
<1>5. ASSUME NEW w \in Worker, Finish(w)
      PROVE  TasksTypeOK'
  BY <1>5 DEF Finish, Complete, CompleteFails
<1>6. ASSUME NEW w \in Worker, FinishCancelled(w)
      PROVE  TasksTypeOK'
  BY <1>6 DEF FinishCancelled, Unwind, UnwindFails
<1>7. ASSUME NEW w \in Worker, CancelFetch(w)
      PROVE  TasksTypeOK'
  BY <1>7 DEF Cancel, CancelFetch
<1>8. ASSUME NEW w \in Worker, CancelJob(w)
      PROVE  TasksTypeOK'
  BY <1>8 DEF Cancel, CancelJob
<1>9. ASSUME NEW w \in Worker, CancelComplete(w)
      PROVE  TasksTypeOK'
  BY <1>9 DEF Cancel, CancelComplete
<1>10. CASE (\E p \in Photo : Submit(p)) \/ Purge \/ Shutdown \/ UNCHANGED vars
  BY <1>10 DEF Submit, Purge, Shutdown, vars
<1>11. CASE Start \/ Stopped
  BY <1>11 DEF Start, Stopped
<1>12. CASE Crash
  BY <1>12 DEF Crash
<1>13. QED
  BY <1>1, <1>2, <1>3, <1>4, <1>5, <1>6, <1>7, <1>8, <1>9, <1>10, <1>11,
     <1>12
  DEF Next, WorkerStep, BeCancelled

-----------------------------------------------------------------------------
(* Tasks *)

\* The lifespan: no task runs while the process is down, and none has been
\* cancelled before the shutdown.
FollowsPhase(w) ==
  /\ phase = "down" => pc[w] = "off" /\ ~cancelled[w]
  /\ phase = "up" => pc[w] # "off" /\ ~cancelled[w]
  /\ pc[w] = "unwinding" => cancelled[w]

\* A task has a job exactly between dequeue and the end of complete().
HasJob(w) == job[w] = 0 <=> pc[w] \in {"off", "fetching"}

TasksInv ==
  /\ PhaseTypeOK /\ TasksTypeOK
  /\ \A w \in Worker : FollowsPhase(w) /\ HasJob(w)

LEMMA TasksInvNext == TasksInv /\ [Next]_vars => TasksInv'
<1> SUFFICES ASSUME TasksInv, [Next]_vars,
                    NEW v \in Worker
             PROVE  FollowsPhase(v)' /\ HasJob(v)'
  BY PhaseType, TasksType DEF TasksInv
<1>1. /\ phase \in {"down", "up", "stopping"}
      /\ pc \in [Worker -> Location]
      /\ job \in [Worker -> 0 .. MaxJobs]
      /\ cancelled \in [Worker -> BOOLEAN]
      /\ \A w \in Worker : FollowsPhase(w) /\ HasJob(w)
  BY DEF TasksInv, PhaseTypeOK, TasksTypeOK
<1> USE <1>1 DEF FollowsPhase, HasJob, tasks, Goto, Runs
<1>2. ASSUME NEW w \in Worker, Fetch(w)
      PROVE  FollowsPhase(v)' /\ HasJob(v)'
  BY <1>2 DEF Fetch, Pending, JobId
<1>3. ASSUME NEW w \in Worker, Resume(w) \/ Detect(w)
      PROVE  FollowsPhase(v)' /\ HasJob(v)'
  BY <1>3 DEF Resume, Detect, DetectOk, DetectRaises
<1>4. ASSUME NEW w \in Worker, Post(w) \/ ReportDone(w)
      PROVE  FollowsPhase(v)' /\ HasJob(v)'
  BY <1>4 DEF Post, PostOk, PostFails, ReportDone
<1>5. ASSUME NEW w \in Worker, LycheeHandles(w)
      PROVE  FollowsPhase(v)' /\ HasJob(v)'
  BY <1>5 DEF LycheeHandles
<1>6. ASSUME NEW w \in Worker, Finish(w)
      PROVE  FollowsPhase(v)' /\ HasJob(v)'
  BY <1>6 DEF Finish, Complete, CompleteFails
<1>7. ASSUME NEW w \in Worker, FinishCancelled(w)
      PROVE  FollowsPhase(v)' /\ HasJob(v)'
  BY <1>7 DEF FinishCancelled, Unwind, UnwindFails
<1>8. ASSUME NEW w \in Worker, CancelFetch(w)
      PROVE  FollowsPhase(v)' /\ HasJob(v)'
  BY <1>8 DEF Cancel, CancelFetch
<1>9. ASSUME NEW w \in Worker, CancelJob(w)
      PROVE  FollowsPhase(v)' /\ HasJob(v)'
  BY <1>9 DEF Cancel, CancelJob
<1>10. ASSUME NEW w \in Worker, CancelComplete(w)
       PROVE  FollowsPhase(v)' /\ HasJob(v)'
  BY <1>10 DEF Cancel, CancelComplete
<1>11. CASE (\E p \in Photo : Submit(p)) \/ Purge \/ UNCHANGED vars
  BY <1>11 DEF Submit, Purge, vars
<1>12. CASE Start
  BY <1>12 DEF Start
<1>13. CASE Shutdown
  BY <1>13 DEF Shutdown
<1>14. CASE Stopped
  BY <1>14 DEF Stopped
<1>15. CASE Crash
  BY <1>15 DEF Crash
<1>16. QED
  BY <1>2, <1>3, <1>4, <1>5, <1>6, <1>7, <1>8, <1>9, <1>10, <1>11, <1>12,
     <1>13, <1>14, <1>15
  DEF Next, WorkerStep, BeCancelled

-----------------------------------------------------------------------------
(* Types of the callbacks *)

LEMMA LycheeType ==
  LycheeTypeOK /\ QueueTypeOK /\ TasksInv /\ [Next]_vars
    => LycheeTypeOK'
<1> SUFFICES ASSUME LycheeTypeOK, QueueTypeOK, TasksInv, [Next]_vars
             PROVE  LycheeTypeOK'
  OBVIOUS
<1> USE DEF LycheeTypeOK, lychee
<1>1. ASSUME NEW p \in Photo, Submit(p)
      PROVE  LycheeTypeOK'
  BY <1>1 DEF Submit
<1>2. ASSUME NEW w \in Worker, NEW f \in [JobId -> SUBSET Callback],
             NEW c \in Callback
      PROVE  [f EXCEPT ![job[w]] = @ \cup {c}] \in [JobId -> SUBSET Callback]
  OBVIOUS
<1>3. \A w \in Worker : \A c \in Callback :
        Send(w, c) => sent' \in [JobId -> SUBSET Callback]
  BY <1>2 DEF Send
<1>4. "success" \in Callback /\ "internal_error" \in Callback
  BY DEF Callback
<1>5. ASSUME NEW w \in Worker, DetectOk(w)
      PROVE  LycheeTypeOK'
  BY <1>3, <1>4, <1>5 DEF DetectOk
<1>6. ASSUME NEW w \in Worker, DetectRaises(w)
      PROVE  LycheeTypeOK'
  <2>1. job[w] \in JobId
    BY <1>6 DEF DetectRaises, TasksInv, HasJob, TasksTypeOK, JobId
  <2>2. QED
    BY <1>3, <1>4, <1>6, <2>1 DEF DetectRaises
<1>7. ASSUME NEW w \in Worker, Post(w)
      PROVE  LycheeTypeOK'
  BY <1>3, <1>4, <1>7 DEF Post, PostOk, PostFails
<1>8. ASSUME NEW w \in Worker, LycheeHandles(w)
      PROVE  LycheeTypeOK'
  BY <1>2, <1>4, <1>8 DEF LycheeHandles
<1>9. CASE UNCHANGED lychee
  BY <1>9
<1>10. ASSUME NEW w \in Worker,
              \/ Fetch(w) \/ Resume(w) \/ ReportDone(w) \/ Finish(w)
              \/ BeCancelled(w) \/ FinishCancelled(w)
       PROVE  UNCHANGED lychee
  BY <1>10 DEF Fetch, Resume, ReportDone, Finish, Complete, CompleteFails,
     BeCancelled, CancelFetch, CancelJob, CancelComplete, FinishCancelled,
     Unwind, UnwindFails
<1>11. CASE Purge \/ Start \/ Shutdown \/ Stopped \/ Crash \/ UNCHANGED vars
  BY <1>11 DEF Purge, Start, Shutdown, Stopped, Crash, vars
<1>12. QED
  BY <1>1, <1>5, <1>6, <1>7, <1>8, <1>9, <1>10, <1>11
  DEF Next, WorkerStep, Detect

LEMMA TypeInvariant == Spec => [](TypeOK /\ TasksInv)
<1>1. Init => TypeOK /\ TasksInv
  BY DEF Init, TypeOK, PhaseTypeOK, QueueTypeOK, TasksTypeOK, LycheeTypeOK,
     TasksInv, FollowsPhase, HasJob, Location, JobId
<1>2. QED
  BY <1>1, PhaseType, QueueType, TasksType, TasksInvNext, LycheeType, PTL
  DEF Spec, TypeOK

\* Rows, tasks and callbacks keep their types through every step of the
\* worker loop and of the lifespan.  Types alone are not inductive: that an
\* inference raises for a job with an id needs TasksInv.
THEOREM TypeCorrect == Spec => []TypeOK
BY TypeInvariant, PTL

-----------------------------------------------------------------------------
(* Rows and the jobs of the tasks *)

\* The worker is done with its job, or gives up what it was about to get; the
\* row goes or, when complete() raises or was not reached, stays.
LetGo(w) ==
  /\ job' = [job EXCEPT ![w] = 0]
  /\ UNCHANGED lastId
  /\ (job[w] # 0 /\ DeleteRow(w)) \/ UNCHANGED status

SameRows == UNCHANGED <<status, lastId, job>>

\* As far as the queue is concerned a worker can only fetch, let go, or be
\* busy with something else.
LEMMA StepKinds ==
  ASSUME TasksInv, NEW w \in Worker, WorkerStep(w) \/ LycheeHandles(w)
  PROVE  Fetch(w) \/ LetGo(w) \/ SameRows
<1> USE DEF LetGo, SameRows, queue, TasksInv, HasJob
<1>1. CASE Fetch(w)
  BY <1>1
<1>2. CASE Resume(w) \/ Detect(w) \/ Post(w) \/ ReportDone(w) \/ LycheeHandles(w)
  BY <1>2 DEF Resume, Detect, DetectOk, DetectRaises, Post, PostOk, PostFails,
     ReportDone, LycheeHandles
<1>3. CASE Finish(w)
  BY <1>3 DEF Finish, Complete, CompleteFails
<1>4. CASE FinishCancelled(w)
  BY <1>4 DEF FinishCancelled, Unwind, UnwindFails
<1>5. CASE BeCancelled(w)
  BY <1>5 DEF BeCancelled, CancelFetch, CancelJob, CancelComplete
<1>6. QED
  BY <1>1, <1>2, <1>3, <1>4, <1>5 DEF WorkerStep

\* AUTOINCREMENT: no row has an id that was not issued yet.
Fresh == \A j \in JobId : j > lastId => status[j] = "none"

\* The row of a job that a task holds is marked as in flight.
HeldIsProcessing == \A w \in Worker : job[w] # 0 => job[w] \in Processing

RowsInv == QueueTypeOK /\ Fresh /\ HeldIsProcessing /\ OneWorkerPerJob

LEMMA RowsInvNext == TasksInv /\ RowsInv /\ [Next]_vars => RowsInv'
<1> SUFFICES ASSUME TasksInv, RowsInv, [Next]_vars
             PROVE  RowsInv'
  OBVIOUS
<1>1. /\ QueueTypeOK'
      /\ status \in [JobId -> {"none", "pending", "processing"}]
      /\ lastId \in 0 .. MaxJobs
      /\ job \in [Worker -> 0 .. MaxJobs]
      /\ Fresh /\ HeldIsProcessing /\ OneWorkerPerJob
  BY QueueType DEF RowsInv, QueueTypeOK, TasksInv, TasksTypeOK
<1> SUFFICES Fresh' /\ HeldIsProcessing' /\ OneWorkerPerJob'
  BY <1>1 DEF RowsInv
<1> USE <1>1 DEF Fresh, HeldIsProcessing, OneWorkerPerJob, Processing, JobId
<1>2. ASSUME NEW p \in Photo, Submit(p)
      PROVE  Fresh' /\ HeldIsProcessing' /\ OneWorkerPerJob'
  BY <1>2 DEF Submit, tasks
<1>3. CASE Purge
  BY <1>3 DEF Purge, tasks, Pending
<1>4. ASSUME NEW w \in Worker, Fetch(w)
      PROVE  Fresh' /\ HeldIsProcessing' /\ OneWorkerPerJob'
  <2>1. PICK j \in JobId :
          /\ status[j] = "pending"
          /\ status' = [status EXCEPT ![j] = "processing"]
          /\ job' = [job EXCEPT ![w] = j]
          /\ lastId' = lastId
    BY <1>4 DEF Fetch, Pending
  <2>2. \A v \in Worker : job[v] # j
    BY <2>1
  <2>3. Fresh'
    BY <2>1
  <2>4. HeldIsProcessing'
    BY <2>1, <2>2
  <2>5. OneWorkerPerJob'
    BY <2>1, <2>2
  <2>6. QED
    BY <2>3, <2>4, <2>5
<1>5. ASSUME NEW w \in Worker, LetGo(w)
      PROVE  Fresh' /\ HeldIsProcessing' /\ OneWorkerPerJob'
  BY <1>5 DEF LetGo, DeleteRow
<1>6. CASE SameRows
  BY <1>6 DEF SameRows
<1>7. CASE Start
  BY <1>7 DEF Start, TasksInv, FollowsPhase, HasJob
<1>8. CASE Crash
  BY <1>8 DEF Crash, queue
<1>9. CASE Shutdown \/ Stopped \/ UNCHANGED vars
  BY <1>6, <1>9 DEF Shutdown, Stopped, SameRows, vars, queue, tasks
<1>10. QED
  BY <1>2, <1>3, <1>4, <1>5, <1>6, <1>7, <1>8, <1>9, StepKinds DEF Next

-----------------------------------------------------------------------------
(* Callbacks *)

\* From the first callback on, until complete() ends.
CallbackSent ==
  \A w \in Worker :
    pc[w] \in {"posting", "posted", "reporting", "reported", "completing"}
      => sent[job[w]] # {}

Inv == TypeOK /\ TasksInv /\ RowsInv /\ CallbackSent

\* sent only grows.
LEMMA SentGrows ==
  ASSUME LycheeTypeOK, [Next]_vars
  PROVE  \A j \in JobId : sent[j] \subseteq sent'[j]
<1>1. ASSUME NEW w \in Worker, NEW c, Send(w, c)
      PROVE  \A j \in JobId : sent[j] \subseteq sent'[j]
  BY <1>1 DEF Send, LycheeTypeOK
<1>2. ASSUME NEW w \in Worker, WorkerStep(w) \/ LycheeHandles(w)
      PROVE  UNCHANGED sent \/ (\E c : Send(w, c))
  BY <1>2 DEF WorkerStep, Fetch, Resume, Detect, DetectOk, DetectRaises, Post,
     PostOk, PostFails, ReportDone, Finish, Complete, CompleteFails,
     BeCancelled, CancelFetch, CancelJob, CancelComplete, FinishCancelled,
     Unwind, UnwindFails, LycheeHandles, lychee
<1>3. CASE \/ (\E p \in Photo : Submit(p)) \/ Purge
           \/ Start \/ Shutdown \/ Stopped \/ Crash \/ UNCHANGED vars
  BY <1>3 DEF Submit, Purge, Start, Shutdown, Stopped, Crash, vars, lychee
<1>4. QED
  BY <1>1, <1>2, <1>3 DEF Next

LEMMA CallbackSentNext ==
  LycheeTypeOK /\ TasksInv /\ CallbackSent /\ [Next]_vars => CallbackSent'
<1> DEFINE After == {"posting", "posted", "reporting", "reported", "completing"}
<1> SUFFICES ASSUME LycheeTypeOK, TasksInv, CallbackSent, [Next]_vars,
                    NEW v \in Worker, pc'[v] \in After
             PROVE  sent'[job'[v]] # {}
  BY DEF CallbackSent
<1>1. /\ pc \in [Worker -> Location]
      /\ job \in [Worker -> 0 .. MaxJobs]
      /\ \A w \in Worker : HasJob(w)
  BY DEF TasksInv, TasksTypeOK
<1>2. ASSUME pc[v] \in After, job'[v] = job[v]
      PROVE  sent'[job'[v]] # {}
  <2>1. job[v] \in JobId
    BY <1>1, <1>2 DEF HasJob, JobId
  <2>2. sent[job[v]] # {}
    BY <1>2 DEF CallbackSent
  <2>3. QED
    BY <1>2, <2>1, <2>2, SentGrows
<1>3. ASSUME NEW w \in Worker, Detect(w)
      PROVE  sent'[job'[v]] # {}
  <2>1. CASE v = w
    <3>1. job[w] \in JobId /\ job'[w] = job[w]
      BY <1>1, <1>3 DEF Detect, DetectOk, DetectRaises, HasJob, JobId
    <3>2. QED
      BY <1>3, <2>1, <3>1 DEF Detect, DetectOk, DetectRaises, Send, LycheeTypeOK
  <2>2. CASE v # w
    BY <1>1, <1>2, <1>3, <2>2 DEF Detect, DetectOk, DetectRaises, Goto
  <2>3. QED
    BY <2>1, <2>2
<1>4. ASSUME NEW w \in Worker, Post(w) \/ ReportDone(w) \/ LycheeHandles(w)
      PROVE  sent'[job'[v]] # {}
  BY <1>1, <1>2, <1>4 DEF Post, PostOk, PostFails, ReportDone, LycheeHandles, Goto
<1>5. ASSUME NEW w \in Worker, Fetch(w) \/ Resume(w)
      PROVE  sent'[job'[v]] # {}
  BY <1>1, <1>2, <1>5 DEF Fetch, Resume, Goto
<1>6. ASSUME NEW w \in Worker, Finish(w) \/ FinishCancelled(w)
      PROVE  sent'[job'[v]] # {}
  BY <1>1, <1>2, <1>6 DEF Finish, Complete, CompleteFails, FinishCancelled,
     Unwind, UnwindFails, Goto
<1>7. ASSUME NEW w \in Worker, BeCancelled(w)
      PROVE  sent'[job'[v]] # {}
  BY <1>1, <1>2, <1>7 DEF BeCancelled, CancelFetch, CancelJob, CancelComplete, Goto
<1>8. CASE (\E p \in Photo : Submit(p)) \/ Purge \/ Shutdown \/ Stopped
           \/ UNCHANGED vars
  BY <1>2, <1>8 DEF Submit, Purge, Shutdown, Stopped, vars, tasks
<1>9. CASE Start \/ Crash
  BY <1>9 DEF Start, Crash
<1>10. QED
  BY <1>3, <1>4, <1>5, <1>6, <1>7, <1>8, <1>9 DEF Next, WorkerStep

LEMMA Invariant == Spec => []Inv
<1>1. Init => RowsInv /\ CallbackSent
  BY DEF Init, RowsInv, QueueTypeOK, Fresh, HeldIsProcessing, OneWorkerPerJob,
     CallbackSent, JobId
<1>2. QED
  BY <1>1, TypeInvariant, RowsInvNext, CallbackSentNext, PTL
  DEF Spec, Inv, TypeOK

\* No job is ever run by two workers at once, also around crashes, restarts,
\* shutdowns and deletes that fail.
THEOREM Exclusive == Spec => []OneWorkerPerJob
<1>1. Inv => OneWorkerPerJob
  BY DEF Inv, RowsInv
<1>2. QED
  BY <1>1, Invariant, PTL

\* Only the finally of a cancelled task deletes a job in flight for which
\* nothing was sent.
LEMMA UnansweredDelete ==
  ASSUME Inv, [Next]_vars, NEW j \in JobId,
         status[j] = "processing", status'[j] = "none", sent[j] = {}
  PROVE  \E w \in Worker : Unwind(w) /\ j = job[w]
<1>1. /\ status \in [JobId -> {"none", "pending", "processing"}]
      /\ job \in [Worker -> 0 .. MaxJobs]
  BY DEF Inv, TypeOK, QueueTypeOK, TasksTypeOK
<1>2. ASSUME NEW w \in Worker, Complete(w) \/ CancelComplete(w)
      PROVE  FALSE
  <2>1. j = job[w]
    BY <1>1, <1>2 DEF Complete, CancelComplete, DeleteRow
  <2>2. QED
    BY <1>2, <2>1 DEF Complete, CancelComplete, Inv, CallbackSent
<1>3. ASSUME NEW w \in Worker, Unwind(w)
      PROVE  j = job[w]
  BY <1>1, <1>3 DEF Unwind, DeleteRow
<1>4. ASSUME NEW w \in Worker, Fetch(w)
      PROVE  FALSE
  BY <1>1, <1>4 DEF Fetch, Pending
<1>5. ASSUME NEW p \in Photo, Submit(p)
      PROVE  FALSE
  BY <1>1, <1>5 DEF Submit, JobId
<1>6. CASE Purge \/ Start
  BY <1>1, <1>6 DEF Purge, Start, Pending, Processing
<1>7. CASE Shutdown \/ Stopped \/ Crash \/ UNCHANGED vars
  BY <1>7 DEF Shutdown, Stopped, Crash, vars, queue
<1>8. ASSUME NEW w \in Worker,
             \/ Resume(w) \/ Detect(w) \/ Post(w) \/ ReportDone(w)
             \/ LycheeHandles(w) \/ CompleteFails(w) \/ CancelFetch(w)
             \/ CancelJob(w) \/ UnwindFails(w)
      PROVE  FALSE
  BY <1>8 DEF Resume, Detect, DetectOk, DetectRaises, Post, PostOk, PostFails,
     ReportDone, LycheeHandles, CompleteFails, CancelFetch, CancelJob,
     UnwindFails, queue
<1>9. QED
  BY <1>2, <1>3, <1>4, <1>5, <1>6, <1>7, <1>8
  DEF Next, WorkerStep, Finish, BeCancelled, FinishCancelled

\* A job in flight leaves the table unanswered only when a graceful shutdown
\* cancelled its task: never by an error of the inference, a failed POST, a
\* purge, a crash or a restart.
THEOREM NoSilentLoss == Spec => LostOnlyByShutdown
<1> DEFINE Kept ==
      \A j \in JobId : status[j] = "processing" /\ status'[j] = "none"
                         => sent[j] # {} \/ phase = "stopping"
<1>1. Inv /\ [Next]_vars => Kept
  <2>1. \A w \in Worker : Inv /\ Unwind(w) => phase = "stopping"
    BY DEF Unwind, Inv, TasksInv, FollowsPhase, PhaseTypeOK
  <2>2. QED
    BY <2>1, UnansweredDelete
<1>2. QED
  BY <1>1, Invariant, PTL DEF Spec, LostOnlyByShutdown

-----------------------------------------------------------------------------
(* How many jobs can be lost *)

\* The tasks from which the shutdown under way may yet take an unanswered job.
AtRisk ==
  {w \in Worker : phase = "stopping" /\ (~cancelled[w] \/ pc[w] = "unwinding")}

LossInv ==
  /\ IsFiniteSet(lost)
  /\ Cardinality(lost) + Cardinality(AtRisk) <= shutdowns * Cardinality(Worker)

\* A task leaves AtRisk for good, when it is cancelled elsewhere or when it
\* deletes the job.
LEMMA RiskShrinks ==
  ASSUME Inv, [Next]_vars, ~Shutdown
  PROVE  /\ AtRisk' \subseteq AtRisk /\ shutdowns' = shutdowns
         /\ \A w \in Worker : Unwind(w) => w \in AtRisk /\ w \notin AtRisk'
<1> USE DEF AtRisk, Inv, TypeOK, TasksInv, TasksTypeOK, PhaseTypeOK, FollowsPhase
<1>1. ASSUME NEW w \in Worker, WorkerStep(w) \/ LycheeHandles(w)
      PROVE  /\ phase' = phase /\ shutdowns' = shutdowns
             /\ \A v \in Worker : v # w => pc'[v] = pc[v]
                                           /\ cancelled'[v] = cancelled[v]
             /\ cancelled[w] => cancelled'[w]
             /\ pc'[w] = "unwinding" => ~cancelled[w]
  BY <1>1 DEF WorkerStep, LycheeHandles, Fetch, Resume, Detect, DetectOk,
     DetectRaises, Post, PostOk, PostFails, ReportDone, Finish, Complete,
     CompleteFails, BeCancelled, CancelFetch, CancelJob, CancelComplete, Cancel,
     FinishCancelled, Unwind, UnwindFails, Goto, stops
<1>2. ASSUME NEW w \in Worker, WorkerStep(w) \/ LycheeHandles(w)
      PROVE  AtRisk' \subseteq AtRisk /\ shutdowns' = shutdowns
  BY <1>1, <1>2
<1>3. ASSUME \/ \E p \in Photo : Submit(p)
             \/ Purge \/ Start \/ Stopped \/ Crash \/ UNCHANGED vars
      PROVE  AtRisk' \subseteq AtRisk /\ shutdowns' = shutdowns
  <2>1. \/ UNCHANGED <<phase, shutdowns, pc, cancelled>>
        \/ phase' # "stopping" /\ shutdowns' = shutdowns
    BY <1>3 DEF Submit, Purge, Start, Stopped, Crash, vars, stops, tasks
  <2>2. QED
    BY <2>1
<1>4. AtRisk' \subseteq AtRisk /\ shutdowns' = shutdowns
  BY <1>2, <1>3 DEF Next
<1>5. ASSUME NEW w \in Worker, Unwind(w)
      PROVE  w \in AtRisk /\ w \notin AtRisk'
  BY <1>5 DEF Unwind, Goto
<1>6. QED
  BY <1>4, <1>5

LEMMA LossStep ==
  ASSUME Inv, LossInv, [Next]_vars, Count \/ lost' = lost
  PROVE  LossInv'
<1> DEFINE m == Cardinality(Worker)
           New == {j \in Processing : status'[j] = "none" /\ sent[j] = {}}
<1>1. /\ AtRisk \subseteq Worker /\ AtRisk' \subseteq Worker
      /\ IsFiniteSet(AtRisk) /\ IsFiniteSet(AtRisk')
  BY FS_Subset DEF AtRisk
<1>2. /\ m \in Nat /\ shutdowns \in Nat
      /\ Cardinality(AtRisk) \in Nat /\ Cardinality(AtRisk') \in Nat
      /\ Cardinality(lost) \in Nat
  BY <1>1, FS_CardinalityType DEF LossInv, Inv, TypeOK, TasksInv, PhaseTypeOK
<1>3. ASSUME NEW j \in New
      PROVE  \E w \in Worker : Unwind(w) /\ j = job[w]
  BY UnansweredDelete DEF Processing
<1>4. CASE Shutdown
  <2>1. New = {}
    BY <1>4 DEF Shutdown, queue, Processing
  <2>2. lost' = lost
    BY <2>1 DEF Count, Gone
  <2>3. AtRisk = {} /\ shutdowns' = shutdowns + 1
    BY <1>4 DEF Shutdown, AtRisk
  <2>4. Cardinality(AtRisk) = 0
    BY <2>3, FS_EmptySet
  <2>5. Cardinality(AtRisk') <= m
    BY <1>1, FS_Subset
  <2>6. shutdowns' * m = shutdowns * m + m /\ shutdowns * m \in Nat
    <3> HIDE DEF m
    <3>1. QED
      BY <1>2, <2>3
  <2>7. Cardinality(lost) + Cardinality(AtRisk') <= shutdowns' * m
    <3>1. Cardinality(lost) <= shutdowns * m
      BY <1>2, <2>4 DEF LossInv
    <3> HIDE DEF m
    <3>2. QED
      BY <1>2, <2>5, <2>6, <3>1
  <2>8. QED
    BY <2>2, <2>7 DEF LossInv
<1>5. CASE ~Shutdown /\ New = {}
  <2>1. lost' = lost
    BY <1>5 DEF Count, Gone
  <2>2. AtRisk' \subseteq AtRisk /\ shutdowns' = shutdowns
    BY <1>5, RiskShrinks
  <2>3. Cardinality(AtRisk') <= Cardinality(AtRisk)
    BY <1>1, <2>2, FS_Subset
  <2>4. Cardinality(lost) + Cardinality(AtRisk') <= shutdowns * m
    <3>1. Cardinality(lost) + Cardinality(AtRisk) <= shutdowns * m
      BY DEF LossInv
    <3> DEFINE b == shutdowns * m
    <3>2. b \in Nat
      <4> HIDE DEF m
      <4>1. QED
        BY <1>2
    <3> HIDE DEF m, b
    <3>3. QED
      BY <1>2, <2>3, <3>1, <3>2 DEF b
  <2>5. QED
    BY <2>1, <2>2, <2>4 DEF LossInv
<1>6. CASE ~Shutdown /\ New # {}
  <2>1. PICK w \in Worker : Unwind(w)
    BY <1>3, <1>6
  <2>2. \A j \in New : j = job[w]
    BY <1>3, <2>1 DEF Unwind, DeleteRow, Inv, TypeOK, TasksTypeOK, QueueTypeOK,
       RowsInv, HeldIsProcessing, Processing
  <2>3. lost' \subseteq lost \cup {job[w]}
    BY <2>2 DEF Count, Gone
  <2>4. /\ IsFiniteSet(lost \cup {job[w]})
        /\ Cardinality(lost \cup {job[w]}) <= Cardinality(lost) + 1
    <3>1. IsFiniteSet(lost)
      BY DEF LossInv
    <3>2. /\ IsFiniteSet(lost \cup {job[w]})
          /\ Cardinality(lost \cup {job[w]})
               = IF job[w] \in lost THEN Cardinality(lost) ELSE Cardinality(lost) + 1
      BY <3>1, FS_AddElement
    <3>3. QED
      BY <1>2, <3>2
  <2>5. IsFiniteSet(lost') /\ Cardinality(lost') <= Cardinality(lost \cup {job[w]})
    BY <2>3, <2>4, FS_Subset
  <2>6. /\ AtRisk' \subseteq AtRisk \ {w} /\ w \in AtRisk
        /\ shutdowns' = shutdowns
    BY <1>6, <2>1, RiskShrinks
  <2>7. /\ IsFiniteSet(AtRisk \ {w})
        /\ Cardinality(AtRisk \ {w}) = Cardinality(AtRisk) - 1
    BY <1>1, <2>6, FS_RemoveElement
  <2>8. Cardinality(AtRisk') <= Cardinality(AtRisk \ {w})
    BY <2>6, <2>7, FS_Subset
  <2>9. Cardinality(lost') \in Nat /\ Cardinality(lost \cup {job[w]}) \in Nat
    BY <2>4, <2>5, FS_CardinalityType
  <2>10. Cardinality(lost') + Cardinality(AtRisk') <= shutdowns * m
    <3>1. Cardinality(lost) + Cardinality(AtRisk) <= shutdowns * m
      BY DEF LossInv
    <3> DEFINE b == shutdowns * m
    <3>2. b \in Nat
      <4> HIDE DEF m
      <4>1. QED
        BY <1>2
    <3> HIDE DEF m, b
    <3>3. QED
      BY <1>2, <2>4, <2>5, <2>7, <2>8, <2>9, <3>1, <3>2 DEF b
  <2>11. QED
    BY <2>5, <2>6, <2>10 DEF LossInv
<1>7. QED
  BY <1>4, <1>5, <1>6

\* The finally of run_worker takes one unanswered job from each task at most
\* while the service shuts down, and nothing else takes any, whatever
\* complete() raises and however often the service crashes.
THEOREM FewLost == CountedSpec => []LossPerShutdown
<1>1. CountedInit => Init /\ LossInv
  <2> SUFFICES ASSUME CountedInit
               PROVE  LossInv
    BY DEF CountedInit
  <2>1. lost = {} /\ AtRisk = {} /\ shutdowns = 0
    BY DEF CountedInit, Init, AtRisk
  <2>2. Cardinality(Worker) \in Nat
    BY FS_CardinalityType
  <2>3. 0 + 0 <= 0 * Cardinality(Worker)
    BY <2>2
  <2>4. QED
    BY <2>1, <2>3, FS_EmptySet DEF LossInv
<1>2. [CountedNext]_<<vars, losses>> => [Next]_vars /\ (Count \/ lost' = lost)
  BY DEF CountedNext, losses, Next, WorkerStep, Detect, Post, Finish, BeCancelled,
     FinishCancelled
<1>3. Inv /\ LossInv => LossPerShutdown
  <2> SUFFICES ASSUME Inv, LossInv
               PROVE  LossPerShutdown
    OBVIOUS
  <2>1. IsFiniteSet(AtRisk)
    BY FS_Subset DEF AtRisk
  <2>2. /\ Cardinality(AtRisk) \in Nat /\ Cardinality(lost) \in Nat
        /\ Cardinality(Worker) \in Nat /\ shutdowns \in Nat
    BY <2>1, FS_CardinalityType DEF LossInv, Inv, TypeOK, PhaseTypeOK
  <2>3. shutdowns * Cardinality(Worker) \in Nat
    BY <2>2
  <2>4. QED
    BY <2>2, <2>3 DEF LossInv, LossPerShutdown
<1>4. QED
  BY <1>1, <1>2, <1>3, Invariant, LossStep, PTL DEF CountedSpec, Spec

-----------------------------------------------------------------------------
(* Error callbacks *)

Explained(j) == j \in raised \/ "success" \in sent[j]

\* A task that posts has sent its results; one that reports was given a reason.
ExplainInv ==
  /\ \A w \in Worker :
       /\ pc[w] \in {"posting", "posted"} => "success" \in sent[job[w]]
       /\ pc[w] \in {"reporting", "reported"} => Explained(job[w])
  /\ ErrorIsExplained

LEMMA ExplainNext ==
  ASSUME LycheeTypeOK, TasksInv, ExplainInv, [Next]_vars
  PROVE  ExplainInv'
<1>1. /\ pc \in [Worker -> Location]
      /\ job \in [Worker -> 0 .. MaxJobs]
      /\ \A w \in Worker : HasJob(w)
      /\ sent \in [JobId -> SUBSET Callback]
      /\ received \in [JobId -> SUBSET Callback]
  BY DEF TasksInv, TasksTypeOK, LycheeTypeOK
<1>2. raised \subseteq raised'
  BY DEF Next, Submit, Purge, WorkerStep, Fetch, Resume, Detect, DetectOk,
     DetectRaises, Post, PostOk, PostFails, ReportDone, Finish, Complete,
     CompleteFails, BeCancelled, CancelFetch, CancelJob, CancelComplete,
     FinishCancelled, Unwind, UnwindFails, LycheeHandles, Start, Shutdown,
     Stopped, Crash, vars, lychee
<1>3. \A j \in JobId : Explained(j) => Explained(j)'
  BY <1>2, SentGrows DEF Explained
<1>4. ASSUME UNCHANGED received,
             \A v \in Worker :
               \/ pc'[v] \notin {"posting", "posted", "reporting", "reported"}
               \/ pc'[v] = pc[v] /\ job'[v] = job[v]
      PROVE  ExplainInv'
  <2>1. ErrorIsExplained'
    BY <1>3, <1>4 DEF ExplainInv, ErrorIsExplained, Explained
  <2>2. ASSUME NEW v \in Worker, pc'[v] \in {"posting", "posted", "reporting", "reported"}
        PROVE  /\ pc'[v] \in {"posting", "posted"} => "success" \in sent'[job'[v]]
               /\ pc'[v] \in {"reporting", "reported"}
                    => job'[v] \in raised' \/ "success" \in sent'[job'[v]]
    <3>1. pc'[v] = pc[v] /\ job'[v] = job[v]
      BY <1>4, <2>2
    <3>2. job[v] \in JobId
      BY <1>1, <2>2, <3>1 DEF HasJob, JobId
    <3>3. sent[job[v]] \subseteq sent'[job[v]]
      BY <3>2, SentGrows
    <3>4. QED
      BY <1>2, <3>1, <3>3 DEF ExplainInv, Explained
  <2>3. QED
    <3>1. ASSUME NEW v \in Worker
          PROVE  /\ pc'[v] \in {"posting", "posted"} => "success" \in sent'[job'[v]]
                 /\ pc'[v] \in {"reporting", "reported"}
                      => job'[v] \in raised' \/ "success" \in sent'[job'[v]]
      BY <2>2
    <3>2. QED
      BY <2>1, <3>1, Zenon DEF ExplainInv, Explained
<1>5. ASSUME NEW w \in Worker, DetectOk(w) \/ DetectRaises(w) \/ PostFails(w)
      PROVE  ExplainInv'
  <2>1. /\ pc[w] \in {"detecting", "posting", "posted"} /\ job' = job
        /\ received' = received /\ job[w] \in JobId
    BY <1>1, <1>5 DEF DetectOk, DetectRaises, PostFails, HasJob, JobId
  <2>2. \A v \in Worker : v # w => pc'[v] = pc[v]
    BY <1>1, <1>5 DEF DetectOk, DetectRaises, PostFails, Goto
  <2>3. \A v \in Worker : v # w /\ pc[v] \in {"posting", "posted", "reporting", "reported"}
          => job[v] \in JobId
    BY <1>1 DEF HasJob, JobId
  <2>4. \/ pc'[w] = "posting" /\ "success" \in sent'[job[w]]
        \/ pc'[w] = "reporting" /\ job[w] \in raised'
        \/ pc'[w] = "reporting" /\ "success" \in sent'[job[w]]
    <3>1. CASE DetectOk(w)
      BY <1>1, <2>1, <3>1 DEF DetectOk, Goto, Send
    <3>2. CASE DetectRaises(w)
      BY <1>1, <2>1, <3>2 DEF DetectRaises, Goto
    <3>3. CASE PostFails(w)
      BY <1>1, <2>1, <3>3, SentGrows DEF PostFails, Goto, ExplainInv
    <3>4. QED
      BY <1>5, <3>1, <3>2, <3>3
  <2>5. ErrorIsExplained'
    BY <1>3, <2>1 DEF ExplainInv, ErrorIsExplained, Explained
  <2>6. ASSUME NEW v \in Worker
        PROVE  /\ pc'[v] \in {"posting", "posted"} => "success" \in sent'[job'[v]]
               /\ pc'[v] \in {"reporting", "reported"}
                    => job'[v] \in raised' \/ "success" \in sent'[job'[v]]
    <3>1. CASE v = w
      BY <2>1, <2>4, <3>1
    <3>2. CASE v # w /\ pc[v] \in {"posting", "posted", "reporting", "reported"}
      <4>1. job[v] \in JobId /\ pc'[v] = pc[v] /\ job'[v] = job[v]
        BY <2>1, <2>2, <2>3, <3>2
      <4>2. sent[job[v]] \subseteq sent'[job[v]]
        BY <4>1, SentGrows
      <4>3. QED
        BY <1>2, <4>1, <4>2 DEF ExplainInv, Explained
    <3>3. CASE v # w /\ pc[v] \notin {"posting", "posted", "reporting", "reported"}
      BY <2>2, <3>3
    <3>4. QED
      BY <3>1, <3>2, <3>3
  <2>7. QED
    BY <2>5, <2>6, Zenon DEF ExplainInv, Explained
<1>6. ASSUME NEW w \in Worker, LycheeHandles(w)
      PROVE  ExplainInv'
  <2>1. /\ job' = job /\ sent' = sent /\ raised' = raised /\ job[w] \in JobId
        /\ \/ /\ pc[w] = "posting" /\ pc' = [pc EXCEPT ![w] = "posted"]
              /\ received' = [received EXCEPT ![job[w]] = @ \cup {"success"}]
           \/ /\ pc[w] = "reporting" /\ pc' = [pc EXCEPT ![w] = "reported"]
              /\ received' = [received EXCEPT ![job[w]] = @ \cup {"internal_error"}]
    BY <1>1, <1>6 DEF LycheeHandles, Goto, HasJob, JobId
  <2>2. \A j \in JobId : "internal_error" \in received'[j]
          => "internal_error" \in received[j] \/ (pc[w] = "reporting" /\ j = job[w])
    <3>1. CASE pc[w] = "posting"
      BY <1>1, <2>1, <3>1
    <3>2. CASE pc[w] = "reporting"
      BY <1>1, <2>1, <3>2
    <3>3. QED
      BY <2>1, <3>1, <3>2
  <2>3. ErrorIsExplained'
    BY <2>1, <2>2 DEF ExplainInv, ErrorIsExplained, Explained
  <2>4. QED
    BY <1>1, <2>1, <2>3 DEF ExplainInv, Explained
<1>7. ASSUME NEW w \in Worker,
             \/ Fetch(w) \/ Resume(w) \/ PostOk(w) \/ ReportDone(w)
             \/ Finish(w) \/ BeCancelled(w) \/ FinishCancelled(w)
      PROVE  ExplainInv'
  <2>1. received' = received
    BY <1>7 DEF Fetch, Resume, PostOk, ReportDone, Finish, Complete,
       CompleteFails, BeCancelled, CancelFetch, CancelJob, CancelComplete,
       FinishCancelled, Unwind, UnwindFails, lychee
  <2>2. \A v \in Worker :
               \/ pc'[v] \notin {"posting", "posted", "reporting", "reported"}
               \/ pc'[v] = pc[v] /\ job'[v] = job[v]
    BY <1>1, <1>7 DEF Fetch, Resume, PostOk, ReportDone, Finish, Complete,
       CompleteFails, BeCancelled, CancelFetch, CancelJob, CancelComplete,
       FinishCancelled, Unwind, UnwindFails, Goto
  <2>3. QED
    BY <1>4, <2>1, <2>2
<1>8. CASE (\E p \in Photo : Submit(p)) \/ Purge \/ Shutdown \/ Stopped
           \/ Start \/ Crash \/ UNCHANGED vars
  BY <1>4, <1>8 DEF Submit, Purge, Shutdown, Stopped, Start, Crash, vars,
     tasks, lychee
<1>9. QED
  BY <1>5, <1>6, <1>7, <1>8 DEF Next, WorkerStep, Detect, Post

\* Lychee is told of an error only if an inference of that job raised, or the
\* results had been sent before, through crashes, repeats and cancellations.
THEOREM ErrorsExplained == Spec => []ErrorIsExplained
<1>1. Init => ExplainInv
  BY DEF Init, ExplainInv, ErrorIsExplained
<1>2. Inv /\ ExplainInv /\ [Next]_vars => ExplainInv'
  BY ExplainNext DEF Inv, TypeOK
<1>3. ExplainInv => ErrorIsExplained
  BY DEF ExplainInv
<1>4. QED
  BY <1>1, <1>2, <1>3, Invariant, PTL DEF Spec

-----------------------------------------------------------------------------
(* When complete() never raises *)

\* A task that has seen CancelledError is on its way out, and while the service
\* runs every row in flight has its worker.
ReliableInv ==
  /\ Inv
  /\ \A w \in Worker : cancelled[w] => pc[w] \in {"unwinding", "off"}
  /\ ProcessingIsHeld

LEMMA ReliableNext ==
  ASSUME ~QueueMayFail, ReliableInv, Inv', [Next]_vars
  PROVE  ReliableInv'
<1>1. /\ pc \in [Worker -> Location]
      /\ job \in [Worker -> 0 .. MaxJobs]
      /\ cancelled \in [Worker -> BOOLEAN]
      /\ status \in [JobId -> {"none", "pending", "processing"}]
      /\ phase \in {"down", "up", "stopping"}
      /\ OneWorkerPerJob
      /\ \A w \in Worker : FollowsPhase(w) /\ HasJob(w)
      /\ \A w \in Worker : job[w] # 0 => job[w] \in Processing
  BY DEF ReliableInv, Inv, TypeOK, PhaseTypeOK, QueueTypeOK, TasksTypeOK,
     TasksInv, RowsInv, HeldIsProcessing
<1>2. \A w \in Worker : cancelled'[w] => pc'[w] \in {"unwinding", "off"}
  <2> SUFFICES ASSUME NEW v \in Worker, cancelled'[v]
               PROVE  pc'[v] \in {"unwinding", "off"}
    OBVIOUS
  <2>1. cancelled[v] => pc[v] \in {"unwinding", "off"}
    BY DEF ReliableInv
  <2> USE <1>1, <2>1 DEF Goto, tasks
  <2>2. ASSUME NEW w \in Worker,
               Fetch(w) \/ Resume(w) \/ Detect(w) \/ Post(w) \/ ReportDone(w)
        PROVE  pc'[v] \in {"unwinding", "off"}
    BY <2>2 DEF Fetch, Resume, Detect, DetectOk, DetectRaises, Post, PostOk,
       PostFails, ReportDone
  <2>3. ASSUME NEW w \in Worker, LycheeHandles(w) \/ Finish(w)
        PROVE  pc'[v] \in {"unwinding", "off"}
    BY <2>3 DEF LycheeHandles, Finish, Complete, CompleteFails
  <2>4. ASSUME NEW w \in Worker, BeCancelled(w)
        PROVE  pc'[v] \in {"unwinding", "off"}
    BY <2>4 DEF BeCancelled, CancelFetch, CancelJob, CancelComplete, Cancel
  <2>5. ASSUME NEW w \in Worker, FinishCancelled(w)
        PROVE  pc'[v] \in {"unwinding", "off"}
    BY <2>5 DEF FinishCancelled, Unwind, UnwindFails
  <2>6. CASE (\E p \in Photo : Submit(p)) \/ Purge \/ Shutdown \/ UNCHANGED vars
    BY <2>6 DEF Submit, Purge, Shutdown, vars
  <2>7. CASE Start
    BY <2>7 DEF Start, FollowsPhase
  <2>8. CASE Stopped \/ Crash
    BY <2>8 DEF Stopped, Crash
  <2>9. QED
    BY <2>2, <2>3, <2>4, <2>5, <2>6, <2>7, <2>8 DEF Next, WorkerStep
<1>3. ProcessingIsHeld'
  <2> SUFFICES ASSUME phase' = "up"
               PROVE  Processing' \subseteq Held'
    BY DEF ProcessingIsHeld, Inv, RowsInv, HeldIsProcessing, Held
  <2>1. ASSUME phase = "up"
        PROVE  Processing \subseteq Held
    BY <2>1 DEF ReliableInv, ProcessingIsHeld
  <2>2. ASSUME NEW w \in Worker, Fetch(w)
        PROVE  Processing' \subseteq Held'
    <3>1. PICK j \in JobId :
            /\ status' = [status EXCEPT ![j] = "processing"]
            /\ job' = [job EXCEPT ![w] = j]
      BY <2>2 DEF Fetch, Pending
    <3>2. job[w] = 0 /\ phase = "up"
      BY <1>1, <2>2 DEF Fetch, HasJob
    <3>3. \A v \in Worker \ {w} : job'[v] = job[v]
      BY <1>1, <3>1
    <3>4. j \in Held'
      BY <1>1, <3>1 DEF Held, JobId
    <3>5. Processing \subseteq Held'
      BY <2>1, <3>2, <3>3 DEF Held
    <3>6. QED
      BY <1>1, <3>1, <3>4, <3>5 DEF Processing
  <2>3. ASSUME NEW w \in Worker, Complete(w)
        PROVE  Processing' \subseteq Held'
    <3>1. phase = "up" /\ job[w] \in JobId
      BY <1>1, <2>3 DEF Complete, HasJob, JobId
    <3>2. Processing' = Processing \ {job[w]}
      BY <1>1, <2>3, <3>1 DEF Complete, DeleteRow, Processing
    <3>3. \A v \in Worker \ {w} : job'[v] = job[v]
      BY <1>1, <2>3 DEF Complete
    <3>4. QED
      BY <2>1, <3>1, <3>2, <3>3 DEF Held
  <2>4. ASSUME NEW w \in Worker, \/ Resume(w) \/ Detect(w) \/ Post(w)
                                 \/ ReportDone(w) \/ LycheeHandles(w)
        PROVE  UNCHANGED <<phase, status, job>>
    BY <2>4 DEF Resume, Detect, DetectOk, DetectRaises, Post, PostOk,
       PostFails, ReportDone, LycheeHandles, queue
  <2>5. ASSUME NEW w \in Worker, BeCancelled(w) \/ FinishCancelled(w)
        PROVE  FALSE
    BY <1>1, <2>5 DEF BeCancelled, CancelFetch, CancelJob, CancelComplete,
       Cancel, FinishCancelled, Unwind, UnwindFails, FollowsPhase
  <2>6. CASE Start
    BY <1>1, <2>6 DEF Start, Processing
  <2>7. ASSUME NEW p \in Photo, Submit(p)
        PROVE  Processing' \subseteq Processing /\ UNCHANGED <<phase, job>>
    BY <1>1, <2>7 DEF Submit, Processing, tasks
  <2>8. CASE Purge
    BY <1>1, <2>1, <2>8 DEF Purge, Processing, Held, tasks
  <2>9. CASE Shutdown \/ Stopped \/ Crash
    BY <2>9 DEF Shutdown, Stopped, Crash
  <2>10. CASE UNCHANGED <<phase, status, job>>
    BY <2>1, <2>10 DEF Processing, Held
  <2>11. ASSUME NEW w \in Worker, CompleteFails(w)
         PROVE  FALSE
    BY <2>11 DEF CompleteFails
  <2>12. ASSUME UNCHANGED vars
         PROVE  UNCHANGED <<phase, status, job>>
    BY <2>12 DEF vars, queue, tasks
  <2>13. ASSUME NEW p \in Photo, Submit(p)
         PROVE  Processing' \subseteq Held'
    BY <2>1, <2>7, <2>13 DEF Held
  <2>14. QED
    BY <2>2, <2>3, <2>4, <2>5, <2>6, <2>8, <2>9, <2>10, <2>11, <2>12, <2>13
    DEF Next, WorkerStep, Finish
<1>4. QED
  BY <1>2, <1>3 DEF ReliableInv

LEMMA ReliableInvariant ==
  ASSUME ~QueueMayFail
  PROVE  Spec => []ReliableInv
<1>1. Init => ProcessingIsHeld /\ \A w \in Worker : ~cancelled[w]
  BY DEF Init, ProcessingIsHeld
<1>2. Init /\ Inv => ReliableInv
  BY <1>1 DEF ReliableInv
<1>3. ReliableInv /\ Inv' /\ [Next]_vars => ReliableInv'
  BY ReliableNext
<1>4. QED
  BY <1>2, <1>3, Invariant, PTL DEF Spec

\* What position() reports as being processed is with a worker, all the time
\* the service runs, whatever crashed or was shut down before.
THEOREM InFlightIsHeld ==
  ASSUME ~QueueMayFail
  PROVE  Spec => []ProcessingIsHeld
<1>1. ReliableInv => ProcessingIsHeld
  BY DEF ReliableInv
<1>2. QED
  BY <1>1, ReliableInvariant, PTL

\* A worker task that was cancelled finishes complete() and takes no other job.
THEOREM CancelEnds ==
  ASSUME ~QueueMayFail
  PROVE  Spec => CancelledTakesNoJob
<1> DEFINE NoJob == \A w \in Worker : cancelled[w] /\ cancelled'[w]
                                        => job'[w] \in {job[w], 0}
<1>1. ReliableInv /\ [Next]_vars => NoJob
  <2> SUFFICES ASSUME ReliableInv, [Next]_vars,
                      NEW v \in Worker, cancelled[v], cancelled'[v]
               PROVE  job'[v] \in {job[v], 0}
    OBVIOUS
  <2>1. /\ job \in [Worker -> 0 .. MaxJobs]
        /\ pc[v] \in {"unwinding", "off"}
        /\ TasksInv
    BY DEF ReliableInv, Inv, TypeOK, TasksTypeOK
  <2>2. ASSUME NEW w \in Worker, Fetch(w) \/ LetGo(w) \/ SameRows
        PROVE  job'[v] \in {job[v], 0}
    BY <2>1, <2>2 DEF Fetch, LetGo, SameRows
  <2>3. CASE \/ (\E p \in Photo : Submit(p)) \/ Purge
             \/ Start \/ Shutdown \/ Stopped \/ Crash \/ UNCHANGED vars
    BY <2>1, <2>3 DEF Submit, Purge, Start, Shutdown, Stopped, Crash, vars, tasks
  <2>4. QED
    BY <2>1, <2>2, <2>3, StepKinds DEF Next
<1>2. QED
  BY <1>1, ReliableInvariant, PTL DEF Spec, CancelledTakesNoJob

-----------------------------------------------------------------------------
(* Bounds and order, when complete() never raises *)

LEMMA PendingFinite == IsFiniteSet(Pending) /\ Cardinality(Pending) \in Nat
<1>1. IsFiniteSet(JobId)
  BY FS_Interval DEF JobId
<1>2. QED
  BY <1>1, FS_Subset, FS_CardinalityType DEF Pending

LEMMA UnionBound ==
  ASSUME NEW S, IsFiniteSet(S), NEW T, IsFiniteSet(T)
  PROVE  /\ Cardinality(S \cup T) <= Cardinality(S) + Cardinality(T)
         /\ Cardinality(S \cup T) \in Nat
         /\ Cardinality(S) \in Nat /\ Cardinality(T) \in Nat
<1>1. IsFiniteSet(S \cap T)
  BY FS_Subset
<1>2. Cardinality(S \cap T) \in Nat
  BY <1>1, FS_CardinalityType
<1>3. Cardinality(S) \in Nat /\ Cardinality(T) \in Nat
  BY FS_CardinalityType
<1>4. IsFiniteSet(S \cup T)
      /\ Cardinality(S \cup T)
           = Cardinality(S) + Cardinality(T) - Cardinality(S \cap T)
  BY FS_Union
<1>5. Cardinality(S \cup T) \in Nat
  BY <1>4, FS_CardinalityType
<1>6. QED
  BY <1>2, <1>3, <1>4, <1>5

LEMMA HeldFinite ==
  ASSUME TasksTypeOK
  PROVE  IsFiniteSet(Held) /\ Cardinality(Held) <= Cardinality(Worker)
<1> DEFINE Busy == {w \in Worker : job[w] # 0}
           f == [w \in Busy |-> job[w]]
<1>1. IsFiniteSet(Busy) /\ Cardinality(Busy) <= Cardinality(Worker)
  BY FS_Subset
<1>2. f \in Surjection(Busy, Held)
  BY DEF Surjection, Held
<1>3. IsFiniteSet(Held) /\ Cardinality(Held) <= Cardinality(Busy)
  BY <1>1, <1>2, FS_Surjection
<1>4. QED
  BY <1>1, <1>3, FS_CardinalityType

LEMMA RowsFinite == IsFiniteSet(Pending \cup Processing)
<1>1. IsFiniteSet(JobId)
  BY FS_Interval DEF JobId
<1>2. QED
  BY <1>1, FS_Subset DEF Pending, Processing

\* Only an accepted submission adds a row.
LEMMA RowsShrink ==
  ASSUME Inv, [Next]_vars, ~ \E p \in Photo : Submit(p)
  PROVE  (Pending \cup Processing)' \subseteq Pending \cup Processing
<1>1. status \in [JobId -> {"none", "pending", "processing"}] /\ TasksInv
  BY DEF Inv, TypeOK, QueueTypeOK
<1> USE DEF Pending, Processing
<1>2. ASSUME NEW w \in Worker, Fetch(w) \/ LetGo(w) \/ SameRows
      PROVE  (Pending \cup Processing)' \subseteq Pending \cup Processing
  BY <1>1, <1>2 DEF Fetch, LetGo, DeleteRow, SameRows
<1>3. CASE Purge \/ Start
  BY <1>1, <1>3 DEF Purge, Start
<1>4. CASE Shutdown \/ Stopped \/ Crash \/ UNCHANGED vars
  BY <1>4 DEF Shutdown, Stopped, Crash, vars, queue
<1>5. QED
  BY <1>1, <1>2, <1>3, <1>4, StepKinds DEF Next

\* The table never holds more than queue_max_size rows and one per worker,
\* however often the process restarts and recovers.
THEOREM Bounded ==
  ASSUME ~QueueMayFail
  PROVE  Spec => []RowsBound
<1>1. Init => RowsBound
  <2> SUFFICES ASSUME Init PROVE RowsBound
    OBVIOUS
  <2>1. Cardinality(Pending \cup Processing) = 0
    <3>1. Pending \cup Processing = {}
      BY DEF Init, Pending, Processing
    <3>2. QED
      BY <3>1, FS_EmptySet
  <2>2. Cardinality(Worker) \in Nat
    BY FS_CardinalityType
  <2>3. QED
    BY <2>1, <2>2 DEF RowsBound
<1>2. ReliableInv /\ RowsBound /\ [Next]_vars => RowsBound'
  <2> SUFFICES ASSUME ReliableInv, RowsBound, [Next]_vars, MaxSize > 0
               PROVE  Cardinality((Pending \cup Processing)')
                        <= MaxSize + Cardinality(Worker)
    BY DEF RowsBound
  <2>1. Inv /\ TasksTypeOK /\ Cardinality(Worker) \in Nat
    BY FS_CardinalityType DEF ReliableInv, Inv, TypeOK
  <2>2. ASSUME NEW p \in Photo, Submit(p)
        PROVE  Cardinality((Pending \cup Processing)')
                 <= MaxSize + Cardinality(Worker)
    <3> DEFINE P == Pending \cup {lastId + 1}
    <3>1. (Pending \cup Processing)' = P \cup Held
      <4>1. status \in [JobId -> {"none", "pending", "processing"}]
            /\ lastId + 1 \in JobId
            /\ Processing = Held
            /\ status[lastId + 1] = "none"
        BY <2>1, <2>2 DEF Inv, TypeOK, QueueTypeOK, Submit, JobId, ReliableInv,
           ProcessingIsHeld, RowsInv, Fresh
      <4>2. QED
        BY <2>2, <4>1 DEF Submit, Pending, Processing
    <3>2. Cardinality(Pending) < MaxSize
      BY <2>2 DEF Submit, HasRoom
    <3>3. IsFiniteSet(P) /\ Cardinality(P) <= MaxSize
      <4>1. /\ IsFiniteSet(P)
            /\ Cardinality(P) = IF lastId + 1 \in Pending THEN Cardinality(Pending)
                                ELSE Cardinality(Pending) + 1
        BY PendingFinite, FS_AddElement
      <4>2. QED
        BY <3>2, <4>1, PendingFinite
    <3>4. IsFiniteSet(Held) /\ Cardinality(Held) <= Cardinality(Worker)
      BY <2>1, HeldFinite
    <3> HIDE DEF P
    <3>5. /\ Cardinality(P \cup Held) <= Cardinality(P) + Cardinality(Held)
          /\ Cardinality(P \cup Held) \in Nat
          /\ Cardinality(P) \in Nat /\ Cardinality(Held) \in Nat
      BY <3>3, <3>4, UnionBound
    <3>6. Cardinality(P \cup Held) <= MaxSize + Cardinality(Worker)
      BY <2>1, <3>3, <3>4, <3>5
    <3>7. QED
      BY <3>1, <3>6
  <2>3. ASSUME ~ \E p \in Photo : Submit(p)
        PROVE  Cardinality((Pending \cup Processing)')
                 <= MaxSize + Cardinality(Worker)
    <3>1. (Pending \cup Processing)' \in SUBSET (Pending \cup Processing)
      BY <2>1, <2>3, RowsShrink
    <3>2. /\ Cardinality((Pending \cup Processing)')
               <= Cardinality(Pending \cup Processing)
          /\ Cardinality((Pending \cup Processing)') \in Nat
          /\ Cardinality(Pending \cup Processing) \in Nat
      BY <3>1, RowsFinite, FS_Subset, FS_CardinalityType
    <3>3. QED
      BY <2>1, <3>2 DEF RowsBound
  <2>4. QED
    BY <2>2, <2>3
<1>3. QED
  BY <1>1, <1>2, ReliableInvariant, PTL DEF Spec

\* Only a worker that runs sends, and only for the job it has.
Sends(w) ==
  /\ phase = "up"
  /\ job[w] \in Processing
  /\ \E c : Send(w, c)
  /\ SameRows

LEMMA SendKinds ==
  ASSUME ReliableInv, [Next]_vars
  PROVE  UNCHANGED sent \/ \E w \in Worker : Sends(w)
<1>1. ASSUME NEW w \in Worker, DetectOk(w) \/ DetectRaises(w) \/ PostFails(w)
      PROVE  Sends(w)
  <2>1. /\ Runs(w) /\ SameRows /\ \E c : Send(w, c)
        /\ pc[w] \in {"detecting", "posting", "posted"}
    BY <1>1 DEF DetectOk, DetectRaises, PostFails, SameRows, queue
  <2>2. phase = "up"
    BY <2>1 DEF Runs, ReliableInv
  <2>3. job[w] \in Processing
    BY <2>1 DEF ReliableInv, Inv, TasksInv, HasJob, RowsInv, HeldIsProcessing
  <2>4. QED
    BY <2>1, <2>2, <2>3 DEF Sends
<1>2. ASSUME NEW w \in Worker,
             \/ Fetch(w) \/ Resume(w) \/ PostOk(w) \/ ReportDone(w)
             \/ Finish(w) \/ BeCancelled(w) \/ FinishCancelled(w)
             \/ LycheeHandles(w)
      PROVE  UNCHANGED sent
  BY <1>2 DEF Fetch, Resume, PostOk, ReportDone, Finish, Complete,
     CompleteFails, BeCancelled, CancelFetch, CancelJob, CancelComplete,
     FinishCancelled, Unwind, UnwindFails, LycheeHandles, lychee
<1>3. CASE \/ (\E p \in Photo : Submit(p)) \/ Purge
           \/ Start \/ Shutdown \/ Stopped \/ Crash \/ UNCHANGED vars
  BY <1>3 DEF Submit, Purge, Start, Shutdown, Stopped, Crash, vars, lychee
<1>4. QED
  BY <1>1, <1>2, <1>3 DEF Next, WorkerStep, Detect, Post

\* What is handed out is older than what waits.
Fifo == \A j \in Processing, k \in Pending : j < k

\* What was called back for is older than what is still to be done.
AnsweredFirst ==
  \A k \in JobId : sent[k] # {} =>
    k <= lastId /\ \A j \in Pending \cup Processing : k <= j

OrderInv == ReliableInv /\ Fifo /\ AnsweredFirst

LEMMA OrderNext ==
  ASSUME \A v, w \in Worker : v = w, OrderInv, ReliableInv', [Next]_vars
  PROVE  OrderInv'
<1>1. /\ status \in [JobId -> {"none", "pending", "processing"}]
      /\ lastId \in 0 .. MaxJobs
      /\ sent \in [JobId -> SUBSET Callback]
      /\ TasksInv /\ Inv /\ Fresh
      /\ Fifo /\ AnsweredFirst
  BY DEF OrderInv, ReliableInv, Inv, TypeOK, QueueTypeOK, LycheeTypeOK, RowsInv
<1>2. Fifo'
  <2> USE <1>1 DEF Fifo, Pending, Processing, JobId
  <2>1. ASSUME NEW p \in Photo, Submit(p)
        PROVE  Fifo'
    BY <2>1 DEF Submit, Fresh
  <2>2. ASSUME NEW w \in Worker, Fetch(w)
        PROVE  Fifo'
    BY <2>2 DEF Fetch
  <2>3. ASSUME NEW w \in Worker, LetGo(w) \/ SameRows
        PROVE  Fifo'
    BY <2>3 DEF LetGo, DeleteRow, SameRows
  <2>4. CASE Purge \/ Start
    BY <2>4 DEF Purge, Start
  <2>5. CASE Shutdown \/ Stopped \/ Crash \/ UNCHANGED vars
    BY <2>5 DEF Shutdown, Stopped, Crash, vars, queue
  <2>6. QED
    BY <2>1, <2>2, <2>3, <2>4, <2>5, StepKinds DEF Next
<1>3. AnsweredFirst'
  <2>1. CASE \E p \in Photo : Submit(p)
    BY <1>1, <2>1 DEF Submit, AnsweredFirst, Pending, Processing, JobId
  <2>2. ASSUME ~ \E p \in Photo : Submit(p)
        PROVE  /\ (Pending \cup Processing)' \subseteq Pending \cup Processing
               /\ lastId' = lastId
    <3>1. ASSUME NEW w \in Worker, Fetch(w) \/ LetGo(w) \/ SameRows
          PROVE  lastId' = lastId
      BY <3>1 DEF Fetch, LetGo, SameRows
    <3>2. ASSUME Purge \/ Start
          PROVE  lastId' = lastId
      BY <3>2 DEF Purge, Start
    <3>3. ASSUME Shutdown \/ Stopped \/ Crash \/ UNCHANGED vars
          PROVE  lastId' = lastId
      BY <3>3 DEF Shutdown, Stopped, Crash, vars, queue
    <3>4. lastId' = lastId
      BY <1>1, <2>2, <3>1, <3>2, <3>3, StepKinds DEF Next
    <3>5. QED
      BY <1>1, <2>2, <3>4, RowsShrink
  <2>3. CASE UNCHANGED sent
    BY <1>1, <2>1, <2>2, <2>3 DEF AnsweredFirst
  <2>4. ASSUME NEW w \in Worker, Sends(w)
        PROVE  AnsweredFirst'
    <3>1. Processing = {job[w]}
      <4>1. Processing = Held /\ job[w] \in Held
        BY <2>4 DEF Sends, OrderInv, ReliableInv, ProcessingIsHeld
      <4>2. \A j \in Held : j = job[w]
        BY DEF Held
      <4>3. QED
        BY <4>1, <4>2
    <3>2. \A j \in Pending \cup Processing : job[w] <= j
      <4>1. Pending \subseteq Int /\ Processing \subseteq Int
        BY DEF Pending, Processing, JobId
      <4>2. QED
        BY <1>1, <3>1, <4>1 DEF Fifo
    <3>3. job[w] \in JobId /\ job[w] <= lastId
      BY <1>1, <3>1 DEF Processing, Fresh, JobId
    <3>4. \A k \in JobId : k # job[w] => sent'[k] = sent[k]
      BY <1>1, <2>4 DEF Sends, Send
    <3>5. UNCHANGED <<lastId, Pending, Processing>>
      BY <2>4 DEF Sends, SameRows, Pending, Processing
    <3>6. QED
      BY <1>1, <3>2, <3>3, <3>4, <3>5 DEF AnsweredFirst
  <2>5. QED
    BY <2>3, <2>4, SendKinds DEF OrderInv
<1>4. QED
  BY <1>2, <1>3 DEF OrderInv

\* With one worker, callbacks leave in the order of submission, a job's own
\* ones together, also when jobs are repeated after a crash.
THEOREM InOrder ==
  ASSUME \A v, w \in Worker : v = w, ~QueueMayFail
  PROVE  Spec => CallbacksInOrder
<1> DEFINE Ordered ==
      \A j \in JobId : sent'[j] # sent[j]
                         => \A k \in JobId : k > j => sent[k] = {}
<1>1. Init => Fifo /\ AnsweredFirst
  BY DEF Init, Fifo, AnsweredFirst, Pending, Processing
<1>2. OrderInv /\ ReliableInv' /\ [Next]_vars => OrderInv'
  BY OrderNext
<1>3. OrderInv /\ [Next]_vars => Ordered
  <2> SUFFICES ASSUME OrderInv, [Next]_vars, NEW j \in JobId,
                      sent'[j] # sent[j], NEW k \in JobId, k > j
               PROVE  sent[k] = {}
    OBVIOUS
  <2>1. PICK w \in Worker : Sends(w)
    BY SendKinds DEF OrderInv
  <2>2. sent \in [JobId -> SUBSET Callback]
    BY DEF OrderInv, ReliableInv, Inv, TypeOK, LycheeTypeOK
  <2>3. j = job[w] /\ j \in Processing
    BY <2>1, <2>2 DEF Sends, Send
  <2>4. QED
    BY <2>3 DEF OrderInv, AnsweredFirst, JobId
<1>4. QED
  BY <1>1, <1>2, <1>3, ReliableInvariant, PTL
  DEF Spec, CallbacksInOrder, OrderInv

-----------------------------------------------------------------------------
(* Refinement *)

\* Lifespan, worker loop and routes together use the queue as base.py intends,
\* with a complete() that raises as well: what the workers hold is a part of
\* what is in flight, and recovery happens when they hold nothing.
THEOREM Implements == Spec => ImplementsJobQueue
<1> USE DEF JQ!Init, JQ!Next, JQ!vars
<1>1. Init => JQ!Init
  <2> SUFFICES ASSUME Init PROVE JQ!Init
    OBVIOUS
  <2>1. Pending = {} /\ Processing = {} /\ lastId = 0
    BY DEF Init, Pending, Processing
  <2>2. Held = {}
    BY DEF Init, Held
  <2>3. QED
    BY <2>1, <2>2
<1>2. Inv /\ [Next]_vars => [JQ!Next]_(JQ!vars)
  <2> SUFFICES ASSUME Inv, [Next]_vars
               PROVE  JQ!Next \/ UNCHANGED JQ!vars
    OBVIOUS
  <2>1. /\ status \in [JobId -> {"none", "pending", "processing"}]
        /\ lastId \in 0 .. MaxJobs
        /\ job \in [Worker -> 0 .. MaxJobs]
        /\ TasksInv /\ Fresh /\ HeldIsProcessing /\ OneWorkerPerJob
    BY DEF Inv, TypeOK, QueueTypeOK, TasksTypeOK, RowsInv
  <2>2. ASSUME NEW p \in Photo, Submit(p)
        PROVE  JQ!Enqueue
    <3>1. lastId' \in Nat /\ lastId' > lastId /\ lastId' \in JobId
      BY <2>1, <2>2 DEF Submit, JobId
    <3>2. Held' = Held
      BY <2>2 DEF Submit, tasks, Held
    <3>3. Pending' = Pending \cup {lastId'} /\ Processing' = Processing
      BY <2>1, <2>2, <3>1 DEF Submit, Fresh, Pending, Processing
    <3>4. MaxSize <= 0 \/ JQ!Cardinality(Pending) < MaxSize
      <4>1. JQ!Cardinality(Pending) = Cardinality(Pending)
        BY Zenon DEF JQ!Cardinality, Cardinality
      <4>2. QED
        BY <2>2, <4>1 DEF Submit, HasRoom
    <3>5. QED
      BY <3>1, <3>2, <3>3, <3>4 DEF JQ!Enqueue
  <2>3. CASE Purge
    <3>1. Pending' = {} /\ Processing' = Processing
      BY <2>1, <2>3 DEF Purge, Pending, Processing
    <3>2. Held' = Held /\ lastId' = lastId
      BY <2>3 DEF Purge, tasks, Held
    <3>3. QED
      BY <3>1, <3>2 DEF JQ!Purge
  <2>4. ASSUME NEW w \in Worker, Fetch(w)
        PROVE  JQ!Dequeue
    <3>1. PICK j \in Pending :
            /\ \A k \in Pending : j <= k
            /\ status' = [status EXCEPT ![j] = "processing"]
            /\ job' = [job EXCEPT ![w] = j]
      BY <2>4 DEF Fetch
    <3>2. Pending' = Pending \ {j} /\ Processing' = Processing \cup {j}
      BY <2>1, <3>1 DEF Pending, Processing
    <3>3. j # 0 /\ job[w] = 0
      BY <2>1, <2>4 DEF Pending, JobId, Fetch, TasksInv, HasJob
    <3>4. Held' = Held \cup {j}
      BY <2>1, <3>1, <3>3 DEF Held
    <3>5. lastId' = lastId
      BY <2>4 DEF Fetch
    <3>6. QED
      BY <3>1, <3>2, <3>4, <3>5 DEF JQ!Dequeue
  <2>5. ASSUME NEW w \in Worker, LetGo(w), job[w] # 0, DeleteRow(w)
        PROVE  JQ!Complete
    <3>1. job[w] \in Held /\ job[w] \in Processing
      BY <2>1, <2>5 DEF Held, HeldIsProcessing
    <3>2. Pending' = Pending /\ Processing' = Processing \ {job[w]}
      BY <2>1, <2>5, <3>1 DEF DeleteRow, Pending, Processing
    <3>3. Held' = Held \ {job[w]}
      BY <2>1, <2>5 DEF LetGo, Held, OneWorkerPerJob
    <3>4. lastId' = lastId
      BY <2>5 DEF LetGo
    <3>5. QED
      BY <3>1, <3>2, <3>3, <3>4 DEF JQ!Complete
  <2>6. ASSUME UNCHANGED <<status, lastId>>, Held' \subseteq Held
        PROVE  JQ!Abandon
    BY <2>1, <2>6 DEF JQ!Abandon, Pending, Processing
  <2>7. ASSUME NEW w \in Worker, LetGo(w), UNCHANGED status
        PROVE  JQ!Abandon
    <3>1. Held' \subseteq Held
      BY <2>1, <2>7 DEF LetGo, Held
    <3>2. QED
      BY <2>6, <2>7, <3>1 DEF LetGo
  <2>8. CASE Crash
    <3>1. Held' \subseteq Held
      BY <2>8 DEF Crash, Held
    <3>2. QED
      BY <2>6, <2>8, <3>1 DEF Crash, queue
  <2>9. CASE Start
    <3>1. Held = {} /\ Held' = {}
      BY <2>1, <2>9 DEF Start, Held, TasksInv, FollowsPhase, HasJob
    <3>2. Pending' = Pending \cup Processing /\ Processing' = {}
      BY <2>1, <2>9 DEF Start, Pending, Processing
    <3>3. lastId' = lastId
      BY <2>9 DEF Start
    <3>4. QED
      BY <3>1, <3>2, <3>3 DEF JQ!Recover
  <2>10. CASE SameRows
    BY <2>10 DEF SameRows, Pending, Processing, Held
  <2>11. CASE Shutdown \/ Stopped \/ UNCHANGED vars
    BY <2>10, <2>11 DEF Shutdown, Stopped, SameRows, vars, queue, tasks
  <2>12. \A w \in Worker : LetGo(w) => JQ!Complete \/ JQ!Abandon
    BY <2>5, <2>7 DEF LetGo
  <2>13. QED
    BY <2>1, <2>2, <2>3, <2>4, <2>8, <2>9, <2>10, <2>11, <2>12, StepKinds
    DEF Next
<1>3. QED
  BY <1>1, <1>2, Invariant, PTL DEF Spec, ImplementsJobQueue, JQ!Spec
=============================================================================
