------------------------------ MODULE Service ------------------------------
(***************************************************************************)
(* The service as a whole: the lifespan of app/main.py, its worker tasks   *)
(* (app/queue/worker.py), the detection job with its callbacks             *)
(* (app/api/routes.py), the queue, and Lychee, which submits photos and    *)
(* receives callbacks.                                                     *)
(*                                                                         *)
(* There is one process, so the queue is the atomic one that SQLiteQueue   *)
(* implements.  A step of a worker is what its task does from one await to *)
(* the next, together with the effect of the awaited call: a commit of the *)
(* queue, an inference, or a POST.  Lychee's handling of a POST is a step  *)
(* of its own, because the answer to it may get lost.                      *)
(*                                                                         *)
(* A cancelled task sees CancelledError at its await.  The call behind the *)
(* await, if it waits for a thread, is cancelled with it; a thread that    *)
(* runs it still finishes, and nobody can tell whether it did so before or *)
(* after; the model lets it finish before.                                 *)
(*                                                                         *)
(* A definition X_Y, before X, is a faulty variant of X, in the way the    *)
(* code could be wrong; nothing uses it.  Each shows that some property    *)
(* notices.                                                                *)
(***************************************************************************)
EXTENDS Integers, FiniteSets

CONSTANTS
  Worker,             \* run_worker tasks, one per slot of the thread pool
  Photo,              \* photo ids
  NoPhoto,            \* the photo of a job not yet submitted
  Corrupt,            \* photos whose file cannot be decoded
  MaxSize,            \* queue_max_size
  QueueMayFail,       \* may queue.complete() raise?
  MaxJobs,            \* bound: jobs ever accepted
  MaxCrashes,         \* bound: crashes of the process
  MaxShutdowns        \* bound: graceful shutdowns

JobId == 1 .. MaxJobs

ASSUME ServiceAssumption ==
  /\ IsFiniteSet(Worker)
  /\ NoPhoto \notin Photo
  /\ Corrupt \subseteq Photo
  /\ MaxSize \in Int
  /\ QueueMayFail \in BOOLEAN
  /\ MaxJobs \in Nat
  /\ MaxCrashes \in Nat
  /\ MaxShutdowns \in Nat

VARIABLES
  (* the process *)
  phase,              \* "down", "up", or "stopping": lifespan shutting down
  crashes, shutdowns, \* how often it went down
  (* the queue *)
  status,             \* state of each job's row, "none" where no row
  lastId,             \* last id issued
  (* the worker tasks *)
  pc,                 \* what the task awaits
  job,                \* the job it got from dequeue, 0 for none
  cancelled,          \* has CancelledError been raised in the task?
  (* Lychee, and history kept for the properties *)
  photo,              \* photo each job was accepted for
  sent,               \* callbacks the service sent for each job
  received,           \* callbacks Lychee handled for each job
  raised              \* jobs an inference of which raised

queue == <<status, lastId>>
tasks == <<pc, job, cancelled>>
stops == <<crashes, shutdowns>>
lychee == <<photo, sent, received, raised>>
vars == <<phase, stops, queue, tasks, lychee>>

Pending == {j \in JobId : status[j] = "pending"}
Processing == {j \in JobId : status[j] = "processing"}
Held == {job[w] : w \in Worker} \ {0}

\* Where a task is: awaiting dequeue() or sleep, with the job in hand, awaiting
\* the executor, the two POSTs before and after Lychee handles them,
\* complete(), and complete() on the way out after a cancellation.
Location ==
  {"off", "fetching", "fetched", "detecting", "posting", "posted", "reporting",
   "reported", "completing", "unwinding"}

Callback == {"success", "internal_error"}

\* A limit that lets one more in.
HasRoom_OneMore(n) == MaxSize <= 0 \/ n <= MaxSize

\* "row[0] >= max_size and max_size > 0" answers False.
HasRoom(n) == MaxSize <= 0 \/ n < MaxSize

Init ==
  /\ phase = "down"
  /\ crashes = 0 /\ shutdowns = 0
  /\ status = [j \in JobId |-> "none"]
  /\ lastId = 0
  /\ pc = [w \in Worker |-> "off"]
  /\ job = [w \in Worker |-> 0]
  /\ cancelled = [w \in Worker |-> FALSE]
  /\ photo = [j \in JobId |-> NoPhoto]
  /\ sent = [j \in JobId |-> {}]
  /\ received = [j \in JobId |-> {}]
  /\ raised = {}

-----------------------------------------------------------------------------
(* Requests from Lychee *)

\* POST /detect that is answered 202.
Submit(p) ==
  /\ phase = "up"
  /\ lastId < MaxJobs
  /\ HasRoom(Cardinality(Pending))
  /\ lastId' = lastId + 1
  /\ status' = [status EXCEPT ![lastId + 1] = "pending"]
  /\ photo' = [photo EXCEPT ![lastId + 1] = p]
  /\ UNCHANGED <<phase, stops, tasks, sent, received, raised>>

\* DELETE /queue.
Purge ==
  /\ phase = "up"
  /\ status' = [j \in JobId |-> IF j \in Pending THEN "none" ELSE status[j]]
  /\ UNCHANGED <<phase, stops, lastId, tasks, lychee>>

-----------------------------------------------------------------------------
(* The worker loop and the detection job *)

\* Once shutdown began a task does nothing before it sees CancelledError.
Runs(w) == phase = "up" \/ cancelled[w]

\* The task goes from one await to the next.
Goto(w, to) == pc' = [pc EXCEPT ![w] = to]

\* The callback that the task goes on to send.
Send(w, callback) == sent' = [sent EXCEPT ![job[w]] = @ \cup {callback}]

\* The SELECT without the UPDATE: the row stays pending.
Fetch_NoMark(w) ==
  /\ pc[w] = "fetching"
  /\ \E j \in Pending :
       /\ \A k \in Pending : j <= k
       /\ job' = [job EXCEPT ![w] = j]
  /\ Goto(w, "fetched")
  /\ UNCHANGED <<phase, stops, queue, cancelled, lychee>>

\* LIMIT 1 without ORDER BY id.
Fetch_AnyRow(w) ==
  /\ pc[w] = "fetching"
  /\ \E j \in Pending :
       /\ status' = [status EXCEPT ![j] = "processing"]
       /\ job' = [job EXCEPT ![w] = j]
  /\ Goto(w, "fetched")
  /\ UNCHANGED <<phase, stops, lastId, cancelled, lychee>>

\* The dequeue thread commits.  None leads back here after a sleep.
Fetch(w) ==
  /\ pc[w] = "fetching"
  /\ \E j \in Pending :
       /\ \A k \in Pending : j <= k
       /\ status' = [status EXCEPT ![j] = "processing"]
       /\ job' = [job EXCEPT ![w] = j]
  /\ Goto(w, "fetched")
  /\ UNCHANGED <<phase, stops, lastId, cancelled, lychee>>

\* The task gets the job and hands it to the executor.
Resume(w) ==
  /\ Runs(w)
  /\ pc[w] = "fetched"
  /\ Goto(w, "detecting")
  /\ UNCHANGED <<phase, stops, queue, job, cancelled, lychee>>

\* Inference and classify succeed; the result is posted.
DetectOk(w) ==
  /\ Runs(w)
  /\ pc[w] = "detecting"
  /\ photo[job[w]] \notin Corrupt
  /\ Send(w, "success")
  /\ Goto(w, "posting")
  /\ UNCHANGED <<phase, stops, queue, job, cancelled, photo, received, raised>>

\* The except clause logs and sends nothing.
DetectRaises_Silent(w) ==
  /\ Runs(w)
  /\ pc[w] = "detecting"
  /\ raised' = raised \cup {job[w]}
  /\ Goto(w, "completing")
  /\ UNCHANGED <<phase, stops, queue, job, cancelled, photo, sent, received>>

\* They raise (no such file, undecodable, bad preset): an error is posted.
DetectRaises(w) ==
  /\ Runs(w)
  /\ pc[w] = "detecting"
  /\ raised' = raised \cup {job[w]}
  /\ Send(w, "internal_error")
  /\ Goto(w, "reporting")
  /\ UNCHANGED <<phase, stops, queue, job, cancelled, photo, received>>

\* Lychee handles the request on the wire, whatever becomes of its answer.
LycheeHandles(w) ==
  /\ \/ /\ pc[w] = "posting"
        /\ received' = [received EXCEPT ![job[w]] = @ \cup {"success"}]
        /\ Goto(w, "posted")
     \/ /\ pc[w] = "reporting"
        /\ received' = [received EXCEPT ![job[w]] = @ \cup {"internal_error"}]
        /\ Goto(w, "reported")
  /\ UNCHANGED <<phase, stops, queue, job, cancelled, photo, sent, raised>>

\* raise_for_status() is content.
PostOk(w) ==
  /\ Runs(w)
  /\ pc[w] = "posted"
  /\ Goto(w, "completing")
  /\ UNCHANGED <<phase, stops, queue, job, cancelled, lychee>>

\* Refused, timed out after 30 s, or an error status: except Exception.
PostFails(w) ==
  /\ Runs(w)
  /\ pc[w] \in {"posting", "posted"}
  /\ Send(w, "internal_error")
  /\ Goto(w, "reporting")
  /\ UNCHANGED <<phase, stops, queue, job, cancelled, photo, received, raised>>

\* Best effort: _send_error_callback returns whatever happens.
ReportDone(w) ==
  /\ Runs(w)
  /\ pc[w] \in {"reporting", "reported"}
  /\ Goto(w, "completing")
  /\ UNCHANGED <<phase, stops, queue, job, cancelled, lychee>>

\* The DELETE is not committed.
DeleteRow_NoCommit(w) == UNCHANGED status

\* The row is marked in place of the DELETE.
DeleteRow_Marks(w) == status' = [status EXCEPT ![job[w]] = "done"]

\* The row of the worker's job goes.
DeleteRow(w) == status' = [status EXCEPT ![job[w]] = "none"]

\* queue.complete() in the finally of run_worker.
Complete(w) ==
  /\ Runs(w)
  /\ pc[w] = "completing"
  /\ DeleteRow(w)
  /\ job' = [job EXCEPT ![w] = 0]
  /\ Goto(w, "fetching")
  /\ UNCHANGED <<phase, stops, lastId, cancelled, lychee>>

\* It raises: the error is logged, the loop goes on, the row stays.
CompleteFails(w) ==
  /\ QueueMayFail
  /\ Runs(w)
  /\ pc[w] = "completing"
  /\ job' = [job EXCEPT ![w] = 0]
  /\ Goto(w, "fetching")
  /\ UNCHANGED <<phase, stops, queue, cancelled, lychee>>

-----------------------------------------------------------------------------
(* The lifespan: start, graceful shutdown, crash *)

\* _init_table without the recovery UPDATE.
Start_NoRecovery ==
  /\ phase = "down"
  /\ phase' = "up"
  /\ pc' = [w \in Worker |-> "fetching"]
  /\ UNCHANGED <<stops, queue, job, cancelled, lychee>>

\* create_queue recovers the rows left in 'processing', then the worker
\* tasks start, then requests are accepted.
Start ==
  /\ phase = "down"
  /\ phase' = "up"
  /\ status' = [j \in JobId |->
                  IF j \in Processing THEN "pending" ELSE status[j]]
  /\ pc' = [w \in Worker |-> "fetching"]
  /\ UNCHANGED <<stops, lastId, job, cancelled, lychee>>

\* SIGTERM: no more requests, task.cancel() for every worker.
Shutdown ==
  /\ phase = "up"
  /\ shutdowns < MaxShutdowns
  /\ shutdowns' = shutdowns + 1
  /\ phase' = "stopping"
  /\ UNCHANGED <<crashes, queue, tasks, lychee>>

\* CancelledError is raised in the task, once.
Cancel(w) ==
  /\ phase = "stopping"
  /\ ~cancelled[w]
  /\ cancelled' = [cancelled EXCEPT ![w] = TRUE]

\* In dequeue or sleep: the loop breaks, a job it was about to get is left.
CancelFetch(w) ==
  /\ Cancel(w)
  /\ pc[w] \in {"fetching", "fetched"}
  /\ job' = [job EXCEPT ![w] = 0]
  /\ Goto(w, "off")
  /\ UNCHANGED <<phase, stops, queue, lychee>>

\* "except BaseException" in _run_detection_job: an error is posted.
CancelJob_Reports(w) ==
  /\ Cancel(w)
  /\ pc[w] \in {"detecting", "posting", "posted", "reporting", "reported"}
  /\ Send(w, "internal_error")
  /\ Goto(w, "reporting")
  /\ UNCHANGED <<phase, stops, queue, job, photo, received, raised>>

\* In _handle_detect: not an Exception, so no error callback; the finally
\* awaits queue.complete().
CancelJob(w) ==
  /\ Cancel(w)
  /\ pc[w] \in {"detecting", "posting", "posted", "reporting", "reported"}
  /\ Goto(w, "unwinding")
  /\ UNCHANGED <<phase, stops, queue, job, lychee>>

\* In queue.complete(): its thread deletes the row or fails to, or the call
\* still waits for a thread and never runs.
CancelComplete(w) ==
  /\ Cancel(w)
  /\ pc[w] = "completing"
  /\ DeleteRow(w) \/ UNCHANGED status
  /\ job' = [job EXCEPT ![w] = 0]
  /\ Goto(w, "off")
  /\ UNCHANGED <<phase, stops, lastId, lychee>>

\* "except BaseException" at the end of the loop: it goes on.
Unwind_Continues(w) ==
  /\ pc[w] = "unwinding"
  /\ DeleteRow(w)
  /\ job' = [job EXCEPT ![w] = 0]
  /\ Goto(w, "fetching")
  /\ UNCHANGED <<phase, stops, lastId, cancelled, lychee>>

\* The finally is done and CancelledError breaks the loop.
Unwind(w) ==
  /\ pc[w] = "unwinding"
  /\ DeleteRow(w)
  /\ job' = [job EXCEPT ![w] = 0]
  /\ Goto(w, "off")
  /\ UNCHANGED <<phase, stops, lastId, cancelled, lychee>>

\* queue.complete() raises in the finally: its exception takes the place of
\* CancelledError, and "except Exception" continues the loop.
UnwindFails(w) ==
  /\ QueueMayFail
  /\ pc[w] = "unwinding"
  /\ job' = [job EXCEPT ![w] = 0]
  /\ Goto(w, "fetching")
  /\ UNCHANGED <<phase, stops, queue, cancelled, lychee>>

\* gather() returns once every task is done.
Stopped ==
  /\ phase = "stopping"
  /\ \A w \in Worker : pc[w] = "off"
  /\ phase' = "down"
  /\ cancelled' = [w \in Worker |-> FALSE]
  /\ UNCHANGED <<stops, queue, pc, job, lychee>>

\* The process dies, also in the middle of a shutdown.
Crash ==
  /\ phase # "down"
  /\ crashes < MaxCrashes
  /\ crashes' = crashes + 1
  /\ phase' = "down"
  /\ pc' = [w \in Worker |-> "off"]
  /\ job' = [w \in Worker |-> 0]
  /\ cancelled' = [w \in Worker |-> FALSE]
  /\ UNCHANGED <<shutdowns, queue, lychee>>

-----------------------------------------------------------------------------

Detect(w) == DetectOk(w) \/ DetectRaises(w)
Post(w) == PostOk(w) \/ PostFails(w)
Finish(w) == Complete(w) \/ CompleteFails(w)
BeCancelled(w) == CancelFetch(w) \/ CancelJob(w) \/ CancelComplete(w)
FinishCancelled(w) == Unwind(w) \/ UnwindFails(w)

WorkerStep(w) ==
  \/ Fetch(w) \/ Resume(w) \/ Detect(w) \/ Post(w) \/ ReportDone(w)
  \/ Finish(w) \/ BeCancelled(w) \/ FinishCancelled(w)

Next ==
  \/ \E p \in Photo : Submit(p)
  \/ Purge
  \/ \E w \in Worker : WorkerStep(w) \/ LycheeHandles(w)
  \/ Start \/ Shutdown \/ Stopped \/ Crash

\* The event loop runs every ready task; threads of the queue finish; every
\* POST ends by its timeout; inference terminates; the container is started
\* again (restart: unless-stopped).  Nothing obliges Lychee to answer.
Fairness ==
  /\ \A w \in Worker : WF_vars(WorkerStep(w))
  /\ WF_vars(Start)
  /\ WF_vars(Stopped)

Spec == Init /\ [][Next]_vars

-----------------------------------------------------------------------------
(* Properties *)

PhaseTypeOK ==
  /\ phase \in {"down", "up", "stopping"}
  /\ crashes \in 0 .. MaxCrashes
  /\ shutdowns \in 0 .. MaxShutdowns

QueueTypeOK ==
  /\ status \in [JobId -> {"none", "pending", "processing"}]
  /\ lastId \in 0 .. MaxJobs

TasksTypeOK ==
  /\ pc \in [Worker -> Location]
  /\ job \in [Worker -> 0 .. MaxJobs]
  /\ cancelled \in [Worker -> BOOLEAN]

LycheeTypeOK ==
  /\ photo \in [JobId -> Photo \cup {NoPhoto}]
  /\ sent \in [JobId -> SUBSET Callback]
  /\ received \in [JobId -> SUBSET Callback]
  /\ raised \in SUBSET JobId

TypeOK == PhaseTypeOK /\ QueueTypeOK /\ TasksTypeOK /\ LycheeTypeOK

\* Two workers never run the same job.
OneWorkerPerJob ==
  \A v, w \in Worker : job[v] = job[w] /\ job[v] # 0 => v = w

\* While the service runs, whatever position() reports as "currently being
\* processed" really is with a worker that will complete it.
ProcessingIsHeld == phase = "up" => Processing = Held

\* The workers' jobs come on top of the bound on pending jobs, and after a
\* restart they are pending again: together they stay within this bound.
RowsBound ==
  MaxSize > 0 => Cardinality(Pending \cup Processing)
                   <= MaxSize + Cardinality(Worker)

\* base.py, complete: "Remove a job after it has been processed (success or
\* failure)".  A job in flight goes only after a callback was sent for it.
DeletedOnlyAfterCallback ==
  [][\A j \in JobId : status[j] = "processing" /\ status'[j] = "none"
                        => sent[j] # {}]_vars

\* The only exception to DeletedOnlyAfterCallback is a graceful shutdown.
LostOnlyByShutdown ==
  [][\A j \in JobId : status[j] = "processing" /\ status'[j] = "none"
                        => sent[j] # {} \/ phase = "stopping"]_vars

\* worker.py: "Continuously dequeue and process jobs until cancelled."  A
\* task that has seen CancelledError takes no other job.
CancelledTakesNoJob ==
  [][\A w \in Worker : cancelled[w] /\ cancelled'[w]
                         => job'[w] \in {job[w], 0}]_vars

\* Callbacks leave in the order of submission, a job's own ones together:
\* once one was sent for a job, none is sent for an older job.  (For one
\* worker: an error, a crash and the repeat after it keep the order.)
CallbacksInOrder ==
  [][\A j \in JobId : sent'[j] # sent[j]
                        => \A k \in JobId : k > j => sent[k] = {}]_vars

\* api.md, error payload: "Sent when inference fails".  Lychee hears of an
\* error only if some inference of the job raised, or if its results were sent
\* and their POST failed, whatever crashes and repeats came in between.
ErrorIsExplained ==
  \A j \in JobId : "internal_error" \in received[j]
                      => j \in raised \/ "success" \in sent[j]

\* position() does not answer 0 for ever: a job in flight leaves the table.
LeavesFlight ==
  \A j \in JobId : status[j] = "processing" ~> status[j] = "none"

\* A graceful shutdown ends.
ShutdownEnds == phase = "stopping" ~> phase = "down"

\* The service uses its queue as base.py intends.
JQ == INSTANCE JobQueue WITH
        waiting <- Pending,
        inflight <- Processing,
        owned <- Held,
        last <- lastId

ImplementsJobQueue == JQ!Spec
=============================================================================
