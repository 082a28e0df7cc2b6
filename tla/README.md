# TLA+ project for the NSFW classification service

This directory holds TLA+ models of the service in `src/`, TLC configurations
that check them on small instances, and theorems about them that TLAPS checks
for every value of the constants. Paths below are relative to `src/`; line
numbers are those of the modelled commit. `PROJECT.json` maps every definition
to the lines it stands for.

## 1. The system

Lychee (a photo gallery) posts a photo id to the service, which answers 202 and
queues a job. A worker runs a NudeNet inference on the file, sorts the
detections into three tiers (block, review, sensitive) and posts the result
back to Lychee, or an error if the inference raised.

```
 Lychee --POST /detect, DELETE /queue, GET /queue/{id}--> routes.py
                                                            | enqueue, purge, position
                                                            v
   main.py lifespan --start, cancel--> worker.py tasks <-> job queue (SQLite file | Redis)
                                          | run_in_executor
                                          v
                                       detector.py  <-- settings, presets, label sets
                                          |
 Lychee <--POST results or error-- routes.py _run_detection_job
```

### Inventory

| Component | State it keeps | Operations | What is hard, and what makes it correct |
|---|---|---|---|
| **SQLite queue** `app/queue/db_queue.py`, protocol in `base.py` | table `job_queue` (id, photo, status) in a file; one RLock per process | `enqueue`, `dequeue`, `complete`, `purge`, `position`, `size`, recovery in `_init_table` | Each operation runs on a thread of its own; `enqueue` is two transactions, `position` two SELECTs without the lock; the file survives crashes. FIFO, one holder per job, capacity, recovery of everything and of nothing that lives; together: the protocol of `base.py`. |
| **Worker loop** `app/queue/worker.py` | the job in hand | dequeue, sleep, handle, complete in `finally` | Cancellation or an exception at every await, inside the `finally` too. No job twice at once, none dropped unanswered, the loop ends when it is cancelled. |
| **Detection job, callbacks** `app/api/routes.py:237-318` | none | inference on the thread pool, POST of the results, error callback | The answer to a POST may be lost after Lychee handled it. A callback for every job, in order with one worker; errors mean that inference failed. |
| **Lifespan** `app/main.py` | worker tasks | start with recovery, graceful shutdown (`cancel`, `gather`) | Crashes and restarts; waiting for tasks that do not end. |
| **HTTP routes** `app/api/routes.py` | none | POST /detect, GET and DELETE /queue, GET /config, GET /health | Requests run while workers run. |
| **Classification** `app/detection/detector.py:62-163` | none | `classify`, `_check_set`, `_resolve` | Boundaries, "not given" against 0, three tiers that overlap, a debug floor. |
| **Detector** `app/detection/detector.py:1-58` | lazily created NudeDetector | `get_detector`, `detect` | Threads of the pool that create it at once, without a lock; loads that raise. |
| **Settings of a tier** `app/config/settings.py`, `models.py` | `AppSettings` | `_apply_preset`, `resolve_preset`, `apply_to`, validators | The same override is merged in two places, from raw dicts and from models; absent, null and empty differ. |
| **Presets and labels** `app/config/presets.py`, `labels.py` | constants | none | The sets must mean what the presets' descriptions say. |
| **Redis queue** `app/queue/redis_queue.py` | list, in-flight hash, counter | the same operations, one or several commands each | Replicas share it and interleave between commands; crashes between LPOP and HSET; the client repeats unanswered commands; nothing recovers the hash. Exclusive jobs, and losses, overshoot and wrong positions that stay within bounds. |
| **PostgreSQL queue** `app/queue/db_queue.py:188-343` | table; a connection and an RLock per process | the same | Not reachable: `factory.py` never constructs it. Row locks between replicas, a transaction left aborted by a refused statement, recovery by every replica that starts. |
| Factory, schemas, API key, other settings, build | none, or configuration | | Choices made once, comparisons, formats. |

`PROJECT.json` lists the hazards one by one, each at its line, with the
properties that would catch it and with a note where no property covers it yet.

## 2. Modules and how they correspond to the code

| Module | Models | Extends or uses |
|---|---|---|
| `JobQueue` | the abstract specification: what `JobQueue` of `base.py` promises | |
| `SQLiteQueue` | `SQLiteJobQueue`, one statement or transaction per step | refines `JobQueue` |
| `SQLitePosition` | `SQLiteQueue` with an observer of `position()` | EXTENDS `SQLiteQueue` |
| `Service` | lifespan, workers, detection job, callbacks, queue, Lychee | refines `JobQueue` |
| `ServiceLoss` | `Service` with the sets of jobs deleted unanswered | EXTENDS `Service` |
| `Classification` | the loop of `classify` | |
| `Presets` | label sets as data | |
| `Verdict` | `classify` with the label sets of the presets | EXTENDS `Classification`, `Presets` |
| `TierSettings` | one tier's label set, from the environment to a job | |
| `RedisQueue` | `RedisJobQueue`, one command per step, replicas on one Redis | refines `JobQueue` |
| `RedisPosition` | `RedisQueue` with an observer of `position()` | EXTENDS `RedisQueue` |
| `PgQueue` | `PgJobQueue`, one statement per step, replicas on one database | refines `JobQueue` with one replica |
| `Detector` | `_get_detector` and `_run` on the threads of the pool | |
| `SQLiteQueueProofs`, `ServiceProofs`, `ClassificationProofs`, `VerdictProofs`, `TierSettingsProofs`, `RedisQueueProofs`, `PgQueueProofs`, `DetectorProofs` | theorems | EXTEND their modules |
| `MC*` | constants for TLC | EXTEND their modules |

Conventions. A definition `X_Y`, written before `X`, is a faulty variant of `X`
in a way the code could plausibly be wrong; nothing uses it, and put in place of
`X` it makes a property fail. Names follow the source.

### JobQueue

A job is its *ticket*, the position at which it was accepted. The state is the
sets `waiting`, `inflight`, `owned` (in flight and held by a live consumer) and
the last ticket issued. `Enqueue` respects the capacity, `Dequeue` takes the
oldest, whose consumer may never hear of it (PostgreSQL: the answer to the commit is
lost), `Complete` removes a ticket its consumer owns, `Recover` happens when
nobody owns a ticket, `Purge` takes what waits. `Abandon` is a consumer that dies
or fails to complete; a submission that fails may use up a ticket on the way
(PostgreSQL: a SERIAL id whose INSERT is not committed). `size`, `position` and
negative answers change nothing.

### SQLiteQueue

| State | Code |
|---|---|
| `status`, `photo`, `lastId` | columns of `job_queue` and the AUTOINCREMENT sequence; durable |
| `up` | which processes run |
| `pc`, `arg`, `seen` | local variables of the request threads inside an operation |
| `held` | the job each worker got from `dequeue` |

`EnqueueCount`, `EnqueueInsert` and `EnqueueFails` are the two transactions of
`_enqueue_sync`: `sqlite3` opens a transaction at the INSERT only, so the
SELECT COUNT runs in autocommit; what joins the two is the process's RLock,
which is held in between (`LockFree`). `Dequeue`, `Complete` and `Purge` are one
transaction each. `PositionFind` and `PositionRank` are the two SELECTs of
`_position_sync`, which takes no lock. `Start` is `_init_table` with its recovery
UPDATE; `Crash` loses the threads and keeps the file. `Home` says which process
a thread belongs to, so the same module covers one process and several on one
file; `SingleProcess` states the deployment of the Dockerfile.

### SQLitePosition

Adds `truth`: for each call of `position` under way, the answers that were right
at some moment since it began (`Answer` is the docstring of `base.py` taken
literally, in one atomic read). An answer from this set is as good as an atomic
one.

### Service

One process, so the queue is the atomic one that `SQLiteQueue` implements (run
`sqlite`, theorem `Implements`). The state of a task is `pc`, what it
awaits:

| `pc` | where in the code |
|---|---|
| `fetching` | `await queue.dequeue()` or the sleep after None |
| `fetched` | the thread committed; the task has not resumed |
| `detecting` | `run_in_executor(detect)`, then `classify` |
| `posting`, `posted` | the POST of the results, before and after Lychee handled it |
| `reporting`, `reported` | the error callback, likewise |
| `completing` | `await queue.complete()` in the `finally` |
| `unwinding` | the same on the way out with CancelledError |
| `off` | no task, or it is done |

A step of a task reaches from one await to the next and contains the effect of
the awaited call. `LycheeHandles` is a step of its own, so the answer may be lost
after the effect (`PostFails` at `posted`). `Shutdown` is SIGTERM; each task sees
CancelledError once, at whatever it awaits: `CancelFetch` (the job a dequeue thread
was about to hand over stays in `processing`), `CancelJob` (CancelledError is not an
Exception: no error callback, straight to the `finally`), `CancelComplete`.
`UnwindFails` is the case that `complete()` raises in that `finally`: its exception
takes the place of CancelledError and `except Exception` continues the loop.
`CancelComplete` may delete the row or not, whatever `QueueMayFail` says: a call that still
waits for a thread of the pool is cancelled and never runs. `Stopped` is the end of
`gather`. `QueueMayFail` says whether `complete()` may raise.

### ServiceLoss

Adds the jobs whose row was deleted before any callback was sent for them: `lost`, those
that were in flight; `cut`, those of them whose task a graceful shutdown was cancelling;
`purged`, those that waited. Every action of `Service` is joined with the same `Count`,
which watches the rows; nothing in it names the actions that may lose a job. All runs of
`Service` use the counted specification, whose behaviours are those of `Service` with
these sets on top. `Answered` excuses `cut` and `purged` only; `lost` is bounded by
`LossPerShutdown`.

### Classification, Presets, Verdict, TierSettings

`Classification` takes one step per detection (`Discard` below the debug floor,
`Collect` otherwise). Confidences and areas are levels of an ordered scale, since
the code compares them with `>=` only. `Presets` holds the label sets; `Verdict`
gives them to `classify` as `resolve_preset()` does when there are no overrides and
says what follows for a photo. `TierSettings` follows one tier (the code
treats the three alike) from the dicts in the environment through `_apply_preset`
and validation (`Boot`, `BootFails`) to jobs that do or do not name a preset
(`JobDefault`, `JobPreset`). Dicts are functions on the keys they hold, so absent,
null and empty are different, as in the code; `unset` tells a tier that the environment
does not mention from one given as an empty dict, which takes no default labels.
`Valid` is what pydantic demands of a
`LabelSetConfig`, with its validator; `ValidSettings` adds that no preset's override,
selected or not, holds null for `label_thresholds`.

### RedisQueue, RedisPosition

| State | Code |
|---|---|
| `jobs`, `inflight`, `counter` | the three Redis keys; the hash by its field names |
| `up` | which replicas run |
| `pc`, `id`, `arg`, `held` | the command a task is about to send, and the local variables it needs |
| `pushed`, `photo`, `handed`, `lost`, `faults` | history: what each RPUSH carried, which of them were popped and not completed, which of these are in no key of Redis, and how much went wrong |

The client is synchronous inside `async def` methods, so an operation never gives
the event loop away: tasks of one replica do not step between each other's commands
(`EventLoopFree`), those of other replicas do. A *fault* is a replica that dies
(`Crash`) or a command that is refused or whose answer is lost (`EnqueueRaises`,
`DequeueRaises`, `CompleteRaises`, `EnqueueRepeats`). `EnqueueRepeats` is redis-py
sending an unanswered command again: the RPUSH takes effect twice, with the same id in
both entries. `Start` recovers nothing, as the constructor does, and the client connects at
its first command. A graceful stop has no action of its own: it is `Complete` for the jobs
in hand, then `Crash`, so the model counts it as a fault; this makes the bounds weaker than
they could be, never stronger. `Uploads` says which photos a client enqueues.

`RedisPosition` adds `truth`, as `SQLitePosition` does, and `moved`, the tickets of the
photo that were between LPOP and HSET during the call. What is right (`Answer`) is judged
by what workers have in hand (`InHand`), not by the hash: the entry of a replica that died
is nobody's job, and a 0 for it is wrong. `PositionErrorsExplained` says which answers may
be wrong: one that was right at no moment of the call misses a job that moved from the list
into the hash meanwhile (or one whose RPUSH was repeated, since the two copies share a key
of the hash); and HVALS gives a wrong 0 only where a fault left an entry behind.

### PgQueue

| State | Code |
|---|---|
| `status`, `lastId` | the committed rows, and the SERIAL sequence |
| `aborted` | whether a replica's connection is in an aborted transaction |
| `pc`, `row`, `doomed`, `held` | what a thread is about to send, the row it has written or locked, what a purge found |
| `retaken`, `faults` | history: jobs put back under a running worker, faults |

A replica has one connection and one RLock, held for a whole operation (`MayRun`).
`DequeueSelect` locks the oldest free row (`FOR UPDATE SKIP LOCKED`), `DequeueUpdate`
marks it and commits. `Complete` and `PurgeCommit` wait for row locks. A statement that
PostgreSQL refuses aborts the transaction (`CallRaises`, `CompleteRaises`): every later
operation of the replica raises too, until `DequeueHeals`, the only operation with a
`rollback()`. `Start` is `_init_table`, which puts back the rows of every replica.
The ticket of a job is its id; `Issued` is the last id whose INSERT is committed or given
up, since an id is drawn before its row appears.

In two places the model has more behaviours than the code: a dequeue may take a row that a
purge has deleted but not committed, which SKIP LOCKED would skip (`PurgeFind` locks
nothing, `PurgeCommit` then waits for the row); and other threads of a replica may run
while its `Complete` waits for a row lock, although it holds the RLock. What the runs and
theorems show of the larger set holds of the smaller one as far as safety goes; liveness
does not live on them, since every wait for a row lock ends.

### Detector

One step per access to the global `_detector`: `Check` reads it, `Store` sets it,
`Read` reads it again for the `return`. `Load` is what NudeNet does in between and
`Raise` a load or an inference that fails. A detector is named after the thread that
loaded it.

## 3. What the runs check

### Runs that pass

| Run | Instance | Shows |
|---|---|---|
| `sqlite` | 1 process, 2 request threads, 2 workers, 2 photos, 4 rows, limit 2 | `FifoFrontier`, `OneHolder`, `CapacityRespected`, and that the detailed queue implements `JobQueue`, through crashes at every step. The unlocked `position` errs only by answering 0 for a job purged during the call (`PositionErrsOnlyByPurge`), and its rank never grows (`RankNeverGrows`) |
| `service_safety` | 2 workers, 3 jobs, limit 1, a crash, a shutdown, `complete()` may raise | no job with two workers; an error is reported only if an inference raised or results had been sent (`ErrorIsExplained`); unanswered loss only by graceful shutdown, and then one job per worker at most (`LossPerShutdown`); refinement of `JobQueue` |
| `service_live` | 1 worker (the default), 3 jobs, a corrupt file, fairness | what `position` calls processed is with a worker; callbacks in the order of submission, repeats after a crash included; the bound on the table; a callback is sent for every job that is not purged while it waits nor cut off by a graceful shutdown while it runs (`Answered`); none stays in flight, every shutdown ends |
| `classify` | up to 2 detections of 2 labels and a third, thresholds below, at and above them at all three levels; the presets | each tier gets what the documented chain selects, once each, in order and independently (`TiersAsDocumented`, after every step); strict is the strictest preset; explicit content is always blocked or held |
| `tier_settings` | every environment with a global dict and two preset dicts, each absent, empty, or with up to two keys, null or given | a start that succeeds has label sets of the right types, so have its jobs; the two merges agree; threshold-only settings keep the preset's labels |
| `redis` | 2 replicas, 2 request tasks, 3 workers, 2 photos, 3 jobs, limit 1, a fault anywhere, fairness | no job with two workers but through a repeated RPUSH; the hash is exact; losses and overshoot stay within bounds; `position` errs only for a job that moves into the hash during the call, or by a 0 for an entry that a fault left there; refinement of `JobQueue`; every job in the list leaves it |
| `pg` | 2 replicas, requests at one of them, 3 workers, 3 jobs, limit 1, 2 faults anywhere, fairness | no job with two workers unless a starting replica put it back; a fault strands at most one row per worker of a replica; aborted transactions heal; committed jobs are taken or purged |
| `detector` | 3 threads, fairness | no inference on None, at most one load per thread, one shared detector in the end |

### Runs that find a violation

Each checks what a document, comment or docstring says, and shows a behaviour of
the code that differs. `PROJECT.json` quotes the lines.

| Run | The code does |
|---|---|
| `service_lost_job` | a graceful shutdown deletes the job it interrupts, which nobody was told about (`base.py:28`); a crash would have kept it |
| `service_shutdown_hangs` | `complete()` raising in the `finally` swallows the cancellation: the task goes on to the next job, and `gather` waits for it for ever (`worker.py:19`) |
| `classify_all_detected` | a debug floor above the confidence threshold cuts `all_detected` (`concepts/README.md:62`) |
| `redis_position` | a job that another replica dequeues between HVALS and LRANGE is in neither: 404 for a job that is being processed (`api.md:172`) |

Other differences between documents and code, met while modelling and read off the
source; the definitions show them, no run is kept for them:

- an answer to the results that is lost, late or an error status makes the service
  report `internal_error` for an inference that succeeded (`api.md:266`; `PostFails`);
  `ErrorIsExplained` is what remains true;
- when several processes share a `queue.db`, one that starts takes back the jobs of
  the others, which did not crash (`db_queue.py:91`; `Start`);
- with Redis, a crash loses the job between LPOP and HSET and leaves those in flight in
  the hash for ever, where `position` answers 0 for them (`api.md:168`; `Crash`);
- GET /config resolves every preset, so one broken override makes it fail
  (`routes.py:154`);
- several processes on one `queue.db` overshoot `queue_max_size` (`settings.py:254`),
  since the RLock belongs to a process (`LockFree`);
- a `complete()` that raises leaves the row in `processing`, so `position` answers 0
  until the next restart (`api.md:168`; `CompleteFails`);
- an undecodable file is reported as `internal_error`, never as `corrupt_file`
  (`api.md:280`; `DetectRaises`);
- a preset override whose `label_thresholds` are not among its labels is found at
  start only if that preset is selected, else when a job names it
  (`choose-a-preset.md:130`; `JobPreset`);
- without a preset, a threshold given by a sub-key alone empties the tier's labels
  (`configuration.md:162`; `WithoutPreset`);
- strict sends covered parts to review, not to sensitive (`presets.py:52`).

The setting `workers` ("Number of Uvicorn worker processes", `configuration.md:231`)
is read by nothing in `src/`, and the Dockerfile's CMD starts one process. Several
processes come with `UVICORN_WORKERS`, which `docs/2-how-to/deploy-with-docker.md:162`
mentions, or with replicas on one volume.

### Bounds, and why they are enough

- Two request threads and two workers: every race in the code is between two
  actors around one lock or one row. FIFO for any number of processes is a theorem.
- Two replicas in `redis` and `pg`, the first with two workers: races within a replica,
  which the event loop or the RLock excludes, and between replicas. One fault in `redis`
  is enough to separate the bounds from 0 (`LossBounded`, `OvershootBounded`, which are
  theorems for any number); two in `pg` let a fault hit a transaction that is already
  aborted.
- Three jobs in `pg`, and a largest crew of two: after one fault at most two of the three
  rows may be stranded, so `StrandedBounded` still excludes states. Requests come to the
  first replica only, whose RLock they share with its two workers; the second replica
  runs its worker, dies and starts.
- Two photos in `redis`, one for each client's enqueues (`Uploads`): the list still gets
  every sequence of the two, ranks go up to three, and `position` is called for both by both.
- Three threads in `detector`: one that loads, one that loads too, and one that finds a
  detector that is replaced under it.
- Two photos, and a photo may be submitted twice: the only operations that look
  at photo ids are `position` and callbacks. `Service` needs one photo, since jobs
  are told apart by their ids, and in `service_live` one whose inference always raises.
- One worker in `service_live`: the order of callbacks needs it, and a single worker is
  the hardest case for progress, since nobody else takes its work. For any
  number of workers, `CancelEnds` shows that a cancelled task takes no other job.
- Three or four rows or jobs with a limit of one or two: one in flight, one
  waiting, one refused or newly admitted, one recovered.
- Two keys at once in a dict of `tier_settings`: the merges treat the keys one by one,
  and what the validator relates is two of them (`labels`, `label_thresholds`).
- `MaxCrashes = MaxShutdowns = 1` in `Service`: enough for a crash in the middle of a
  shutdown and two restarts. `SQLiteQueue` does not bound crashes.
- Symmetry is used for photos in `sqlite` and for workers in `service_safety`; no run
  with liveness uses it.
- `MaxJobs` bounds the ids. At the bound, purges, crashes and restarts are still
  enabled, so the runs check for deadlock. Exceptions, with `CHECK_DEADLOCK FALSE`:
  `classify*` and `tier_settings` are computations that end, or a start that fails;
  `service_safety` and `service_shutdown_hangs` contain the shutdown that hangs.
- 40 properties are checked. The type invariants of `Classification`, `RedisQueue`,
  `PgQueue` and `Detector`, `CancelledTakesNoJob`, `Settled` and `ImplementsJobQueue` of
  `PgQueue` (which needs a single replica, and so an instance other than that of `pg`) are
  left to the theorems that state them.

The theorems of section 4 need none of these bounds.

### Fairness

In `Service`, `Fairness` is weak fairness of `WorkerStep(w)`, `Start` and `Stopped`. The event
loop runs every ready task; the threads behind `to_thread` finish; the POST of
results ends after 30 s and the error callback after 10 s by their timeouts;
inference terminates; a container that went down is started again
(`restart: unless-stopped`, `deploy-with-docker.md:77`), and its check of Lychee at
start succeeds in the end or is switched off. Nothing obliges Lychee to
handle a POST, to answer, or to submit. That a task is always able to step is why
one weak fairness condition for the disjunction is enough: no liveness property
relies on a particular outcome of a choice.

`RedisQueue` and `PgQueue` assume weak fairness of requests that are inside an
operation and of `Start`, and strong fairness of `WorkerStep(w)`: between requests a
worker's step is enabled again and again, not for good. With Redis the event loop
runs its ready tasks in the order they became ready. With PostgreSQL a worker asks for
the RLock twice a second (`worker.py:29`), for which Python promises no order: there
the assumption says that requests leave gaps. Purges, and faults, are never obliged.
`Detector` assumes weak fairness of each thread inside `_run`.

## 4. What is proved

All theorems hold for arbitrary constants under each module's named `ASSUME`, which
only gives the constants their sorts and says which sets are finite.

**SQLiteQueueProofs.** The argument goes up in layers.

1. `TypeCorrect`.
2. `FifoInv`: rows exist only below `lastId`, and whatever was handed out is older than
   whatever waits. Inductive by itself for any number of processes, because
   recovery gives *all* rows in flight back in one statement. Gives `Fifo`.
3. `HolderInv`, for `SingleProcess`: a held row is in flight, held by one worker, and
   nothing is held while the process is down. The last part is what makes it
   inductive through recovery. Gives `Exclusive`.
4. `InsertInv`, for `SingleProcess`: at most one thread is between the count and the
   insert, and the room it saw is still there. No step of another thread can add a
   pending row meanwhile: an enqueue needs the lock, and recovery needs the process
   to be down. Gives `Capacity`.
5. `Implements`: with 1-4 every step maps to a step of `JobQueue` or to a stutter.
6. `CallInv`: between the two SELECTs of `position` the row that was seen is its photo's
   oldest while it exists, and once it waits no more nothing older waits, which is FIFO
   again. So while the row exists the answer is the atomic one (`AnswerIsRank`), and 0
   afterwards. Gives `PositionErrs` and `RankFalls`.

`SingleProcess` is a hypothesis of 3-6 and cannot be dropped. For `Exclusive` and
`Implements`: a process that starts takes the rows of another one, which may also put
older rows in front of a caller of `position` (`RankFalls`). For `Capacity`: two enqueues
of two processes may both count before either inserts.

**ServiceProofs.**

1. Types, one lemma per group of variables.
2. `Inv`: a task has a job exactly where its `pc` says so and `pc` follows the phase
   (`TasksInv`); rows are used up to `lastId` only, what a worker has is in flight and
   with nobody else (`RowsInv`); whoever reached `completing` sent a callback
   (`CallbackSent`). For the queue, a worker's step is a fetch, a letting go, or
   nothing (`StepKinds`), which keeps the proofs short. Gives `TypeCorrect`, `Exclusive` and
   `NoSilentLoss`, failing `complete()` included.
3. `LossInv`: jobs lost and tasks `AtRisk` together are at most as many as shutdowns times
   workers. A task is at risk while a shutdown has not yet cancelled it or it is on its way
   through the `finally`. A shutdown puts every task at risk once; a task that deletes an
   unanswered job is at risk before and not after (`UnansweredDelete`, `RiskShrinks`). The
   bound on the lost jobs alone is not inductive. Gives `FewLost`.
4. `ReliableInv`, under `~QueueMayFail`: a cancelled task is unwinding or off, and every
   row in flight is held while the service is up. Gives `InFlightIsHeld`, `CancelEnds` and
   `Bounded`. The assumption is needed: after `CompleteFails` a row in flight is held by
   nobody, and after `UnwindFails` a cancelled task fetches again
   (`service_shutdown_hangs`).
5. `OrderInv`, for one worker and `~QueueMayFail`: FIFO, and all jobs before the one in
   hand are answered or gone. Gives `InOrder`.
6. `Implements`: `Service` refines `JobQueue`, failing `complete()` included (a failure
   abandons the ticket).
7. `ExplainInv`: who posts has sent the results, and who reports has seen the inference
   raise or the results sent. Gives `ErrorsExplained`, failing `complete()` included.

**ClassificationProofs.** `TypeCorrect`, and `TiersCorrect`: at every step, for all labels,
thresholds, settings and detector outputs, each tier's list enumerates exactly the
positions seen so far that the documented chain selects, in increasing order.
`TiersAsDocumented` says so with an increasing index function onto those positions
(`Enumerates`), which the proof extends by one position when the loop appends
(`SelectedNext`). A filter such as `SelectSeq` is recursive over the data, out of the
provers' reach, and would say the same. `ChainResolves` shows that the nested conditionals of
`_resolve` find the first threshold given (`FirstGiven`).

**VerdictProofs.** From `TiersCorrect` (by `TiersSound`) a flag is up at the end of the loop
iff some detection triggers its tier; from the label sets, whatever a configuration does with
a label strict does no less. Gives `StrictestIsStrict` and `ExplicitHeld` for all photos.

**TierSettingsProofs.** `Inv`: a service that is up has passed its validators and has the
label set its dicts give, and a job that named a preset got that preset's.

1. `BootTyped`: a merge of dicts that the validators let pass is a `LabelSetConfig`, although
   the dicts may hold null under any key; `AppliedTyped`: so is what `apply_to` makes of an
   override. Gives `TypeCorrect`. That a start refuses null for the `label_thresholds` of any
   override is needed for the second.
2. The two merges agree key by key (`MergesAgree`, `BootGives`). Gives
   `SelectionDoesNotMatter` and `LabelsKept`.

**RedisQueueProofs**, for any number of replicas, tasks and faults.

1. `CallInv`: what tasks hold fits where they are. `OrderInv`: tickets in the list
   increase and follow all that were popped; needed to see that a popped ticket is
   nobody else's.
2. `LoopInv`: a replica has at most one task between two commands. Gives `Losses`,
   since the only place where a crash loses a job is there.
3. `IdInv`: ids come from INCR, so without a fault no two entries share one. Gives
   `Exclusive`.
4. `LostInv`, with 1-3: `HashExact`.
5. `CapInv`: the list *and the enqueues that have seen room* stay within the limit, the
   other replicas and the faults. The bound on the list alone is not inductive. Gives
   `Overshoot`.
6. `Implements`: with the limit raised by that bound, every step maps to a step of
   `JobQueue` or to a stutter.
7. `PositionErrs`: the list is increasing (1), so the index LRANGE gives is the number of
   older jobs plus one (`RankCounts`). At every moment the right answer is that or 0, and 0
   while a worker has a job of the photo (`AnswerIsRank`). `ShadowInv`: a job of the photo
   that a worker has during a call is in `moved`, since HVALS would have seen one that was
   in the hash already, unless another RPUSH carried the same id.
   `HandedInv` says that without a fault every popped ticket is in a worker's hand, so an
   entry of the hash that is nobody's took a fault.

**PgQueueProofs.**

1. `FreshInv`, `LockInv`, `HolderInv`: a row that is being inserted is nobody else's; a row
   that is locked is pending, and locked by one worker; a held row is in `processing`,
   held by one worker, or in `retaken`. Gives `Exclusive` and `Marked`.
2. `ConnInv`: one operation at a time in a replica, and none inside an aborted transaction.
   A row is `Stuck` if it is in `processing` and each worker that has it, if any, is going to
   see its DELETE refused. Only faults add to `Stuck`, and one adds at most one row for each
   worker of its replica (`StuckStep`). Gives `Stranded`; the bound on stranded rows alone is
   not inductive, since `CompleteRaises` in a transaction that was aborted before is no
   fault. Its hypothesis names a replica with the largest crew.
3. `SingleInv`, for `SingleProcess`: what a statement has found still holds when the next one
   is sent. The room an enqueue saw is there, its id is the last one, the rows a purge found
   are those that wait, the row a dequeue locked is the oldest; and no job is held while the
   replica is down, so that `retaken` stays empty. With 1 and 2 every step maps to a step of
   `JobQueue` or to a stutter: `Implements`. One replica is needed: a second one that starts
   takes jobs back, two overshoot the limit, and a row locked by one is passed over by the
   other.

**DetectorProofs.** Once stored the global is never None, and a thread that has loaded
finds it set or is about to store. Gives `HasDetector`, `FewLoads` and `Stays`.

### Only model-checked

Every invariant, action property and refinement that a passing run checks is stated by a
theorem. What
remains with TLC is liveness (`Answered`, `LeavesFlight`, `ShutdownEnds`, `ListDrains`,
`AbortedHeals`, `PendingTaken`, `Converges`): fairness is out of the prover's reach.

## 5. What is not modelled, and why

- Which error makes an inference raise (missing file, undecodable, bad preset): one
  step, `DetectRaises`, that may always happen, and must for a corrupt file. So a photo
  that disappears between the check of `detect` and the inference is covered.
- The 400 answers of `detect`, to a path outside the photo directory or an unknown
  preset: they come before the queue is touched and change nothing.
- `size()`, GET /health, GET /config, and `position()` of PostgreSQL: they only read.
  Their refused statements are part of `CallRaises`.
- The 0.5 s sleep after an empty dequeue: a task that sleeps is in `fetching`.
- Service tasks on top of `RedisQueue` or `PgQueue`: `run_worker` sees the same protocol,
  but the callbacks are followed with the SQLite queue only.
- Which queue is built (`factory.py`): a choice made once.
- Lychee's connectivity check at start, logging, serialisation, the API key, schemas,
  parsing and error formatting of settings: they change no state that the models hold.
- NudeNet: its output is an arbitrary sequence of detections, and what two concurrent
  inferences do to each other inside it is not in this repository.
- What Lychee does with callbacks that are late, repeated or out of order.

## 6. Plan

Done: `JobQueue`, `SQLiteQueue` and `SQLitePosition`, `Service` and `ServiceLoss`,
`Classification`, `TierSettings`, `Presets`, then `RedisQueue` and `RedisPosition`,
`PgQueue`, `Detector`, `Verdict`, each with its proofs.

What is left to do: requests that name a preset whose override is broken, joining
`Service` and `TierSettings`.
