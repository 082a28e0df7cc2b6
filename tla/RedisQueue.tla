----------------------------- MODULE RedisQueue -----------------------------
(***************************************************************************)
(* RedisJobQueue of app/queue/redis_queue.py, one Redis command at a time. *)
(*                                                                         *)
(* The client is synchronous: a command blocks the event loop of its       *)
(* process, so a task is between two commands of an operation only while   *)
(* every other task of that process waits.  Replicas on one Redis          *)
(* interleave freely.  Every fault is counted: a process that dies, and a  *)
(* command whose answer is lost or that is refused.  The client sends an   *)
(* unanswered command again before it raises, so RPUSH may take effect     *)
(* twice.                                                                  *)
(*                                                                         *)
(* A ticket numbers the RPUSHes, and stands for the pushed JSON, which     *)
(* carries the id of a job.  size(), and the answers False, None and 0     *)
(* given after the first command, change nothing: no action.               *)
(*                                                                         *)
(* A definition X_Y, before X, is a faulty variant of X, in the way the    *)
(* code could be wrong; nothing uses it.  Each shows that some property    *)
(* notices.                                                                *)
(***************************************************************************)
EXTENDS Integers, Sequences, FiniteSets

CONSTANTS
  Process,            \* replicas that use the same Redis
  Client,             \* tasks that serve requests
  Worker,             \* run_worker tasks
  Home,               \* the process of each task
  Photo,              \* photo ids
  NoPhoto,            \* the photo of no job
  Uploads,            \* bound: the photos each client enqueues jobs for
  MaxSize,            \* queue_max_size
  MaxJobs,            \* bound: INCRs of the counter
  MaxFaults           \* bound: faults

Task == Client \cup Worker
JobId == 1 .. MaxJobs

ASSUME RedisAssumption ==
  /\ IsFiniteSet(Process)
  /\ IsFiniteSet(Client)
  /\ Client \cap Worker = {}
  /\ Home \in [Task -> Process]
  /\ NoPhoto \notin Photo
  /\ MaxSize \in Int
  /\ MaxJobs \in Nat
  /\ MaxFaults \in Nat

ASSUME UploadsAssumption == Uploads \in [Client -> SUBSET Photo]

VARIABLES
  (* Redis *)
  jobs,               \* list nsfw:queue:jobs, of tickets
  inflight,           \* keys of the hash nsfw:queue:inflight: job ids
  counter,            \* nsfw:queue:counter
  (* processes and their tasks *)
  up,                 \* does the process run?
  pc,                 \* the command a task is about to send, if any
  id,                 \* the job id that enqueue got from INCR
  arg,                \* photo_id argument of position
  held,               \* the ticket a worker popped, 0 for none
  (* history *)
  photo,              \* photo_id of each job id
  pushed,             \* the job id that each RPUSH carried
  handed,             \* tickets popped and not yet completed
  lost,               \* those popped whose HSET never took effect
  faults              \* how many faults there were

redis == <<jobs, inflight, counter>>
calls == <<pc, id, arg>>
history == <<photo, pushed, handed, lost, faults>>
vars == <<redis, up, calls, held, history>>

Waiting == {jobs[i] : i \in DOMAIN jobs}

\* The photo_id in the JSON.
PhotoOf(t) == photo[pushed[t]]

\* "llen(...) >= max_size and max_size > 0" answers False.
HasRoom_OneMore(n) == MaxSize <= 0 \/ n <= MaxSize

HasRoom(n) == MaxSize <= 0 \/ n < MaxSize

\* redis.asyncio: another task may run while this one awaits its answer.
EventLoopFree_Async(P) == TRUE

\* No task of this process is between two commands.  A request that is not
\* in a call, and a worker whose job runs in the thread pool, are at rest.
EventLoopFree(P) ==
  \A t \in Task : Home[t] = P => pc[t] \in {"idle", "running"}

MayCall(t) == up[Home[t]] /\ EventLoopFree(Home[t])

Fault == faults < MaxFaults /\ faults' = faults + 1

Goto(t, to) == pc' = [pc EXCEPT ![t] = to]

Init ==
  /\ jobs = <<>>
  /\ inflight = {}
  /\ counter = 0
  /\ up = [P \in Process |-> FALSE]
  /\ pc = [t \in Task |-> "idle"]
  /\ id = [c \in Client |-> 0]
  /\ arg = [c \in Client |-> NoPhoto]
  /\ held = [w \in Worker |-> 0]
  /\ photo = [j \in JobId |-> NoPhoto]
  /\ pushed = <<>>
  /\ handed = {}
  /\ lost = {}
  /\ faults = 0

-----------------------------------------------------------------------------
(* enqueue *)

\* LLEN, when it finds room.
EnqueueLen(c) ==
  /\ MayCall(c)
  /\ pc[c] = "idle"
  /\ counter + Cardinality({d \in Client : pc[d] = "incr"}) < MaxJobs
  /\ HasRoom(Len(jobs))
  /\ Goto(c, "incr")
  /\ UNCHANGED <<redis, up, id, arg, held, history>>

\* INCR: the id of the job for photo p.
EnqueueIncr(c, p) ==
  /\ pc[c] = "incr"
  /\ p \in Uploads[c]
  /\ counter < MaxJobs
  /\ counter' = counter + 1
  /\ id' = [id EXCEPT ![c] = counter + 1]
  /\ photo' = [photo EXCEPT ![counter + 1] = p]
  /\ Goto(c, "push")
  /\ UNCHANGED <<jobs, inflight, up, arg, held, pushed, handed, lost, faults>>

\* LPUSH.
Rpush_Front(t) == jobs' = <<t>> \o jobs

Rpush(t) == jobs' = Append(jobs, t)

\* RPUSH takes effect.
Push(c) ==
  /\ pc[c] = "push"
  /\ Rpush(Len(pushed) + 1)
  /\ pushed' = Append(pushed, id[c])
  /\ UNCHANGED <<inflight, counter, up, arg, held, photo, handed, lost>>

\* The answer arrives, and enqueue answers True.
EnqueuePush(c) ==
  /\ Push(c)
  /\ id' = [id EXCEPT ![c] = 0]
  /\ Goto(c, "idle")
  /\ UNCHANGED faults

\* The answer is lost: the client sends the same RPUSH again.
EnqueueRepeats(c) ==
  /\ Push(c)
  /\ Fault
  /\ UNCHANGED <<pc, id>>

\* INCR or RPUSH is refused: enqueue raises.
EnqueueRaises(c) ==
  /\ pc[c] \in {"incr", "push"}
  /\ Fault
  /\ id' = [id EXCEPT ![c] = 0]
  /\ Goto(c, "idle")
  /\ UNCHANGED <<redis, up, arg, held, photo, pushed, handed, lost>>

-----------------------------------------------------------------------------
(* dequeue, complete, purge *)

\* Waits until the hash is empty.
MayPop_OneInFlight(w) ==
  MayCall(w) /\ pc[w] = "idle" /\ jobs # <<>> /\ inflight = {}

MayPop(w) == MayCall(w) /\ pc[w] = "idle" /\ jobs # <<>>

\* LINDEX 0, which leaves the job in the list.
Lpop_Peek == UNCHANGED jobs

Lpop == jobs' = Tail(jobs)

\* LPOP.
DequeuePop(w) ==
  /\ MayPop(w)
  /\ Lpop
  /\ held' = [held EXCEPT ![w] = Head(jobs)]
  /\ handed' = handed \cup {Head(jobs)}
  /\ Goto(w, "hset")
  /\ UNCHANGED <<inflight, counter, up, id, arg, photo, pushed, lost, faults>>

\* str(job.id), the key of a job in the hash.
Key(t) == pushed[t]

\* HSET; dequeue returns the job and the worker runs it.
DequeueHset(w) ==
  /\ pc[w] = "hset"
  /\ inflight' = inflight \cup {Key(held[w])}
  /\ Goto(w, "running")
  /\ UNCHANGED <<jobs, counter, up, id, arg, held, history>>

\* The answer of LPOP, or HSET, or its answer, is lost: dequeue raises, or
\* goes on with another LPOP, and this job is nobody's.
DequeueRaises(w) ==
  /\ pc[w] = "hset"
  /\ Fault
  /\ \/ lost' = lost \cup {held[w]} /\ UNCHANGED inflight
     \/ inflight' = inflight \cup {Key(held[w])} /\ UNCHANGED lost
  /\ held' = [held EXCEPT ![w] = 0]
  /\ Goto(w, "idle")
  /\ UNCHANGED <<jobs, counter, up, id, arg, photo, pushed, handed>>

\* No HDEL.
Hdel_Forgotten(t) == UNCHANGED inflight

Hdel(t) == inflight' = inflight \ {Key(t)}

\* complete.
Complete(w) ==
  /\ MayCall(w)
  /\ pc[w] = "running"
  /\ Hdel(held[w])
  /\ handed' = handed \ {held[w]}
  /\ held' = [held EXCEPT ![w] = 0]
  /\ Goto(w, "idle")
  /\ UNCHANGED <<jobs, counter, up, id, arg, photo, pushed, lost, faults>>

\* HDEL is refused: run_worker logs it and takes the next job.
CompleteRaises(w) ==
  /\ MayCall(w)
  /\ pc[w] = "running"
  /\ Fault
  /\ held' = [held EXCEPT ![w] = 0]
  /\ Goto(w, "idle")
  /\ UNCHANGED <<redis, up, id, arg, photo, pushed, handed, lost>>

\* DEL of the list.
Purge(c) ==
  /\ MayCall(c)
  /\ pc[c] = "idle"
  /\ jobs' = <<>>
  /\ UNCHANGED <<inflight, counter, up, calls, held, history>>

-----------------------------------------------------------------------------
(* position *)

\* LRANGE alone.
PositionHash_NoHash(c, p) ==
  /\ MayCall(c)
  /\ pc[c] = "idle"
  /\ arg' = [arg EXCEPT ![c] = p]
  /\ Goto(c, "range")
  /\ UNCHANGED <<redis, up, id, held, history>>

\* HVALS, when it has no job of the photo.
PositionHash(c, p) ==
  /\ MayCall(c)
  /\ pc[c] = "idle"
  /\ \A j \in inflight : photo[j] # p
  /\ arg' = [arg EXCEPT ![c] = p]
  /\ Goto(c, "range")
  /\ UNCHANGED <<redis, up, id, held, history>>

\* LRANGE 0 -1, from which the answer follows.
PositionList(c) ==
  /\ pc[c] = "range"
  /\ arg' = [arg EXCEPT ![c] = NoPhoto]
  /\ Goto(c, "idle")
  /\ UNCHANGED <<redis, up, id, held, history>>

-----------------------------------------------------------------------------
(* Processes *)

\* A process dies; a job between LPOP and HSET is in no key of Redis any more.
\* A graceful stop is this step too, after Complete for the jobs in hand.
Crash(P) ==
  /\ up[P]
  /\ Fault
  /\ up' = [up EXCEPT ![P] = FALSE]
  /\ lost' = lost \cup
       {held[w] : w \in {v \in Worker : Home[v] = P /\ pc[v] = "hset"}}
  /\ pc' = [t \in Task |-> IF Home[t] = P THEN "idle" ELSE pc[t]]
  /\ id' = [c \in Client |-> IF Home[c] = P THEN 0 ELSE id[c]]
  /\ arg' = [c \in Client |-> IF Home[c] = P THEN NoPhoto ELSE arg[c]]
  /\ held' = [w \in Worker |-> IF Home[w] = P THEN 0 ELSE held[w]]
  /\ UNCHANGED <<redis, photo, pushed, handed>>

\* __init__ makes a client, which connects at its first command, and recovers
\* nothing.
Start(P) ==
  /\ ~up[P]
  /\ up' = [up EXCEPT ![P] = TRUE]
  /\ UNCHANGED <<redis, calls, held, history>>

ClientStep(c) ==
  \/ EnqueueLen(c)
  \/ \E p \in Photo : EnqueueIncr(c, p)
  \/ EnqueuePush(c) \/ EnqueueRepeats(c) \/ EnqueueRaises(c)
  \/ Purge(c)
  \/ \E p \in Photo : PositionHash(c, p)
  \/ PositionList(c)

WorkerStep(w) ==
  \/ DequeuePop(w) \/ DequeueHset(w) \/ DequeueRaises(w)
  \/ Complete(w) \/ CompleteRaises(w)

ProcessStep(P) == Crash(P) \/ Start(P)

Next ==
  \/ \E c \in Client : ClientStep(c)
  \/ \E w \in Worker : WorkerStep(w)
  \/ \E P \in Process : ProcessStep(P)

Spec == Init /\ [][Next]_vars

\* A task between two commands that the client can send.
Respond(c) ==
  \/ \E p \in Photo : EnqueueIncr(c, p)
  \/ EnqueuePush(c) \/ PositionList(c)

\* Commands are answered; the event loop runs its ready tasks in their order,
\* so a worker gets its turn between requests; inference terminates; the
\* container is started again (restart: unless-stopped).
Fairness ==
  /\ \A c \in Client : WF_vars(Respond(c))
  /\ \A w \in Worker : SF_vars(WorkerStep(w))
  /\ \A P \in Process : WF_vars(Start(P))

-----------------------------------------------------------------------------
(* Properties *)

TypeOK ==
  /\ jobs \in Seq(Nat)
  /\ inflight \in SUBSET JobId
  /\ counter \in 0 .. MaxJobs
  /\ up \in [Process -> BOOLEAN]
  /\ pc \in [Task -> {"idle", "incr", "push", "range", "hset", "running"}]
  /\ id \in [Client -> 0 .. MaxJobs]
  /\ arg \in [Client -> Photo \cup {NoPhoto}]
  /\ held \in [Worker -> Nat]
  /\ photo \in [JobId -> Photo \cup {NoPhoto}]
  /\ pushed \in Seq(JobId)
  /\ handed \in SUBSET Nat
  /\ lost \in SUBSET Nat
  /\ faults \in 0 .. MaxFaults

\* No two workers, of whatever replicas, run the same job: LPOP is atomic and
\* INCR never repeats an id.  Only a repeated RPUSH, a fault, can break it.
OneWorkerPerJob ==
  \A v, w \in Worker :
    held[v] # 0 /\ held[w] # 0 /\ v # w
      => /\ held[v] # held[w]
         /\ faults = 0 => pushed[held[v]] # pushed[held[w]]

\* Tickets between LPOP and HSET, and those that are past it and not done.
Between == {held[w] : w \in {v \in Worker : pc[v] = "hset"}}
Recorded == handed \ (lost \cup Between)

\* redis_queue.py: "a Redis hash to track in-flight jobs".  Its keys are the
\* jobs handed out and not completed; a completed job never leaves one behind,
\* and no such job misses its key but one whose RPUSH was repeated.
HashTracksInflight ==
  /\ \A j \in inflight : \E t \in Recorded : Key(t) = j
  /\ \A t \in Recorded :
       Key(t) \in inflight \/ \E u \in DOMAIN pushed : u # t /\ Key(u) = Key(t)

\* LPOP and HSET are two commands, yet a fault makes at most one job vanish
\* from Redis, with any number of workers: a blocked event loop has one
\* dequeue between them at most.
LossBounded == Cardinality(lost) <= faults

\* LLEN and RPUSH are two commands: the list outgrows queue_max_size by less
\* than one job per replica, and by one per repeated RPUSH.
OvershootBounded ==
  MaxSize > 0 => Len(jobs) <= MaxSize + Cardinality(Process) - 1 + faults

\* A job in the list leaves it, also when replicas die and in-flight entries
\* stay behind: the list is empty again and again, or its head is popped
\* again and again, and the list is first in, first out.
ListDrains ==
  []<>(jobs = <<>>) \/ []<><<jobs # <<>> /\ jobs' = Tail(jobs)>>_jobs

\* Replicas on one Redis implement the protocol of base.py, in the order of
\* their RPUSHes, with a limit raised by the bound of OvershootBounded and
\* without recovery.
JQ == INSTANCE JobQueue WITH
        MaxSize <- IF MaxSize > 0
                   THEN MaxSize + Cardinality(Process) - 1 + MaxFaults ELSE 0,
        waiting <- Waiting,
        inflight <- handed,
        owned <- {held[w] : w \in Worker} \ {0},
        last <- Len(pushed)

ImplementsJobQueue == JQ!Spec
=============================================================================
