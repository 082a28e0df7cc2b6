-------------------------- MODULE RedisQueueProofs --------------------------
(***************************************************************************)
(* Proofs about RedisQueue, for every number of replicas, tasks, photos,   *)
(* jobs and faults.  Types and tickets come first (BaseInv), then what the *)
(* event loop guarantees (LoopInv); the properties of the queue rest on    *)
(* both, and the refinement of JobQueue on the order of the tickets.  What *)
(* RedisPosition says of position() needs the order only.                  *)
(***************************************************************************)
EXTENDS RedisPosition, FiniteSetTheorems, WellFoundedInduction, TLAPS

USE RedisAssumption

-----------------------------------------------------------------------------
(* Types and tickets *)

\* Whatever Redis or a worker has is a ticket that was pushed; a task is only
\* at the commands of its kind, with what these commands need.
CallInv ==
  /\ \A i \in DOMAIN jobs : jobs[i] \in DOMAIN pushed
  /\ handed \subseteq DOMAIN pushed
  /\ \A w \in Worker :
       /\ pc[w] \in {"idle", "hset", "running"}
       /\ held[w] = 0 <=> pc[w] = "idle"
       /\ held[w] # 0 => held[w] \in handed
  /\ \A c \in Client :
       /\ pc[c] \in {"idle", "incr", "push", "range"}
       /\ pc[c] = "push" => id[c] \in JobId

BaseInv == TypeOK /\ CallInv

\* held[w] \in handed is kept by complete() since tickets are held by one
\* worker each: the order of the tickets tells them apart.
OrderInv ==
  /\ \A i, k \in DOMAIN jobs : i < k => jobs[i] < jobs[k]
  /\ \A t \in handed, i \in DOMAIN jobs : t < jobs[i]
  /\ \A v, w \in Worker : held[v] = held[w] /\ held[v] # 0 => v = w

\* A list of tickets below n, in increasing order.
Increasing(s, n) ==
  /\ \A i \in DOMAIN s : s[i] < n
  /\ \A i, k \in DOMAIN s : i < k => s[i] < s[k]

\* RPUSH of a new ticket keeps the list in order.
LEMMA AppendIncreasing ==
  ASSUME NEW s \in Seq(Nat), NEW n \in Nat, Increasing(s, n)
  PROVE  /\ Append(s, n) \in Seq(Nat)
         /\ Increasing(Append(s, n), n + 1)
         /\ \A i \in DOMAIN Append(s, n) :
              Append(s, n)[i] = n \/ \E k \in DOMAIN s : Append(s, n)[i] = s[k]
<1> DEFINE r == Append(s, n)
<1>1. /\ r \in Seq(Nat) /\ Len(s) \in Nat
      /\ DOMAIN s = 1 .. Len(s) /\ DOMAIN r = 1 .. Len(s) + 1
      /\ \A i \in DOMAIN s : r[i] = s[i]
      /\ r[Len(s) + 1] = n
  OBVIOUS
<1>2. \A i \in DOMAIN s : s[i] \in Nat
  OBVIOUS
<1>3. \A i \in DOMAIN r : i \in DOMAIN s \/ i = Len(s) + 1
  BY <1>1
<1> HIDE DEF r
<1>4. \A i \in DOMAIN r : r[i] < n + 1
  BY <1>1, <1>2, <1>3 DEF Increasing
<1>5. \A i, k \in DOMAIN r : i < k => r[i] < r[k]
  <2> SUFFICES ASSUME NEW i \in DOMAIN r, NEW k \in DOMAIN r, i < k
               PROVE  r[i] < r[k]
    OBVIOUS
  <2>1. i \in DOMAIN s
    BY <1>1
  <2>2. QED
    BY <2>1, <1>1, <1>3 DEF Increasing
<1>6. QED
  BY <1>1, <1>3, <1>4, <1>5 DEF Increasing, r

\* The key of a handed ticket is a job id.
LEMMA KeyType ==
  ASSUME TypeOK, NEW t \in DOMAIN pushed
  PROVE  Key(t) \in JobId
BY DEF TypeOK, Key

LEMMA BaseStep ==
  ASSUME BaseInv, OrderInv, [Next]_vars
  PROVE  BaseInv' /\ OrderInv'
<1> USE DEF BaseInv, TypeOK, CallInv, OrderInv, Task, JobId, redis, calls,
            history, Goto, Fault, HasRoom
<1>1. ASSUME NEW c \in Client, EnqueueLen(c)
      PROVE  BaseInv' /\ OrderInv'
  BY <1>1 DEF EnqueueLen
<1>2. ASSUME NEW c \in Client, NEW p \in Photo, EnqueueIncr(c, p)
      PROVE  BaseInv' /\ OrderInv'
  BY <1>2 DEF EnqueueIncr
<1>3. ASSUME NEW c \in Client, Push(c)
      PROVE  /\ jobs' \in Seq(Nat) /\ pushed' \in Seq(JobId)
             /\ \A i \in DOMAIN jobs' : jobs'[i] \in DOMAIN pushed'
             /\ DOMAIN pushed \subseteq DOMAIN pushed'
             /\ \A i, k \in DOMAIN jobs' : i < k => jobs'[i] < jobs'[k]
             /\ \A t \in handed, i \in DOMAIN jobs' : t < jobs'[i]
  <2>1. /\ jobs' = Append(jobs, Len(pushed) + 1)
        /\ pushed' = Append(pushed, id[c]) /\ id[c] \in JobId
    BY <1>3 DEF Push, Rpush
  <2>2. /\ pushed' \in Seq(JobId) /\ Len(pushed) \in Nat
        /\ DOMAIN pushed = 1 .. Len(pushed)
        /\ DOMAIN pushed' = 1 .. Len(pushed) + 1
    BY <2>1
  <2>3. Increasing(jobs, Len(pushed) + 1)
    BY <2>2 DEF Increasing
  <2>4. jobs' \in Seq(Nat) /\ Increasing(jobs', Len(pushed) + 2)
    BY <2>1, <2>2, <2>3, AppendIncreasing
  <2>5. \A i \in DOMAIN jobs' :
          jobs'[i] = Len(pushed) + 1 \/ \E k \in DOMAIN jobs : jobs'[i] = jobs[k]
    BY <2>1, <2>2, <2>3, AppendIncreasing
  <2>6. \A i \in DOMAIN jobs' : jobs'[i] \in DOMAIN pushed'
    BY <2>2, <2>5
  <2>7. \A t \in handed : t < Len(pushed) + 1
    BY <2>2
  <2>8. \A t \in handed, i \in DOMAIN jobs' : t < jobs'[i]
    <3> SUFFICES ASSUME NEW t \in handed, NEW i \in DOMAIN jobs'
                 PROVE  t < jobs'[i]
      OBVIOUS
    <3>1. CASE jobs'[i] = Len(pushed) + 1
      BY <2>7, <3>1
    <3>2. CASE \E k \in DOMAIN jobs : jobs'[i] = jobs[k]
      BY <3>2
    <3>3. QED
      BY <2>5, <3>1, <3>2
  <2>9. QED
    BY <2>2, <2>4, <2>6, <2>8 DEF Increasing
<1>4. ASSUME NEW c \in Client, EnqueuePush(c)
      PROVE  BaseInv' /\ OrderInv'
  BY <1>3, <1>4 DEF EnqueuePush, Push
<1>5. ASSUME NEW c \in Client, EnqueueRepeats(c)
      PROVE  BaseInv' /\ OrderInv'
  BY <1>3, <1>5 DEF EnqueueRepeats, Push
<1>6. ASSUME NEW c \in Client, EnqueueRaises(c)
      PROVE  BaseInv' /\ OrderInv'
  BY <1>6 DEF EnqueueRaises
<1>7. ASSUME NEW w \in Worker, DequeuePop(w)
      PROVE  BaseInv' /\ OrderInv'
  <2>1. /\ jobs' \in Seq(Nat) /\ Head(jobs) \in Nat /\ Head(jobs) = jobs[1]
        /\ DOMAIN jobs' = 1 .. Len(jobs) - 1 /\ 1 \in DOMAIN jobs
        /\ \A i \in DOMAIN jobs' : jobs'[i] = jobs[i + 1] /\ i + 1 \in DOMAIN jobs
    BY <1>7 DEF DequeuePop, MayPop, Lpop
  <2>2. Head(jobs) \in DOMAIN pushed /\ Head(jobs) # 0
    BY <2>1
  <2>3. \A t \in handed : t < Head(jobs)
    BY <2>1
  <2>4. \A i \in DOMAIN jobs' : Head(jobs) < jobs'[i]
    BY <2>1
  <2>5. /\ held' = [held EXCEPT ![w] = Head(jobs)]
        /\ pc' = [pc EXCEPT ![w] = "hset"]
        /\ handed' = handed \cup {Head(jobs)}
        /\ UNCHANGED <<inflight, counter, up, id, arg, photo, pushed, lost, faults>>
    BY <1>7 DEF DequeuePop
  <2>6. TypeOK'
    BY <2>1, <2>5
  <2>7. \A i \in DOMAIN jobs' : jobs'[i] \in DOMAIN pushed'
    BY <2>1, <2>5
  <2>8. CallInv'
    BY <2>2, <2>5, <2>7
  <2>9. \A i, k \in DOMAIN jobs' : i < k => jobs'[i] < jobs'[k]
    BY <2>1
  <2>10. \A t \in handed', i \in DOMAIN jobs' : t < jobs'[i]
    <3>1. \A t \in handed, i \in DOMAIN jobs' : t < jobs'[i]
      BY <2>1
    <3>2. QED
      BY <2>4, <2>5, <3>1
  <2>11. \A u, v \in Worker : held'[u] = held'[v] /\ held'[u] # 0 => u = v
    BY <2>2, <2>3, <2>5
  <2>12. QED
    BY <2>6, <2>8, <2>9, <2>10, <2>11
<1>8. ASSUME NEW w \in Worker, DequeueHset(w)
      PROVE  BaseInv' /\ OrderInv'
  BY <1>8, KeyType DEF DequeueHset
<1>9. ASSUME NEW w \in Worker, DequeueRaises(w)
      PROVE  BaseInv' /\ OrderInv'
  <2>1. Key(held[w]) \in JobId /\ held[w] \in Nat
    BY <1>9, KeyType DEF DequeueRaises
  <2>2. inflight' \in SUBSET JobId /\ lost' \in SUBSET Nat
    BY <1>9, <2>1 DEF DequeueRaises
  <2>3. QED
    BY <1>9, <2>2 DEF DequeueRaises
<1>10. ASSUME NEW w \in Worker, Complete(w)
       PROVE  BaseInv' /\ OrderInv'
  BY <1>10 DEF Complete, Hdel, Key
<1>11. ASSUME NEW w \in Worker, CompleteRaises(w)
       PROVE  BaseInv' /\ OrderInv'
  BY <1>11 DEF CompleteRaises
<1>12. ASSUME NEW c \in Client, Purge(c)
       PROVE  BaseInv' /\ OrderInv'
  BY <1>12 DEF Purge
<1>13. ASSUME NEW c \in Client, NEW p \in Photo, PositionHash(c, p)
       PROVE  BaseInv' /\ OrderInv'
  BY <1>13 DEF PositionHash
<1>14. ASSUME NEW c \in Client, PositionList(c)
       PROVE  BaseInv' /\ OrderInv'
  BY <1>14 DEF PositionList
<1>15. ASSUME NEW P \in Process, Crash(P)
       PROVE  BaseInv' /\ OrderInv'
  <2>1. lost' \in SUBSET Nat
    <3> DEFINE T == {held[w] : w \in {v \in Worker : Home[v] = P /\ pc[v] = "hset"}}
    <3>1. lost' = lost \cup T
      BY <1>15 DEF Crash
    <3>2. T \subseteq Nat
      OBVIOUS
    <3>3. QED
      BY <3>1, <3>2
  <2>2. QED
    BY <1>15, <2>1 DEF Crash
<1>16. ASSUME NEW P \in Process, Start(P)
       PROVE  BaseInv' /\ OrderInv'
  BY <1>16 DEF Start
<1>17. CASE UNCHANGED vars
  BY <1>17 DEF vars
<1>18. QED
  BY <1>1, <1>2, <1>4, <1>5, <1>6, <1>7, <1>8, <1>9, <1>10, <1>11, <1>12,
     <1>13, <1>14, <1>15, <1>16, <1>17
  DEF Next, ClientStep, WorkerStep, ProcessStep

LEMMA BaseInvariant == Spec => [](BaseInv /\ OrderInv)
<1>1. Init => BaseInv /\ OrderInv
  BY DEF Init, BaseInv, TypeOK, CallInv, OrderInv, Task, JobId
<1>2. QED
  BY <1>1, BaseStep, PTL DEF Spec

\* The list, the hash, the counter and the tasks keep their types.
THEOREM TypeCorrect == Spec => []TypeOK
<1>1. BaseInv => TypeOK
  BY DEF BaseInv
<1>2. QED
  BY <1>1, BaseInvariant, PTL

-----------------------------------------------------------------------------
(* The event loop *)

\* A blocked event loop: one task of a process is between two commands.
LoopInv ==
  \A t, u \in Task :
    /\ Home[t] = Home[u]
    /\ pc[t] \notin {"idle", "running"}
    /\ pc[u] \notin {"idle", "running"}
    => t = u

LEMMA LoopStep ==
  ASSUME TypeOK, LoopInv, [Next]_vars
  PROVE  LoopInv'
<1> USE DEF TypeOK, LoopInv, Goto
<1>1. ASSUME NEW t \in Task, MayCall(t), NEW to, pc' = [pc EXCEPT ![t] = to]
      PROVE  LoopInv'
  BY <1>1 DEF MayCall, EventLoopFree
<1>2. ASSUME NEW t \in Task, pc[t] \notin {"idle", "running"}, NEW to,
             pc' = [pc EXCEPT ![t] = to]
      PROVE  LoopInv'
  BY <1>2
<1>3. ASSUME pc' = pc
      PROVE  LoopInv'
  BY <1>3
<1>4. ASSUME NEW c \in Client, EnqueueLen(c) \/ \E p \in Photo : PositionHash(c, p)
      PROVE  LoopInv'
  BY <1>1, <1>4 DEF EnqueueLen, PositionHash, Task
<1>5. ASSUME NEW w \in Worker, DequeuePop(w) \/ Complete(w) \/ CompleteRaises(w)
      PROVE  LoopInv'
  BY <1>1, <1>5 DEF DequeuePop, MayPop, Complete, CompleteRaises, Task
<1>6. ASSUME NEW c \in Client,
             \/ \E p \in Photo : EnqueueIncr(c, p)
             \/ EnqueuePush(c) \/ EnqueueRaises(c) \/ PositionList(c)
      PROVE  LoopInv'
  BY <1>2, <1>6 DEF EnqueueIncr, EnqueuePush, Push, EnqueueRaises,
                    PositionList, Task
<1>7. ASSUME NEW w \in Worker, DequeueHset(w) \/ DequeueRaises(w)
      PROVE  LoopInv'
  BY <1>2, <1>7 DEF DequeueHset, DequeueRaises, Task
<1>8. ASSUME NEW P \in Process, Crash(P)
      PROVE  LoopInv'
  BY <1>8 DEF Crash
<1>9. QED
  BY <1>3, <1>4, <1>5, <1>6, <1>7, <1>8
  DEF Next, ClientStep, WorkerStep, ProcessStep, vars, calls, EnqueueRepeats,
      Purge, Start

-----------------------------------------------------------------------------
(* One fault loses one job *)

LossInv == IsFiniteSet(lost) /\ LossBounded

LEMMA LossStep ==
  ASSUME TypeOK, LoopInv, LossInv, [Next]_vars
  PROVE  LossInv'
<1> USE DEF LossInv, LossBounded
<1>1. faults \in Nat /\ Cardinality(lost) \in Nat
  BY FS_CardinalityType DEF TypeOK
<1>2. ASSUME NEW x, lost' = lost \cup {x}, faults' = faults + 1
      PROVE  LossInv'
  <2>1. /\ IsFiniteSet(lost')
        /\ Cardinality(lost') \in {Cardinality(lost), Cardinality(lost) + 1}
    BY <1>2, FS_AddElement
  <2>2. QED
    BY <1>1, <1>2, <2>1
<1>3. ASSUME lost' = lost, faults' \in {faults, faults + 1}
      PROVE  LossInv'
  BY <1>1, <1>3
<1>4. ASSUME NEW w \in Worker, DequeueRaises(w)
      PROVE  LossInv'
  BY <1>2, <1>3, <1>4 DEF DequeueRaises, Fault
<1>5. ASSUME NEW P \in Process, Crash(P)
      PROVE  LossInv'
  <2> DEFINE T == {held[w] : w \in {v \in Worker : Home[v] = P /\ pc[v] = "hset"}}
  <2>1. lost' = lost \cup T /\ faults' = faults + 1
    BY <1>5 DEF Crash, Fault
  <2>2. CASE T = {}
    BY <1>3, <2>1, <2>2
  <2>3. CASE T # {}
    <3>1. PICK v \in Worker : Home[v] = P /\ pc[v] = "hset"
      BY <2>3
    <3>2. \A w \in Worker : Home[w] = P /\ pc[w] = "hset" => w = v
      BY <3>1 DEF LoopInv, Task
    <3>3. T = {held[v]}
      BY <3>1, <3>2
    <3>4. QED
      BY <1>2, <2>1, <3>3
  <2>4. QED
    BY <2>2, <2>3
<1>6. ASSUME NEW c \in Client, ClientStep(c)
      PROVE  LossInv'
  BY <1>3, <1>6
  DEF ClientStep, EnqueueLen, EnqueueIncr, EnqueuePush, EnqueueRepeats, Push,
      EnqueueRaises, Purge, PositionHash, PositionList, history, Fault
<1>7. ASSUME NEW w \in Worker,
             DequeuePop(w) \/ DequeueHset(w) \/ Complete(w) \/ CompleteRaises(w)
      PROVE  LossInv'
  BY <1>3, <1>7
  DEF DequeuePop, DequeueHset, Complete, CompleteRaises, history, Fault
<1>8. ASSUME NEW P \in Process, Start(P)
      PROVE  LossInv'
  BY <1>3, <1>8 DEF Start, history
<1>9. CASE UNCHANGED vars
  BY <1>3, <1>9 DEF vars, history
<1>10. QED
  BY <1>4, <1>5, <1>6, <1>7, <1>8, <1>9 DEF Next, WorkerStep, ProcessStep

LEMMA LossInvariant == Spec => [](LoopInv /\ LossInv)
<1>1. Init => LoopInv /\ LossInv
  BY FS_EmptySet DEF Init, LoopInv, LossInv, LossBounded
<1>2. TypeOK /\ (LoopInv /\ LossInv) /\ [Next]_vars => (LoopInv /\ LossInv)'
  BY LoopStep, LossStep
<1>3. QED
  BY <1>1, <1>2, TypeCorrect, PTL DEF Spec

\* With any number of replicas and of workers, n crashes, lost answers and
\* refused commands make at most n jobs vanish between LPOP and HSET.
THEOREM Losses == Spec => []LossBounded
<1>1. LossInv => LossBounded
  BY DEF LossInv
<1>2. QED
  BY <1>1, LossInvariant, PTL

-----------------------------------------------------------------------------
(* No job twice *)

\* An id on its way to RPUSH is its client's alone; the ids in the list were
\* issued; and they differ as long as no RPUSH was repeated.
IdInv ==
  /\ \A c \in Client : pc[c] = "push" => id[c] \in 1 .. counter
  /\ \A c, d \in Client :
       pc[c] = "push" /\ pc[d] = "push" /\ id[c] = id[d] => c = d
  /\ \A t \in DOMAIN pushed : pushed[t] \in 1 .. counter
  /\ faults = 0 =>
       /\ \A c \in Client, t \in DOMAIN pushed :
            pc[c] = "push" => pushed[t] # id[c]
       /\ \A t, u \in DOMAIN pushed : pushed[t] = pushed[u] => t = u

LEMMA IdStep ==
  ASSUME BaseInv, IdInv, [Next]_vars
  PROVE  IdInv'
<1> USE DEF BaseInv, TypeOK, CallInv, IdInv, Goto, Task
<1>1. ASSUME UNCHANGED <<counter, pushed>>, faults' >= faults,
             \A c \in Client : pc'[c] = "push" => pc[c] = "push" /\ id'[c] = id[c]
      PROVE  IdInv'
  BY <1>1
<1>2. ASSUME NEW c \in Client, NEW p \in Photo, EnqueueIncr(c, p)
      PROVE  IdInv'
  BY <1>2 DEF EnqueueIncr
<1>3. ASSUME NEW c \in Client, Push(c)
      PROVE  /\ counter' = counter
             /\ DOMAIN pushed = 1 .. Len(pushed) /\ Len(pushed) \in Nat
             /\ DOMAIN pushed' = 1 .. Len(pushed) + 1
             /\ \A t \in DOMAIN pushed : pushed'[t] = pushed[t]
             /\ pushed'[Len(pushed) + 1] = id[c]
             /\ id[c] \in 1 .. counter
  BY <1>3 DEF Push
<1>4. ASSUME NEW c \in Client, Push(c)
      PROVE  /\ \A t \in DOMAIN pushed' : pushed'[t] \in 1 .. counter
             /\ faults = 0 =>
                  \A t, u \in DOMAIN pushed' : pushed'[t] = pushed'[u] => t = u
  <2>1. \A t \in DOMAIN pushed' : t \in DOMAIN pushed \/ t = Len(pushed) + 1
    BY <1>3, <1>4
  <2>2. pc[c] = "push"
    BY <1>4 DEF Push
  <2>3. \A t \in DOMAIN pushed' : pushed'[t] \in 1 .. counter
    BY <1>3, <1>4, <2>1
  <2>4. ASSUME faults = 0, NEW t \in DOMAIN pushed', NEW u \in DOMAIN pushed',
               pushed'[t] = pushed'[u]
        PROVE  t = u
    <3>1. \A x \in DOMAIN pushed : pushed'[x] # id[c]
      BY <1>3, <1>4, <2>2, <2>4
    <3>2. \A x \in DOMAIN pushed' : pushed'[x] = id[c] <=> x = Len(pushed) + 1
      BY <1>3, <1>4, <2>1, <3>1
    <3>3. CASE t = Len(pushed) + 1
      BY <2>4, <3>2, <3>3
    <3>4. CASE u = Len(pushed) + 1
      BY <2>4, <3>2, <3>4
    <3>5. CASE t \in DOMAIN pushed /\ u \in DOMAIN pushed
      BY <1>3, <1>4, <2>4, <3>5
    <3>6. QED
      BY <2>1, <3>3, <3>4, <3>5
  <2>5. QED
    BY <2>3, <2>4
<1>5. ASSUME NEW c \in Client, EnqueuePush(c)
      PROVE  IdInv'
  <2>1. Push(c) /\ pc[c] = "push" /\ pc' = [pc EXCEPT ![c] = "idle"]
        /\ id' = [id EXCEPT ![c] = 0] /\ faults' = faults /\ counter' = counter
    BY <1>5 DEF EnqueuePush, Push
  <2>2. \A t \in DOMAIN pushed' :
          (t \in DOMAIN pushed /\ pushed'[t] = pushed[t]) \/ pushed'[t] = id[c]
    BY <1>3, <2>1
  <2>3. \A d \in Client : pc'[d] = "push" =>
          pc[d] = "push" /\ d # c /\ id'[d] = id[d] /\ id[d] # id[c]
    BY <2>1
  <2>4. QED
    BY <1>4, <2>1, <2>2, <2>3
<1>6. ASSUME NEW c \in Client, EnqueueRepeats(c)
      PROVE  IdInv'
  <2>1. Push(c) /\ UNCHANGED <<pc, id, counter>> /\ faults' = faults + 1
    BY <1>6 DEF EnqueueRepeats, Fault, Push
  <2>2. faults' # 0
    BY <2>1
  <2>3. QED
    BY <1>4, <2>1, <2>2
<1>7. ASSUME NEW c \in Client,
             \/ \E p \in Photo : PositionHash(c, p)
             \/ EnqueueLen(c) \/ EnqueueRaises(c) \/ Purge(c) \/ PositionList(c)
      PROVE  IdInv'
  BY <1>1, <1>7
  DEF PositionHash, EnqueueLen, EnqueueRaises, Purge, PositionList, Fault,
      redis, calls, history
<1>8. ASSUME NEW w \in Worker, WorkerStep(w)
      PROVE  IdInv'
  <2>1. UNCHANGED <<counter, pushed, id>> /\ faults' >= faults
    BY <1>8 DEF WorkerStep, DequeuePop, DequeueHset, DequeueRaises, Complete,
                CompleteRaises, Fault, redis, history
  <2>2. \A c \in Client : pc'[c] = pc[c]
    BY <1>8 DEF WorkerStep, DequeuePop, DequeueHset, DequeueRaises, Complete,
                CompleteRaises
  <2>3. QED
    BY <1>1, <2>1, <2>2
<1>9. ASSUME NEW P \in Process, ProcessStep(P)
      PROVE  IdInv'
  BY <1>1, <1>9 DEF ProcessStep, Crash, Start, Fault, redis, calls, history
<1>10. CASE UNCHANGED vars
  BY <1>1, <1>10 DEF vars, redis, calls, history
<1>11. QED
  BY <1>2, <1>5, <1>6, <1>7, <1>8, <1>9, <1>10 DEF Next, ClientStep

LEMMA IdInvariant == Spec => []IdInv
<1>1. Init => IdInv
  BY DEF Init, IdInv, Task
<1>2. QED
  BY <1>1, IdStep, BaseInvariant, PTL DEF Spec

\* LPOP hands an entry of the list to one worker, and without a repeated
\* RPUSH no two entries are the same job, whatever the replicas do.
THEOREM Exclusive == Spec => []OneWorkerPerJob
<1>1. BaseInv /\ OrderInv /\ IdInv => OneWorkerPerJob
  BY DEF BaseInv, CallInv, OrderInv, IdInv, OneWorkerPerJob
<1>2. QED
  BY <1>1, BaseInvariant, IdInvariant, PTL

-----------------------------------------------------------------------------
(* The hash *)

\* A lost ticket stays handed out, and no worker has it.
LostInv ==
  /\ lost \subseteq handed
  /\ \A w \in Worker : held[w] # 0 => held[w] \notin lost

\* What each step does to the tickets that should have their key.
LEMMA BetweenMember ==
  /\ \A t : t \in Between <=> \E v \in Worker : pc[v] = "hset" /\ held[v] = t
  /\ \A t : t \in Between' <=> \E v \in Worker : pc'[v] = "hset" /\ held'[v] = t
BY DEF Between

\* Workers W leave their place between LPOP and HSET, the others do not move.
LEMMA BetweenAfter ==
  \A W \in SUBSET Worker :
    /\ \A v \in W : pc'[v] # "hset"
    /\ \A v \in Worker \ W : pc'[v] = pc[v] /\ held'[v] = held[v]
    => /\ \A v \in Worker \ W : pc[v] = "hset" => held[v] \in Between'
       /\ \A t \in Between' : \E v \in Worker \ W : pc[v] = "hset" /\ held[v] = t
BY DEF Between

LEMMA RecordedSame ==
  ASSUME BaseInv, OrderInv, LostInv, UNCHANGED <<handed, lost>>,
         \A w \in Worker : pc'[w] = pc[w] /\ held'[w] = held[w]
  PROVE  Recorded' = Recorded /\ LostInv'
BY DEF Recorded, Between, LostInv

LEMMA RecordedPop ==
  ASSUME BaseInv, OrderInv, LostInv, NEW w \in Worker, DequeuePop(w)
  PROVE  Recorded' = Recorded /\ LostInv'
<1> USE DEF BaseInv, TypeOK, CallInv, OrderInv, LostInv, Task
<1> DEFINE h == Head(jobs)
<1>1. /\ held' = [held EXCEPT ![w] = h] /\ pc' = [pc EXCEPT ![w] = "hset"]
      /\ handed' = handed \cup {h} /\ lost' = lost /\ held[w] = 0
  BY DEF DequeuePop, MayPop, Goto
<1>2. h = jobs[1] /\ 1 \in DOMAIN jobs
  BY DEF DequeuePop, MayPop
<1>3. h \notin handed /\ h # 0
  BY <1>2
<1> HIDE DEF h
<1>4. Between' = Between \cup {h}
  <2>1. \A t : t \in Between' <=> t \in Between \/ t = h
    BY <1>1, BetweenMember
  <2>2. QED
    BY <2>1
<1>5. Recorded' = Recorded
  BY <1>1, <1>3, <1>4 DEF Recorded
<1>6. LostInv'
  BY <1>1, <1>3
<1>7. QED
  BY <1>5, <1>6

LEMMA RecordedHset ==
  ASSUME BaseInv, OrderInv, LostInv, NEW w \in Worker,
         DequeueHset(w) \/ DequeueRaises(w)
  PROVE  /\ LostInv'
         /\ \/ Recorded' = Recorded /\ inflight' = inflight
            \/ /\ Recorded' = Recorded \cup {held[w]}
               /\ inflight' = inflight \cup {Key(held[w])}
<1>1. held[w] # 0 /\ held[w] \in handed /\ held[w] \notin lost /\ pc[w] = "hset"
  BY DEF DequeueHset, DequeueRaises, BaseInv, CallInv, LostInv
<1>2. \A v \in Worker : v # w => pc'[v] = pc[v] /\ held'[v] = held[v]
  BY DEF DequeueHset, DequeueRaises, Goto, BaseInv, TypeOK, Task
<1>3. pc'[w] # "hset"
  BY DEF DequeueHset, DequeueRaises, Goto, BaseInv, TypeOK, Task
<1>4. Between' = Between \ {held[w]} /\ held[w] \in Between
  <2>1. \A v \in Worker : v # w /\ pc[v] = "hset" => held[v] # held[w]
    BY <1>1 DEF OrderInv
  <2>2. /\ \A v \in Worker \ {w} : pc[v] = "hset" => held[v] \in Between'
        /\ \A t \in Between' : \E v \in Worker \ {w} : pc[v] = "hset" /\ held[v] = t
    <3>1. {w} \in SUBSET Worker /\ \A v \in {w} : pc'[v] # "hset"
      BY <1>3
    <3>2. QED
      BY <1>2, <3>1, BetweenAfter
  <2>3. QED
    BY <1>1, <2>1, <2>2, BetweenMember
<1>5. handed' = handed
  BY DEF DequeueHset, DequeueRaises, history
<1>6. CASE lost' = lost \cup {held[w]} /\ inflight' = inflight /\ held'[w] = 0
  <2>1. Recorded' = Recorded
    BY <1>4, <1>5, <1>6 DEF Recorded
  <2>2. LostInv'
    <3>1. \A v \in Worker : v # w /\ held[v] # 0 => held[v] # held[w]
      BY <1>1 DEF OrderInv
    <3>2. QED
      BY <1>1, <1>2, <1>5, <1>6, <3>1 DEF LostInv
  <2>3. QED
    BY <1>6, <2>1, <2>2
<1>7. CASE lost' = lost /\ inflight' = inflight \cup {Key(held[w])}
             /\ held'[w] \in {0, held[w]}
  BY <1>1, <1>2, <1>4, <1>5, <1>7 DEF Recorded, LostInv
<1>8. QED
  <2>1. \/ lost' = lost \cup {held[w]} /\ inflight' = inflight /\ held'[w] = 0
        \/ /\ lost' = lost /\ inflight' = inflight \cup {Key(held[w])}
           /\ held'[w] \in {0, held[w]}
    BY DEF DequeueHset, DequeueRaises, history, BaseInv, TypeOK
  <2>2. QED
    BY <1>6, <1>7, <2>1

LEMMA RecordedComplete ==
  ASSUME BaseInv, OrderInv, LostInv, NEW w \in Worker,
         Complete(w) \/ CompleteRaises(w)
  PROVE  /\ LostInv'
         /\ \/ Recorded' = Recorded /\ inflight' = inflight
            \/ /\ Recorded' = Recorded \ {held[w]}
               /\ inflight' = inflight \ {Key(held[w])}
               /\ held[w] \in DOMAIN pushed
<1>1. held[w] # 0 /\ held[w] \in handed /\ held[w] \notin lost /\ pc[w] = "running"
  BY DEF Complete, CompleteRaises, BaseInv, CallInv, LostInv
<1>2. \A v \in Worker : v # w => pc'[v] = pc[v] /\ held'[v] = held[v]
  BY DEF Complete, CompleteRaises, Goto, BaseInv, TypeOK, Task
<1>3. pc'[w] = "idle" /\ held'[w] = 0 /\ lost' = lost
  BY DEF Complete, CompleteRaises, Goto, BaseInv, TypeOK, Task
<1>4. Between' = Between
  <2>1. /\ \A v \in Worker \ {w} : pc[v] = "hset" => held[v] \in Between'
        /\ \A t \in Between' : \E v \in Worker \ {w} : pc[v] = "hset" /\ held[v] = t
    <3>1. {w} \in SUBSET Worker /\ \A v \in {w} : pc'[v] # "hset"
      BY <1>3
    <3>2. QED
      BY <1>2, <3>1, BetweenAfter
  <2>2. QED
    BY <1>1, <2>1, BetweenMember
<1>5. CASE Complete(w)
  <2>1. handed' = handed \ {held[w]} /\ inflight' = inflight \ {Key(held[w])}
    BY <1>5 DEF Complete, Hdel
  <2>2. held[w] \in DOMAIN pushed
    BY <1>1 DEF BaseInv, CallInv
  <2>3. \A v \in Worker : v # w /\ held[v] # 0 => held[v] # held[w]
    BY <1>1 DEF OrderInv
  <2>4. LostInv'
    BY <1>1, <1>2, <1>3, <2>1, <2>3 DEF LostInv
  <2>5. Recorded' = Recorded \ {held[w]}
    BY <1>3, <1>4, <2>1 DEF Recorded
  <2>6. QED
    BY <2>1, <2>2, <2>4, <2>5
<1>6. CASE CompleteRaises(w)
  BY <1>1, <1>2, <1>3, <1>4, <1>6 DEF Recorded, LostInv, CompleteRaises, redis
<1>7. QED
  BY <1>5, <1>6

LEMMA RecordedCrash ==
  ASSUME BaseInv, OrderInv, LostInv, NEW P \in Process, Crash(P)
  PROVE  Recorded' = Recorded /\ LostInv'
<1> DEFINE T == {held[w] : w \in {v \in Worker : Home[v] = P /\ pc[v] = "hset"}}
<1>1. lost' = lost \cup T /\ handed' = handed
  BY DEF Crash
<1>2. \A v \in Worker :
        IF Home[v] = P THEN pc'[v] = "idle" /\ held'[v] = 0
        ELSE pc'[v] = pc[v] /\ held'[v] = held[v]
  BY DEF Crash, Task
<1>3. Between' \cup T = Between
  <2> DEFINE W == {v \in Worker : Home[v] = P}
  <2>1. /\ \A v \in Worker \ W : pc[v] = "hset" => held[v] \in Between'
        /\ \A t \in Between' : \E v \in Worker \ W : pc[v] = "hset" /\ held[v] = t
    BY <1>2, BetweenAfter
  <2>2. \A v \in W : pc[v] = "hset" => held[v] \in T
    OBVIOUS
  <2>3. \A t \in T : \E v \in W : pc[v] = "hset" /\ held[v] = t
    OBVIOUS
  <2>4. \A v \in Worker : v \in W \/ v \in Worker \ W
    OBVIOUS
  <2> HIDE DEF T, W
  <2>5. Between \subseteq Between' \cup T
    BY <2>1, <2>2, <2>4, BetweenMember
  <2>6. Between' \subseteq Between /\ T \subseteq Between
    BY <2>1, <2>3, BetweenMember DEF W
  <2>7. QED
    BY <2>5, <2>6
<1>4. T \subseteq handed
  BY DEF BaseInv, CallInv
<1>5. \A v \in Worker : held'[v] # 0 => held'[v] \notin T
  BY <1>2 DEF OrderInv
<1>6. LostInv'
  BY <1>1, <1>2, <1>4, <1>5 DEF LostInv
<1>7. QED
  BY <1>1, <1>3, <1>6 DEF Recorded

LEMMA HashStep ==
  ASSUME BaseInv, OrderInv, LostInv, HashTracksInflight, [Next]_vars
  PROVE  LostInv' /\ HashTracksInflight'
<1>1. Recorded \subseteq DOMAIN pushed
  BY DEF BaseInv, CallInv, Recorded
<1>2. ASSUME Recorded' = Recorded, UNCHANGED <<inflight, pushed>>
      PROVE  HashTracksInflight'
  BY <1>2 DEF HashTracksInflight, Key
<1>3. ASSUME NEW c \in Client, Push(c), \A w \in Worker : pc'[w] = pc[w]
      PROVE  LostInv' /\ HashTracksInflight'
  <2>1. Recorded' = Recorded /\ LostInv' /\ inflight' = inflight
    BY <1>3, RecordedSame DEF Push
  <2>2. /\ DOMAIN pushed \subseteq DOMAIN pushed'
        /\ \A t \in DOMAIN pushed : Key(t)' = Key(t)
    BY <1>3 DEF Push, BaseInv, TypeOK, CallInv, Key
  <2>3. QED
    BY <1>1, <2>1, <2>2 DEF HashTracksInflight
<1>4. ASSUME NEW c \in Client, EnqueuePush(c) \/ EnqueueRepeats(c)
      PROVE  LostInv' /\ HashTracksInflight'
  <2>1. Push(c) /\ \A w \in Worker : pc'[w] = pc[w]
    BY <1>4 DEF EnqueuePush, EnqueueRepeats, Goto, BaseInv, TypeOK, Task
  <2>2. QED
    BY <1>3, <2>1
<1>5. ASSUME NEW c \in Client,
             \/ \E p \in Photo : EnqueueIncr(c, p) \/ PositionHash(c, p)
             \/ EnqueueLen(c) \/ EnqueueRaises(c) \/ Purge(c) \/ PositionList(c)
      PROVE  LostInv' /\ HashTracksInflight'
  <2>1. /\ UNCHANGED <<handed, lost, inflight, pushed>>
        /\ \A w \in Worker : pc'[w] = pc[w] /\ held'[w] = held[w]
    BY <1>5
    DEF EnqueueIncr, PositionHash, EnqueueLen, EnqueueRaises, Purge,
        PositionList, Goto, redis, calls, history, BaseInv, TypeOK, Task
  <2>2. QED
    BY <1>2, <2>1, RecordedSame
<1>6. ASSUME NEW w \in Worker, DequeuePop(w)
      PROVE  LostInv' /\ HashTracksInflight'
  BY <1>2, <1>6, RecordedPop DEF DequeuePop
<1>7. ASSUME NEW w \in Worker, DequeueHset(w) \/ DequeueRaises(w)
      PROVE  LostInv' /\ HashTracksInflight'
  <2>1. pushed' = pushed
    BY <1>7 DEF DequeueHset, DequeueRaises, history
  <2>2. CASE Recorded' = Recorded /\ inflight' = inflight
    BY <1>2, <1>7, <2>1, <2>2, RecordedHset
  <2>3. CASE /\ Recorded' = Recorded \cup {held[w]}
             /\ inflight' = inflight \cup {Key(held[w])}
    BY <1>7, <2>1, <2>3, RecordedHset DEF HashTracksInflight, Key
  <2>4. QED
    BY <1>7, <2>2, <2>3, RecordedHset
<1>8. ASSUME NEW w \in Worker, Complete(w) \/ CompleteRaises(w)
      PROVE  LostInv' /\ HashTracksInflight'
  <2>1. pushed' = pushed
    BY <1>8 DEF Complete, CompleteRaises
  <2>2. CASE Recorded' = Recorded /\ inflight' = inflight
    BY <1>2, <1>8, <2>1, <2>2, RecordedComplete
  <2>3. CASE /\ Recorded' = Recorded \ {held[w]}
             /\ inflight' = inflight \ {Key(held[w])}
             /\ held[w] \in DOMAIN pushed
    BY <1>8, <2>1, <2>3, RecordedComplete DEF HashTracksInflight, Key
  <2>4. QED
    BY <1>8, <2>2, <2>3, RecordedComplete
<1>9. ASSUME NEW P \in Process, Crash(P)
      PROVE  LostInv' /\ HashTracksInflight'
  BY <1>2, <1>9, RecordedCrash DEF Crash, redis
<1>10. ASSUME NEW P \in Process, Start(P)
       PROVE  LostInv' /\ HashTracksInflight'
  BY <1>2, <1>10, RecordedSame DEF Start, redis, calls, history
<1>11. CASE UNCHANGED vars
  BY <1>2, <1>11, RecordedSame DEF vars, redis, calls, history
<1>12. QED
  BY <1>4, <1>5, <1>6, <1>7, <1>8, <1>9, <1>10, <1>11
  DEF Next, ClientStep, WorkerStep, ProcessStep

LEMMA HashInvariant == Spec => [](LostInv /\ HashTracksInflight)
<1>1. Init => LostInv /\ HashTracksInflight
  BY DEF Init, LostInv, HashTracksInflight, Recorded, Task
<1>2. BaseInv /\ OrderInv /\ (LostInv /\ HashTracksInflight) /\ [Next]_vars
        => (LostInv /\ HashTracksInflight)'
  BY HashStep
<1>3. QED
  BY <1>1, <1>2, BaseInvariant, PTL DEF Spec

\* The hash is exact but for the window of dequeue() and repeated RPUSHes:
\* no crash, lost answer or purge leaves in it a job that was completed, or
\* takes out of it one that was not.
THEOREM HashExact == Spec => []HashTracksInflight
BY HashInvariant, PTL

-----------------------------------------------------------------------------
(* The capacity *)

\* Clients that found room and have not pushed yet.
Pushers == {c \in Client : pc[c] \in {"incr", "push"}}

\* Each process has one of them at most, and each must have found the list
\* shorter than queue_max_size.
CapInv ==
  MaxSize > 0 => Len(jobs) + Cardinality(Pushers)
                   <= MaxSize - 1 + Cardinality(Process) + faults

LEMMA PushersFinite ==
  /\ \A S \in SUBSET Client : IsFiniteSet(S) /\ Cardinality(S) \in Nat
  /\ Pushers \subseteq Client /\ Pushers' \subseteq Client
  /\ Cardinality(Process) \in Nat
<1>1. ASSUME NEW S \in SUBSET Client
      PROVE  IsFiniteSet(S) /\ Cardinality(S) \in Nat
  BY FS_Subset, FS_CardinalityType
<1>2. Pushers \subseteq Client /\ Pushers' \subseteq Client
  BY DEF Pushers
<1>3. QED
  BY <1>1, <1>2, FS_CardinalityType

\* Of clients with a process each, there are no more than processes.
LEMMA OnePerProcess ==
  ASSUME NEW S \in SUBSET Client, \A c, d \in S : Home[c] = Home[d] => c = d
  PROVE  Cardinality(S) <= Cardinality(Process)
<1> DEFINE f == [c \in S |-> Home[c]]
<1>1. f \in [S -> Process] /\ \A c, d \in DOMAIN f : f[c] = f[d] => c = d
  BY DEF Task
<1>2. f \in Injection(S, Process)
  BY <1>1 DEF Injection, IsInjective
<1>3. QED
  BY <1>2, FS_Injection

LEMMA CapShrinks ==
  ASSUME TypeOK, TypeOK', CapInv, Len(jobs') <= Len(jobs), faults' >= faults,
         Pushers' \subseteq Pushers
  PROVE  CapInv'
<1>1. Cardinality(Pushers') <= Cardinality(Pushers)
  BY PushersFinite, FS_Subset
<1>2. Cardinality(Pushers) \in Nat /\ Cardinality(Pushers') \in Nat
  BY PushersFinite
<1>3. Len(jobs) \in Nat /\ Len(jobs') \in Nat /\ faults \in Nat /\ faults' \in Nat
  BY DEF TypeOK
<1>4. QED
  BY <1>1, <1>2, <1>3, PushersFinite DEF CapInv

LEMMA CapStep ==
  ASSUME TypeOK, TypeOK', LoopInv', CapInv, [Next]_vars
  PROVE  CapInv'
<1> USE DEF Goto, Task
<1>1. /\ Cardinality(Pushers) \in Nat /\ Cardinality(Process) \in Nat
      /\ Len(jobs) \in Nat /\ faults \in Nat
  BY PushersFinite DEF TypeOK
<1>2. ASSUME NEW c \in Client, EnqueueLen(c)
      PROVE  CapInv'
  <2>1. Cardinality(Pushers') <= Cardinality(Process)
    BY PushersFinite, OnePerProcess DEF LoopInv, Pushers
  <2>2. Cardinality(Pushers') \in Nat
    BY PushersFinite
  <2>3. jobs' = jobs /\ faults' = faults /\ HasRoom(Len(jobs))
    BY <1>2 DEF EnqueueLen, redis, history
  <2>4. QED
    BY <1>1, <2>1, <2>2, <2>3 DEF CapInv, HasRoom
<1>3. ASSUME NEW c \in Client, Push(c)
      PROVE  c \in Pushers /\ Len(jobs') = Len(jobs) + 1
  BY <1>3 DEF Push, Rpush, Pushers, TypeOK
<1>4. ASSUME NEW c \in Client, EnqueuePush(c)
      PROVE  CapInv'
  <2>1. Pushers' = Pushers \ {c} /\ faults' = faults
    BY <1>4 DEF EnqueuePush, Pushers, TypeOK
  <2>2. Cardinality(Pushers') = Cardinality(Pushers) - 1
    BY <1>3, <1>4, <2>1, PushersFinite, FS_RemoveElement DEF EnqueuePush
  <2>3. QED
    BY <1>1, <1>3, <1>4, <2>1, <2>2 DEF CapInv, EnqueuePush
<1>5. ASSUME NEW c \in Client, EnqueueRepeats(c)
      PROVE  CapInv'
  <2>1. Pushers' = Pushers /\ faults' = faults + 1
    BY <1>5 DEF EnqueueRepeats, Fault, Pushers
  <2>2. QED
    BY <1>1, <1>3, <1>5, <2>1 DEF CapInv, EnqueueRepeats
<1>6. ASSUME NEW c \in Client,
             \/ \E p \in Photo : EnqueueIncr(c, p) \/ PositionHash(c, p)
             \/ EnqueueRaises(c) \/ PositionList(c)
      PROVE  CapInv'
  <2>1. jobs' = jobs /\ faults' \in {faults, faults + 1}
    BY <1>6 DEF EnqueueIncr, PositionHash, EnqueueRaises, PositionList, Fault,
                redis, history
  <2>2. Pushers' \subseteq Pushers
    BY <1>6 DEF EnqueueIncr, PositionHash, EnqueueRaises, PositionList,
                Pushers, TypeOK
  <2>3. QED
    BY <1>1, <2>1, <2>2, CapShrinks
<1>7. ASSUME NEW c \in Client, Purge(c)
      PROVE  CapInv'
  <2>1. Len(jobs') = 0 /\ faults' = faults /\ Pushers' = Pushers
    BY <1>7 DEF Purge, calls, history, Pushers
  <2>2. QED
    BY <1>1, <2>1, CapShrinks
<1>8. ASSUME NEW w \in Worker, WorkerStep(w)
      PROVE  CapInv'
  <2>1. Len(jobs') <= Len(jobs) /\ faults' \in {faults, faults + 1}
    BY <1>1, <1>8
    DEF WorkerStep, DequeuePop, MayPop, Lpop, DequeueHset, DequeueRaises,
        Complete, CompleteRaises, Fault, redis, history, TypeOK
  <2>2. Pushers' = Pushers
    BY <1>8 DEF WorkerStep, DequeuePop, DequeueHset, DequeueRaises, Complete,
                CompleteRaises, Pushers, TypeOK
  <2>3. QED
    BY <1>1, <2>1, <2>2, CapShrinks
<1>9. ASSUME NEW P \in Process, ProcessStep(P)
      PROVE  CapInv'
  <2>1. jobs' = jobs /\ faults' \in {faults, faults + 1}
    BY <1>9 DEF ProcessStep, Crash, Start, Fault, redis, history
  <2>2. Pushers' \subseteq Pushers
    BY <1>9 DEF ProcessStep, Crash, Start, calls, Pushers
  <2>3. QED
    BY <1>1, <2>1, <2>2, CapShrinks
<1>10. CASE UNCHANGED vars
  <2>1. jobs' = jobs /\ faults' = faults /\ Pushers' = Pushers
    BY <1>10 DEF vars, redis, calls, history, Pushers
  <2>2. QED
    BY <1>1, <2>1, CapShrinks
<1>11. QED
  BY <1>2, <1>4, <1>5, <1>6, <1>7, <1>8, <1>9, <1>10 DEF Next, ClientStep

LEMMA CapInvariant == Spec => []CapInv
<1>1. Init => CapInv
  <2> SUFFICES ASSUME Init, MaxSize > 0
               PROVE  CapInv
    BY DEF CapInv
  <2>1. Pushers = {} /\ Len(jobs) = 0 /\ faults = 0
    BY DEF Init, Pushers, Task
  <2>2. Cardinality(Pushers) = 0
    BY <2>1, FS_EmptySet
  <2>3. Cardinality(Process) \in Nat
    BY FS_CardinalityType
  <2>4. QED
    BY <2>1, <2>2, <2>3 DEF CapInv
<1>2. TypeOK /\ TypeOK' /\ LoopInv' /\ CapInv /\ [Next]_vars => CapInv'
  BY CapStep
<1>3. QED
  BY <1>1, <1>2, TypeCorrect, LossInvariant, PTL DEF Spec

\* n replicas overshoot queue_max_size by n - 1 jobs, and by one for each
\* RPUSH that was repeated: with one replica and no fault, by none.
THEOREM Overshoot == Spec => []OvershootBounded
<1>1. TypeOK /\ CapInv => OvershootBounded
  <2> SUFFICES ASSUME TypeOK, CapInv, MaxSize > 0
               PROVE  Len(jobs) <= MaxSize + Cardinality(Process) - 1 + faults
    BY DEF OvershootBounded
  <2>1. Cardinality(Pushers) \in Nat /\ Cardinality(Process) \in Nat
    BY PushersFinite
  <2>2. QED
    BY <2>1 DEF CapInv, TypeOK
<1>2. QED
  BY <1>1, TypeCorrect, CapInvariant, PTL

-----------------------------------------------------------------------------
(* Refinement *)

\* The tickets that workers hold.
Owned == {held[w] : w \in Worker} \ {0}

\* A list has as many entries as its set of entries has members, at least.
LEMMA WaitingFew ==
  ASSUME TypeOK
  PROVE  IsFiniteSet(Waiting) /\ Cardinality(Waiting) <= Len(jobs)
<1>1. Len(jobs) \in Nat /\ jobs \in [1 .. Len(jobs) -> Waiting]
  <2>1. jobs \in [1 .. Len(jobs) -> Nat] /\ Len(jobs) \in Nat
    BY DEF TypeOK
  <2>2. \A i \in 1 .. Len(jobs) : jobs[i] \in Waiting
    BY <2>1 DEF Waiting
  <2>3. QED
    BY <2>1, <2>2
<1>2. \A t \in Waiting : \E i \in 1 .. Len(jobs) : jobs[i] = t
  BY <1>1 DEF Waiting
<1>3. jobs \in Surjection(1 .. Len(jobs), Waiting)
  BY <1>1, <1>2 DEF Surjection
<1>4. IsFiniteSet(1 .. Len(jobs)) /\ Cardinality(1 .. Len(jobs)) = Len(jobs)
  BY <1>1, FS_Interval
<1>5. QED
  BY <1>3, <1>4, FS_Surjection

LEMMA PushWaiting ==
  ASSUME TypeOK, NEW c \in Client, Push(c)
  PROVE  Waiting' = Waiting \cup {Len(pushed) + 1} /\ Len(pushed') = Len(pushed) + 1
<1>1. jobs' = Append(jobs, Len(pushed) + 1) /\ jobs \in Seq(Nat)
  BY DEF Push, Rpush, TypeOK
<1>2. /\ DOMAIN jobs = 1 .. Len(jobs) /\ Len(jobs) \in Nat
      /\ DOMAIN jobs' = 1 .. Len(jobs) + 1
      /\ \A i \in DOMAIN jobs : jobs'[i] = jobs[i]
      /\ jobs'[Len(jobs) + 1] = Len(pushed) + 1
  BY <1>1
<1>3. Waiting' = Waiting \cup {Len(pushed) + 1}
  BY <1>2 DEF Waiting
<1>4. QED
  BY <1>3 DEF Push, TypeOK

LEMMA PopWaiting ==
  ASSUME TypeOK, OrderInv, NEW w \in Worker, DequeuePop(w)
  PROVE  /\ Head(jobs) \in Waiting
         /\ \A t \in Waiting : Head(jobs) <= t
         /\ Waiting' = Waiting \ {Head(jobs)}
<1>1. /\ Len(jobs) \in Nat /\ DOMAIN jobs = 1 .. Len(jobs) /\ 1 \in DOMAIN jobs
      /\ Head(jobs) = jobs[1] /\ \A i \in DOMAIN jobs : jobs[i] \in Nat
      /\ DOMAIN jobs' = 1 .. Len(jobs) - 1
      /\ \A i \in DOMAIN jobs' : jobs'[i] = jobs[i + 1]
  BY DEF DequeuePop, MayPop, Lpop, TypeOK
<1>2. \A i \in DOMAIN jobs : i # 1 => jobs[1] < jobs[i]
  BY <1>1 DEF OrderInv
<1>3. \A i \in DOMAIN jobs : i # 1 => i - 1 \in DOMAIN jobs' /\ jobs'[i - 1] = jobs[i]
  BY <1>1
<1>4. \A t \in Waiting : t = jobs[1] \/ t \in Waiting'
  BY <1>3 DEF Waiting
<1>5. \A t \in Waiting' : t \in Waiting /\ t # jobs[1]
  <2>1. \A i \in DOMAIN jobs' : i + 1 \in DOMAIN jobs /\ jobs'[i] = jobs[i + 1]
    BY <1>1
  <2>2. \A i \in DOMAIN jobs' : jobs'[i] # jobs[1]
    BY <1>1, <1>2, <2>1
  <2>3. QED
    BY <2>1, <2>2 DEF Waiting
<1>6. \A t \in Waiting : jobs[1] <= t
  BY <1>1, <1>2 DEF Waiting
<1>7. QED
  BY <1>1, <1>4, <1>5, <1>6 DEF Waiting

\* RedisJobQueue on any number of replicas implements the protocol of base.py
\* for the tickets of its RPUSHes: handed out once, in their order, bounded,
\* completed by their holder only.
THEOREM Implements == Spec => ImplementsJobQueue
<1> USE DEF JQ!Init, JQ!Next, JQ!vars
<1> DEFINE Inv == BaseInv /\ OrderInv /\ CapInv
<1>1. Init => JQ!Init
  <2> SUFFICES ASSUME Init PROVE JQ!Init
    OBVIOUS
  <2>1. Waiting = {} /\ handed = {} /\ Len(pushed) = 0
    BY DEF Init, Waiting
  <2>2. Owned = {}
    BY DEF Init, Owned
  <2>3. QED
    BY <2>1, <2>2 DEF Owned
<1>2. Inv /\ [Next]_vars => [JQ!Next]_(JQ!vars)
  <2> SUFFICES ASSUME Inv, [Next]_vars
               PROVE  JQ!Next \/ UNCHANGED JQ!vars
    OBVIOUS
  <2> USE DEF BaseInv, Owned, Goto, Task
  <2>1. ASSUME NEW c \in Client, EnqueuePush(c) \/ EnqueueRepeats(c)
        PROVE  JQ!Enqueue
    <3>1. Push(c)
      BY <2>1 DEF EnqueuePush, EnqueueRepeats
    <3>2. Waiting' = Waiting \cup {Len(pushed')} /\ Len(pushed') = Len(pushed) + 1
      BY <3>1, PushWaiting
    <3>3. Len(pushed) \in Nat
      BY DEF TypeOK
    <3>4. MaxSize > 0 => Cardinality(Waiting)
                           < MaxSize + Cardinality(Process) - 1 + MaxFaults
      <4>1. c \in Pushers
        BY <3>1 DEF Push, Pushers
      <4>2. Cardinality(Pushers) \in Nat /\ Cardinality(Pushers) # 0
        BY <4>1, PushersFinite, FS_EmptySet
      <4>3. /\ Cardinality(Waiting) \in Nat /\ Cardinality(Waiting) <= Len(jobs)
            /\ Len(jobs) \in Nat /\ faults \in Nat /\ faults <= MaxFaults
            /\ Cardinality(Process) \in Nat
        BY WaitingFew, FS_CardinalityType DEF TypeOK
      <4>4. QED
        BY <4>2, <4>3 DEF CapInv
    <3>5. JQ!Cardinality(Waiting) = Cardinality(Waiting)
      BY Zenon DEF JQ!Cardinality, Cardinality
    <3>6. held' = held /\ handed' = handed
      BY <3>1 DEF Push
    <3>7. QED
      BY <3>2, <3>3, <3>4, <3>5, <3>6 DEF JQ!Enqueue
  <2>2. ASSUME NEW w \in Worker, DequeuePop(w)
        PROVE  JQ!Dequeue
    <3>1. held[w] = 0
      BY <2>2 DEF DequeuePop, MayPop, CallInv
    <3>2. Head(jobs) # 0
      BY <2>2 DEF DequeuePop, MayPop, CallInv, TypeOK
    <3>3. /\ held' = [held EXCEPT ![w] = Head(jobs)]
          /\ handed' = handed \cup {Head(jobs)} /\ pushed' = pushed
      BY <2>2 DEF DequeuePop
    <3>4. Owned' = Owned \cup {Head(jobs)}
      <4> DEFINE h == Head(jobs)
      <4>1. held' = [held EXCEPT ![w] = h] /\ h # 0
        BY <3>2, <3>3
      <4> HIDE DEF h
      <4>2. Owned' = Owned \cup {h}
        BY <3>1, <4>1 DEF TypeOK
      <4>3. QED
        BY <4>2 DEF h
    <3>5. QED
      BY <2>2, <3>3, <3>4, PopWaiting DEF JQ!Dequeue
  <2>3. ASSUME NEW w \in Worker, Complete(w)
        PROVE  JQ!Complete
    <3>1. held[w] # 0 /\ \A v \in Worker : v # w => held[v] # held[w]
      BY <2>3 DEF Complete, CallInv, OrderInv
    <3>2. /\ Waiting' = Waiting /\ handed' = handed \ {held[w]}
          /\ pushed' = pushed /\ held' = [held EXCEPT ![w] = 0]
      BY <2>3 DEF Complete, Waiting
    <3>3. Owned' = Owned \ {held[w]} /\ held[w] \in Owned
      BY <3>1, <3>2 DEF TypeOK
    <3>4. QED
      BY <3>2, <3>3 DEF JQ!Complete
  <2>4. ASSUME NEW w \in Worker, DequeueRaises(w) \/ CompleteRaises(w)
        PROVE  JQ!Abandon
    <3>1. /\ Waiting' = Waiting /\ handed' = handed /\ pushed' = pushed
          /\ held' = [held EXCEPT ![w] = 0]
      BY <2>4 DEF DequeueRaises, CompleteRaises, redis, Waiting
    <3>2. Owned' \subseteq Owned
      BY <3>1 DEF TypeOK
    <3>3. QED
      BY <3>1, <3>2 DEF JQ!Abandon
  <2>5. ASSUME NEW c \in Client, Purge(c)
        PROVE  JQ!Purge
    BY <2>5 DEF Purge, history, Waiting, JQ!Purge
  <2>6. ASSUME NEW P \in Process, Crash(P)
        PROVE  JQ!Abandon
    <3>1. Waiting' = Waiting /\ handed' = handed /\ pushed' = pushed
      BY <2>6 DEF Crash, redis, Waiting
    <3>2. Owned' \subseteq Owned
      BY <2>6 DEF Crash
    <3>3. QED
      BY <3>1, <3>2 DEF JQ!Abandon
  <2>7. ASSUME UNCHANGED <<jobs, held, handed, pushed>>
        PROVE  UNCHANGED JQ!vars
    BY <2>7 DEF Waiting
  <2>8. ASSUME NEW c \in Client,
               \/ \E p \in Photo : EnqueueIncr(c, p) \/ PositionHash(c, p)
               \/ EnqueueLen(c) \/ EnqueueRaises(c) \/ PositionList(c)
        PROVE  UNCHANGED <<jobs, held, handed, pushed>>
    BY <2>8 DEF EnqueueIncr, PositionHash, EnqueueLen, EnqueueRaises,
                PositionList, redis, history
  <2>9. ASSUME NEW w \in Worker, DequeueHset(w)
        PROVE  UNCHANGED <<jobs, held, handed, pushed>>
    BY <2>9 DEF DequeueHset, history
  <2>10. ASSUME NEW P \in Process, Start(P)
         PROVE  UNCHANGED <<jobs, held, handed, pushed>>
    BY <2>10 DEF Start, redis, history
  <2>11. CASE UNCHANGED vars
    BY <2>7, <2>11 DEF vars, redis, history
  <2>12. QED
    BY <2>1, <2>2, <2>3, <2>4, <2>5, <2>6, <2>7, <2>8, <2>9, <2>10, <2>11
    DEF Next, ClientStep, WorkerStep, ProcessStep
<1>3. QED
  BY <1>1, <1>2, BaseInvariant, CapInvariant, PTL
  DEF Spec, ImplementsJobQueue, JQ!Spec

-----------------------------------------------------------------------------
(* position() *)

\* The rank of the first job of a photo is one more than the number of jobs
\* in front of it, since the list holds no ticket twice.
LEMMA RankCounts ==
  ASSUME TypeOK, OrderInv, NEW m \in DOMAIN jobs
  PROVE  Cardinality({t \in Waiting : t < jobs[m]}) = m - 1
<1> DEFINE before == {t \in Waiting : t < jobs[m]}
           f == [i \in 1 .. m - 1 |-> jobs[i]]
<1>1. /\ m \in Nat /\ m - 1 \in Nat /\ 1 .. m - 1 \subseteq DOMAIN jobs
      /\ \A i \in DOMAIN jobs : i \in Nat /\ i >= 1 /\ jobs[i] \in Nat
      /\ \A i \in DOMAIN jobs : i < m => i \in 1 .. m - 1
  BY DEF TypeOK
<1>2. \A i \in DOMAIN jobs : jobs[i] < jobs[m] <=> i < m
  BY <1>1 DEF OrderInv
<1>3. f \in [1 .. m - 1 -> before]
  BY <1>1, <1>2 DEF Waiting
<1>4. \A t \in before : \E i \in 1 .. m - 1 : f[i] = t
  BY <1>1, <1>2 DEF Waiting
<1>5. \A i, k \in 1 .. m - 1 : f[i] = f[k] => i = k
  BY <1>1 DEF OrderInv
<1> HIDE DEF f, before
<1>6. f \in Surjection(1 .. m - 1, before) /\ f \in Injection(1 .. m - 1, before)
  BY <1>3, <1>4, <1>5 DEF Surjection, Injection, IsInjective
<1>7. IsFiniteSet(1 .. m - 1) /\ Cardinality(1 .. m - 1) = m - 1
  BY <1>1, FS_Interval
<1>8. Cardinality(before) = m - 1
  BY <1>6, <1>7, FS_Surjection
<1>9. QED
  BY <1>8 DEF before

\* A non-empty set of positions has a first one.
LEMMA Minimum ==
  ASSUME NEW S, S \subseteq Nat, S # {}
  PROVE  \E i \in S : \A k \in S : i <= k
<1> DEFINE less == OpToRel(<, Nat)
<1>1. IsWellFoundedOn(less, Nat)
  BY NatLessThanWellFounded, Zenon
<1>2. \A i, k \in Nat : <<i, k>> \in less <=> i < k
  BY DEF OpToRel
<1> HIDE DEF less
<1>3. PICK i \in S : \A k \in S : <<k, i>> \notin less
  BY <1>1, WFMin
<1>4. ASSUME NEW k \in S
      PROVE  i <= k
  <2>1. i \in Nat /\ k \in Nat /\ ~(k < i)
    BY <1>2, <1>3
  <2>2. QED
    BY <2>1
<1>5. QED
  BY <1>4

\* LRANGE alone answers for the list; what it cannot see is in hand.
AnswerInv == \A p \in Photo : InHand(p) \/ Answer(p) = ListRank(p)

LEMMA AnswerIsRank ==
  ASSUME TypeOK, OrderInv
  PROVE  AnswerInv
<1> SUFFICES ASSUME NEW p \in Photo, ~InHand(p)
             PROVE  Answer(p) = ListRank(p)
  BY DEF AnswerInv
<1> DEFINE here == {i \in DOMAIN jobs : PhotoOf(jobs[i]) = p}
           its == {t \in Waiting : PhotoOf(t) = p}
<1>1. its = {jobs[i] : i \in here}
  BY DEF Waiting
<1>2. Answer(p) = IF its = {} THEN NotQueued
                  ELSE Cardinality({t \in Waiting : \A u \in its : t < u}) + 1
  BY DEF Answer
<1>3. CASE here = {}
  BY <1>1, <1>2, <1>3 DEF ListRank
<1>4. CASE here # {}
  <2> DEFINE m == CHOOSE i \in here : \A k \in here : i <= k
  <2>1. m \in here /\ \A k \in here : m <= k
    <3>1. here \subseteq Nat
      BY DEF TypeOK
    <3>2. \E i \in here : \A k \in here : i <= k
      BY <1>4, <3>1, Minimum
    <3>3. QED
      BY <3>2
  <2>2. ListRank(p) = m
    BY <1>4 DEF ListRank
  <2> HIDE DEF m
  <2>3. m \in DOMAIN jobs /\ jobs[m] \in its
    BY <1>1, <2>1
  <2>4. \A u \in its : jobs[m] <= u
    <3> SUFFICES ASSUME NEW k \in here
                 PROVE  jobs[m] <= jobs[k]
      BY <1>1
    <3>1. m \in Nat /\ k \in Nat /\ jobs[m] \in Nat /\ jobs[k] \in Nat /\ m <= k
      BY <2>1, <2>3 DEF TypeOK
    <3>2. CASE m = k
      BY <3>1, <3>2
    <3>3. CASE m < k
      BY <2>3, <3>1, <3>3 DEF OrderInv
    <3>4. QED
      BY <3>1, <3>2, <3>3
  <2>5. \A t \in Waiting : t \in Nat
    BY DEF Waiting, TypeOK
  <2> HIDE DEF its, here
  <2>6. its \subseteq Waiting
    BY DEF its
  <2>7. {t \in Waiting : \A u \in its : t < u} = {t \in Waiting : t < jobs[m]}
    <3>1. ASSUME NEW t \in Waiting
          PROVE  (\A u \in its : t < u) <=> t < jobs[m]
      BY <2>3, <2>4, <2>5, <2>6
    <3>2. QED
      BY <3>1
  <2>8. Cardinality({t \in Waiting : t < jobs[m]}) = m - 1
    BY <2>3, RankCounts
  <2>9. m \in Nat
    BY <2>3 DEF TypeOK
  <2>10. Answer(p) = Cardinality({t \in Waiting : t < jobs[m]}) + 1
    <3>1. its # {}
      BY <2>3
    <3>2. QED
      BY <1>2, <2>7, <3>1
  <2>11. QED
    BY <2>2, <2>8, <2>9, <2>10
<1>5. QED
  BY <1>3, <1>4

\* The observer takes the steps of the queue and stands beside them.
LEMMA ObservedStep == [ObservedNext]_<<vars, truth, moved>> => [Next]_vars
<1> SUFFICES ASSUME ObservedNext
             PROVE  Next
  BY DEF vars
<1>1. QED
  BY DEF ObservedNext, Next, ClientStep, WorkerStep, ProcessStep

LEMMA Observed == ObservedSpec => Spec
<1>1. ObservedInit => Init
  BY DEF ObservedInit
<1>2. QED
  BY <1>1, ObservedStep, PTL DEF ObservedSpec, Spec

\* A call of position() that reached LRANGE has an argument.
ArgInv == \A c \in Client : pc[c] = "range" => arg[c] \in Photo

LEMMA ArgStep ==
  ASSUME BaseInv, ArgInv, [Next]_vars
  PROVE  ArgInv'
<1> USE DEF BaseInv, TypeOK, ArgInv, Task, redis, calls, history, Goto
<1>1. ASSUME NEW c \in Client, NEW p \in Photo, EnqueueIncr(c, p) \/ PositionHash(c, p)
      PROVE  ArgInv'
  BY <1>1 DEF EnqueueIncr, PositionHash
<1>2. ASSUME NEW c \in Client,
             \/ EnqueueLen(c) \/ EnqueuePush(c) \/ EnqueueRaises(c)
             \/ EnqueueRepeats(c) \/ Purge(c) \/ PositionList(c)
      PROVE  ArgInv'
  BY <1>2 DEF EnqueueLen, EnqueuePush, EnqueueRaises, EnqueueRepeats, Push, Purge,
              PositionList
<1>3. ASSUME NEW w \in Worker, WorkerStep(w)
      PROVE  ArgInv'
  BY <1>3 DEF WorkerStep, DequeuePop, DequeueHset, DequeueRaises, Complete,
              CompleteRaises
<1>4. ASSUME NEW P \in Process, Crash(P) \/ Start(P)
      PROVE  ArgInv'
  BY <1>4 DEF Crash, Start
<1>5. CASE UNCHANGED vars
  BY <1>5 DEF vars
<1>6. QED
  BY <1>1, <1>2, <1>3, <1>4, <1>5 DEF Next, ClientStep, ProcessStep

-----------------------------------------------------------------------------
(* What a call of position() may have missed *)

\* Pushed tickets keep their job and its photo.
LEMMA TicketsStay ==
  ASSUME BaseInv, IdInv, [Next]_vars, NEW t \in DOMAIN pushed
  PROVE  /\ t \in DOMAIN pushed' /\ pushed'[t] = pushed[t]
         /\ PhotoOf(t)' = PhotoOf(t)
<1> USE DEF BaseInv, TypeOK, CallInv, IdInv, JobId, PhotoOf
<1>1. ASSUME NEW c \in Client, NEW p \in Photo, EnqueueIncr(c, p)
      PROVE  pushed' = pushed /\ photo'[pushed[t]] = photo[pushed[t]]
  BY <1>1 DEF EnqueueIncr
<1>2. ASSUME NEW c \in Client, Push(c)
      PROVE  /\ t \in DOMAIN pushed' /\ pushed'[t] = pushed[t]
             /\ photo' = photo
  BY <1>2 DEF Push
<1>3. \/ \E c \in Client, p \in Photo : EnqueueIncr(c, p)
      \/ \E c \in Client : Push(c)
      \/ UNCHANGED <<pushed, photo>>
  BY DEF Next, ClientStep, WorkerStep, ProcessStep, EnqueueLen, EnqueuePush,
         EnqueueRepeats, EnqueueRaises, Purge, PositionHash, PositionList,
         DequeuePop, DequeueHset, DequeueRaises, Complete, CompleteRaises,
         Crash, Start, vars, history
<1>4. QED
  BY <1>1, <1>2, <1>3

\* A call gets to LRANGE by HVALS, and keeps its argument.
LEMMA CallsStay ==
  ASSUME BaseInv, [Next]_vars, NEW c \in Client, pc'[c] = "range"
  PROVE  \/ pc[c] = "range" /\ arg'[c] = arg[c]
         \/ \E p \in Photo : PositionHash(c, p) /\ arg'[c] = p
<1> USE DEF BaseInv, TypeOK, Task, redis, calls, history, Goto
<1>1. ASSUME NEW d \in Client, NEW p \in Photo, PositionHash(d, p)
      PROVE  \/ pc[c] = "range" /\ arg'[c] = arg[c]
             \/ c = d /\ arg'[c] = p
  BY <1>1 DEF PositionHash
<1>2. ASSUME NEW d \in Client,
             \/ \E p \in Photo : EnqueueIncr(d, p)
             \/ EnqueueLen(d) \/ EnqueuePush(d) \/ EnqueueRaises(d)
             \/ EnqueueRepeats(d) \/ Purge(d) \/ PositionList(d)
      PROVE  pc[c] = "range" /\ arg'[c] = arg[c]
  BY <1>2 DEF EnqueueIncr, EnqueueLen, EnqueuePush, EnqueueRaises, EnqueueRepeats,
              Push, Purge, PositionList
<1>3. ASSUME NEW w \in Worker, WorkerStep(w)
      PROVE  pc[c] = "range" /\ arg'[c] = arg[c]
  BY <1>3 DEF WorkerStep, DequeuePop, DequeueHset, DequeueRaises, Complete,
              CompleteRaises
<1>4. ASSUME NEW P \in Process, Crash(P) \/ Start(P)
      PROVE  pc[c] = "range" /\ arg'[c] = arg[c]
  BY <1>4 DEF Crash, Start
<1>5. CASE UNCHANGED vars
  BY <1>5 DEF vars
<1>6. QED
  BY <1>1, <1>2, <1>3, <1>4, <1>5 DEF Next, ClientStep, ProcessStep

\* A worker gets a ticket by LPOP, and is between LPOP and HSET then.
LEMMA HoldersStay ==
  ASSUME BaseInv, [Next]_vars, NEW w \in Worker, held'[w] # 0
  PROVE  held'[w] = held[w] \/ pc'[w] = "hset"
<1> USE DEF BaseInv, TypeOK, Task, calls, history, Goto
<1>1. ASSUME NEW v \in Worker, WorkerStep(v)
      PROVE  held'[w] = held[w] \/ pc'[w] = "hset"
  BY <1>1 DEF WorkerStep, DequeuePop, DequeueHset, DequeueRaises, Complete,
              CompleteRaises
<1>2. ASSUME NEW P \in Process, Crash(P) \/ Start(P)
      PROVE  held'[w] = held[w]
  BY <1>2 DEF Crash, Start
<1>3. ASSUME NEW c \in Client, ClientStep(c)
      PROVE  held'[w] = held[w]
  BY <1>3 DEF ClientStep, EnqueueIncr, EnqueueLen, EnqueuePush, EnqueueRaises,
              EnqueueRepeats, Push, Purge, PositionHash, PositionList
<1>4. CASE UNCHANGED vars
  BY <1>4 DEF vars
<1>5. QED
  BY <1>1, <1>2, <1>3, <1>4 DEF Next, ProcessStep

\* A job of the photo that a worker has was on its way into the hash during
\* the call: HVALS saw those that were in it, and answered.
ShadowInv ==
  \A c \in Client, w \in Worker :
    pc[c] = "range" /\ held[w] # 0 /\ PhotoOf(held[w]) = arg[c]
      => held[w] \in moved[c] \/ PushedTwice(held[w])

LEMMA ShadowStep ==
  ASSUME BaseInv, OrderInv, IdInv, LostInv, HashTracksInflight, ShadowInv,
         [Next]_vars, Observe
  PROVE  ShadowInv'
<1> SUFFICES ASSUME NEW c \in Client, NEW w \in Worker, pc'[c] = "range",
                    held'[w] # 0, PhotoOf(held[w])' = arg'[c],
                    ~PushedTwice(held[w])'
             PROVE  held'[w] \in moved'[c]
  BY DEF ShadowInv
<1>1. moved'[c] = (IF pc[c] = "range" THEN moved[c] ELSE {})
                    \cup {u \in Between : PhotoOf(u) = arg[c]}'
  BY DEF Observe, Since
<1>2. CASE pc'[w] = "hset"
  <2>1. held'[w] \in Between'
    BY <1>2, BetweenMember
  <2>2. QED
    BY <1>1, <2>1
<1>3. CASE pc'[w] # "hset"
  <2>1. PICK t \in DOMAIN pushed : t = held[w] /\ t = held'[w] /\ t # 0
    BY <1>3, HoldersStay DEF BaseInv, CallInv
  <2>2. t \in handed /\ t \notin lost
    BY <2>1 DEF BaseInv, CallInv, LostInv
  <2>3. /\ PhotoOf(t)' = PhotoOf(t)
        /\ \A u \in DOMAIN pushed : u \in DOMAIN pushed' /\ pushed'[u] = pushed[u]
    BY TicketsStay
  <2>4. PhotoOf(t) = arg'[c] /\ ~PushedTwice(t)
    BY <2>1, <2>3 DEF PushedTwice, PhotoOf
  <2>5. CASE pc[c] = "range" /\ arg'[c] = arg[c]
    BY <1>1, <2>1, <2>4, <2>5 DEF ShadowInv
  <2>6. CASE \E p \in Photo : PositionHash(c, p) /\ arg'[c] = p
    <3>1. PICK p \in Photo : PositionHash(c, p) /\ arg'[c] = p
      BY <2>6
    <3>2. /\ \A j \in inflight : photo[j] # p
          /\ pc' = [pc EXCEPT ![c] = "range"] /\ pc[c] = "idle"
      BY <3>1 DEF PositionHash, Goto
    <3>3. pc[w] # "hset"
      BY <1>3, <3>2 DEF BaseInv, TypeOK, CallInv
    <3>4. t \notin Between
      <4>1. \A v \in Worker : held[v] = t => v = w
        BY <2>1 DEF OrderInv
      <4>2. QED
        BY <3>3, <4>1 DEF Between
    <3>5. Key(t) \in inflight
      <4>1. t \in Recorded
        BY <2>2, <3>4 DEF Recorded
      <4>2. QED
        BY <2>4, <4>1 DEF HashTracksInflight, PushedTwice, Key
    <3>6. QED
      BY <2>4, <3>1, <3>2, <3>5 DEF PhotoOf, Key
  <2>7. QED
    BY <2>5, <2>6, CallsStay
<1>4. QED
  BY <1>2, <1>3

LEMMA ShadowInvariant == ObservedSpec => []ShadowInv
<1>1. ObservedInit => ShadowInv
  BY DEF ObservedInit, Init, ShadowInv, Task
<1>2. BaseInv /\ OrderInv /\ IdInv /\ (LostInv /\ HashTracksInflight)
        /\ ShadowInv /\ [Next]_vars /\ [ObservedNext]_<<vars, truth, moved>>
        => ShadowInv'
  <2>1. [ObservedNext]_<<vars, truth, moved>>
          => Observe \/ UNCHANGED <<vars, truth, moved>>
    BY DEF ObservedNext
  <2>2. ShadowInv /\ UNCHANGED <<vars, truth, moved>> => ShadowInv'
    BY DEF ShadowInv, PushedTwice, PhotoOf, vars, redis, calls, history
  <2>3. QED
    BY <2>1, <2>2, ShadowStep
<1>3. [ObservedNext]_<<vars, truth, moved>> => [Next]_vars
  BY ObservedStep
<1>4. QED
  BY <1>1, <1>2, <1>3, Observed, BaseInvariant, IdInvariant, HashInvariant, PTL
  DEF ObservedSpec

\* Without a fault, a worker has every job that was handed out.
HandedInv == faults = 0 => \A t \in handed : \E w \in Worker : held[w] = t

LEMMA HandedStep ==
  ASSUME BaseInv, HandedInv, [Next]_vars
  PROVE  HandedInv'
<1> USE DEF BaseInv, TypeOK, CallInv, HandedInv, redis, calls, history
<1>1. ASSUME NEW c \in Client, ClientStep(c)
      PROVE  HandedInv'
  <2>1. held' = held /\ handed' = handed /\ faults' \in {faults, faults + 1}
    BY <1>1 DEF ClientStep, EnqueueIncr, EnqueueLen, EnqueuePush, EnqueueRaises,
                EnqueueRepeats, Push, Purge, PositionHash, PositionList, Fault
  <2>2. QED
    BY <2>1
<1>2. ASSUME NEW w \in Worker, DequeuePop(w)
      PROVE  HandedInv'
  <2>1. /\ held[w] = 0 /\ held' = [held EXCEPT ![w] = Head(jobs)]
        /\ handed' = handed \cup {Head(jobs)} /\ faults' = faults
    BY <1>2 DEF DequeuePop, MayPop
  <2>2. \A t \in handed : t # 0
    OBVIOUS
  <2>3. QED
    BY <2>1, <2>2
<1>3. ASSUME NEW w \in Worker, Complete(w)
      PROVE  HandedInv'
  BY <1>3 DEF Complete
<1>4. ASSUME faults' = faults + 1
      PROVE  HandedInv'
  BY <1>4
<1>5. ASSUME NEW w \in Worker, DequeueHset(w)
      PROVE  HandedInv'
  BY <1>5 DEF DequeueHset
<1>6. ASSUME NEW P \in Process, Start(P)
      PROVE  HandedInv'
  BY <1>6 DEF Start
<1>7. CASE UNCHANGED vars
  BY <1>7 DEF vars
<1>8. QED
  BY <1>1, <1>2, <1>3, <1>4, <1>5, <1>6, <1>7
  DEF Next, WorkerStep, ProcessStep, DequeueRaises, CompleteRaises, Crash, Fault

LEMMA HandedInvariant == Spec => []HandedInv
<1>1. Init => HandedInv
  BY DEF Init, HandedInv
<1>2. QED
  BY <1>1, HandedStep, BaseInvariant, PTL DEF Spec

\* Whatever replicas do between HVALS and LRANGE: an answer that was never
\* right misses a job that was moved into the hash during the call, and 0 is
\* wrong only where a fault left an entry behind.
THEOREM PositionErrs == ObservedSpec => []PositionErrorsExplained
<1> DEFINE TruthInv == \A c \in Client :
             pc[c] = "range" => Answer(arg[c]) \in truth[c]
<1>1. Spec => [](BaseInv /\ OrderInv /\ ArgInv /\ AnswerInv)
  <2>1. Init => ArgInv
    BY DEF Init, ArgInv, Task
  <2>2. BaseInv /\ ArgInv /\ [Next]_vars => ArgInv'
    BY ArgStep
  <2>3. BaseInv /\ OrderInv => AnswerInv
    BY AnswerIsRank DEF BaseInv
  <2>4. QED
    BY <2>1, <2>2, <2>3, BaseInvariant, PTL DEF Spec
<1>2. ObservedInit => TruthInv
  BY DEF ObservedInit, Init, Task
<1>3. TruthInv /\ [ObservedNext]_<<vars, truth, moved>> /\ ArgInv' => TruthInv'
  <2> SUFFICES ASSUME TruthInv, [ObservedNext]_<<vars, truth, moved>>, ArgInv',
                      NEW c \in Client, pc'[c] = "range"
               PROVE  Answer(arg[c])' \in truth'[c]
    OBVIOUS
  <2>1. CASE Observe
    BY <2>1 DEF Observe, Since, ArgInv
  <2>2. CASE UNCHANGED <<vars, truth, moved>>
    <3>1. UNCHANGED <<jobs, photo, pushed, held, pc, arg, truth>>
      BY <2>2 DEF vars, redis, calls, history
    <3>2. \A t : PhotoOf(t)' = PhotoOf(t)
      BY <3>1 DEF PhotoOf
    <3>3. Waiting' = Waiting
      BY <3>1 DEF Waiting
    <3>4. Answer(arg[c])' = Answer(arg[c])
      BY <3>1, <3>2, <3>3 DEF Answer, InHand
    <3>5. QED
      BY <3>1, <3>4
  <2>3. QED
    BY <2>1, <2>2 DEF ObservedNext
<1>4. ArgInv /\ AnswerInv /\ TruthInv /\ ShadowInv => MissedOnlyByHandOver
  <2> SUFFICES ASSUME ArgInv, AnswerInv, TruthInv, ShadowInv,
                      NEW c \in Client, pc[c] = "range", Given(c) \notin truth[c]
               PROVE  \E w \in Worker :
                        /\ held[w] # 0 /\ PhotoOf(held[w]) = arg[c]
                        /\ held[w] \in moved[c] \/ PushedTwice(held[w])
    BY DEF MissedOnlyByHandOver
  <2>1. InHand(arg[c])
    BY DEF ArgInv, AnswerInv, Given
  <2>2. QED
    BY <2>1 DEF InHand, ShadowInv
<1>5. BaseInv /\ HashTracksInflight /\ HandedInv => ZeroOnlyIfLeftBehind
  <2> SUFFICES ASSUME BaseInv, HashTracksInflight, HandedInv,
                      NEW j \in inflight, Answer(photo[j]) # 0
               PROVE  faults > 0 /\ \E t \in LeftBehind : PhotoOf(t) = photo[j]
    BY DEF ZeroOnlyIfLeftBehind
  <2>1. PICK t \in Recorded : Key(t) = j
    BY DEF HashTracksInflight
  <2>2. t \in handed /\ t # 0 /\ PhotoOf(t) = photo[j]
    BY <2>1 DEF Recorded, Key, PhotoOf, BaseInv, TypeOK, CallInv
  <2>3. ~InHand(photo[j])
    BY DEF Answer
  <2>4. \A w \in Worker : held[w] # t
    BY <2>2, <2>3 DEF InHand
  <2>5. faults # 0
    BY <2>2, <2>4 DEF HandedInv
  <2>6. QED
    BY <2>1, <2>2, <2>4, <2>5 DEF LeftBehind, BaseInv, TypeOK
<1>6. QED
  BY <1>1, <1>2, <1>3, <1>4, <1>5, Observed, ShadowInvariant, HashExact,
     HandedInvariant, PTL
  DEF ObservedSpec, PositionErrorsExplained
=============================================================================
