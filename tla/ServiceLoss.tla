---------------------------- MODULE ServiceLoss ----------------------------
(***************************************************************************)
(* Which jobs can be lost, and how many?  A graceful shutdown cancels the  *)
(* detections that are under way, and the finally of run_worker deletes    *)
(* their jobs.  This module adds to Service the jobs that went before any  *)
(* callback was sent for them: those deleted in flight, and among them     *)
(* those whose worker a shutdown cancelled; and those purged.              *)
(***************************************************************************)
EXTENDS Service

VARIABLES
  lost,               \* jobs deleted in flight
  cut,                \* those deleted by a task that a shutdown cancelled
  purged              \* jobs deleted while they waited

losses == <<lost, cut, purged>>

\* Jobs of this set that the step deletes, and that nobody was told about.
Gone(jobs) == {j \in jobs : status'[j] = "none" /\ sent[j] = {}}

\* Jobs with a task that a shutdown is cancelling.
Cancelling == {job[w] : w \in {v \in Worker : phase = "stopping" /\ cancelled[v]}}

Count ==
  /\ lost' = lost \cup Gone(Processing)
  /\ cut' = cut \cup Gone(Processing \cap Cancelling)
  /\ purged' = purged \cup Gone(Pending)

CountedInit == Init /\ lost = {} /\ cut = {} /\ purged = {}

\* Next /\ Count, written out so that TLC reports on each action.
CountedNext ==
  \/ \E p \in Photo : Submit(p) /\ Count
  \/ Purge /\ Count
  \/ \E w \in Worker :
       \/ Fetch(w) /\ Count
       \/ Resume(w) /\ Count
       \/ DetectOk(w) /\ Count
       \/ DetectRaises(w) /\ Count
       \/ LycheeHandles(w) /\ Count
       \/ PostOk(w) /\ Count
       \/ PostFails(w) /\ Count
       \/ ReportDone(w) /\ Count
       \/ Complete(w) /\ Count
       \/ CompleteFails(w) /\ Count
       \/ CancelFetch(w) /\ Count
       \/ CancelJob(w) /\ Count
       \/ CancelComplete(w) /\ Count
       \/ Unwind(w) /\ Count
       \/ UnwindFails(w) /\ Count
  \/ Start /\ Count
  \/ Shutdown /\ Count
  \/ Stopped /\ Count
  \/ Crash /\ Count

CountedSpec == CountedInit /\ [][CountedNext]_<<vars, losses>>

CountedFairSpec == CountedSpec /\ Fairness

-----------------------------------------------------------------------------
(* Properties *)

\* A graceful shutdown loses one job per worker at most, also when a task
\* whose complete() raised outlives its cancellation and takes more jobs.
LossPerShutdown ==
  Cardinality(lost) <= shutdowns * Cardinality(Worker)

\* api.md, POST /detect: "results are delivered via callback".  A callback is
\* sent for every accepted job, through crashes and restarts, unless a purge
\* deletes it while it waits, or a graceful shutdown cancels it while it runs.
Answered ==
  \A j \in JobId :
    status[j] = "pending" ~> sent[j] # {} \/ j \in purged \/ j \in cut
=============================================================================
