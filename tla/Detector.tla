------------------------------ MODULE Detector ------------------------------
(***************************************************************************)
(* _run() and _get_detector() of app/detection/detector.py on the threads  *)
(* of the service's ThreadPoolExecutor.  NudeNet is loaded when the first  *)
(* image needs it, without a lock, so threads may find no detector and     *)
(* load one each; a step is one access to the global _detector, or what a  *)
(* thread does between two of them.                                        *)
(*                                                                         *)
(* A NudeDetector is named after the thread that loaded it: a thread       *)
(* that loads twice shows in "loads".                                      *)
(*                                                                         *)
(* A definition X_Y, before X, is a faulty variant of X that nothing uses. *)
(***************************************************************************)
EXTENDS Naturals

CONSTANTS
  Thread,             \* the threads of the pool: thread_pool_size
  None                \* no detector

ASSUME DetectorAssumption == None \notin Thread

VARIABLES
  _detector,          \* the global variable
  pc,                 \* where a thread is in _run
  loaded,             \* the detector that a thread loaded and did not store yet
  using,              \* the detector that runs its inference
  loads               \* history: how often it loaded one; 2 stands for more

vars == <<_detector, pc, loaded, using, loads>>

Goto(t, to) == pc' = [pc EXCEPT ![t] = to]

Init ==
  /\ _detector = None
  /\ pc = [t \in Thread |-> "idle"]
  /\ loaded = [t \in Thread |-> None]
  /\ using = [t \in Thread |-> None]
  /\ loads = [t \in Thread |-> 0]

-----------------------------------------------------------------------------

\* run_in_executor gives the thread an image, and it can be opened.
Open(t) ==
  /\ pc[t] = "idle"
  /\ Goto(t, "check")
  /\ UNCHANGED <<_detector, loaded, using, loads>>

\* Without "if _detector is None".
MustLoad_Always == TRUE

\* if _detector is None
MustLoad == _detector = None

Check(t) ==
  /\ pc[t] = "check"
  /\ Goto(t, IF MustLoad THEN "load" ELSE "read")
  /\ UNCHANGED <<_detector, loaded, using, loads>>

\* NudeDetector()
Load(t) ==
  /\ pc[t] = "load"
  /\ loaded' = [loaded EXCEPT ![t] = t]
  /\ loads' = [loads EXCEPT ![t] = IF @ = 0 THEN 1 ELSE 2]
  /\ Goto(t, "store")
  /\ UNCHANGED <<_detector, using>>

\* NudeDetector() or detect() raises: the job fails, the thread takes another.
Raise(t) ==
  /\ pc[t] \in {"load", "detect"}
  /\ using' = [using EXCEPT ![t] = None]
  /\ Goto(t, "idle")
  /\ UNCHANGED <<_detector, loaded, loads>>

\* _detector = NudeDetector()
Assign(t) == _detector' = loaded[t]

Store(t) ==
  /\ pc[t] = "store"
  /\ Assign(t)
  /\ loaded' = [loaded EXCEPT ![t] = None]
  /\ Goto(t, "read")
  /\ UNCHANGED <<using, loads>>

\* return _detector, which by now may be another thread's.
Read(t) ==
  /\ pc[t] = "read"
  /\ using' = [using EXCEPT ![t] = _detector]
  /\ Goto(t, "detect")
  /\ UNCHANGED <<_detector, loaded, loads>>

\* Drops the detector after use, to free its memory.
Release_Drops == _detector' = None

\* The module keeps the detector.
Release == UNCHANGED _detector

\* detect() returns.
Detect(t) ==
  /\ pc[t] = "detect"
  /\ Release
  /\ using' = [using EXCEPT ![t] = None]
  /\ Goto(t, "idle")
  /\ UNCHANGED <<loaded, loads>>

Step(t) ==
  Check(t) \/ Load(t) \/ Raise(t) \/ Store(t) \/ Read(t) \/ Detect(t)

Next == \E t \in Thread : Open(t) \/ Step(t)

Spec == Init /\ [][Next]_vars

\* The interpreter runs every thread, and NudeNet terminates.
FairSpec == Spec /\ \A t \in Thread : WF_vars(Step(t))

-----------------------------------------------------------------------------
(* Properties *)

TypeOK ==
  /\ _detector \in Thread \cup {None}
  /\ pc \in [Thread -> {"idle", "check", "load", "store", "read", "detect"}]
  /\ loaded \in [Thread -> Thread \cup {None}]
  /\ using \in [Thread -> Thread \cup {None}]
  /\ loads \in [Thread -> 0 .. 2]

\* The global is read again after it was found set or was set: whatever other
\* threads do in between, inference never runs on None.
NeverNone == \A t \in Thread : pc[t] = "detect" => using[t] # None

\* concepts/README.md: "loaded lazily on the first request and reused for all
\* subsequent requests": without a lock the model may be loaded once per
\* thread, but never more, also when loads and inferences fail.
OneLoadPerThread == \A t \in Thread : loads[t] <= 1

\* A detector is replaced only by a thread that found none: when nobody is
\* loading, the one in place stays for good.
Settled ==
  [][_detector # None /\ (\A t \in Thread : pc[t] \notin {"load", "store"})
       => _detector' = _detector]_vars

\* In the end all threads share one detector, and the extra ones of the
\* race are garbage.
Converges ==
  <>[](\A t \in Thread : pc[t] = "detect" => using[t] = _detector)
=============================================================================
