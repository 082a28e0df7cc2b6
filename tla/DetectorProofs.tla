--------------------------- MODULE DetectorProofs ---------------------------
(***************************************************************************)
(* Proofs about Detector, for pools of any size.                           *)
(***************************************************************************)
EXTENDS Detector, TLAPS

USE DetectorAssumption

\* A thread that returns the global found or made it set; one that loaded has
\* stored its detector or is about to, and loads only the first time.
LoadInv ==
  \A t \in Thread :
    /\ pc[t] = "read" => _detector # None
    /\ pc[t] = "detect" => using[t] # None
    /\ pc[t] = "store" => loaded[t] # None
    /\ pc[t] = "load" => loads[t] = 0
    /\ loads[t] # 0 => _detector # None \/ pc[t] = "store"
    /\ loads[t] # 2

IInv == TypeOK /\ LoadInv

LEMMA InvStep ==
  ASSUME IInv, [Next]_vars
  PROVE  IInv'
<1> USE DEF IInv, TypeOK, LoadInv, Goto
<1>1. ASSUME NEW t \in Thread, Open(t)
      PROVE  IInv'
  BY <1>1 DEF Open
<1>2. ASSUME NEW t \in Thread, Check(t)
      PROVE  IInv'
  <2>1. CASE _detector = None
    BY <1>2, <2>1 DEF Check, MustLoad
  <2>2. CASE _detector # None
    BY <1>2, <2>2 DEF Check, MustLoad
  <2>3. QED
    BY <2>1, <2>2
<1>3. ASSUME NEW t \in Thread, Load(t)
      PROVE  IInv'
  BY <1>3 DEF Load
<1>4. ASSUME NEW t \in Thread, Raise(t)
      PROVE  IInv'
  BY <1>4 DEF Raise
<1>5. ASSUME NEW t \in Thread, Store(t)
      PROVE  IInv'
  BY <1>5 DEF Store, Assign
<1>6. ASSUME NEW t \in Thread, Read(t)
      PROVE  IInv'
  BY <1>6 DEF Read
<1>7. ASSUME NEW t \in Thread, Detect(t)
      PROVE  IInv'
  BY <1>7 DEF Detect, Release
<1>8. CASE UNCHANGED vars
  BY <1>8 DEF vars
<1>9. QED
  BY <1>1, <1>2, <1>3, <1>4, <1>5, <1>6, <1>7, <1>8 DEF Next, Step

LEMMA Invariant == Spec => []IInv
<1>1. Init => IInv
  BY DEF Init, IInv, TypeOK, LoadInv
<1>2. QED
  BY <1>1, InvStep, PTL DEF Spec

\* The global and the threads keep their types.
THEOREM TypeCorrect == Spec => []TypeOK
<1>1. IInv => TypeOK
  BY DEF IInv
<1>2. QED
  BY <1>1, Invariant, PTL

\* No thread ever runs inference on None, however the loads interleave.
THEOREM HasDetector == Spec => []NeverNone
<1>1. IInv => NeverNone
  BY DEF IInv, LoadInv, NeverNone
<1>2. QED
  BY <1>1, Invariant, PTL

\* A pool of n threads loads NudeNet n times at most.
THEOREM FewLoads == Spec => []OneLoadPerThread
<1>1. IInv => OneLoadPerThread
  <2> SUFFICES ASSUME IInv, NEW t \in Thread
               PROVE  loads[t] <= 1
    BY DEF OneLoadPerThread
  <2>1. loads[t] \in 0 .. 2 /\ loads[t] # 2
    BY DEF IInv, TypeOK, LoadInv
  <2>2. QED
    BY <2>1
<1>2. QED
  BY <1>1, Invariant, PTL

\* Once nobody is loading, the detector in place is never replaced.
THEOREM Stays == Spec => Settled
<1> DEFINE Kept == _detector # None /\ (\A t \in Thread : pc[t] \notin {"load", "store"})
                     => _detector' = _detector
<1>1. [Next]_vars => [Kept]_vars
  BY DEF Next, Open, Step, Check, Load, Raise, Store, Read, Detect, Release, vars
<1>2. QED
  BY <1>1, PTL DEF Spec, Settled
=============================================================================
