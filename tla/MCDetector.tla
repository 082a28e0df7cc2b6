----------------------------- MODULE MCDetector -----------------------------
(* Three pool threads.                                                     *)
EXTENDS Detector

CONSTANTS t1, t2, t3
=============================================================================
