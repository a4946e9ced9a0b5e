----------------------------- MODULE MC_SpinLock -----------------------------
(* Five threads contending on one SpinLock.  No symmetry: the run checks a *)
(* liveness property.                                                      *)
EXTENDS SpinLock, TLC

CONSTANTS t1, t2, t3, t4, t5

MCThreads == {t1, t2, t3, t4, t5}
=============================================================================
