----------------------------- MODULE MC_UrwLock -----------------------------
(* Instance of UrwLock for TLC: four interchangeable threads.               *)
EXTENDS UrwLock, TLC

CONSTANTS t1, t2, t3, t4

MCThreads == {t1, t2, t3, t4}

MCSymmetry == Permutations(MCThreads)
=============================================================================
