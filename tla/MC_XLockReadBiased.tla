------------------------- MODULE MC_XLockReadBiased -------------------------
(* Four threads on one XLock<T, ReadBiased>: enough for two readers, a    *)
(* parked writer and a parked reader or upgrader at the same time.         *)
EXTENDS XLockReadBiased, TLC

CONSTANTS t1, t2, t3, t4

MCThreads == {t1, t2, t3, t4}

MCSymmetry == Permutations(MCThreads)
=============================================================================
