--------------------------- MODULE SpinLockProofs ---------------------------
(***************************************************************************)
(* Proof that SpinLock admits one SpinGuard at a time, for every finite    *)
(* set of threads.  SpinMutualExclusion is not inductive alone: a          *)
(* compare_exchange that finds the flag false must know that nobody holds  *)
(* a guard, so the flag is tied to the holders.                            *)
(***************************************************************************)
EXTENDS SpinLock, TLAPS

(* The AtomicBool is set exactly while some thread holds a SpinGuard.      *)
FlagMatchesHolders == locked <=> Holders # {}

SpinIInv == SpinTypeOK /\ FlagMatchesHolders /\ SpinMutualExclusion

LEMMA InitSpinIInv == Init => SpinIInv
<1>. SUFFICES ASSUME Init PROVE SpinIInv
  OBVIOUS
<1>1. locked \in BOOLEAN /\ ~locked
  BY Zenon DEF Init
<1>2. Holders = {}
  BY DEF Init, Holders
<1>. QED
  BY <1>1, <1>2 DEF Init, SpinIInv, SpinTypeOK, FlagMatchesHolders,
                    SpinMutualExclusion

(* A successful compare_exchange: the flag was clear, so nobody held a     *)
(* guard, and t becomes the only holder.                                   *)
LEMMA AcquirePreserves ==
    ASSUME SpinIInv, NEW t \in Threads, Acquire(t),
           spinning' \in [Threads -> BOOLEAN]
    PROVE  SpinIInv'
<1>1. Holders = {}
  BY DEF SpinIInv, FlagMatchesHolders, Acquire
<1>2. Holders' = {t}
  BY <1>1 DEF SpinIInv, SpinTypeOK, Acquire, Holders
<1>3. locked' \in BOOLEAN /\ locked'
  BY Zenon DEF Acquire
<1>4. holds' \in [Threads -> BOOLEAN]
  BY DEF SpinIInv, SpinTypeOK, Acquire
<1>5. SpinMutualExclusion'
  BY <1>2 DEF SpinMutualExclusion
<1>. QED
  BY <1>2, <1>3, <1>4, <1>5 DEF SpinIInv, SpinTypeOK, FlagMatchesHolders

LEMMA NextSpinIInv == SpinIInv /\ [Next]_vars => SpinIInv'
<1>. SUFFICES ASSUME SpinIInv, [Next]_vars PROVE SpinIInv'
  OBVIOUS
<1>1. ASSUME NEW t \in Threads, TryLock(t) PROVE SpinIInv'
  BY <1>1, AcquirePreserves DEF TryLock, SpinIInv, SpinTypeOK
<1>2. ASSUME NEW t \in Threads, Spin(t) PROVE SpinIInv'
  BY <1>2, AcquirePreserves DEF Spin, SpinIInv, SpinTypeOK
<1>3. ASSUME NEW t \in Threads, StartLock(t) PROVE SpinIInv'
  BY <1>3 DEF StartLock, SpinIInv, SpinTypeOK, FlagMatchesHolders,
              SpinMutualExclusion, Holders
<1>4. ASSUME NEW t \in Threads, GuardDrop(t) PROVE SpinIInv'
  <2>1. Holders = {t}
    BY <1>4 DEF GuardDrop, SpinIInv, SpinMutualExclusion, Holders
  <2>2. Holders' = {}
    BY <1>4, <2>1 DEF GuardDrop, SpinIInv, SpinTypeOK, Holders
  <2>3. locked' \in BOOLEAN /\ ~locked'
    BY <1>4, Zenon DEF GuardDrop
  <2>. QED
    BY <1>4, <2>2, <2>3 DEF GuardDrop, SpinIInv, SpinTypeOK, FlagMatchesHolders,
                            SpinMutualExclusion
<1>5. CASE UNCHANGED vars
  BY <1>5 DEF vars, SpinIInv, SpinTypeOK, FlagMatchesHolders,
              SpinMutualExclusion, Holders
<1>. QED
  BY <1>1, <1>2, <1>3, <1>4, <1>5 DEF Next

(* try_lock and lock() never produce two live SpinGuards, however the      *)
(* compare_exchanges of any number of threads interleave with guard drops. *)
THEOREM SpinMutualExclusionTheorem == Spec => []SpinMutualExclusion
<1>1. SpinIInv => SpinMutualExclusion
  BY DEF SpinIInv
<1>. QED
  BY InitSpinIInv, NextSpinIInv, <1>1, PTL DEF Spec
=============================================================================
