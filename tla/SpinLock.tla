------------------------------ MODULE SpinLock ------------------------------
(***************************************************************************)
(* SpinLock<T> of libmutex (src/libmutex/src/spinlock.rs): an AtomicBool   *)
(* taken by compare_exchange(false, true) and released by a plain store of *)
(* false when the SpinGuard is dropped.  Memory orderings are              *)
(* Acquire/Release and are modelled as sequentially consistent steps.      *)
(***************************************************************************)
EXTENDS FiniteSets

CONSTANT Threads

ASSUME SpinThreadsAssumption == IsFiniteSet(Threads) /\ Threads # {}

VARIABLES
    locked,    \* SpinLock.locked
    holds,     \* holds[t]: thread t owns a live SpinGuard
    spinning   \* spinning[t]: thread t is inside the retry loop of lock()

vars == <<locked, holds, spinning>>

Holders == {t \in Threads : holds[t]}

-----------------------------------------------------------------------------
\* mutant: the flag is set without comparing it first (a plain store)
AcquireWithoutCompare(t) ==
    /\ locked' = TRUE
    /\ holds' = [holds EXCEPT ![t] = TRUE]

\* a successful compare_exchange(false, true): the guard is built
Acquire(t) ==
    /\ ~locked
    /\ locked' = TRUE
    /\ holds' = [holds EXCEPT ![t] = TRUE]

\* try_lock(): one compare_exchange; a failed one changes nothing
TryLock(t) ==
    /\ ~holds[t]
    /\ ~spinning[t]
    /\ Acquire(t)
    /\ UNCHANGED spinning

\* lock(): enters the loop `while guard.is_none() { guard = self.try_lock() }`
StartLock(t) ==
    /\ ~holds[t]
    /\ ~spinning[t]
    /\ spinning' = [spinning EXCEPT ![t] = TRUE]
    /\ UNCHANGED <<locked, holds>>

\* one iteration of that loop that succeeds; failing ones are stutters
Spin(t) ==
    /\ spinning[t]
    /\ Acquire(t)
    /\ spinning' = [spinning EXCEPT ![t] = FALSE]

\* mutant: the guard's drop forgets to clear the flag
GuardDropKeepsLocked(t) ==
    /\ holds[t]
    /\ holds' = [holds EXCEPT ![t] = FALSE]
    /\ UNCHANGED <<locked, spinning>>

\* SpinGuard::drop calls unlock(): locked.store(false, Release)
GuardDrop(t) ==
    /\ holds[t]
    /\ locked' = FALSE
    /\ holds' = [holds EXCEPT ![t] = FALSE]
    /\ UNCHANGED spinning

Init ==
    /\ locked = FALSE
    /\ holds = [t \in Threads |-> FALSE]
    /\ spinning = [t \in Threads |-> FALSE]

Next ==
    \E t \in Threads : TryLock(t) \/ StartLock(t) \/ Spin(t) \/ GuardDrop(t)

Spec == Init /\ [][Next]_vars

(* Fairness: a spinning thread keeps retrying its compare_exchange, so a    *)
(* lock that stays free is eventually taken by it (preemptive scheduling);  *)
(* callers are assumed to drop every guard eventually.  No fairness for     *)
(* TryLock and StartLock: a thread need not ask for the lock.              *)
FairSpec ==
    /\ Spec
    /\ \A t \in Threads : WF_vars(Spin(t)) /\ WF_vars(GuardDrop(t))

(* unlock() is pub and safe: a thread that holds no guard may call it.     *)
UnlockUnguarded(t) ==
    /\ ~holds[t]
    /\ ~spinning[t]
    /\ locked' = FALSE
    /\ UNCHANGED <<holds, spinning>>

NextWithPublicUnlock == Next \/ \E t \in Threads : UnlockUnguarded(t)

SpecWithPublicUnlock == Init /\ [][NextWithPublicUnlock]_vars

-----------------------------------------------------------------------------
SpinTypeOK ==
    /\ locked \in BOOLEAN
    /\ holds \in [Threads -> BOOLEAN]
    /\ spinning \in [Threads -> BOOLEAN]

(* Spec 3 and 8: at most one live SpinGuard at a time, whatever the        *)
(* interleaving of try_lock, the spinning lock() and guard drops.          *)
SpinMutualExclusion ==
    \A t, u \in Holders : t = u

(* Deadlock freedom of lock(): while some thread spins, the lock is         *)
(* eventually held by someone (not necessarily by it: the loop has no       *)
(* ordering, so one spinner may lose every race).                           *)
SpinProgress ==
    \A t \in Threads : spinning[t] ~> (Holders # {})
=============================================================================
