--------------------------- MODULE XLockReadBiased ---------------------------
(***************************************************************************)
(* XLock<T, ReadBiased> of libmutex (src/libmutex/src/xlock.rs): the       *)
(* read-biased moderator (a Mutex<ReadBiasedState> and a Condvar) together *)
(* with the read and write guards that call it.                            *)
(*                                                                         *)
(* Every moderator operation runs with the state mutex held, so each       *)
(* critical section is one step.  Condvar::wait releases the mutex and     *)
(* parks the thread atomically; a notified thread must take the mutex      *)
(* again before it re-tests its loop condition, which is the separate step *)
(* Reacquire.  read_unlock, write_unlock and downgrade drop the mutex      *)
(* before they notify, so the notification is a step of its own too.      *)
(*                                                                         *)
(* A thread holds at most one guard; a program thread holding several      *)
(* guards is several model threads.  The protected value is not modelled:  *)
(* who may touch it is exactly who holds which guard.                      *)
(***************************************************************************)
EXTENDS Naturals, FiniteSets

CONSTANTS
    Threads,        \* the threads that share one XLock
    ReaderModulus   \* 2^32: ReadBiasedState.readers is a u32

ASSUME ThreadsAssumption == IsFiniteSet(Threads) /\ Threads # {}

(* Fewer live guards than a u32 can count: true of any program that does   *)
(* not leak guards, since each guard is a distinct value in memory.        *)
ASSUME ReaderModulusAssumption ==
    ReaderModulus \in Nat /\ Cardinality(Threads) < ReaderModulus

VARIABLES
    readers,   \* ReadBiasedState.readers
    writer,    \* ReadBiasedState.writer
    guard,     \* guard[t]: the live (locked = true) guard thread t holds
    pc,        \* where thread t is in a moderator call
    op,        \* the blocking call thread t is inside of, while it waits
    timed      \* whether that call has a finite Duration (not Duration::MAX)

vars == <<readers, writer, guard, pc, op, timed>>

GuardKinds == {"none", "read", "write"}
(* "idle": not inside a moderator call; "parked": inside Condvar::wait;    *)
(* "woken": notified, waiting to take the mutex back; "notifyOne" and      *)
(* "notifyAll": the mutex is dropped and the notification is still due.    *)
PcValues   == {"idle", "parked", "woken", "notifyOne", "notifyAll"}
Ops        == {"none", "read", "write", "upgrade"}

ReadHolders  == {t \in Threads : guard[t] = "read"}
WriteHolders == {t \in Threads : guard[t] = "write"}
Parked       == {t \in Threads : pc[t] = "parked"}

-----------------------------------------------------------------------------
(* The loop conditions of the three waiting calls.                         *)

\* try_read: while state.writer
ReadBlocked == writer

\* mutant: try_write tests only the writer flag
WriteBlockedIgnoresReaders == writer

\* try_write: while state.readers != 0 || state.writer
WriteBlocked == readers # 0 \/ writer

\* try_upgrade: while state.readers != 1
UpgradeBlocked == readers # 1

Blocked(o) ==
    \/ o = "read"    /\ ReadBlocked
    \/ o = "write"   /\ WriteBlocked
    \/ o = "upgrade" /\ UpgradeBlocked

(* The loop condition is false: the call updates the state, returns true   *)
(* and the XLock wrapper builds the guard.  `readers += 1` on a u32 wraps  *)
(* in a release build, where overflow checks are off.                     *)

GrantRead(t) ==
    /\ readers' = (readers + 1) % ReaderModulus
    /\ guard' = [guard EXCEPT ![t] = "read"]
    /\ UNCHANGED writer

GrantWrite(t) ==
    /\ writer' = TRUE
    /\ guard' = [guard EXCEPT ![t] = "write"]
    /\ UNCHANGED readers

\* try_upgrade: the read guard is retired (locked = false), a write guard made
GrantUpgrade(t) ==
    /\ readers' = 0
    /\ writer' = TRUE
    /\ guard' = [guard EXCEPT ![t] = "write"]

Grant(t, o) ==
    /\ \/ o = "read"    /\ GrantRead(t)
       \/ o = "write"   /\ GrantWrite(t)
       \/ o = "upgrade" /\ GrantUpgrade(t)
    /\ pc' = [pc EXCEPT ![t] = "idle"]
    /\ op' = [op EXCEPT ![t] = "none"]
    /\ UNCHANGED timed

(* The loop condition holds: cond_wait_remedy releases the mutex and parks. *)
Park(t, o, d) ==
    /\ pc' = [pc EXCEPT ![t] = "parked"]
    /\ op' = [op EXCEPT ![t] = o]
    /\ timed' = [timed EXCEPT ![t] = d]
    /\ UNCHANGED <<readers, writer, guard>>

(* One test of a wait loop, with the mutex held.                           *)
Attempt(t, o, d) ==
    \/ Blocked(o) /\ Park(t, o, d)
    \/ ~Blocked(o) /\ Grant(t, o)

-----------------------------------------------------------------------------
(* Operations.  d is TRUE for a finite Duration (ZERO included), FALSE for *)
(* Duration::MAX, which read(), write() and upgrade() pass.                *)

\* XLock::try_read / read, ReadBiased::try_read
TryRead(t, d) ==
    /\ pc[t] = "idle"
    /\ guard[t] = "none"
    /\ Attempt(t, "read", d)

\* XLock::try_write / write, ReadBiased::try_write
TryWrite(t, d) ==
    /\ pc[t] = "idle"
    /\ guard[t] = "none"
    /\ Attempt(t, "write", d)

\* LockReadGuard::try_upgrade / upgrade, ReadBiased::try_upgrade
TryUpgrade(t, d) ==
    /\ pc[t] = "idle"
    /\ guard[t] = "read"
    /\ Attempt(t, "upgrade", d)

\* cond_wait_remedy returned without a timeout: take the mutex, test again
Reacquire(t) ==
    /\ pc[t] = "woken"
    /\ Attempt(t, op[t], timed[t])

\* Condvar waits may return spuriously; the loop then tests again
SpuriousWakeup(t) ==
    /\ pc[t] = "parked"
    /\ pc' = [pc EXCEPT ![t] = "woken"]
    /\ UNCHANGED <<readers, writer, guard, op, timed>>

(* The deadline passed: the call returns false and leaves the state as it  *)
(* is; a try_upgrade returns Unchanged with its read guard still locked.   *)
Timeout(t) ==
    /\ pc[t] = "parked"
    /\ timed[t]
    /\ pc' = [pc EXCEPT ![t] = "idle"]
    /\ op' = [op EXCEPT ![t] = "none"]
    /\ UNCHANGED <<readers, writer, guard, timed>>

\* mutant: read_unlock sends notify_one, not notify_all, when one reader is left
ReadUnlockNotifyOneAtOne(t) ==
    /\ pc[t] = "idle"
    /\ guard[t] = "read"
    /\ readers' = (readers + ReaderModulus - 1) % ReaderModulus
    /\ guard' = [guard EXCEPT ![t] = "none"]
    /\ pc' = [pc EXCEPT ![t] = IF readers' \in {0, 1} THEN "notifyOne"
                               ELSE "idle"]
    /\ UNCHANGED <<writer, op, timed>>

(* Dropping a read guard: ReadBiased::read_unlock.  Which notification it  *)
(* sends is decided from the count it left, after the mutex is dropped.    *)
(* The u32 decrement wraps in a release build (the debug_asserts are gone). *)
ReadUnlock(t) ==
    /\ pc[t] = "idle"
    /\ guard[t] = "read"
    /\ readers' = (readers + ReaderModulus - 1) % ReaderModulus
    /\ guard' = [guard EXCEPT ![t] = "none"]
    /\ pc' = [pc EXCEPT ![t] = IF readers' = 1 THEN "notifyAll"
                               ELSE IF readers' = 0 THEN "notifyOne"
                               ELSE "idle"]
    /\ UNCHANGED <<writer, op, timed>>

\* mutant: write_unlock clears the flag but never notifies
WriteUnlockWithoutNotify(t) ==
    /\ pc[t] = "idle"
    /\ guard[t] = "write"
    /\ writer' = FALSE
    /\ guard' = [guard EXCEPT ![t] = "none"]
    /\ pc' = [pc EXCEPT ![t] = "idle"]
    /\ UNCHANGED <<readers, op, timed>>

\* Dropping a write guard: ReadBiased::write_unlock
WriteUnlock(t) ==
    /\ pc[t] = "idle"
    /\ guard[t] = "write"
    /\ writer' = FALSE
    /\ guard' = [guard EXCEPT ![t] = "none"]
    /\ pc' = [pc EXCEPT ![t] = "notifyOne"]
    /\ UNCHANGED <<readers, op, timed>>

\* mutant: downgrade clears writer but forgets `state.readers = 1`
DowngradeWithoutReaderCount(t) ==
    /\ pc[t] = "idle"
    /\ guard[t] = "write"
    /\ writer' = FALSE
    /\ guard' = [guard EXCEPT ![t] = "read"]
    /\ pc' = [pc EXCEPT ![t] = "notifyAll"]
    /\ UNCHANGED <<readers, op, timed>>

\* LockWriteGuard::downgrade, XLock::downgrade, ReadBiased::downgrade
Downgrade(t) ==
    /\ pc[t] = "idle"
    /\ guard[t] = "write"
    /\ readers' = 1
    /\ writer' = FALSE
    /\ guard' = [guard EXCEPT ![t] = "read"]
    /\ pc' = [pc EXCEPT ![t] = "notifyAll"]
    /\ UNCHANGED <<op, timed>>

\* sync.cond.notify_one(): wakes one parked thread, if there is one
NotifyOne(t) ==
    /\ pc[t] = "notifyOne"
    /\ \/ Parked = {} /\ pc' = [pc EXCEPT ![t] = "idle"]
       \/ \E w \in Parked : pc' = [pc EXCEPT ![t] = "idle", ![w] = "woken"]
    /\ UNCHANGED <<readers, writer, guard, op, timed>>

\* sync.cond.notify_all(): wakes every parked thread
NotifyAll(t) ==
    /\ pc[t] = "notifyAll"
    /\ pc' = [u \in Threads |-> IF u = t THEN "idle"
                                ELSE IF pc[u] = "parked" THEN "woken"
                                ELSE pc[u]]
    /\ UNCHANGED <<readers, writer, guard, op, timed>>

-----------------------------------------------------------------------------
(* XLock::new: ReadBiasedState { readers: 0, writer: false }, no guards.   *)
Init ==
    /\ readers = 0
    /\ writer = FALSE
    /\ guard = [t \in Threads |-> "none"]
    /\ pc = [t \in Threads |-> "idle"]
    /\ op = [t \in Threads |-> "none"]
    /\ timed = [t \in Threads |-> FALSE]

Next ==
    \E t \in Threads :
        \/ \E d \in BOOLEAN : TryRead(t, d) \/ TryWrite(t, d) \/ TryUpgrade(t, d)
        \/ Reacquire(t)
        \/ SpuriousWakeup(t)
        \/ Timeout(t)
        \/ ReadUnlock(t)
        \/ WriteUnlock(t)
        \/ Downgrade(t)
        \/ NotifyOne(t)
        \/ NotifyAll(t)

Spec == Init /\ [][Next]_vars

(* XLock::downgrade is pub and takes &self: any thread that can reach the *)
(* lock may call it without owning a write guard.  In a release build the  *)
(* debug_asserts are compiled out and the call sets readers = 1 and clears *)
(* writer whatever the state, then hands out a read guard.                 *)
DowngradeUnguarded(t) ==
    /\ pc[t] = "idle"
    /\ guard[t] = "none"
    /\ readers' = 1
    /\ writer' = FALSE
    /\ guard' = [guard EXCEPT ![t] = "read"]
    /\ pc' = [pc EXCEPT ![t] = "notifyAll"]
    /\ UNCHANGED <<op, timed>>

\* the same threads, also calling the public XLock::downgrade directly
NextWithPublicDowngrade == Next \/ \E t \in Threads : DowngradeUnguarded(t)

SpecWithPublicDowngrade == Init /\ [][NextWithPublicDowngrade]_vars

(* std::mem::forget is safe: a thread may leak a read guard, so its Drop   *)
(* never runs read_unlock and the count it added stays in readers.         *)
ForgetReadGuard(t) ==
    /\ pc[t] = "idle"
    /\ guard[t] = "read"
    /\ guard' = [guard EXCEPT ![t] = "none"]
    /\ UNCHANGED <<readers, writer, pc, op, timed>>

\* the same threads, also leaking read guards
NextWithLeak == Next \/ \E t \in Threads : ForgetReadGuard(t)

SpecWithLeak == Init /\ [][NextWithLeak]_vars

-----------------------------------------------------------------------------
(* Properties.                                                             *)

(* The variables' types; the inductive invariants of the proofs start    *)
(* from it.                                                                *)
TypeOK ==
    /\ readers \in 0 .. ReaderModulus - 1
    /\ writer \in BOOLEAN
    /\ guard \in [Threads -> GuardKinds]
    /\ pc \in [Threads -> PcValues]
    /\ op \in [Threads -> Ops]
    /\ timed \in [Threads -> BOOLEAN]

(* Spec section 8: never a live write guard together with any other live  *)
(* guard, through every interleaving of try_read, try_write, try_upgrade,  *)
(* downgrade, timeouts and the unlocks of the guards' Drop impls.          *)
MutualExclusion ==
    \A t \in WriteHolders : \A u \in Threads \ {t} : guard[u] = "none"

(* The moderator's counters account exactly for the live guards: readers   *)
(* is the number of read guards and writer is set iff a write guard lives. *)
(* This is what keeps the debug_asserts of read_unlock, write_unlock,      *)
(* downgrade and try_upgrade true and the u32 decrement from underflowing. *)
CountersMatchGuards ==
    /\ readers = Cardinality(ReadHolders)
    /\ (writer <=> WriteHolders # {})

(* No lost wakeup: the waiters never all sleep without a deadline while no *)
(* notification is on its way, except in the deadlock the spec documents  *)
(* for two readers that both upgrade (spec section 5).                     *)
NoLostWakeup ==
    (\A t \in Threads : pc[t] = "parked" /\ ~timed[t])
        => Cardinality({t \in Threads : op[t] = "upgrade"}) >= 2

(* Fairness the code justifies.  A woken thread contends for a mutex no   *)
(* step holds across, so it eventually retests its loop; a thread that has *)
(* dropped the mutex in an unlock eventually makes the notify call that    *)
(* follows; and callers eventually drop, or downgrade, the guards they     *)
(* hold.  A finite deadline passes: once it has, every retest of the loop *)
(* returns timed out, so a timed wait that keeps being re-entered ends     *)
(* (strong fairness).  New calls and spurious wakeups are never forced.    *)
FairSpec ==
    /\ Spec
    /\ \A t \in Threads :
        /\ WF_vars(Reacquire(t))
        /\ WF_vars(NotifyOne(t)) /\ WF_vars(NotifyAll(t))
        /\ WF_vars(ReadUnlock(t))
        /\ WF_vars(WriteUnlock(t) \/ Downgrade(t))
        /\ SF_vars(Timeout(t))

\* a thread starts a read(), write() or upgrade() call
NewRequest ==
    \E t \in Threads, d \in BOOLEAN :
        TryRead(t, d) \/ TryWrite(t, d) \/ TryUpgrade(t, d)

\* two read-guard holders both wait, without deadline, to upgrade
UpgradersDeadlocked ==
    Cardinality({t \in Threads : op[t] = "upgrade" /\ ~timed[t]}) >= 2

(* Spec 7, scenario 3 ("after A and C drop, B acquires") and 4.2.1: once   *)
(* new calls stop, every thread waiting without a deadline in read(),      *)
(* write() or upgrade() is eventually granted -- read_unlock's and         *)
(* write_unlock's notifications, made after the mutex is dropped and       *)
(* from a count read before, never leave a waiter asleep for good -- save *)
(* in the two-upgraders deadlock the spec documents.                       *)
WaitersServed ==
    <>[][~NewRequest]_vars =>
        \A t \in Threads :
            (pc[t] = "parked" /\ ~timed[t])
                ~> (pc[t] = "idle" \/ UpgradersDeadlocked)

(* Spec 4.1: try_read blocks only until a read guard can be granted under *)
(* the moderator's policy, and the read-biased policy grants one whenever  *)
(* no writer holds the lock (4.2.1).  So a reader parked in try_read has   *)
(* a writer in front of it -- one holding the lock, or a woken writer or   *)
(* upgrader about to re-test its loop and take it -- or a notification on  *)
(* its way that may wake it.                                               *)
ReadersWaitOnlyForWriter ==
    \A t \in Parked :
        op[t] = "read" =>
            \/ writer
            \/ \E u \in Threads : pc[u] \in {"notifyOne", "notifyAll"}
            \/ \E u \in Threads : pc[u] = "woken" /\ op[u] \in {"write", "upgrade"}

=============================================================================
