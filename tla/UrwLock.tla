------------------------------ MODULE UrwLock -------------------------------
(***************************************************************************)
(* UrwLock<T> (src/src/urw_lock.rs): a counter protocol -- a               *)
(* Mutex<InternalState{readers, writer}> with a Condvar, like ReadBiased   *)
(* but notifying while the mutex is held -- in front of a std RwLock<T>    *)
(* that guards the data.  A thread first passes the counter, then takes    *)
(* the inner RwLock; guards release the two layers in the order their      *)
(* Drop impls and field drops give.                                       *)
(***************************************************************************)
EXTENDS Naturals, FiniteSets

CONSTANT Threads

ASSUME UrwThreadsAssumption == IsFiniteSet(Threads) /\ Threads # {}

VARIABLES
    readers,    \* InternalState.readers
    writer,     \* InternalState.writer
    rwReaders,  \* threads holding a RwLockReadGuard of the inner RwLock
    rwWriters,  \* threads holding its RwLockWriteGuard (at most one: std)
    pc,         \* where each thread is, see Stages
    op          \* the call a parked or woken thread is in: "read"/"write"

vars == <<readers, writer, rwReaders, rwWriters, pc, op>>

(* idle; parked in cond.wait; woken and due to reacquire the mutex;         *)
(* innerRead/innerWrite: past the counter, due to call data.read()/write(); *)
(* reading/writing: holding the UrwLock guard; dropRead: read_unlock done,  *)
(* inner read guard not yet dropped; dropWrite: write_unlock done, inner   *)
(* write guard not yet dropped; downgrading: inner write guard dropped,    *)
(* lock.downgrade() not yet run.                                           *)
Stages == {"idle", "parked", "woken", "innerRead", "reading", "dropRead",
           "innerWrite", "writing", "dropWrite", "downgrading"}

Parked == {t \in Threads : pc[t] = "parked"}

-----------------------------------------------------------------------------
(* Condvar notifications, made while the state mutex is held.  t leaves    *)
(* for stage next in the same step.                                        *)
WakeOne(t, next) ==
    \/ Parked = {} /\ pc' = [pc EXCEPT ![t] = next]
    \/ \E w \in Parked : pc' = [pc EXCEPT ![t] = next, ![w] = "woken"]

WakeAll(t, next) ==
    pc' = [u \in Threads |-> IF u = t THEN next
                             ELSE IF pc[u] = "parked" THEN "woken" ELSE pc[u]]

\* mutant: write() waits only for a writer, like read()
BlockedIgnoringReaders(o) == writer

(* the while conditions of read() and write() *)
Blocked(o) ==
    IF o = "read" THEN writer ELSE readers # 0 \/ writer

\* mutant: write() leaves the loop without raising the flag
GrantWriteWithoutFlag(t) ==
    /\ pc' = [pc EXCEPT ![t] = "innerWrite"]
    /\ UNCHANGED <<readers, writer>>

(* leaving the loop: `state.writer = true` and drop(state) *)
GrantWrite(t) ==
    /\ writer' = TRUE
    /\ pc' = [pc EXCEPT ![t] = "innerWrite"]
    /\ UNCHANGED readers

(* leaving the loop: `state.readers += 1` and drop(state) *)
GrantRead(t) ==
    /\ readers' = readers + 1
    /\ pc' = [pc EXCEPT ![t] = "innerRead"]
    /\ UNCHANGED writer

(* one evaluation of the while condition with the mutex held *)
Attempt(t, o) ==
    /\ \/ /\ Blocked(o)
          /\ pc' = [pc EXCEPT ![t] = "parked"]
          /\ op' = [op EXCEPT ![t] = o]
          /\ UNCHANGED <<readers, writer>>
       \/ /\ ~Blocked(o)
          /\ IF o = "read" THEN GrantRead(t) ELSE GrantWrite(t)
          /\ op' = [op EXCEPT ![t] = "none"]
    /\ UNCHANGED <<rwReaders, rwWriters>>

(* read() and write(): take the mutex, then the loop *)
Read(t) == pc[t] = "idle" /\ Attempt(t, "read")

Write(t) == pc[t] = "idle" /\ Attempt(t, "write")

(* cond.wait returns with the mutex: the loop condition is re-checked *)
Reacquire(t) == pc[t] = "woken" /\ Attempt(t, op[t])

(* std's Condvar::wait may return without a notification *)
SpuriousWakeup(t) ==
    /\ pc[t] = "parked"
    /\ pc' = [pc EXCEPT ![t] = "woken"]
    /\ UNCHANGED <<readers, writer, rwReaders, rwWriters, op>>

(* data.read(): the inner RwLock admits a reader when no writer holds it   *)
AcquireInnerRead(t) ==
    /\ pc[t] = "innerRead"
    /\ rwWriters = {}
    /\ rwReaders' = rwReaders \cup {t}
    /\ pc' = [pc EXCEPT ![t] = "reading"]
    /\ UNCHANGED <<readers, writer, rwWriters, op>>

(* data.write(): the inner RwLock admits a writer when nobody holds it     *)
AcquireInnerWrite(t) ==
    /\ pc[t] = "innerWrite"
    /\ rwReaders = {} /\ rwWriters = {}
    /\ rwWriters' = {t}
    /\ pc' = [pc EXCEPT ![t] = "writing"]
    /\ UNCHANGED <<readers, writer, rwReaders, op>>

(* UrwLockReadGuard::drop runs read_unlock (notifying with the mutex held) *)
(* before its `data` field, the inner read guard, is dropped               *)
ReadUnlock(t) ==
    /\ pc[t] = "reading"
    /\ readers' = readers - 1
    /\ \/ readers - 1 = 1 /\ WakeAll(t, "dropRead")
       \/ readers - 1 = 0 /\ WakeOne(t, "dropRead")
       \/ readers - 1 \notin {0, 1} /\ pc' = [pc EXCEPT ![t] = "dropRead"]
    /\ UNCHANGED <<writer, rwReaders, rwWriters, op>>

(* the inner RwLockReadGuard field is dropped after Drop::drop *)
ReleaseInnerRead(t) ==
    /\ pc[t] = "dropRead"
    /\ rwReaders' = rwReaders \ {t}
    /\ pc' = [pc EXCEPT ![t] = "idle"]
    /\ UNCHANGED <<readers, writer, rwWriters, op>>

\* mutant: write_unlock clears the flag but forgets notify_one
WriteUnlockWithoutNotify(t) ==
    /\ pc[t] = "writing"
    /\ writer' = FALSE
    /\ pc' = [pc EXCEPT ![t] = "dropWrite"]
    /\ UNCHANGED <<readers, rwReaders, rwWriters, op>>

(* UrwLockWriteGuard::drop: in `if let Some(_) = self.data.take() { ... }` *)
(* the taken inner guard stays in the scrutinee temporary (`_` binds      *)
(* nothing), so write_unlock -- `state.writer = false; notify_one()` with  *)
(* the mutex held -- runs while the inner write guard is still held        *)
WriteUnlock(t) ==
    /\ pc[t] = "writing"
    /\ writer' = FALSE
    /\ WakeOne(t, "dropWrite")
    /\ UNCHANGED <<readers, rwReaders, rwWriters, op>>

(* ... and the temporary, the inner RwLockWriteGuard, is dropped when the  *)
(* if-let ends                                                             *)
ReleaseInnerWrite(t) ==
    /\ pc[t] = "dropWrite"
    /\ rwWriters' = {}
    /\ pc' = [pc EXCEPT ![t] = "idle"]
    /\ UNCHANGED <<readers, writer, rwReaders, op>>

\* mutant: downgrade written like drop, `if let Some(_) = self.data.take()
\* { self.lock.downgrade() }`, keeps the inner write guard across downgrade()
DowngradeTakeKeepingGuard(t) ==
    /\ pc[t] = "writing"
    /\ pc' = [pc EXCEPT ![t] = "downgrading"]
    /\ UNCHANGED <<readers, writer, rwReaders, rwWriters, op>>

(* UrwLockWriteGuard::downgrade: `self.data.take();` is a statement, so    *)
(* the inner write guard is dropped before lock.downgrade() is called      *)
DowngradeTake(t) ==
    /\ pc[t] = "writing"
    /\ rwWriters' = {}
    /\ pc' = [pc EXCEPT ![t] = "downgrading"]
    /\ UNCHANGED <<readers, writer, rwReaders, op>>

\* mutant: downgrade clears the flag but leaves the reader count at 0
DowngradeWithoutReaderCount(t) ==
    /\ pc[t] = "downgrading"
    /\ writer' = FALSE
    /\ WakeAll(t, "innerRead")
    /\ UNCHANGED <<readers, rwReaders, rwWriters, op>>

(* ... then UrwLock::downgrade: readers = 1, writer = false, notify_all,   *)
(* drop(state); data.read() follows as AcquireInnerRead                    *)
Downgrade(t) ==
    /\ pc[t] = "downgrading"
    /\ readers' = 1
    /\ writer' = FALSE
    /\ WakeAll(t, "innerRead")
    /\ UNCHANGED <<rwReaders, rwWriters, op>>

Init ==
    /\ readers = 0
    /\ writer = FALSE
    /\ rwReaders = {}
    /\ rwWriters = {}
    /\ pc = [t \in Threads |-> "idle"]
    /\ op = [t \in Threads |-> "none"]

Next ==
    \E t \in Threads :
        \/ Read(t) \/ Write(t) \/ Reacquire(t) \/ SpuriousWakeup(t)
        \/ AcquireInnerRead(t) \/ AcquireInnerWrite(t)
        \/ ReadUnlock(t) \/ ReleaseInnerRead(t)
        \/ ReleaseInnerWrite(t) \/ WriteUnlock(t)
        \/ DowngradeTake(t) \/ Downgrade(t)

Spec == Init /\ [][Next]_vars

-----------------------------------------------------------------------------
ReadStages == {"innerRead", "reading"}

WriteStages == {"innerWrite", "writing", "downgrading"}

UrwTypeOK ==
    /\ readers \in Nat
    /\ writer \in BOOLEAN
    /\ rwReaders \subseteq Threads
    /\ rwWriters \subseteq Threads
    /\ pc \in [Threads -> Stages]
    /\ op \in [Threads -> {"none", "read", "write"}]

(* The counter accounts for the threads between the counter and their      *)
(* read_unlock/write_unlock: readers counts those that passed read() or    *)
(* downgrade and have not run read_unlock; writer is set exactly while a   *)
(* thread is between write()'s loop and write_unlock or downgrade.         *)
UrwCountersMatchGuards ==
    /\ readers = Cardinality({t \in Threads : pc[t] \in ReadStages})
    /\ (writer <=> {t \in Threads : pc[t] \in WriteStages} # {})

(* The two layers never wait on each other.  data.read() and data.write() *)
(* may block, but only on a thread that has already left the counter       *)
(* (read_unlock or write_unlock done) and whose next step drops its inner *)
(* guard: a reader past the counter meets at most a writer in the tail of  *)
(* its guard drop, and a writer past the counter only readers and writers *)
(* in theirs -- never a thread that itself waits at the counter or in the  *)
(* inner lock.                                                             *)
InnerLockWaitsOnlyOnReleasing ==
    /\ \A t \in Threads : pc[t] = "innerRead" =>
            \A u \in rwWriters : pc[u] = "dropWrite"
    /\ \A t \in Threads : pc[t] = "innerWrite" =>
            \A u \in rwReaders \cup rwWriters : pc[u] \in {"dropRead", "dropWrite"}

(* No waiter is stranded on an idle counter: while a thread sleeps in      *)
(* cond.wait, either a guard holds the counter (and will notify when it   *)
(* lets go) or some woken thread is about to re-check it.                 *)
NoStrandedWaiter ==
    Parked # {} =>
        \/ readers # 0
        \/ writer
        \/ \E u \in Threads : pc[u] = "woken"

(* Refinement: at the counter layer, a thread between read()'s loop and    *)
(* read_unlock holds read access, one between write()'s loop and           *)
(* write_unlock or downgrade holds write access.  UrwLock then implements  *)
(* the abstract reader-writer lock of RWLock: two-layer acquisition,       *)
(* guard drops and the split downgrade are each an abstract step or a      *)
(* stutter.                                                                *)
CounterAccess ==
    [t \in Threads |-> IF pc[t] \in ReadStages THEN "read"
                       ELSE IF pc[t] \in WriteStages THEN "write"
                       ELSE "none"]

RW == INSTANCE RWLock WITH access <- CounterAccess

ImplementsRWLock == RW!Spec
=============================================================================
