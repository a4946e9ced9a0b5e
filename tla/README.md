# TLA+ models of libmutex

These are TLA+ models, TLC runs and TLAPS proofs for the lock primitives of
`libmutex` (`src/libmutex/src`) and for the `UrwLock` prototype (`src/src`).

## 1. The system

| Part | Source | State | Operations |
|---|---|---|---|
| `XLock<T, S>` + guards | `xlock.rs` 151-368 | a moderator `S::Sync`, the data cell, and a `locked` flag in each guard | `read`/`try_read`, `write`/`try_write`, guard drops, `LockReadGuard::upgrade`/`try_upgrade`, `LockWriteGuard::downgrade`, the pub `XLock::downgrade` |
| `ReadBiased` moderator | `xlock.rs` 34-149 | `Mutex<ReadBiasedState{readers: u32, writer: bool}>` and a `Condvar` | `try_read`, `read_unlock`, `try_write`, `write_unlock`, `downgrade`, `try_upgrade` |
| `SpinLock<T>` | `spinlock.rs` | `AtomicBool locked` | `try_lock` (CAS), `lock` (a retry loop), `SpinGuard::drop`, pub `unlock`, `Debug::fmt` (a try_lock then a drop) |
| `UrwLock<T>` (a prototype outside the crate) | `src/src/urw_lock.rs` | counter `Mutex<{readers, writer}>` + `Condvar`, in front of a `std::sync::RwLock<T>` | read/write, guard drops, downgrade |
| `LockLike` façade | `xlock/locklike.rs` | none (it forwards to XLock) | — |
| WriteBiased, ArrivalOrdered, Deadline, utils, Completable | not under `src/` | — | — |

How the parts interact:

- XLock owns a moderator and calls it from every guard operation.
- Each moderator operation locks the moderator's mutex, checks a loop condition
  and waits on the condvar while it holds. A wait has a deadline: a finite
  `Duration` can time out, `Duration::MAX` cannot.
- On exit the operation updates the counters. The unlock operations **drop the
  mutex before notifying**.
- Guards carry a `locked` flag. It lets `upgrade`, `try_upgrade` and
  `downgrade` hand the lock to a new guard without releasing it in `Drop`.

The behaviours that make this code hard:

- interleavings of threads inside the condvar protocol;
- spurious wakeups;
- timeouts racing notifications;
- notification decisions made from a count read before the mutex was dropped;
- two upgraders waiting on each other;
- u32 counters at their limits;
- the safe `pub` functions `XLock::downgrade` and `SpinLock::unlock`, which
  bypass the guards.

## 2. Modules

### `XLockReadBiased` (xlock.rs)

Each thread has the following state:

- `guard[t]`: none, read or write, the live guard it holds with `locked = true`.
- `pc[t]`:
  - `idle`;
  - `parked`: in `cond.wait`;
  - `woken`: notified or spuriously woken, and must reacquire the mutex;
  - `notifyOne` / `notifyAll`: it has released the mutex in an unlock and
    still has to call the notify.
- `op[t]`: which moderator call it is waiting in.
- `timed[t]`: whether that call has a finite deadline.

The shared state is `readers` and `writer`.

`readers` is a `u32`. It is modelled modulo the constant `ReaderModulus`,
which stands for 2^32: `try_read` does `(readers + 1) % ReaderModulus`, and
`read_unlock` does the matching decrement. This is release-build
arithmetic, where overflow checks are off. The TLC runs use
`ReaderModulus = 8`.

`ReaderModulusAssumption` requires more values than threads. Without leaks,
the count is at most the number of threads, so it never wraps.

`std::mem::forget` is safe code, so a read guard can be leaked.
`ForgetReadGuard` drops the guard without running `read_unlock`. It appears
only in `SpecWithLeak`.

The actions are:

- `TryRead`, `TryWrite` and `TryUpgrade` take the mutex and either grant the
  operation or park, following the code's `while` condition
  (`ReadBlocked`, `WriteBlocked`, `UpgradeBlocked`).
- `Reacquire` re-evaluates that condition after a wakeup.
- `SpuriousWakeup` wakes a parked thread without a notification.
- `Timeout` is allowed only when the deadline is finite. It returns with the
  state unchanged.
- `ReadUnlock`, `WriteUnlock` and `Downgrade` update the counters and release
  the mutex. The notification they owe is a separate later step (`NotifyOne`,
  `NotifyAll`), as in the code.
- `NotifyOne` wakes any one parked thread, if there is one.
- `DowngradeUnguarded` is the pub `XLock::downgrade` called with no guard. It
  appears only in `SpecWithPublicDowngrade`.

The `debug_assert!`s are absent in release builds and are not guards.
`CountersMatchGuards` proves they never fire.

### `SpinLock` (spinlock.rs)

The state is `locked`, plus `holds[t]` and `spinning[t]` for each thread.

- `TryLock` is a successful CAS. A failed CAS is a stutter.
- `StartLock` and `Spin` are `lock()`'s loop.
- `GuardDrop` stores false.
- `UnlockUnguarded` is the pub `unlock()`. It appears only in
  `SpecWithPublicUnlock`.
- Acquire/Release orderings are modelled as atomic steps.

### `UrwLock` (src/src/urw_lock.rs)

The counter is `readers` and `writer`. The inner `std::sync::RwLock` is
modelled by the sets `rwReaders` and `rwWriters`, the threads holding its
guards.

Each thread is at one of these stages (`pc[t]`):

- `idle`;
- `parked` / `woken`, in `cond.wait`;
- `innerRead` / `innerWrite`: past the counter, not yet past `data.read()` /
  `data.write()`;
- `reading` / `writing`: holding the guard;
- `dropRead`: `read_unlock` has run and the inner read guard field is not yet
  dropped;
- `dropWrite`: `write_unlock` has run and the inner write guard is not yet
  dropped;
- `downgrading`: the inner write guard has been dropped and
  `lock.downgrade()` is not yet called.

The actions follow the code in its order:

- `Read`, `Write` and `Reacquire` run the loop.
- `AcquireInnerRead` and `AcquireInnerWrite` are the std lock calls.
- The read guard drop is `ReadUnlock`, then `ReleaseInnerRead`: `Drop::drop`
  runs before the field drops.
- The write guard drop is `WriteUnlock`, then `ReleaseInnerWrite`. In
  `if let Some(_) = self.data.take() { self.lock.write_unlock(); }` the
  taken inner guard lives in the scrutinee temporary, since `_` binds
  nothing. It is dropped only when the `if let` ends, after `write_unlock`.
- In `downgrade`, `self.data.take();` is a statement, so the inner guard is
  dropped at once (`DowngradeTake`), before `lock.downgrade()`.
- Downgrade is `DowngradeTake`, then `Downgrade`, then `AcquireInnerRead`.
- Notifications happen with the mutex held, so each is part of the same step
  (`WakeOne`, `WakeAll`).
- Poisoning (`unpack`/`pack`) is left out, because no action panics.

### `RWLock`: the abstract lock

`RWLock` states the contract every lock of the crate promises (spec sections
3, 4.1 and 8), with waiting left out. `access[t]` is none, read or write.
Each operation is one atomic action:

- `AcquireRead` is allowed while no thread has write access;
- `AcquireWrite` is allowed while every other thread has no access;
- `Release` drops any access;
- `Upgrade` is allowed only for a sole reader;
- `Downgrade` turns write access into read access.

`UrwLock` ends with a refinement mapping and `ImplementsRWLock == RW!Spec`.
`access <-` is `CounterAccess`: `read` in `innerRead`/`reading`, and `write`
in `innerWrite`/`writing`/`downgrading`. The loop exit, `ReadUnlock`,
`WriteUnlock` and `Downgrade` are abstract steps. The inner RwLock steps and
`DowngradeTake` are stutters. Here the refinement says more than mutual
exclusion, because a thread's access moves through two lock layers and a
split downgrade.

UrwLock's access is that of the counter layer. A thread between
`read_unlock`/`write_unlock` and the drop of its inner guard already counts
as having released. `InnerLockWaitsOnlyOnReleasing` is the property that
covers that window.

XLock and SpinLock are not given refinements. Each of their steps changes
one thread's guard, and `RWLock` allows any such change subject only to
exclusion. A refinement would therefore restate `MutualExclusion` and
`SpinMutualExclusion`.

### `XLockReadBiasedProofs`, `XLockWakeupProofs`, `UrwLockProofs`, `SpinLockProofs`, `UrwLockRefinement`

These modules hold the TLAPS proofs (§5).

## 3. Runs

| Run | Result | Shows |
|---|---|---|
| `xlock_safety` | pass, 11 102 distinct states | `MutualExclusion`, `CountersMatchGuards` and `NoLostWakeup` hold for 4 threads and every mix of blocking and timed calls |
| `xlock_liveness` | pass, 213 168 distinct states (no symmetry) | `WaitersServed` under `FairSpec`: once new calls stop, every thread waiting untimed in read/write/upgrade is eventually granted, except in the two-upgraders deadlock |
| `xlock_stranded_reader` | violation of `ReadersWaitOnlyForWriter` | two readers park behind a writer, and `write_unlock`'s single `notify_one` wakes one of them. The other sleeps while no writer holds or is about to take the lock, and no notification is pending (finding 1; 7 states) |
| `xlock_pub_downgrade` | violation of `MutualExclusion` | the pub `XLock::downgrade` hands out a read guard beside a live write guard (finding 2) |
| `xlock_reader_overflow` | violation of `MutualExclusion` | with leaked read guards, the u32 count wraps to 0 while read guards are live, and `try_write` admits a writer (finding 4) |
| `urw_safety` | pass, 450 distinct states | For 4 threads: `UrwTypeOK`; `UrwCountersMatchGuards`; `InnerLockWaitsOnlyOnReleasing`, i.e. `data.read()` and `data.write()` block only on threads in their `dropRead`/`dropWrite` window; `NoStrandedWaiter`, i.e. no thread sleeps while the counter is idle and nobody is awake to take it; `ImplementsRWLock` |
| `spin_safety_liveness` | pass | `SpinMutualExclusion`, and `SpinProgress` under weak fairness, for 5 threads |
| `spin_pub_unlock` | violation of `SpinMutualExclusion` | the pub `SpinLock::unlock` lets two guards coexist (finding 3) |

What the properties say:

- **`NoLostWakeup`**: if every thread is parked with an untimed wait, at least
  two of them are upgraders. That deadlock is inherent to upgradable locks.
  Any other all-parked state is a lost wakeup.
- **`WaitersServed`** is spec §7 scenario 3 ("after A and C drop, B
  acquires"), for every waiter. It is conditional on `<>[][~NewRequest]_vars`
  because the read-biased policy lets a stream of new calls starve a waiter
  (spec §8). It is stronger than `NoLostWakeup`: it also fails when a wakeup
  is lost while some thread is still running but makes no new call.
- **`ReadersWaitOnlyForWriter`**: a parked reader waits only while a writer
  holds the lock, a woken writer or upgrader is about to re-test its loop, or
  a notification is still owed.
- **`InnerLockWaitsOnlyOnReleasing`**: the two UrwLock layers never wait on
  each other. A thread that blocks in `data.read()` or `data.write()` waits
  only for a thread that has left the counter and whose next step drops its
  inner guard. It cannot wait for a thread that is itself waiting.

Every property of a passing run has a mutant in `PROJECT.json` that breaks it.
Each mutant models a plausible slip in the code:

- a writer admitted over readers;
- `notify_one` where `notify_all` is needed;
- `downgrade` forgetting `readers = 1`;
- a plain store in place of the CAS;
- a drop that forgets the store;
- a UrwLock `downgrade` written like its `drop`, as
  `if let Some(_) = self.data.take() { ... }`, which keeps the inner write
  guard across `lock.downgrade()` and its `data.read()`;
- a `write_unlock` without its `notify_one` (UrwLock, and XLock for
  `WaitersServed`);
- for `ImplementsRWLock`: a UrwLock `write()` that waits only for a writer.

**Bounds.** Four XLock threads are enough for the interesting cases:

- two readers and a writer;
- a reader upgrading while another reader and a writer wait;
- an upgrader plus two others parked.

Threads are model values under symmetry, which is sound because threads are
interchangeable. Counters are not capped: they are bounded by the number of
threads. The exception is the leak run. Leaked guards keep their counts, and
`ReaderModulus = 8` lets four threads that read and leak repeatedly reach
the wrap in a few dozen steps. With 2^32 the same trace exists, only
longer.

**Fairness.** The XLock safety runs assume none. `FairSpec` (used only by
`xlock_liveness`) assumes the following:

- weak fairness of `Reacquire`: no step holds the mutex across steps, so a
  woken thread eventually gets it;
- weak fairness of `NotifyOne`/`NotifyAll`: the next statement of a thread
  that has dropped the mutex in an unlock;
- weak fairness of `ReadUnlock` and of `WriteUnlock \/ Downgrade`: callers
  eventually drop or downgrade their guards, as for SpinLock;
- strong fairness of `Timeout`: a finite deadline passes. After it, every
  retest returns timed out, even if the thread is woken and re-parks in
  between.

Without the last, a timed upgrader that never times out would keep an
untimed one waiting forever. TLC found that trace first. Nothing forces new
calls or spurious wakeups. That run has no symmetry, because symmetry is not
sound for liveness checking.

For SpinLock, `FairSpec` assumes weak fairness of `Spin` and of `GuardDrop`:

- `Spin` is a thread that keeps executing its loop under a preemptive
  scheduler;
- `GuardDrop` is callers eventually dropping their guards.

`SpinProgress` claims only that *some* thread gets the lock. A particular
spinner can starve, because the loop has no ordering.

## 4. Findings

1. `xlock.rs:116`: the `notify_one` in `write_unlock` wakes one of several
   parked readers. The rest stay asleep while readers are admitted. There is
   no deadlock: the next `read_unlock` that takes the count to 1 or 0
   notifies again. However, a timed `try_read` may time out while the lock
   is free for readers.
2. `xlock.rs:221`: `XLock::downgrade` is a safe pub function with no write
   guard argument. This breaks mutual exclusion in safe code.
3. `spinlock.rs:81`: `SpinLock::unlock` is a safe pub function. This also
   breaks mutual exclusion in safe code.
4. `xlock.rs:73`: `state.readers += 1` has no overflow check. After 2^32 read
   guards leaked with the safe `mem::forget`, a release build wraps the count
   to 0. `try_write` then admits a writer beside live readers. A debug build
   panics instead. std's `RwLock` panics on reader overflow in every build.

## 5. Proofs (TLAPS)

`XLockReadBiasedProofs` proves the following for **every** finite non-empty
set of threads:

- `MutualExclusionTheorem`: `Spec => []MutualExclusion`;
- `CountersTheorem`: `Spec => []CountersMatchGuards`.

The assumptions are the following:

- `ThreadsAssumption`: `Threads` is finite and non-empty;
- `ReaderModulusAssumption`: the counter width exceeds the thread count.

Under these, the wrapping arithmetic equals the plain arithmetic on every
reachable step. The lemmas `ModulusBound` and `RHBelowModulus` carry this.

**The inductive invariant.** Neither property is inductive on its own, so the
proofs use

`IInv == TypeOK /\ CountersMatchGuards /\ MutualExclusion /\ WaitingConsistent`

- `WaitingConsistent` says what a waiting thread holds. A parked or woken
  reader or writer holds no guard. A parked or woken upgrader still holds its
  read guard.
- Without it, the step in which a woken thread's `Grant` fires cannot be shown
  to keep `readers = |read guards|`. An upgrade turns a read guard into the
  write guard and sets `readers` to 0.

**The argument.**

1. The lemmas `RHAdd`, `RHRemove`, `RHKeep`, `SoleReader` and `NoReader` state
   how the set of read holders changes under a one-thread `EXCEPT`.
2. `AttemptPreserves` shows that the shared `Attempt` (park or grant)
   preserves `IInv` for every operation.
3. `NextIInv` has one step per action.
4. The theorems then follow by `PTL`.

`UrwLockProofs` proves `UrwCountersTheorem`, `InnerLockTheorem` and
`UrwTypeCorrect` under `UrwThreadsAssumption`. Its inductive invariant is

`UrwIInv == UrwTypeOK /\ UrwCountersMatchGuards /\ StageExclusion /\ InnerMatchesStages /\ InnerExclusion`

- `StageExclusion` says that a thread in a writer stage excludes every other
  thread from the reader and writer stages.
- `InnerMatchesStages` says that `rwWriters` and `rwReaders` are exactly the
  threads in `writing`/`dropWrite` and in `reading`/`dropRead`.
- `InnerExclusion` is std's guarantee for the inner lock: its write guard is
  its only guard. A writer in `dropWrite` can coexist with a new writer that
  is already past the counter. Without this conjunct, `ReleaseInnerWrite`
  and `DowngradeTake` cannot be shown to leave the inner lock free.
- `Frame(t)` describes a step of thread t that moves no other thread, except
  parked threads it wakes. Every action is such a step.
- Lemmas count `Holding(pc, X)`, the set of threads whose stage is in X.
- `InnerLockWaitsOnlyOnReleasing` follows from `UrwIInv`. A thread in
  `innerRead` or `innerWrite` is in a counter stage. `StageExclusion` then
  keeps every other thread out of `reading` and `writing`, so the inner
  guards it can meet are in `dropRead` or `dropWrite`.

`SpinLockProofs` proves `SpinMutualExclusionTheorem`. The invariant it uses
adds `FlagMatchesHolders`, which says the `AtomicBool` is set exactly while
a guard is live. A successful compare_exchange then finds no holder.

**Refinement.** `UrwRefinementTheorem` (in `UrwLockRefinement`) proves
`Spec => ImplementsRWLock` for every finite set of threads. The proof has
three parts:

1. `Init` maps to `RW!Init`.
2. Under the component's inductive invariant, every step maps to an
   abstract step or a stutter (`NextRefines`). A wait loop that exits
   finds the abstract precondition true, because the counter describes the
   stages (`NoWriteAccess`, `NoReadAccess`).
3. `PTL` combines the two.

`AccessUpdate` shows how the mapped function changes under a one-thread
step.

**No lost wakeup.** `XLockWakeupProofs` proves `NoLostWakeupTheorem`:
`Spec => []NoLostWakeup`. `NoLostWakeup` speaks only of states where every
thread sleeps, so it is far from inductive. Whether a sleeper will be woken
depends on who is still running. The inductive invariant is
`WInv == IInv /\ SleepersAccounted /\ UpgraderNotified /\ WriterIdle /\ OpWhileWaiting`,
checked by TLC on the four-thread instance before it was proved.

- `SleepersAccounted`: each parked thread satisfies one of the following:
  - its loop condition still holds;
  - some thread is `Awake` (woken, owing a notification, or idle with a
    guard it will drop);
  - two threads wait to upgrade.
- `UpgraderNotified`: a parked upgrader that has become the sole reader has
  a `notify_all` still to come. This is the notify_all `read_unlock` owes
  when the count falls to 1 (xlock.rs:85). It is the case a woken writer
  that re-parks would otherwise leave without a witness.
- `WriterIdle`: a write guard is held outside any moderator call.
- `OpWhileWaiting`: `op` names a call only while its thread waits.

The proof rests on `HolderWitness`: a held lock has an awake thread, or
only upgraders, two or more, hold it. The lemma is stated over arbitrary
values, so it applies to the state after a step (`HolderWitnessNext`).
Every action then leaves someone awake, the lock held, or nobody parked.
The exception is `Timeout`, which takes its witness from the state before.

**No stranded waiter.** `UrwLockProofs` also proves
`NoStrandedWaiterTheorem`. Unlike XLock, UrwLock notifies with the mutex
held. The step that frees the counter therefore also wakes a waiter
(`WakeOneWakes`), and `NoStrandedWaiter` is inductive given only the types
from `UrwIInv`.

**Only model-checked:** the liveness properties `SpinProgress` and
`WaitersServed`. Every safety invariant of a passing run is proved.

TLAPS cannot prove liveness under fairness or reason about ENABLED. No module
with a theorem uses RECURSIVE operators.

## 6. Not modelled, and the plan

Planned, in this order:

1. **Liveness of UrwLock**, in the form of `WaitersServed`.
2. **WriteBiased and ArrivalOrdered moderators**. Their code is not under
   `src/`, so they will be modelled from the spec (`spec_modelled`), along
   with `Completable`.

Not planned:

- **the `LockLike` façade**, which is forwarding only;
- **`Deref`/`DerefMut` and `get_mut`/`into_inner`**, which do not change lock
  state.
