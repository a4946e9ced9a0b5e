-------------------------- MODULE XLockWakeupProofs --------------------------
(***************************************************************************)
(* Proof that the read-biased XLock loses no wakeup (NoLostWakeup), for    *)
(* every finite set of threads.                                            *)
(*                                                                         *)
(* NoLostWakeup speaks of a state where every thread sleeps; it is not     *)
(* inductive, because whether a sleeper will be woken depends on who is    *)
(* still running.  The strengthening says, for every parked thread, why it *)
(* will not sleep for good: its loop condition still holds, or some thread *)
(* is awake (woken, owing a notification, or idle with a guard it will     *)
(* drop), or two upgraders wait on each other.  A woken thread that parks  *)
(* again must leave another witness behind; the one case where none is    *)
(* left by the counts alone -- a parked upgrader that is the sole reader   *)
(* -- is covered by the notify_all that read_unlock owes when the count    *)
(* falls to 1 (xlock.rs:85).                                               *)
(***************************************************************************)
EXTENDS XLockReadBiasedProofs

\* the threads waiting inside try_upgrade, by the op function o
UpgradersIn(o) == {t \in Threads : o[t] = "upgrade"}

Upgraders == UpgradersIn(op)

\* some thread will take a step that changes the lock or wakes a waiter
AwakeIn(p, g) ==
    \E u \in Threads :
        \/ p[u] \in {"woken", "notifyOne", "notifyAll"}
        \/ p[u] = "idle" /\ g[u] # "none"

Awake == AwakeIn(pc, guard)

(* Each parked thread is blocked by the current state, or will be woken.   *)
SleepersAccounted ==
    \A t \in Parked :
        Blocked(op[t]) \/ Awake \/ Cardinality(Upgraders) >= 2

(* A parked upgrader that has become the sole reader has the notify_all of *)
(* read_unlock (count fell to 1) still to come.                            *)
UpgraderNotified ==
    \A t \in Parked :
        op[t] = "upgrade" /\ readers = 1 => \E u \in Threads : pc[u] = "notifyAll"

\* a write guard is held only outside any moderator call
WriterIdle == \A t \in Threads : guard[t] = "write" => pc[t] = "idle"

\* op names a call only while the thread waits in it
OpWhileWaiting == \A t \in Threads : op[t] # "none" => pc[t] \in {"parked", "woken"}

WInv ==
    /\ IInv
    /\ SleepersAccounted
    /\ UpgraderNotified
    /\ WriterIdle
    /\ OpWhileWaiting

-----------------------------------------------------------------------------
(* A held lock always has someone awake to release it, unless its holders  *)
(* are two or more upgraders waiting on each other.  Stated over arbitrary *)
(* values so that it applies to the state after a step as well.            *)
LEMMA HolderWitness ==
    ASSUME NEW p \in [Threads -> PcValues], NEW g \in [Threads -> GuardKinds],
           NEW o \in [Threads -> Ops], NEW r, NEW w,
           r = Cardinality(RH(g)),
           w => \E u \in Threads : g[u] = "write",
           \A u \in Threads : g[u] = "write" => p[u] = "idle",
           \A u \in Threads : p[u] = "parked" /\ g[u] = "read" => o[u] = "upgrade",
           \A u \in Threads : p[u] = "parked" /\ o[u] = "upgrade" /\ r = 1
                                => \E v \in Threads : p[v] = "notifyAll",
           r # 0 \/ w
    PROVE  AwakeIn(p, g) \/ Cardinality(UpgradersIn(o)) >= 2
<1>1. CASE w
  BY <1>1 DEF AwakeIn, GuardKinds
<1>2. CASE ~w /\ ~AwakeIn(p, g)
  <2>1. \A u \in RH(g) : p[u] = "parked" /\ o[u] = "upgrade"
    BY <1>2 DEF AwakeIn, RH, PcValues
  <2>2. r \in Nat /\ r # 0 /\ IsFiniteSet(RH(g))
    BY <1>2, RHFinite, FS_CardinalityType
  <2>3. RH(g) # {}
    BY <2>2, FS_EmptySet
  <2>4. r # 1
    <3>1. PICK u \in RH(g) : TRUE
      BY <2>3
    <3>2. p[u] = "parked" /\ o[u] = "upgrade"
      BY <2>1
    <3>. QED
      BY <1>2, <3>1, <3>2 DEF AwakeIn, RH
  <2>5. RH(g) \subseteq UpgradersIn(o) /\ IsFiniteSet(UpgradersIn(o))
    BY <2>1, ThreadsAssumption, FS_Subset DEF RH, UpgradersIn
  <2>6. /\ Cardinality(RH(g)) <= Cardinality(UpgradersIn(o))
        /\ Cardinality(UpgradersIn(o)) \in Nat
    BY <2>5, FS_Subset, FS_CardinalityType
  <2>. QED
    BY <2>2, <2>4, <2>6
<1>. QED
  BY <1>1, <1>2

(* A blocked loop test means the lock is held.                             *)
LEMMA BlockedHeld ==
    ASSUME IInv, NEW t \in Threads, NEW o \in {"read", "write", "upgrade"},
           o = "upgrade" => guard[t] = "read", Blocked(o)
    PROVE  readers # 0 \/ writer
<1>1. CASE o = "upgrade"
  <2>1. t \in RH(guard) /\ IsFiniteSet(RH(guard))
    BY <1>1, RHFinite DEF RH
  <2>2. Cardinality(RH(guard)) # 0
    BY <2>1, FS_EmptySet
  <2>. QED
    BY <2>2 DEF IInv, CountersMatchGuards, ReadHolders, RH
<1>. QED
  BY <1>1 DEF Blocked, ReadBlocked, WriteBlocked

(* HolderWitness, for the state after a step.                              *)
LEMMA HolderWitnessNext ==
    ASSUME IInv', WriterIdle', UpgraderNotified', readers' # 0 \/ writer'
    PROVE  Awake' \/ Cardinality(Upgraders') >= 2
<1>1. /\ pc' \in [Threads -> PcValues] /\ guard' \in [Threads -> GuardKinds]
      /\ op' \in [Threads -> Ops]
      /\ readers' = Cardinality(RH(guard'))
      /\ writer' => \E u \in Threads : guard'[u] = "write"
      /\ \A u \in Threads : guard'[u] = "write" => pc'[u] = "idle"
      /\ \A u \in Threads : pc'[u] = "parked" /\ guard'[u] = "read" => op'[u] = "upgrade"
      /\ \A u \in Threads : pc'[u] = "parked" /\ op'[u] = "upgrade" /\ readers' = 1
                              => \E v \in Threads : pc'[v] = "notifyAll"
  BY DEF IInv, TypeOK, CountersMatchGuards, ReadHolders, RH, WriteHolders,
         WaitingConsistent, WriterIdle, UpgraderNotified, Parked
<1>2. AwakeIn(pc', guard') \/ Cardinality(UpgradersIn(op')) >= 2
  BY <1>1, HolderWitness
<1>. QED
  BY <1>2 DEF Awake, Upgraders

LEMMA InitWInv == Init => WInv
<1>. SUFFICES ASSUME Init PROVE WInv
  OBVIOUS
<1>1. IInv
  BY InitIInv
<1>2. Parked = {}
  BY DEF Init, Parked
<1>. QED
  BY <1>1, <1>2 DEF Init, WInv, SleepersAccounted, UpgraderNotified, WriterIdle,
                    OpWhileWaiting

(* When every thread is parked without a deadline, no thread is awake, so *)
(* each is blocked; blocked means held, and a held lock with nobody awake *)
(* has two upgraders waiting.                                              *)
LEMMA WInvNoLostWakeup == WInv => NoLostWakeup
<1>. SUFFICES ASSUME WInv, \A t \in Threads : pc[t] = "parked" /\ ~timed[t]
              PROVE  Cardinality(Upgraders) >= 2
  BY DEF NoLostWakeup, Upgraders, UpgradersIn
<1>1. ~Awake
  BY DEF Awake, AwakeIn
<1>2. PICK t \in Threads : TRUE
  BY ThreadsAssumption
<1>3. /\ op[t] \in {"read", "write", "upgrade"}
      /\ op[t] = "upgrade" => guard[t] = "read"
  BY DEF WInv, IInv, WaitingConsistent
<1>4. Blocked(op[t]) \/ Cardinality(Upgraders) >= 2
  BY <1>1 DEF WInv, SleepersAccounted, Parked
<1>5. CASE Blocked(op[t])
  <2>1. readers # 0 \/ writer
    BY <1>3, <1>5, BlockedHeld DEF WInv
  <2>2. /\ pc \in [Threads -> PcValues] /\ guard \in [Threads -> GuardKinds]
        /\ op \in [Threads -> Ops]
        /\ readers = Cardinality(RH(guard))
        /\ writer => \E u \in Threads : guard[u] = "write"
        /\ \A u \in Threads : guard[u] = "write" => pc[u] = "idle"
        /\ \A u \in Threads : pc[u] = "parked" /\ guard[u] = "read" => op[u] = "upgrade"
        /\ \A u \in Threads : pc[u] = "parked" /\ op[u] = "upgrade" /\ readers = 1
                                => \E v \in Threads : pc[v] = "notifyAll"
    BY DEF WInv, IInv, TypeOK, CountersMatchGuards, ReadHolders, RH, WriteHolders,
           WaitingConsistent, WriterIdle, UpgraderNotified, Parked
  <2>3. AwakeIn(pc, guard) \/ Cardinality(UpgradersIn(op)) >= 2
    BY <2>1, <2>2, HolderWitness
  <2>. QED
    BY <1>1, <2>3 DEF Awake, Upgraders
<1>. QED
  BY <1>4, <1>5

-----------------------------------------------------------------------------
(* The step cases.  Each action re-establishes the three bookkeeping       *)
(* conjuncts, and leaves someone awake, the lock held, or nobody parked.   *)

\* the conjuncts of WInv beyond IInv and SleepersAccounted
Bookkeeping == WriterIdle /\ OpWhileWaiting /\ UpgraderNotified

\* after the step, SleepersAccounted follows from HolderWitness
Lively == Awake \/ readers # 0 \/ writer \/ Parked = {}

\* the facts of WInv the step cases use
LEMMA UnpackWInv ==
    ASSUME WInv
    PROVE  /\ IInv /\ WriterIdle /\ OpWhileWaiting /\ UpgraderNotified
           /\ pc \in [Threads -> PcValues] /\ guard \in [Threads -> GuardKinds]
           /\ op \in [Threads -> Ops]
           /\ \A u \in Threads : pc[u] = "parked" /\ guard[u] = "read" => op[u] = "upgrade"
BY DEF WInv, IInv, TypeOK, WaitingConsistent

LEMMA AttemptW ==
    ASSUME WInv, NEW t \in Threads, NEW o \in {"read", "write", "upgrade"},
           NEW d \in BOOLEAN,
           o \in {"read", "write"} => guard[t] = "none",
           o = "upgrade" => guard[t] = "read",
           pc[t] \in {"idle", "woken"},
           Attempt(t, o, d)
    PROVE  Bookkeeping' /\ Lively'
<1>0. /\ IInv /\ WriterIdle /\ OpWhileWaiting /\ UpgraderNotified
      /\ pc \in [Threads -> PcValues] /\ guard \in [Threads -> GuardKinds]
      /\ op \in [Threads -> Ops]
  BY UnpackWInv
<1>1. CASE Blocked(o) /\ Park(t, o, d)
  <2>1. /\ UNCHANGED <<readers, writer, guard>>
        /\ pc' = [pc EXCEPT ![t] = "parked"]
        /\ op' = [op EXCEPT ![t] = o]
    BY <1>1 DEF Park
  <2>2. WriterIdle' /\ OpWhileWaiting'
    BY <1>0, <2>1 DEF WriterIdle, OpWhileWaiting
  <2>3. UpgraderNotified'
    BY <1>0, <1>1, <2>1 DEF UpgraderNotified, Parked, Blocked, UpgradeBlocked
  <2>4. readers' # 0 \/ writer'
    BY <1>0, <1>1, <2>1, BlockedHeld
  <2>. QED
    BY <2>2, <2>3, <2>4 DEF Bookkeeping, Lively
<1>2. CASE ~Blocked(o) /\ Grant(t, o)
  <2>1. /\ pc' = [pc EXCEPT ![t] = "idle"]
        /\ op' = [op EXCEPT ![t] = "none"]
        /\ guard' = [guard EXCEPT ![t] = guard'[t]]
        /\ guard'[t] \in {"read", "write"}
        /\ o \in {"write", "upgrade"} => guard'[t] = "write"
    BY <1>0, <1>2 DEF Grant, GrantRead, GrantWrite, GrantUpgrade
  <2>2. WriterIdle' /\ OpWhileWaiting'
    BY <1>0, <2>1 DEF WriterIdle, OpWhileWaiting
  <2>3. Awake'
    BY <1>0, <2>1 DEF Awake, AwakeIn
  <2>4. IInv'
    BY <1>0, <1>2, AttemptPreserves DEF Attempt
  <2>5. UpgraderNotified'
    <3>. SUFFICES ASSUME NEW u \in Threads, pc'[u] = "parked", op'[u] = "upgrade",
                         readers' = 1
                  PROVE  FALSE
      BY DEF UpgraderNotified, Parked
    <3>1. u # t /\ guard'[u] = "read"
      BY <2>1, <2>4 DEF IInv, WaitingConsistent
    <3>2. Cardinality(RH(guard')) = 1
      BY <2>4 DEF IInv, CountersMatchGuards, ReadHolders, RH
    <3>3. RH(guard') = {u}
      BY <3>1, <3>2, SoleReader
    <3>4. guard'[t] = "write"
      BY <2>1, <3>1, <3>3 DEF RH
    <3>. QED
      BY <2>4, <3>1, <3>4 DEF IInv, MutualExclusion, WriteHolders
  <2>. QED
    BY <2>2, <2>3, <2>5 DEF Bookkeeping, Lively
<1>. QED
  BY <1>1, <1>2 DEF Attempt

LEMMA NextWInv == WInv /\ [Next]_vars => WInv'
<1>. SUFFICES ASSUME WInv, [Next]_vars PROVE WInv'
  OBVIOUS
<1>0. /\ IInv /\ WriterIdle /\ OpWhileWaiting /\ UpgraderNotified
      /\ pc \in [Threads -> PcValues] /\ guard \in [Threads -> GuardKinds]
      /\ op \in [Threads -> Ops]
      /\ \A u \in Threads : pc[u] = "parked" /\ guard[u] = "read" => op[u] = "upgrade"
  BY UnpackWInv
<1>1. IInv'
  BY <1>0, NextIInv
(* SleepersAccounted' from the bookkeeping and liveliness after the step *)
<1>2. ASSUME Bookkeeping', Lively' PROVE WInv'
  <2>1. CASE readers' # 0 \/ writer'
    BY <1>1, <1>2, <2>1, HolderWitnessNext DEF Bookkeeping, WInv, SleepersAccounted
  <2>. QED
    BY <1>1, <1>2, <2>1 DEF Bookkeeping, Lively, WInv, SleepersAccounted
<1>3. ASSUME NEW t \in Threads, NEW d \in BOOLEAN,
             TryRead(t, d) \/ TryWrite(t, d) \/ TryUpgrade(t, d)
      PROVE  WInv'
  BY <1>2, <1>3, AttemptW DEF TryRead, TryWrite, TryUpgrade
<1>4. ASSUME NEW t \in Threads, Reacquire(t) PROVE WInv'
  <2>1. /\ op[t] \in {"read", "write", "upgrade"}
        /\ op[t] \in {"read", "write"} => guard[t] = "none"
        /\ op[t] = "upgrade" => guard[t] = "read"
        /\ timed[t] \in BOOLEAN
    BY <1>4 DEF Reacquire, WInv, IInv, WaitingConsistent, TypeOK
  <2>. QED
    BY <1>2, <1>4, <2>1, AttemptW DEF Reacquire
<1>5. ASSUME NEW t \in Threads, SpuriousWakeup(t) PROVE WInv'
  <2>1. Bookkeeping'
    BY <1>0, <1>5 DEF SpuriousWakeup, Bookkeeping, WriterIdle, OpWhileWaiting,
                      UpgraderNotified, Parked
  <2>2. Awake'
    BY <1>0, <1>5 DEF SpuriousWakeup, Awake, AwakeIn
  <2>. QED
    BY <1>2, <2>1, <2>2 DEF Lively
(* a timed-out thread may have been the sleepers' only hope: the witness  *)
(* comes from the state before                                             *)
<1>6. ASSUME NEW t \in Threads, Timeout(t) PROVE WInv'
  <2>1. Bookkeeping'
    BY <1>0, <1>6 DEF Timeout, Bookkeeping, WriterIdle, OpWhileWaiting,
                      UpgraderNotified, Parked
  <2>2. CASE op[t] = "upgrade"
    <3>1. guard[t] = "read"
      BY <1>6, <2>2 DEF Timeout, WInv, IInv, WaitingConsistent
    <3>2. Awake'
      BY <1>0, <1>6, <3>1 DEF Timeout, Awake, AwakeIn
    <3>. QED
      BY <1>2, <2>1, <3>2 DEF Lively
  <2>3. CASE op[t] # "upgrade"
    <3>1. Upgraders' = Upgraders
      BY <1>0, <1>6, <2>3 DEF Timeout, Upgraders, UpgradersIn
    <3>2. Awake => Awake'
      BY <1>0, <1>6 DEF Timeout, Awake, AwakeIn
    <3>3. SleepersAccounted'
      BY <1>0, <1>6, <3>1, <3>2 DEF Timeout, WInv, SleepersAccounted, Parked,
                                     Blocked, ReadBlocked, WriteBlocked, UpgradeBlocked
    <3>. QED
      BY <1>1, <2>1, <3>3 DEF Bookkeeping, WInv
  <2>. QED
    BY <2>2, <2>3
<1>7. ASSUME NEW t \in Threads, ReadUnlock(t) PROVE WInv'
  <2>1. op[t] = "none"
    BY <1>0, <1>7 DEF ReadUnlock, OpWhileWaiting
  <2>2. Bookkeeping'
    BY <1>0, <1>7, <2>1 DEF ReadUnlock, Bookkeeping, WriterIdle, OpWhileWaiting,
                            UpgraderNotified, Parked
  <2>3. Lively'
    BY <1>0, <1>7 DEF ReadUnlock, Lively, Awake, AwakeIn
  <2>. QED
    BY <1>2, <2>2, <2>3
<1>8. ASSUME NEW t \in Threads, WriteUnlock(t) \/ Downgrade(t) PROVE WInv'
  <2>1. op[t] = "none"
    BY <1>0, <1>8 DEF WriteUnlock, Downgrade, OpWhileWaiting
  <2>2. Bookkeeping'
    BY <1>0, <1>8, <2>1 DEF WriteUnlock, Downgrade, Bookkeeping, WriterIdle,
                            OpWhileWaiting, UpgraderNotified, Parked
  <2>3. Lively'
    BY <1>0, <1>8 DEF WriteUnlock, Downgrade, Lively, Awake, AwakeIn
  <2>. QED
    BY <1>2, <2>2, <2>3
<1>9. ASSUME NEW t \in Threads, NotifyOne(t) PROVE WInv'
  <2>1. op[t] = "none" /\ guard[t] # "write"
    BY <1>0, <1>9 DEF NotifyOne, OpWhileWaiting, WriterIdle
  <2>2. CASE Parked = {} /\ pc' = [pc EXCEPT ![t] = "idle"]
    <3>1. Bookkeeping' /\ Parked' = {}
      BY <1>0, <1>9, <2>1, <2>2 DEF NotifyOne, Bookkeeping, WriterIdle,
                                     OpWhileWaiting, UpgraderNotified, Parked
    <3>. QED
      BY <1>2, <3>1 DEF Lively
  <2>4. CASE \E w \in Parked : pc' = [pc EXCEPT ![t] = "idle", ![w] = "woken"]
    <3>1. PICK w \in Parked : pc' = [pc EXCEPT ![t] = "idle", ![w] = "woken"]
      BY <2>4
    <3>2. guard[w] # "write" /\ w # t
      BY <1>0, <1>9, <3>1 DEF WriterIdle, Parked, NotifyOne
    <3>3. Bookkeeping'
      BY <1>0, <1>9, <2>1, <3>1, <3>2 DEF NotifyOne, Bookkeeping, WriterIdle,
                                          OpWhileWaiting, UpgraderNotified, Parked
    <3>4. Awake'
      BY <1>0, <3>1, <3>2 DEF Awake, AwakeIn, Parked
    <3>. QED
      BY <1>2, <3>3, <3>4 DEF Lively
  <2>. QED
    BY <1>9, <2>2, <2>4 DEF NotifyOne
<1>10. ASSUME NEW t \in Threads, NotifyAll(t) PROVE WInv'
  <2>1. op[t] = "none" /\ guard[t] # "write"
    BY <1>0, <1>10 DEF NotifyAll, OpWhileWaiting, WriterIdle
  <2>2. Bookkeeping' /\ Parked' = {}
    BY <1>0, <1>10, <2>1 DEF NotifyAll, Bookkeeping, WriterIdle, OpWhileWaiting,
                             UpgraderNotified, Parked
  <2>. QED
    BY <1>2, <2>2 DEF Lively
<1>11. CASE UNCHANGED vars
  BY <1>11 DEF vars, WInv, IInv, TypeOK, CountersMatchGuards, MutualExclusion,
               WaitingConsistent, ReadHolders, WriteHolders, SleepersAccounted,
               UpgraderNotified, WriterIdle, OpWhileWaiting, Parked, Awake, AwakeIn,
               Upgraders, UpgradersIn, Blocked, ReadBlocked, WriteBlocked,
               UpgradeBlocked
<1>. QED
  BY <1>3, <1>4, <1>5, <1>6, <1>7, <1>8, <1>9, <1>10, <1>11 DEF Next

(* The read-biased XLock loses no wakeup, for every finite set of threads: *)
(* through any interleaving of calls, timeouts, spurious wakeups and the   *)
(* notifications read_unlock, write_unlock and downgrade send after        *)
(* dropping the mutex, the threads never all sleep without a deadline      *)
(* unless two of them wait to upgrade (the deadlock spec section 8         *)
(* documents).                                                              *)
THEOREM NoLostWakeupTheorem == Spec => []NoLostWakeup
<1>1. Spec => []WInv
  BY InitWInv, NextWInv, PTL DEF Spec
<1>. QED
  BY <1>1, WInvNoLostWakeup, PTL
=============================================================================
