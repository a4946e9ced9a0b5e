--------------------------- MODULE UrwLockRefinement ---------------------------
(***************************************************************************)
(* Proof that UrwLock implements the abstract reader-writer lock of RWLock *)
(* under CounterAccess: a thread holds what its stage at the counter layer *)
(* says.  The invariant UrwIInv of UrwLockProofs supplies what a granting  *)
(* step needs: the counter describes the threads in the reader and writer *)
(* stages, so the abstract precondition holds whenever a wait loop exits.  *)
(***************************************************************************)
EXTENDS UrwLockProofs

\* the access a stage stands for
AccessOf(s) ==
    IF s \in ReadStages THEN "read" ELSE IF s \in WriteStages THEN "write" ELSE "none"

(* A step of t that moves others only from parked to woken changes at most *)
(* t's entry of CounterAccess.                                             *)
LEMMA AccessUpdate ==
    ASSUME NEW t \in Threads, Frame(t)
    PROVE  CounterAccess' = [CounterAccess EXCEPT ![t] = AccessOf(pc'[t])]
<1>1. CounterAccess' = [u \in Threads |-> AccessOf(pc'[u])]
  BY DEF CounterAccess, AccessOf
<1>2. CounterAccess = [u \in Threads |-> AccessOf(pc[u])]
  BY DEF CounterAccess, AccessOf
<1>3. \A u \in Threads \ {t} : AccessOf(pc'[u]) = AccessOf(pc[u])
  BY DEF Frame, AccessOf, ReadStages, WriteStages
<1>. QED
  BY <1>1, <1>2, <1>3

(* ... and none when t stays within one kind of access.                    *)
LEMMA AccessKept ==
    ASSUME NEW t \in Threads, Frame(t), AccessOf(pc'[t]) = AccessOf(pc[t])
    PROVE  UNCHANGED CounterAccess
<1>1. CounterAccess' = [u \in Threads |-> AccessOf(pc'[u])]
  BY DEF CounterAccess, AccessOf
<1>2. CounterAccess = [u \in Threads |-> AccessOf(pc[u])]
  BY DEF CounterAccess, AccessOf
<1>3. \A u \in Threads : AccessOf(pc'[u]) = AccessOf(pc[u])
  BY DEF Frame, AccessOf, ReadStages, WriteStages
<1>. QED
  BY <1>1, <1>2, <1>3

(* A clear writer flag means no thread holds write access.                 *)
LEMMA NoWriteAccess ==
    ASSUME UrwIInv, ~writer
    PROVE  RW!NoWriter
BY DEF UrwIInv, UrwCountersMatchGuards, RW!NoWriter, CounterAccess

(* A zero reader count means no thread holds read access.                  *)
LEMMA NoReadAccess ==
    ASSUME UrwIInv, readers = 0
    PROVE  \A u \in Threads : pc[u] \notin ReadStages
<1>1. Cardinality(Holding(pc, ReadStages)) = 0 /\ IsFiniteSet(Holding(pc, ReadStages))
  BY HoldingFinite DEF UrwIInv, UrwCountersMatchGuards, Holding
<1>2. Holding(pc, ReadStages) = {}
  BY <1>1, FS_EmptySet
<1>. QED
  BY <1>2 DEF Holding

(* One test of read()'s or write()'s loop is a stutter when the thread     *)
(* parks, and the abstract acquire when the loop exits.                    *)
LEMMA AttemptRefines ==
    ASSUME UrwIInv, NEW t \in Threads, NEW o \in {"none", "read", "write"},
           pc[t] \in {"idle", "woken"}, Attempt(t, o)
    PROVE  [RW!Next]_CounterAccess
<1>0. /\ pc \in [Threads -> Stages]
      /\ CounterAccess[t] = "none"
  BY DEF UrwIInv, UrwTypeOK, CounterAccess, ReadStages, WriteStages
<1>1. CASE Blocked(o) /\ pc' = [pc EXCEPT ![t] = "parked"]
  <2>1. Frame(t) /\ AccessOf(pc'[t]) = AccessOf(pc[t])
    BY <1>0, <1>1 DEF Frame, AccessOf, ReadStages, WriteStages
  <2>. QED
    BY <2>1, AccessKept
<1>2. CASE ~Blocked(o) /\ o = "read" /\ GrantRead(t)
  <2>1. Frame(t) /\ AccessOf(pc'[t]) = "read"
    BY <1>0, <1>2 DEF GrantRead, Frame, AccessOf, ReadStages
  <2>2. CounterAccess' = [CounterAccess EXCEPT ![t] = "read"]
    BY <2>1, AccessUpdate, Zenon
  <2>3. RW!NoWriter
    BY <1>2, NoWriteAccess DEF Blocked
  <2>4. RW!AcquireRead(t)
    BY <1>0, <2>2, <2>3 DEF RW!AcquireRead
  <2>. QED
    BY <2>4 DEF RW!Next
<1>3. CASE ~Blocked(o) /\ o # "read" /\ GrantWrite(t)
  <2>1. Frame(t) /\ AccessOf(pc'[t]) = "write"
    BY <1>0, <1>3 DEF GrantWrite, Frame, AccessOf, ReadStages, WriteStages
  <2>2. CounterAccess' = [CounterAccess EXCEPT ![t] = "write"]
    BY <2>1, AccessUpdate, Zenon
  <2>3. readers = 0 /\ ~writer
    BY <1>3 DEF Blocked
  <2>4. RW!NoWriter /\ \A u \in Threads : pc[u] \notin ReadStages
    BY <2>3, NoWriteAccess, NoReadAccess
  <2>5. RW!OthersIdle(t)
    BY <2>4 DEF RW!NoWriter, RW!OthersIdle, CounterAccess
  <2>6. RW!AcquireWrite(t)
    BY <1>0, <2>2, <2>5 DEF RW!AcquireWrite
  <2>. QED
    BY <2>6 DEF RW!Next
<1>. QED
  BY <1>1, <1>2, <1>3 DEF Attempt

LEMMA NextRefines == UrwIInv /\ [Next]_vars => [RW!Next]_CounterAccess
<1>. SUFFICES ASSUME UrwIInv, [Next]_vars PROVE [RW!Next]_CounterAccess
  OBVIOUS
<1>0. pc \in [Threads -> Stages] /\ op \in [Threads -> {"none", "read", "write"}]
  BY DEF UrwIInv, UrwTypeOK
<1>1. ASSUME NEW t \in Threads, Read(t) \/ Write(t) \/ Reacquire(t)
      PROVE  [RW!Next]_CounterAccess
  BY <1>0, <1>1, AttemptRefines DEF Read, Write, Reacquire
(* steps within one kind of access: wakeups, the inner RwLock's acquires   *)
(* and releases, and the take() that starts a downgrade                     *)
<1>2. ASSUME NEW t \in Threads,
             \/ SpuriousWakeup(t) \/ AcquireInnerRead(t) \/ AcquireInnerWrite(t)
             \/ ReleaseInnerRead(t) \/ ReleaseInnerWrite(t) \/ DowngradeTake(t)
      PROVE  [RW!Next]_CounterAccess
  <2>1. Frame(t) /\ AccessOf(pc'[t]) = AccessOf(pc[t])
    BY <1>0, <1>2 DEF SpuriousWakeup, AcquireInnerRead, AcquireInnerWrite,
                      ReleaseInnerRead, ReleaseInnerWrite, DowngradeTake,
                      Frame, AccessOf, ReadStages, WriteStages
  <2>. QED
    BY <2>1, AccessKept
<1>3. ASSUME NEW t \in Threads, ReadUnlock(t)
      PROVE  [RW!Next]_CounterAccess
  <2>1. pc[t] = "reading" /\ Frame(t) /\ AccessOf(pc'[t]) = "none"
    BY <1>0, <1>3 DEF ReadUnlock, WakeOne, WakeAll, Parked, Frame, AccessOf,
                      ReadStages, WriteStages
  <2>2. CounterAccess' = [CounterAccess EXCEPT ![t] = "none"]
    BY <2>1, AccessUpdate, Zenon
  <2>3. RW!Release(t)
    BY <2>1, <2>2 DEF RW!Release, CounterAccess, ReadStages
  <2>. QED
    BY <2>3 DEF RW!Next
<1>4. ASSUME NEW t \in Threads, WriteUnlock(t)
      PROVE  [RW!Next]_CounterAccess
  <2>1. pc[t] = "writing" /\ Frame(t) /\ AccessOf(pc'[t]) = "none"
    BY <1>0, <1>4 DEF WriteUnlock, WakeOne, Parked, Frame, AccessOf,
                      ReadStages, WriteStages
  <2>2. CounterAccess' = [CounterAccess EXCEPT ![t] = "none"]
    BY <2>1, AccessUpdate, Zenon
  <2>3. RW!Release(t)
    BY <2>1, <2>2 DEF RW!Release, CounterAccess, ReadStages, WriteStages
  <2>. QED
    BY <2>3 DEF RW!Next
<1>5. ASSUME NEW t \in Threads, Downgrade(t)
      PROVE  [RW!Next]_CounterAccess
  <2>1. pc[t] = "downgrading" /\ Frame(t) /\ AccessOf(pc'[t]) = "read"
    BY <1>0, <1>5 DEF Downgrade, WakeAll, Frame, AccessOf, ReadStages
  <2>2. CounterAccess' = [CounterAccess EXCEPT ![t] = "read"]
    BY <2>1, AccessUpdate, Zenon
  <2>3. RW!Downgrade(t)
    BY <2>1, <2>2 DEF RW!Downgrade, CounterAccess, ReadStages, WriteStages
  <2>. QED
    BY <2>3 DEF RW!Next
<1>6. CASE UNCHANGED vars
  BY <1>6 DEF vars, CounterAccess
<1>. QED
  BY <1>1, <1>2, <1>3, <1>4, <1>5, <1>6 DEF Next

(* UrwLock<T> implements the abstract reader-writer lock: for any finite   *)
(* set of threads, every read(), write(), wakeup, inner RwLock step, guard *)
(* drop and downgrade either leaves every thread's access as it is or is   *)
(* one abstract acquire, release or downgrade taken only when the abstract *)
(* lock allows it.                                                         *)
THEOREM UrwRefinementTheorem == Spec => ImplementsRWLock
<1>1. Init => RW!Init
  BY DEF Init, RW!Init, CounterAccess, ReadStages, WriteStages
<1>2. Spec => []UrwIInv
  BY InitUrwIInv, NextUrwIInv, PTL DEF Spec
<1>. QED
  BY <1>1, <1>2, NextRefines, PTL DEF Spec, ImplementsRWLock, RW!Spec
=============================================================================
