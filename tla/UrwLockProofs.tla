---------------------------- MODULE UrwLockProofs ----------------------------
(***************************************************************************)
(* Proofs that UrwLock's counter and its inner RwLock stay in step: the    *)
(* counter accounts for the guards and the inner lock never makes a thread *)
(* wait on a waiting thread, for every finite set of threads.              *)
(***************************************************************************)
EXTENDS UrwLock, FiniteSetTheorems, TLAPS

\* the threads whose stage is in X
Holding(p, X) == {u \in Threads : p[u] \in X}

InnerWriteStages == {"writing", "dropWrite"}

InnerReadStages == {"reading", "dropRead"}

(* A thread between write()'s loop and write_unlock/downgrade excludes     *)
(* every other thread from both the reader and the writer stages.          *)
StageExclusion ==
    \A t \in Holding(pc, WriteStages) :
        \A u \in Threads \ {t} : pc[u] \notin WriteStages \cup ReadStages

(* The inner RwLock is held exactly by the threads whose guard holds it.   *)
InnerMatchesStages ==
    /\ rwWriters = Holding(pc, InnerWriteStages)
    /\ rwReaders = Holding(pc, InnerReadStages)

(* std's RwLock: a write guard of the inner lock is the only guard of it.  *)
InnerExclusion ==
    \A w \in rwWriters : rwWriters = {w} /\ rwReaders = {}

UrwIInv ==
    /\ UrwTypeOK
    /\ UrwCountersMatchGuards
    /\ StageExclusion
    /\ InnerMatchesStages
    /\ InnerExclusion

\* a step of thread t that moves no other thread, except parked ones it wakes
Frame(t) ==
    \A u \in Threads \ {t} : pc'[u] = pc[u] \/ (pc[u] = "parked" /\ pc'[u] = "woken")

-----------------------------------------------------------------------------
(* How a step of one thread changes the sets of threads in given stages.   *)

LEMMA HoldingFinite ==
    ASSUME NEW p, NEW X
    PROVE  IsFiniteSet(Holding(p, X))
BY UrwThreadsAssumption, FS_Subset DEF Holding

LEMMA HoldingAdd ==
    ASSUME NEW p, NEW X, NEW t, t \notin Holding(p, X)
    PROVE  Cardinality(Holding(p, X) \cup {t}) = Cardinality(Holding(p, X)) + 1
<1>1. IsFiniteSet(Holding(p, X))
  BY HoldingFinite
<1>. QED
  BY <1>1, FS_AddElement, Zenon

LEMMA HoldingRemove ==
    ASSUME NEW p, NEW X, NEW t, t \in Holding(p, X)
    PROVE  Cardinality(Holding(p, X) \ {t}) = Cardinality(Holding(p, X)) - 1
<1>1. IsFiniteSet(Holding(p, X))
  BY HoldingFinite
<1>. QED
  BY <1>1, FS_RemoveElement, Zenon

LEMMA InitUrwIInv == Init => UrwIInv
<1>. SUFFICES ASSUME Init PROVE UrwIInv
  OBVIOUS
<1>2. writer \in BOOLEAN /\ ~writer
  BY Zenon DEF Init
<1>3. UrwTypeOK
  BY <1>2 DEF Init, UrwTypeOK, Stages
<1>4. UrwCountersMatchGuards
  <2>1. {t \in Threads : pc[t] \in ReadStages} = {}
    BY DEF Init, ReadStages
  <2>2. {t \in Threads : pc[t] \in WriteStages} = {}
    BY DEF Init, WriteStages
  <2>. QED
    BY <1>2, <2>1, <2>2, FS_EmptySet DEF Init, UrwCountersMatchGuards
<1>5. StageExclusion /\ InnerMatchesStages /\ InnerExclusion
  BY DEF Init, StageExclusion, InnerMatchesStages, Holding, WriteStages,
         InnerWriteStages, InnerReadStages, InnerExclusion
<1>. QED
  BY <1>3, <1>4, <1>5 DEF UrwIInv

(* The facts of the invariant in the form the step proofs use.             *)
LEMMA UnpackIInv ==
    ASSUME UrwIInv
    PROVE  /\ UrwTypeOK /\ StageExclusion /\ InnerMatchesStages
           /\ pc \in [Threads -> Stages]
           /\ readers = Cardinality(Holding(pc, ReadStages))
           /\ writer \in BOOLEAN
           /\ writer <=> Holding(pc, WriteStages) # {}
BY DEF UrwIInv, UrwTypeOK, UrwCountersMatchGuards, Holding

(* One test of read()'s or write()'s wait loop, from idle or after a wakeup. *)
LEMMA AttemptPreserves ==
    ASSUME UrwIInv, NEW t \in Threads, NEW o \in {"none", "read", "write"},
           NEW from \in {"idle", "woken"}, pc[t] = from, Attempt(t, o)
    PROVE  UrwIInv'
<1>0. /\ UrwTypeOK /\ StageExclusion /\ InnerMatchesStages
      /\ pc \in [Threads -> Stages]
      /\ readers = Cardinality(Holding(pc, ReadStages))
      /\ writer \in BOOLEAN
      /\ writer <=> Holding(pc, WriteStages) # {}
  BY UnpackIInv
<1>x. InnerExclusion'
  BY DEF UrwIInv, InnerExclusion, Attempt
<1>1. CASE /\ Blocked(o) /\ pc' = [pc EXCEPT ![t] = "parked"]
           /\ op' = [op EXCEPT ![t] = o] /\ UNCHANGED <<readers, writer>>
           /\ UNCHANGED <<rwReaders, rwWriters>>
  <2>1. /\ pc[t] = from /\ pc' \in [Threads -> Stages] /\ pc'[t] = "parked"
        /\ Frame(t)
    BY <1>0, <1>1 DEF Attempt, Frame, Stages, Attempt
  <2>2. /\ Holding(pc', ReadStages) = Holding(pc, ReadStages)
        /\ Holding(pc', WriteStages) = Holding(pc, WriteStages)
        /\ Holding(pc', InnerReadStages) = Holding(pc, InnerReadStages)
        /\ Holding(pc', InnerWriteStages) = Holding(pc, InnerWriteStages)
    BY <1>0, <2>1 DEF Holding, Frame, ReadStages, WriteStages, InnerReadStages, InnerWriteStages
  <2>3. UNCHANGED <<readers, writer>>
    BY <1>1
  <2>4. UrwTypeOK'
    BY <1>0, <1>1, <2>1, <2>3 DEF Attempt, UrwTypeOK
  <2>5. StageExclusion'
    BY <1>0, <2>1 DEF StageExclusion, Holding, Frame, WriteStages, ReadStages
  <2>6. InnerMatchesStages'
    BY <1>0, <1>1, <2>2 DEF Attempt, InnerMatchesStages, Holding
  <2>. QED
    BY <1>0, <2>2, <2>3, <2>4, <2>5, <2>6, <1>x
       DEF UrwIInv, UrwCountersMatchGuards, Holding
<1>2. CASE /\ ~Blocked(o) /\ o = "read" /\ GrantRead(t)
           /\ op' = [op EXCEPT ![t] = "none"] /\ UNCHANGED <<rwReaders, rwWriters>>
  <2>1. /\ pc[t] = from /\ pc' \in [Threads -> Stages] /\ pc'[t] = "innerRead"
        /\ Frame(t)
    BY <1>0, <1>2 DEF GrantRead, Frame, Stages, Attempt
  <2>2. Holding(pc, WriteStages) = {}
    BY <1>0, <1>2 DEF Blocked
  <2>3. /\ Holding(pc', ReadStages) = Holding(pc, ReadStages) \cup {t}
        /\ Holding(pc', WriteStages) = Holding(pc, WriteStages)
        /\ Holding(pc', InnerReadStages) = Holding(pc, InnerReadStages)
        /\ Holding(pc', InnerWriteStages) = Holding(pc, InnerWriteStages)
    BY <1>0, <2>1, <2>2 DEF Holding, Frame, ReadStages, WriteStages, InnerReadStages, InnerWriteStages
  <2>4. Cardinality(Holding(pc, ReadStages) \cup {t}) = Cardinality(Holding(pc, ReadStages)) + 1
    <3>1. t \notin Holding(pc, ReadStages)
      BY <2>1 DEF Holding, ReadStages
    <3>. QED
      BY <3>1, HoldingAdd, Zenon
  <2>5. writer' = writer /\ readers' = Cardinality(Holding(pc, ReadStages)) + 1
    BY <1>0, <1>2 DEF GrantRead
  <2>6. UrwTypeOK'
    BY <1>0, <1>2, <2>1, <2>5 DEF GrantRead, UrwTypeOK
  <2>7. StageExclusion'
    BY <1>0, <2>1, <2>2 DEF StageExclusion, Holding, Frame, WriteStages, ReadStages
  <2>8. InnerMatchesStages'
    BY <1>0, <1>2, <2>3 DEF GrantRead, InnerMatchesStages, Holding
  <2>. QED
    BY <1>0, <2>3, <2>5, <2>4, <2>6, <2>7, <2>8, <1>x
       DEF UrwIInv, UrwCountersMatchGuards, Holding
<1>3. CASE /\ ~Blocked(o) /\ o # "read" /\ GrantWrite(t)
           /\ op' = [op EXCEPT ![t] = "none"] /\ UNCHANGED <<rwReaders, rwWriters>>
  <2>1. /\ pc[t] = from /\ pc' \in [Threads -> Stages] /\ pc'[t] = "innerWrite"
        /\ Frame(t)
    BY <1>0, <1>3 DEF GrantWrite, Frame, Stages, Attempt
  <2>2. Holding(pc, WriteStages) = {} /\ Holding(pc, ReadStages) = {}
    BY <1>0, <1>3, HoldingFinite, FS_EmptySet DEF Blocked
  <2>3. /\ Holding(pc', ReadStages) = {}
        /\ Holding(pc', WriteStages) = {t}
        /\ Holding(pc', InnerReadStages) = Holding(pc, InnerReadStages)
        /\ Holding(pc', InnerWriteStages) = Holding(pc, InnerWriteStages)
    BY <1>0, <2>1, <2>2 DEF Holding, Frame, ReadStages, WriteStages, InnerReadStages, InnerWriteStages
  <2>4. writer' = TRUE /\ writer' \in BOOLEAN /\ readers' = 0 /\ Cardinality({}) = 0
    BY <1>0, <1>3, FS_EmptySet DEF Blocked, GrantWrite
  <2>5. UrwTypeOK'
    BY <1>0, <1>3, <2>1, <2>4 DEF GrantWrite, UrwTypeOK
  <2>6. StageExclusion'
    BY <1>0, <2>1, <2>2 DEF StageExclusion, Holding, Frame, WriteStages, ReadStages
  <2>7. InnerMatchesStages'
    BY <1>0, <1>3, <2>3 DEF GrantWrite, InnerMatchesStages, Holding
  <2>. QED
    BY <1>0, <2>3, <2>4, <2>5, <2>6, <2>7, <1>x
       DEF UrwIInv, UrwCountersMatchGuards, Holding
<1>. QED
  BY <1>1, <1>2, <1>3 DEF Attempt

(* A thread in a writer stage is the only one in the reader and writer stages. *)
LEMMA SoleWriter ==
    ASSUME StageExclusion, pc \in [Threads -> Stages], NEW t \in Threads,
           pc[t] \in WriteStages
    PROVE  /\ Holding(pc, WriteStages) = {t}
           /\ Holding(pc, ReadStages) = {}
BY DEF StageExclusion, Holding, WriteStages, ReadStages

(* A thread whose stage holds the inner write guard is its only holder.    *)
LEMMA SoleInnerWriter ==
    ASSUME InnerMatchesStages, InnerExclusion, NEW t \in Threads,
           pc[t] \in InnerWriteStages
    PROVE  Holding(pc, InnerWriteStages) = {t}
BY DEF InnerMatchesStages, InnerExclusion, Holding

(* Only data.write() adds an inner write guard, and only to a free lock;   *)
(* only data.read() adds an inner read guard, and only without a writer.   *)
LEMMA InnerExclusionStep ==
    ASSUME InnerExclusion, [Next]_vars
    PROVE  InnerExclusion'
<1>1. ASSUME NEW t \in Threads, AcquireInnerWrite(t) PROVE InnerExclusion'
  BY <1>1 DEF AcquireInnerWrite, InnerExclusion
<1>2. ASSUME NEW t \in Threads, AcquireInnerRead(t) PROVE InnerExclusion'
  BY <1>2 DEF AcquireInnerRead, InnerExclusion
<1>3. ASSUME NEW t \in Threads, ReleaseInnerRead(t) PROVE InnerExclusion'
  BY <1>3 DEF ReleaseInnerRead, InnerExclusion
<1>4. ASSUME NEW t \in Threads, ReleaseInnerWrite(t) \/ DowngradeTake(t)
      PROVE  InnerExclusion'
  BY <1>4 DEF ReleaseInnerWrite, DowngradeTake, InnerExclusion
<1>5. ASSUME NEW t \in Threads,
             \/ Read(t) \/ Write(t) \/ Reacquire(t) \/ SpuriousWakeup(t)
             \/ ReadUnlock(t) \/ WriteUnlock(t) \/ Downgrade(t)
      PROVE  UNCHANGED <<rwReaders, rwWriters>>
  BY <1>5 DEF Read, Write, Reacquire, Attempt, SpuriousWakeup, ReadUnlock,
              WriteUnlock, Downgrade
<1>6. CASE UNCHANGED vars
  BY <1>6 DEF vars, InnerExclusion
<1>. QED
  BY <1>1, <1>2, <1>3, <1>4, <1>5, <1>6 DEF Next, InnerExclusion

LEMMA NextUrwIInv == UrwIInv /\ [Next]_vars => UrwIInv'
<1>. SUFFICES ASSUME UrwIInv, [Next]_vars PROVE UrwIInv'
  OBVIOUS
<1>0. /\ UrwTypeOK /\ StageExclusion /\ InnerMatchesStages
      /\ pc \in [Threads -> Stages]
      /\ readers = Cardinality(Holding(pc, ReadStages))
      /\ writer \in BOOLEAN
      /\ writer <=> Holding(pc, WriteStages) # {}
  BY UnpackIInv
<1>x. InnerExclusion'
  BY InnerExclusionStep DEF UrwIInv
<1>1. ASSUME NEW t \in Threads, Read(t) \/ Write(t) \/ Reacquire(t)
      PROVE  UrwIInv'
  <2>1. op[t] \in {"none", "read", "write"} /\ pc[t] \in {"idle", "woken"}
    BY <1>0, <1>1 DEF UrwTypeOK, Read, Write, Reacquire
  <2>. QED
    BY <1>1, <2>1, AttemptPreserves DEF Read, Write, Reacquire
<1>2. ASSUME NEW t \in Threads, SpuriousWakeup(t)
      PROVE  UrwIInv'
  <2>1. /\ pc[t] = "parked" /\ pc' \in [Threads -> Stages] /\ pc'[t] = "woken"
        /\ Frame(t)
    BY <1>0, <1>2 DEF SpuriousWakeup, Frame, Stages
  <2>2. /\ Holding(pc', ReadStages) = Holding(pc, ReadStages)
        /\ Holding(pc', WriteStages) = Holding(pc, WriteStages)
        /\ Holding(pc', InnerReadStages) = Holding(pc, InnerReadStages)
        /\ Holding(pc', InnerWriteStages) = Holding(pc, InnerWriteStages)
    BY <1>0, <2>1 DEF Holding, Frame, ReadStages, WriteStages, InnerReadStages, InnerWriteStages
  <2>3. UNCHANGED <<readers, writer>>
    BY <1>2 DEF SpuriousWakeup
  <2>4. UrwTypeOK'
    BY <1>0, <1>2, <2>1, <2>3 DEF SpuriousWakeup, UrwTypeOK
  <2>5. StageExclusion'
    BY <1>0, <2>1 DEF StageExclusion, Holding, Frame, WriteStages, ReadStages
  <2>6. InnerMatchesStages'
    BY <1>0, <1>2, <2>2 DEF SpuriousWakeup, InnerMatchesStages, Holding
  <2>. QED
    BY <1>0, <2>2, <2>3, <2>4, <2>5, <2>6, <1>x
       DEF UrwIInv, UrwCountersMatchGuards, Holding
<1>3. ASSUME NEW t \in Threads, AcquireInnerRead(t)
      PROVE  UrwIInv'
  <2>1. /\ pc[t] = "innerRead" /\ pc' \in [Threads -> Stages] /\ pc'[t] = "reading"
        /\ Frame(t)
    BY <1>0, <1>3 DEF AcquireInnerRead, Frame, Stages
  <2>2. /\ Holding(pc', ReadStages) = Holding(pc, ReadStages)
        /\ Holding(pc', WriteStages) = Holding(pc, WriteStages)
        /\ Holding(pc', InnerReadStages) = Holding(pc, InnerReadStages) \cup {t}
        /\ Holding(pc', InnerWriteStages) = Holding(pc, InnerWriteStages)
    BY <1>0, <2>1 DEF Holding, Frame, ReadStages, WriteStages, InnerReadStages, InnerWriteStages
  <2>3. UNCHANGED <<readers, writer>>
    BY <1>3 DEF AcquireInnerRead
  <2>4. UrwTypeOK'
    BY <1>0, <1>3, <2>1, <2>3 DEF AcquireInnerRead, UrwTypeOK
  <2>5. StageExclusion'
    BY <1>0, <2>1 DEF StageExclusion, Holding, Frame, WriteStages, ReadStages
  <2>6. InnerMatchesStages'
    BY <1>0, <1>3, <2>2 DEF AcquireInnerRead, InnerMatchesStages, Holding
  <2>. QED
    BY <1>0, <2>2, <2>3, <2>4, <2>5, <2>6, <1>x
       DEF UrwIInv, UrwCountersMatchGuards, Holding
<1>4. ASSUME NEW t \in Threads, AcquireInnerWrite(t)
      PROVE  UrwIInv'
  <2>1. /\ pc[t] = "innerWrite" /\ pc' \in [Threads -> Stages] /\ pc'[t] = "writing"
        /\ Frame(t)
    BY <1>0, <1>4 DEF AcquireInnerWrite, Frame, Stages
  <2>2. /\ Holding(pc', ReadStages) = Holding(pc, ReadStages)
        /\ Holding(pc', WriteStages) = Holding(pc, WriteStages)
        /\ Holding(pc', InnerReadStages) = Holding(pc, InnerReadStages)
        /\ Holding(pc', InnerWriteStages) = Holding(pc, InnerWriteStages) \cup {t}
    BY <1>0, <2>1 DEF Holding, Frame, ReadStages, WriteStages, InnerReadStages, InnerWriteStages
  <2>3. UNCHANGED <<readers, writer>>
    BY <1>4 DEF AcquireInnerWrite
  <2>4. UrwTypeOK'
    BY <1>0, <1>4, <2>1, <2>3 DEF AcquireInnerWrite, UrwTypeOK
  <2>5. StageExclusion'
    BY <1>0, <2>1 DEF StageExclusion, Holding, Frame, WriteStages, ReadStages
  <2>6. InnerMatchesStages'
    BY <1>0, <1>4, <2>2 DEF AcquireInnerWrite, InnerMatchesStages, Holding
  <2>. QED
    BY <1>0, <2>2, <2>3, <2>4, <2>5, <2>6, <1>x
       DEF UrwIInv, UrwCountersMatchGuards, Holding
<1>5. ASSUME NEW t \in Threads, ReadUnlock(t)
      PROVE  UrwIInv'
  <2>1. /\ pc[t] = "reading" /\ pc' \in [Threads -> Stages] /\ pc'[t] = "dropRead"
        /\ Frame(t)
    BY <1>0, <1>5 DEF ReadUnlock, Frame, Stages, WakeOne, WakeAll, Parked
  <2>2. /\ Holding(pc', ReadStages) = Holding(pc, ReadStages) \ {t}
        /\ Holding(pc', WriteStages) = Holding(pc, WriteStages)
        /\ Holding(pc', InnerReadStages) = Holding(pc, InnerReadStages)
        /\ Holding(pc', InnerWriteStages) = Holding(pc, InnerWriteStages)
    BY <1>0, <2>1 DEF Holding, Frame, ReadStages, WriteStages, InnerReadStages, InnerWriteStages
  <2>3. Cardinality(Holding(pc, ReadStages) \ {t}) = Cardinality(Holding(pc, ReadStages)) - 1
        /\ Cardinality(Holding(pc, ReadStages)) # 0
    <3>1. t \in Holding(pc, ReadStages)
      BY <2>1 DEF Holding, ReadStages
    <3>2. Cardinality(Holding(pc, ReadStages)) # 0
      BY <3>1, HoldingFinite, FS_EmptySet
    <3>. QED
      BY <3>1, <3>2, HoldingRemove, Zenon
  <2>4. writer' = writer /\ readers' = Cardinality(Holding(pc, ReadStages)) - 1 /\ readers' \in Nat
    BY <1>0, <1>5, <2>3, HoldingFinite, FS_CardinalityType DEF ReadUnlock
  <2>5. UrwTypeOK'
    BY <1>0, <1>5, <2>1, <2>4 DEF ReadUnlock, UrwTypeOK
  <2>6. StageExclusion'
    BY <1>0, <2>1 DEF StageExclusion, Holding, Frame, WriteStages, ReadStages
  <2>7. InnerMatchesStages'
    BY <1>0, <1>5, <2>2 DEF ReadUnlock, InnerMatchesStages, Holding
  <2>. QED
    BY <1>0, <2>2, <2>4, <2>3, <2>5, <2>6, <2>7, <1>x
       DEF UrwIInv, UrwCountersMatchGuards, Holding
<1>6. ASSUME NEW t \in Threads, ReleaseInnerRead(t)
      PROVE  UrwIInv'
  <2>1. /\ pc[t] = "dropRead" /\ pc' \in [Threads -> Stages] /\ pc'[t] = "idle"
        /\ Frame(t)
    BY <1>0, <1>6 DEF ReleaseInnerRead, Frame, Stages
  <2>2. /\ Holding(pc', ReadStages) = Holding(pc, ReadStages)
        /\ Holding(pc', WriteStages) = Holding(pc, WriteStages)
        /\ Holding(pc', InnerReadStages) = Holding(pc, InnerReadStages) \ {t}
        /\ Holding(pc', InnerWriteStages) = Holding(pc, InnerWriteStages)
    BY <1>0, <2>1 DEF Holding, Frame, ReadStages, WriteStages, InnerReadStages, InnerWriteStages
  <2>3. UNCHANGED <<readers, writer>>
    BY <1>6 DEF ReleaseInnerRead
  <2>4. UrwTypeOK'
    BY <1>0, <1>6, <2>1, <2>3 DEF ReleaseInnerRead, UrwTypeOK
  <2>5. StageExclusion'
    BY <1>0, <2>1 DEF StageExclusion, Holding, Frame, WriteStages, ReadStages
  <2>6. InnerMatchesStages'
    BY <1>0, <1>6, <2>2 DEF ReleaseInnerRead, InnerMatchesStages, Holding
  <2>. QED
    BY <1>0, <2>2, <2>3, <2>4, <2>5, <2>6, <1>x
       DEF UrwIInv, UrwCountersMatchGuards, Holding
<1>7. ASSUME NEW t \in Threads, ReleaseInnerWrite(t)
      PROVE  UrwIInv'
  <2>1. /\ pc[t] = "dropWrite" /\ pc' \in [Threads -> Stages] /\ pc'[t] = "idle"
        /\ Frame(t)
    BY <1>0, <1>7 DEF ReleaseInnerWrite, Frame, Stages
  <2>2. Holding(pc, InnerWriteStages) = {t}
    BY <1>0, <2>1, SoleInnerWriter DEF UrwIInv, InnerWriteStages
  <2>3. /\ Holding(pc', ReadStages) = Holding(pc, ReadStages)
        /\ Holding(pc', WriteStages) = Holding(pc, WriteStages)
        /\ Holding(pc', InnerReadStages) = Holding(pc, InnerReadStages)
        /\ Holding(pc', InnerWriteStages) = {}
    BY <1>0, <2>1, <2>2 DEF Holding, Frame, ReadStages, WriteStages, InnerReadStages, InnerWriteStages
  <2>4. UNCHANGED <<readers, writer>>
    BY <1>7 DEF ReleaseInnerWrite
  <2>5. UrwTypeOK'
    BY <1>0, <1>7, <2>1, <2>4 DEF ReleaseInnerWrite, UrwTypeOK
  <2>6. StageExclusion'
    BY <1>0, <2>1 DEF StageExclusion, Holding, Frame, WriteStages, ReadStages
  <2>7. InnerMatchesStages'
    BY <1>0, <1>7, <2>3 DEF ReleaseInnerWrite, InnerMatchesStages, Holding
  <2>. QED
    BY <1>0, <2>3, <2>4, <2>5, <2>6, <2>7, <1>x
       DEF UrwIInv, UrwCountersMatchGuards, Holding
<1>8. ASSUME NEW t \in Threads, WriteUnlock(t)
      PROVE  UrwIInv'
  <2>1. /\ pc[t] = "writing" /\ pc' \in [Threads -> Stages] /\ pc'[t] = "dropWrite"
        /\ Frame(t)
    BY <1>0, <1>8 DEF WriteUnlock, Frame, Stages, WakeOne, Parked
  <2>2. /\ Holding(pc, WriteStages) = {t} /\ Holding(pc, ReadStages) = {}
    BY <1>0, <2>1, SoleWriter DEF WriteStages
  <2>3. /\ Holding(pc', ReadStages) = Holding(pc, ReadStages)
        /\ Holding(pc', WriteStages) = {}
        /\ Holding(pc', InnerReadStages) = Holding(pc, InnerReadStages)
        /\ Holding(pc', InnerWriteStages) = Holding(pc, InnerWriteStages)
    BY <1>0, <2>1, <2>2 DEF Holding, Frame, ReadStages, WriteStages, InnerReadStages, InnerWriteStages
  <2>4. readers' = readers /\ writer' = FALSE /\ writer' \in BOOLEAN
    BY <1>8, Zenon DEF WriteUnlock
  <2>5. UrwTypeOK'
    BY <1>0, <1>8, <2>1, <2>4 DEF WriteUnlock, UrwTypeOK
  <2>6. StageExclusion'
    BY <1>0, <2>1, <2>2 DEF StageExclusion, Holding, Frame, WriteStages, ReadStages
  <2>7. InnerMatchesStages'
    BY <1>0, <1>8, <2>3 DEF WriteUnlock, InnerMatchesStages, Holding
  <2>. QED
    BY <1>0, <2>3, <2>4, <2>5, <2>6, <2>7, <1>x
       DEF UrwIInv, UrwCountersMatchGuards, Holding
<1>9. ASSUME NEW t \in Threads, DowngradeTake(t)
      PROVE  UrwIInv'
  <2>1. /\ pc[t] = "writing" /\ pc' \in [Threads -> Stages] /\ pc'[t] = "downgrading"
        /\ Frame(t)
    BY <1>0, <1>9 DEF DowngradeTake, Frame, Stages
  <2>2. /\ Holding(pc, WriteStages) = {t} /\ Holding(pc, ReadStages) = {}
        /\ Holding(pc, InnerWriteStages) = {t}
    BY <1>0, <2>1, SoleWriter, SoleInnerWriter DEF UrwIInv, WriteStages, InnerWriteStages
  <2>3. /\ Holding(pc', ReadStages) = Holding(pc, ReadStages)
        /\ Holding(pc', WriteStages) = Holding(pc, WriteStages)
        /\ Holding(pc', InnerReadStages) = Holding(pc, InnerReadStages)
        /\ Holding(pc', InnerWriteStages) = {}
    BY <1>0, <2>1, <2>2 DEF Holding, Frame, ReadStages, WriteStages, InnerReadStages, InnerWriteStages
  <2>4. UNCHANGED <<readers, writer>>
    BY <1>9 DEF DowngradeTake
  <2>5. UrwTypeOK'
    BY <1>0, <1>9, <2>1, <2>4 DEF DowngradeTake, UrwTypeOK
  <2>6. StageExclusion'
    BY <1>0, <2>1, <2>2 DEF StageExclusion, Holding, Frame, WriteStages, ReadStages
  <2>7. InnerMatchesStages'
    BY <1>0, <1>9, <2>3 DEF DowngradeTake, InnerMatchesStages, Holding
  <2>. QED
    BY <1>0, <2>3, <2>4, <2>5, <2>6, <2>7, <1>x
       DEF UrwIInv, UrwCountersMatchGuards, Holding
<1>10. ASSUME NEW t \in Threads, Downgrade(t)
      PROVE  UrwIInv'
  <2>1. /\ pc[t] = "downgrading" /\ pc' \in [Threads -> Stages] /\ pc'[t] = "innerRead"
        /\ Frame(t)
    BY <1>0, <1>10 DEF Downgrade, Frame, Stages, WakeAll
  <2>2. /\ Holding(pc, WriteStages) = {t} /\ Holding(pc, ReadStages) = {}
    BY <1>0, <1>10, SoleWriter DEF Downgrade, WriteStages
  <2>3. /\ Holding(pc', ReadStages) = {t}
        /\ Holding(pc', WriteStages) = {}
        /\ Holding(pc', InnerReadStages) = Holding(pc, InnerReadStages)
        /\ Holding(pc', InnerWriteStages) = Holding(pc, InnerWriteStages)
    BY <1>0, <2>1, <2>2 DEF Holding, Frame, ReadStages, WriteStages, InnerReadStages, InnerWriteStages
  <2>4. readers' = 1 /\ writer' = FALSE /\ writer' \in BOOLEAN /\ Cardinality({t}) = 1
    BY <1>10, FS_Singleton, Zenon DEF Downgrade
  <2>5. UrwTypeOK'
    BY <1>0, <1>10, <2>1, <2>4 DEF Downgrade, UrwTypeOK
  <2>6. StageExclusion'
    BY <1>0, <2>1, <2>2 DEF StageExclusion, Holding, Frame, WriteStages, ReadStages
  <2>7. InnerMatchesStages'
    BY <1>0, <1>10, <2>3 DEF Downgrade, InnerMatchesStages, Holding
  <2>. QED
    BY <1>0, <2>3, <2>4, <2>5, <2>6, <2>7, <1>x
       DEF UrwIInv, UrwCountersMatchGuards, Holding
<1>11. CASE UNCHANGED vars
  BY <1>0, <1>11 DEF vars, UrwIInv, UrwTypeOK, UrwCountersMatchGuards,
                     StageExclusion, InnerMatchesStages, InnerExclusion, Holding
<1>. QED
  BY <1>1, <1>2, <1>3, <1>4, <1>5, <1>6, <1>7, <1>8, <1>9, <1>10, <1>11 DEF Next

-----------------------------------------------------------------------------
(* UrwLock's counter always accounts for the guards between the counter    *)
(* and their read_unlock/write_unlock, so read_unlock's assert!(readers >  *)
(* 0) never panics (which would poison the state mutex) and the u32        *)
(* decrement never underflows.                                             *)
THEOREM UrwCountersTheorem == Spec => []UrwCountersMatchGuards
<1>1. UrwIInv => UrwCountersMatchGuards
  BY DEF UrwIInv
<1>. QED
  BY InitUrwIInv, NextUrwIInv, <1>1, PTL DEF Spec

(* The two layers never wait on each other, for every finite set of       *)
(* threads: a thread past the counter that blocks in data.read() or        *)
(* data.write() -- possible, since the write guard's drop runs             *)
(* write_unlock before the inner guard goes and the read guard's runs      *)
(* read_unlock before its field drop -- waits only for a thread that has   *)
(* left the counter and whose next step drops its inner guard.             *)
THEOREM InnerLockTheorem == Spec => []InnerLockWaitsOnlyOnReleasing
<1>1. UrwIInv => InnerLockWaitsOnlyOnReleasing
  <2>. SUFFICES ASSUME UrwIInv PROVE InnerLockWaitsOnlyOnReleasing
    OBVIOUS
  <2>1. /\ StageExclusion /\ InnerMatchesStages /\ pc \in [Threads -> Stages]
    BY DEF UrwIInv, UrwTypeOK
  <2>2. ASSUME NEW t \in Threads, pc[t] = "innerRead", NEW u \in rwWriters
        PROVE  pc[u] = "dropWrite"
    BY <2>1, <2>2 DEF StageExclusion, InnerMatchesStages, Holding, WriteStages,
                      ReadStages, InnerWriteStages
  <2>3. ASSUME NEW t \in Threads, pc[t] = "innerWrite",
               NEW u \in rwReaders \cup rwWriters
        PROVE  pc[u] \in {"dropRead", "dropWrite"}
    BY <2>1, <2>3 DEF StageExclusion, InnerMatchesStages, Holding, WriteStages,
                      ReadStages, InnerWriteStages, InnerReadStages
  <2>. QED
    BY <2>2, <2>3 DEF InnerLockWaitsOnlyOnReleasing
<1>. QED
  BY InitUrwIInv, NextUrwIInv, <1>1, PTL DEF Spec

(* Type correctness of the UrwLock model's variables.                      *)
THEOREM UrwTypeCorrect == Spec => []UrwTypeOK
<1>1. UrwIInv => UrwTypeOK
  BY DEF UrwIInv
<1>. QED
  BY InitUrwIInv, NextUrwIInv, <1>1, PTL DEF Spec

-----------------------------------------------------------------------------
(* No stranded waiter.  UrwLock notifies with the state mutex held, so the *)
(* step that frees the counter also wakes a waiter; NoStrandedWaiter is    *)
(* then inductive on its own, given only the types.                        *)

\* some thread is woken and will re-test its loop
SomeWoken == \E u \in Threads : pc[u] = "woken"

(* notify_one from a step of t that neither parks nor wakes t              *)
LEMMA WakeOneWakes ==
    ASSUME pc \in [Threads -> Stages], NEW t \in Threads, NEW next \in Stages,
           pc[t] # "parked", next # "parked", WakeOne(t, next)
    PROVE  Parked' = {} \/ SomeWoken'
<1>1. CASE Parked = {} /\ pc' = [pc EXCEPT ![t] = next]
  BY <1>1 DEF Parked
<1>2. CASE \E w \in Parked : pc' = [pc EXCEPT ![t] = next, ![w] = "woken"]
  <2>1. PICK w \in Parked : pc' = [pc EXCEPT ![t] = next, ![w] = "woken"]
    BY <1>2
  <2>2. w # t /\ w \in Threads
    BY <2>1 DEF Parked
  <2>. QED
    BY <2>1, <2>2 DEF SomeWoken
<1>. QED
  BY <1>1, <1>2 DEF WakeOne

LEMMA NextNoStranded ==
    UrwIInv /\ NoStrandedWaiter /\ [Next]_vars => NoStrandedWaiter'
<1>. SUFFICES ASSUME UrwIInv, NoStrandedWaiter, [Next]_vars
              PROVE  Parked' = {} \/ readers' # 0 \/ writer' \/ SomeWoken'
  BY DEF NoStrandedWaiter, SomeWoken
<1>0. pc \in [Threads -> Stages] /\ readers \in Nat
  BY DEF UrwIInv, UrwTypeOK
<1>1. ASSUME NEW t \in Threads, NEW o \in {"none", "read", "write"}, Attempt(t, o)
      PROVE  readers' # 0 \/ writer'
  <2>1. CASE Blocked(o) /\ UNCHANGED <<readers, writer>>
    BY <2>1 DEF Blocked
  <2>2. CASE ~Blocked(o) /\ o = "read" /\ GrantRead(t)
    BY <1>0, <2>2 DEF GrantRead
  <2>3. CASE ~Blocked(o) /\ o # "read" /\ GrantWrite(t)
    BY <2>3 DEF GrantWrite
  <2>. QED
    BY <1>1, <2>1, <2>2, <2>3 DEF Attempt
<1>2. ASSUME NEW t \in Threads, Read(t) \/ Write(t) \/ Reacquire(t)
      PROVE  readers' # 0 \/ writer'
  <2>1. op[t] \in {"none", "read", "write"}
    BY DEF UrwIInv, UrwTypeOK
  <2>. QED
    BY <1>1, <1>2, <2>1 DEF Read, Write, Reacquire
<1>3. ASSUME NEW t \in Threads, SpuriousWakeup(t) PROVE SomeWoken'
  BY <1>0, <1>3 DEF SpuriousWakeup, SomeWoken
(* steps that touch only the inner RwLock and the stage of a running thread *)
<1>4. ASSUME NEW t \in Threads,
             \/ AcquireInnerRead(t) \/ AcquireInnerWrite(t) \/ ReleaseInnerRead(t)
             \/ ReleaseInnerWrite(t) \/ DowngradeTake(t)
      PROVE  Parked' = {} \/ readers' # 0 \/ writer' \/ SomeWoken'
  <2>1. /\ UNCHANGED <<readers, writer>>
        /\ pc[t] \notin {"parked", "woken"}
        /\ \E s \in Stages \ {"parked", "woken"} : pc' = [pc EXCEPT ![t] = s]
    BY <1>4 DEF AcquireInnerRead, AcquireInnerWrite, ReleaseInnerRead,
                ReleaseInnerWrite, DowngradeTake, Stages
  <2>2. Parked' = Parked /\ (SomeWoken <=> SomeWoken')
    BY <1>0, <2>1 DEF Parked, SomeWoken
  <2>. QED
    BY <2>1, <2>2 DEF NoStrandedWaiter, SomeWoken
<1>5. ASSUME NEW t \in Threads, ReadUnlock(t)
      PROVE  Parked' = {} \/ readers' # 0 \/ SomeWoken'
  <2>1. CASE readers - 1 = 0 /\ WakeOne(t, "dropRead")
    BY <1>0, <1>5, <2>1, WakeOneWakes DEF ReadUnlock, Stages
  <2>. QED
    BY <1>5, <2>1 DEF ReadUnlock
<1>6. ASSUME NEW t \in Threads, WriteUnlock(t)
      PROVE  Parked' = {} \/ SomeWoken'
  BY <1>0, <1>6, WakeOneWakes DEF WriteUnlock, Stages
<1>7. ASSUME NEW t \in Threads, Downgrade(t) PROVE readers' # 0
  BY <1>7 DEF Downgrade
<1>8. CASE UNCHANGED vars
  BY <1>8 DEF vars, NoStrandedWaiter, SomeWoken, Parked
<1>. QED
  BY <1>2, <1>3, <1>4, <1>5, <1>6, <1>7, <1>8 DEF Next

(* UrwLock strands no waiter, for every finite set of threads: while a     *)
(* thread sleeps in cond.wait, a guard holds the counter or a woken thread *)
(* is about to re-test it -- read_unlock and write_unlock, which free the  *)
(* counter, notify in the same critical section.                           *)
THEOREM NoStrandedWaiterTheorem == Spec => []NoStrandedWaiter
<1>1. Init => NoStrandedWaiter
  BY DEF Init, NoStrandedWaiter, Parked
<1>2. Spec => []UrwIInv
  BY InitUrwIInv, NextUrwIInv, PTL DEF Spec
<1>. QED
  BY <1>1, <1>2, NextNoStranded, PTL DEF Spec
=============================================================================
