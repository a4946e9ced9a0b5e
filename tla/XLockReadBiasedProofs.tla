------------------------ MODULE XLockReadBiasedProofs ------------------------
(***************************************************************************)
(* Proofs about the read-biased XLock, for every finite set of threads.    *)
(*                                                                         *)
(* MutualExclusion is not inductive by itself: a try_write that finds      *)
(* readers = 0 must know that no read guard is alive, and a try_upgrade    *)
(* that finds readers = 1 must know that its own guard is the only one.    *)
(* The strengthening IInv therefore carries CountersMatchGuards, and also  *)
(* WaitingConsistent: a thread parked or woken inside a call holds the     *)
(* guard that call started from (none for try_read and try_write, its read *)
(* guard for try_upgrade).                                                 *)
(***************************************************************************)
EXTENDS XLockReadBiased, FiniteSetTheorems, TLAPS

\* the read guards of an arbitrary guard function
RH(g) == {u \in Threads : g[u] = "read"}

WaitingConsistent ==
    \A t \in Threads :
        pc[t] \in {"parked", "woken"} =>
            \/ op[t] \in {"read", "write"} /\ guard[t] = "none"
            \/ op[t] = "upgrade" /\ guard[t] = "read"

IInv ==
    /\ TypeOK
    /\ CountersMatchGuards
    /\ MutualExclusion
    /\ WaitingConsistent

-----------------------------------------------------------------------------
(* Counting read guards.                                                   *)

LEMMA RHFinite ==
    ASSUME NEW g
    PROVE  IsFiniteSet(RH(g))
BY ThreadsAssumption, FS_Subset DEF RH

LEMMA RHAdd ==
    ASSUME NEW g \in [Threads -> GuardKinds], NEW t \in Threads, g[t] # "read"
    PROVE  Cardinality(RH([g EXCEPT ![t] = "read"])) = Cardinality(RH(g)) + 1
<1>1. RH([g EXCEPT ![t] = "read"]) = RH(g) \cup {t}
  BY DEF RH
<1>2. t \notin RH(g)
  BY DEF RH
<1>. QED
  BY <1>1, <1>2, RHFinite, FS_AddElement

LEMMA RHRemove ==
    ASSUME NEW g \in [Threads -> GuardKinds], NEW t \in Threads, g[t] = "read",
           NEW k \in GuardKinds \ {"read"}
    PROVE  Cardinality(RH([g EXCEPT ![t] = k])) = Cardinality(RH(g)) - 1
<1>1. RH([g EXCEPT ![t] = k]) = RH(g) \ {t}
  BY DEF RH
<1>2. t \in RH(g)
  BY DEF RH
<1>. QED
  BY <1>1, <1>2, RHFinite, FS_RemoveElement

LEMMA RHKeep ==
    ASSUME NEW g \in [Threads -> GuardKinds], NEW t \in Threads, g[t] # "read",
           NEW k \in GuardKinds \ {"read"}
    PROVE  RH([g EXCEPT ![t] = k]) = RH(g)
BY DEF RH

(* The u32 has room for 0 and 1 and for one more guard than there are     *)
(* other threads.                                                          *)
LEMMA ModulusBound ==
    /\ ReaderModulus \in Nat
    /\ Cardinality(Threads) \in Nat \ {0}
    /\ Cardinality(Threads) < ReaderModulus
<1>1. Cardinality(Threads) \in Nat /\ Cardinality(Threads) # 0
  BY ThreadsAssumption, FS_CardinalityType, FS_EmptySet
<1>. QED
  BY <1>1, ReaderModulusAssumption

(* A thread without a read guard leaves room in the u32 for its own.       *)
LEMMA RHBelowModulus ==
    ASSUME NEW g, NEW t \in Threads, g[t] # "read"
    PROVE  Cardinality(RH(g)) + 1 < ReaderModulus
<1>1. RH(g) \subseteq Threads \ {t}
  BY DEF RH
<1>2. /\ IsFiniteSet(Threads \ {t})
      /\ Cardinality(Threads \ {t}) = Cardinality(Threads) - 1
  BY ThreadsAssumption, FS_RemoveElement
<1>3. Cardinality(RH(g)) <= Cardinality(Threads \ {t})
  BY <1>1, <1>2, FS_Subset
<1>4. Cardinality(RH(g)) \in Nat
  BY RHFinite, FS_CardinalityType
<1>. QED
  BY <1>2, <1>3, <1>4, ModulusBound

\* one read guard counted, and t holds one: t holds the only one
LEMMA SoleReader ==
    ASSUME NEW g, NEW t \in Threads, g[t] = "read", Cardinality(RH(g)) = 1
    PROVE  RH(g) = {t}
<1>1. PICK x : RH(g) = {x}
  BY RHFinite, FS_Singleton
<1>. QED
  BY <1>1 DEF RH

LEMMA NoReader ==
    ASSUME NEW g, Cardinality(RH(g)) = 0
    PROVE  \A u \in Threads : g[u] # "read"
BY RHFinite, FS_EmptySet DEF RH

-----------------------------------------------------------------------------
(* One test of a wait loop preserves IInv, when the calling thread holds   *)
(* the guard the call starts from.                                         *)

LEMMA AttemptPreserves ==
    ASSUME IInv, NEW t \in Threads, NEW o \in {"read", "write", "upgrade"},
           NEW d \in BOOLEAN,
           o \in {"read", "write"} => guard[t] = "none",
           o = "upgrade" => guard[t] = "read",
           Attempt(t, o, d)
    PROVE  IInv'
<1>0. /\ TypeOK /\ CountersMatchGuards /\ MutualExclusion /\ WaitingConsistent
      /\ readers = Cardinality(RH(guard))
      /\ guard \in [Threads -> GuardKinds]
  BY DEF IInv, TypeOK, CountersMatchGuards, ReadHolders, RH
<1>1. CASE Blocked(o) /\ Park(t, o, d)
  <2>1. /\ UNCHANGED <<readers, writer, guard>>
        /\ pc' = [pc EXCEPT ![t] = "parked"]
        /\ op' = [op EXCEPT ![t] = o]
        /\ timed' = [timed EXCEPT ![t] = d]
    BY <1>1 DEF Park
  <2>2. TypeOK'
    BY <1>0, <2>1 DEF TypeOK, PcValues, Ops
  <2>3. CountersMatchGuards' /\ MutualExclusion'
    BY <1>0, <2>1 DEF CountersMatchGuards, MutualExclusion, ReadHolders,
                      WriteHolders
  <2>4. WaitingConsistent'
    BY <1>0, <2>1 DEF WaitingConsistent, TypeOK
  <2>. QED
    BY <2>2, <2>3, <2>4 DEF IInv
<1>2. CASE ~Blocked(o) /\ Grant(t, o)
  <2>1. /\ pc' = [pc EXCEPT ![t] = "idle"]
        /\ op' = [op EXCEPT ![t] = "none"]
        /\ UNCHANGED timed
        /\ \E k \in GuardKinds : guard' = [guard EXCEPT ![t] = k]
    BY <1>2 DEF Grant, GrantRead, GrantWrite, GrantUpgrade, GuardKinds
  <2>2. WaitingConsistent'
    BY <1>0, <2>1 DEF WaitingConsistent, TypeOK
  <2>3. CASE o = "read"
    <3>1. ~writer /\ GrantRead(t) /\ guard[t] = "none"
      BY <1>2, <2>3 DEF Blocked, ReadBlocked, Grant
    <3>2. readers' = Cardinality(RH(guard'))
      <4>1. Cardinality(RH([guard EXCEPT ![t] = "read"])) = Cardinality(RH(guard)) + 1
        <5>1. guard[t] # "read"
          BY <3>1
        <5>. QED
          BY <1>0, <5>1, RHAdd, Zenon
      <4>2. readers + 1 < ReaderModulus
        BY <1>0, <3>1, RHBelowModulus
      <4>3. readers' = readers + 1
        BY <1>0, <3>1, <4>2, ModulusBound DEF GrantRead, TypeOK
      <4>. QED
        BY <1>0, <3>1, <4>1, <4>3 DEF GrantRead
    <3>3. WriteHolders = {}
      BY <1>0, <3>1 DEF CountersMatchGuards
    <3>4. WriteHolders' = {}
      BY <3>1, <3>3 DEF GrantRead, WriteHolders
    <3>5. TypeOK'
      <4>1. readers' \in 0 .. ReaderModulus - 1
        BY <1>0, <3>1, ModulusBound DEF GrantRead, TypeOK
      <4>. QED
        BY <1>0, <2>1, <3>1, <4>1 DEF TypeOK, GrantRead, PcValues, Ops, GuardKinds
    <3>. QED
      BY <2>2, <3>1, <3>2, <3>4, <3>5
         DEF IInv, CountersMatchGuards, MutualExclusion, ReadHolders, RH, GrantRead
  <2>4. CASE o = "write"
    <3>1. readers = 0 /\ ~writer /\ GrantWrite(t) /\ guard[t] = "none"
      BY <1>2, <2>4 DEF Blocked, WriteBlocked, Grant
    <3>2. WriteHolders = {}
      BY <1>0, <3>1 DEF CountersMatchGuards
    <3>3. \A u \in Threads : guard[u] = "none"
      <4>1. \A u \in Threads : guard[u] # "read"
        <5>1. Cardinality(RH(guard)) = 0
          BY <1>0, <3>1
        <5>. QED
          BY <5>1, NoReader, Zenon
      <4>. QED
        BY <1>0, <3>2, <4>1 DEF GuardKinds, WriteHolders
    <3>4. /\ \A u \in Threads \ {t} : guard'[u] = "none"
          /\ guard'[t] = "write"
      BY <1>0, <3>1, <3>3 DEF GrantWrite
    <3>5. RH(guard') = {}
      BY <3>4 DEF RH
    <3>6. WriteHolders' = {t}
      BY <3>4 DEF WriteHolders
    <3>7. TypeOK'
      BY <1>0, <2>1, <3>1 DEF TypeOK, GrantWrite, PcValues, Ops, GuardKinds
    <3>. QED
      BY <2>2, <3>1, <3>4, <3>5, <3>6, <3>7, FS_EmptySet
         DEF IInv, CountersMatchGuards, MutualExclusion, ReadHolders, RH, GrantWrite
  <2>5. CASE o = "upgrade"
    <3>1. readers = 1 /\ GrantUpgrade(t) /\ guard[t] = "read"
      BY <1>2, <2>5 DEF Blocked, UpgradeBlocked, Grant
    <3>2. RH(guard) = {t}
      <4>1. Cardinality(RH(guard)) = 1
        BY <1>0, <3>1
      <4>. QED
        BY <3>1, <4>1, SoleReader
    <3>3. \A u \in Threads \ {t} : guard[u] = "none"
      <4>1. WriteHolders = {}
        BY <1>0, <3>1 DEF MutualExclusion, WriteHolders
      <4>. QED
        BY <1>0, <3>2, <4>1 DEF RH, WriteHolders, GuardKinds
    <3>4. /\ \A u \in Threads \ {t} : guard'[u] = "none"
          /\ guard'[t] = "write"
      BY <1>0, <3>1, <3>3 DEF GrantUpgrade
    <3>5. RH(guard') = {}
      BY <3>4 DEF RH
    <3>6. WriteHolders' = {t}
      BY <3>4 DEF WriteHolders
    <3>7. TypeOK'
      BY <1>0, <2>1, <3>1, ModulusBound
         DEF TypeOK, GrantUpgrade, PcValues, Ops, GuardKinds
    <3>. QED
      BY <2>2, <3>1, <3>4, <3>5, <3>6, <3>7, FS_EmptySet
         DEF IInv, CountersMatchGuards, MutualExclusion, ReadHolders, RH, GrantUpgrade
  <2>. QED
    BY <2>3, <2>4, <2>5
<1>. QED
  BY <1>1, <1>2 DEF Attempt

-----------------------------------------------------------------------------
LEMMA InitIInv == Init => IInv
<1>. SUFFICES ASSUME Init PROVE IInv
  OBVIOUS
<1>1. ReadHolders = {} /\ WriteHolders = {}
  BY DEF Init, ReadHolders, WriteHolders
<1>2. CountersMatchGuards
  BY <1>1, FS_EmptySet DEF Init, CountersMatchGuards
<1>3. writer \in BOOLEAN
  BY Zenon DEF Init
<1>4. TypeOK
  BY <1>3, ModulusBound DEF Init, TypeOK, GuardKinds, PcValues, Ops
<1>5. MutualExclusion /\ WaitingConsistent
  BY <1>1 DEF Init, MutualExclusion, WaitingConsistent
<1>. QED
  BY <1>2, <1>4, <1>5 DEF IInv

LEMMA NextIInv == IInv /\ [Next]_vars => IInv'
<1>. SUFFICES ASSUME IInv, [Next]_vars PROVE IInv'
  OBVIOUS
<1>0. /\ TypeOK /\ CountersMatchGuards /\ MutualExclusion /\ WaitingConsistent
      /\ readers = Cardinality(RH(guard))
      /\ guard \in [Threads -> GuardKinds]
      /\ pc \in [Threads -> PcValues]
      /\ op \in [Threads -> Ops]
  BY DEF IInv, TypeOK, CountersMatchGuards, ReadHolders, RH
<1>00. ReadHolders' = RH(guard')
  BY DEF ReadHolders, RH
<1>1. ASSUME NEW t \in Threads, NEW d \in BOOLEAN, TryRead(t, d)
      PROVE  IInv'
  BY <1>1, AttemptPreserves DEF TryRead
<1>2. ASSUME NEW t \in Threads, NEW d \in BOOLEAN, TryWrite(t, d)
      PROVE  IInv'
  BY <1>2, AttemptPreserves DEF TryWrite
<1>3. ASSUME NEW t \in Threads, NEW d \in BOOLEAN, TryUpgrade(t, d)
      PROVE  IInv'
  BY <1>3, AttemptPreserves DEF TryUpgrade
<1>4. ASSUME NEW t \in Threads, Reacquire(t)
      PROVE  IInv'
  <2>1. /\ op[t] \in {"read", "write", "upgrade"}
        /\ op[t] \in {"read", "write"} => guard[t] = "none"
        /\ op[t] = "upgrade" => guard[t] = "read"
        /\ timed[t] \in BOOLEAN
    BY <1>0, <1>4 DEF Reacquire, WaitingConsistent, TypeOK
  <2>. QED
    BY <1>4, <2>1, AttemptPreserves DEF Reacquire
<1>5. ASSUME NEW t \in Threads, SpuriousWakeup(t)
      PROVE  IInv'
  BY <1>0, <1>5 DEF SpuriousWakeup, IInv, TypeOK, PcValues, CountersMatchGuards,
                    MutualExclusion, WaitingConsistent, ReadHolders, WriteHolders
<1>6. ASSUME NEW t \in Threads, Timeout(t)
      PROVE  IInv'
  BY <1>0, <1>6 DEF Timeout, IInv, TypeOK, PcValues, Ops, CountersMatchGuards,
                    MutualExclusion, WaitingConsistent, ReadHolders, WriteHolders
<1>7. ASSUME NEW t \in Threads, ReadUnlock(t)
      PROVE  IInv'
  <2>1. guard[t] = "read" /\ guard' = [guard EXCEPT ![t] = "none"]
    BY <1>7 DEF ReadUnlock
  <2>2. Cardinality(RH(guard')) = readers - 1
    <3>1. Cardinality(RH([guard EXCEPT ![t] = "none"])) = Cardinality(RH(guard)) - 1
      BY <1>0, <2>1, RHRemove, Zenon DEF GuardKinds
    <3>. QED
      BY <1>0, <2>1, <3>1
  <2>3. readers' = readers - 1 /\ readers - 1 \in Nat
    <3>1. t \in RH(guard)
      BY <2>1 DEF RH
    <3>2. Cardinality(RH(guard)) # 0
      BY <3>1, RHFinite, FS_EmptySet
    <3>3. readers \in 1 .. ReaderModulus - 1
      BY <1>0, <3>2, RHFinite, FS_CardinalityType DEF TypeOK
    <3>. QED
      BY <1>0, <1>7, <3>3, ModulusBound DEF ReadUnlock
  <2>4. WriteHolders = {}
    BY <1>0, <2>1 DEF MutualExclusion, WriteHolders
  <2>5. WriteHolders' = {}
    BY <1>0, <2>1, <2>4 DEF WriteHolders
  <2>6. pc' = [pc EXCEPT ![t] = pc'[t]] /\ pc'[t] \in PcValues \ {"parked", "woken"}
    BY <1>0, <1>7 DEF ReadUnlock, PcValues
  <2>7. TypeOK'
    BY <1>0, <1>7, <2>1, <2>3, <2>6, ModulusBound
       DEF TypeOK, ReadUnlock, GuardKinds
  <2>8. WaitingConsistent'
    <3>1. /\ \A u \in Threads \ {t} : pc'[u] = pc[u] /\ guard'[u] = guard[u]
          /\ op' = op
          /\ pc'[t] \notin {"parked", "woken"}
      BY <1>0, <1>7 DEF ReadUnlock
    <3>. QED
      BY <1>0, <3>1 DEF WaitingConsistent
  <2>9. CountersMatchGuards'
    <3>1. writer' = writer /\ ~writer
      BY <1>0, <1>7, <2>4 DEF ReadUnlock, CountersMatchGuards
    <3>. QED
      BY <1>00, <2>2, <2>3, <2>5, <3>1 DEF CountersMatchGuards
  <2>10. MutualExclusion'
    BY <2>5 DEF MutualExclusion
  <2>. QED
    BY <2>7, <2>8, <2>9, <2>10 DEF IInv
<1>8. ASSUME NEW t \in Threads, WriteUnlock(t)
      PROVE  IInv'
  <2>1. guard[t] = "write" /\ guard' = [guard EXCEPT ![t] = "none"]
    BY <1>8 DEF WriteUnlock
  <2>2. \A u \in Threads \ {t} : guard[u] = "none"
    BY <1>0, <2>1 DEF MutualExclusion, WriteHolders
  <2>3. \A u \in Threads : guard'[u] = "none"
    BY <1>0, <2>1, <2>2
  <2>4. RH(guard') = {} /\ RH(guard) = {} /\ WriteHolders' = {}
    <3>1. RH(guard') = {}
      BY <2>3 DEF RH
    <3>2. RH(guard) = {}
      BY <2>1, <2>2 DEF RH
    <3>3. WriteHolders' = {}
      BY <2>3 DEF WriteHolders
    <3>. QED
      BY <3>1, <3>2, <3>3
  <2>5. TypeOK'
    <3>1. writer' \in BOOLEAN
      BY <1>8, Zenon DEF WriteUnlock
    <3>. QED
      BY <1>0, <1>8, <2>3, <3>1 DEF TypeOK, WriteUnlock, PcValues, GuardKinds
  <2>6. WaitingConsistent'
    <3>1. /\ \A u \in Threads \ {t} : pc'[u] = pc[u] /\ guard'[u] = guard[u]
          /\ op' = op
          /\ pc'[t] \notin {"parked", "woken"}
      BY <1>0, <1>8 DEF WriteUnlock
    <3>. QED
      BY <1>0, <3>1 DEF WaitingConsistent
  <2>7. CountersMatchGuards'
    <3>1. ~writer' /\ readers' = readers
      BY <1>8, Zenon DEF WriteUnlock
    <3>2. readers = 0
      BY <1>0, <2>4, FS_EmptySet
    <3>. QED
      BY <1>00, <2>4, <3>1, <3>2, FS_EmptySet DEF CountersMatchGuards
  <2>8. MutualExclusion'
    BY <2>4 DEF MutualExclusion
  <2>. QED
    BY <2>5, <2>6, <2>7, <2>8 DEF IInv
<1>9. ASSUME NEW t \in Threads, Downgrade(t)
      PROVE  IInv'
  <2>1. guard[t] = "write" /\ guard' = [guard EXCEPT ![t] = "read"]
    BY <1>9 DEF Downgrade
  <2>2. \A u \in Threads \ {t} : guard[u] = "none"
    BY <1>0, <2>1 DEF MutualExclusion, WriteHolders
  <2>3. /\ \A u \in Threads \ {t} : guard'[u] = "none"
        /\ guard'[t] = "read"
    BY <1>0, <2>1, <2>2
  <2>4. RH(guard') = {t} /\ WriteHolders' = {}
    <3>1. RH(guard') = {t}
      BY <2>3 DEF RH
    <3>2. WriteHolders' = {}
      BY <2>3 DEF WriteHolders
    <3>. QED
      BY <3>1, <3>2
  <2>5. TypeOK'
    <3>1. writer' \in BOOLEAN
      BY <1>9, Zenon DEF Downgrade
    <3>. QED
      BY <1>0, <1>9, <2>1, <3>1, ModulusBound
         DEF TypeOK, Downgrade, PcValues, GuardKinds
  <2>6. WaitingConsistent'
    <3>1. /\ \A u \in Threads \ {t} : pc'[u] = pc[u] /\ guard'[u] = guard[u]
          /\ op' = op
          /\ pc'[t] \notin {"parked", "woken"}
      BY <1>0, <1>9 DEF Downgrade
    <3>. QED
      BY <1>0, <3>1 DEF WaitingConsistent
  <2>7. CountersMatchGuards'
    <3>1. ~writer' /\ readers' = 1
      BY <1>9, Zenon DEF Downgrade
    <3>2. Cardinality({t}) = 1
      BY FS_Singleton
    <3>. QED
      BY <1>00, <2>4, <3>1, <3>2 DEF CountersMatchGuards
  <2>8. MutualExclusion'
    BY <2>4 DEF MutualExclusion
  <2>. QED
    BY <2>5, <2>6, <2>7, <2>8 DEF IInv
<1>10. ASSUME NEW t \in Threads, NotifyOne(t)
       PROVE  IInv'
  <2>1. /\ pc[t] = "notifyOne"
        /\ \/ pc' = [pc EXCEPT ![t] = "idle"]
           \/ \E w \in Parked : pc' = [pc EXCEPT ![t] = "idle", ![w] = "woken"]
        /\ UNCHANGED <<readers, writer, guard, op, timed>>
    BY <1>10 DEF NotifyOne
  <2>2. WaitingConsistent'
    BY <1>0, <2>1 DEF WaitingConsistent, Parked
  <2>3. TypeOK'
    BY <1>0, <2>1 DEF TypeOK, PcValues
  <2>. QED
    BY <1>0, <2>1, <2>2, <2>3 DEF IInv, CountersMatchGuards, MutualExclusion,
                                  ReadHolders, WriteHolders
<1>11. ASSUME NEW t \in Threads, NotifyAll(t)
       PROVE  IInv'
  <2>1. /\ pc[t] = "notifyAll"
        /\ pc' = [u \in Threads |-> IF u = t THEN "idle"
                                    ELSE IF pc[u] = "parked" THEN "woken"
                                    ELSE pc[u]]
        /\ UNCHANGED <<readers, writer, guard, op, timed>>
    BY <1>11 DEF NotifyAll
  <2>2. WaitingConsistent'
    BY <1>0, <2>1 DEF WaitingConsistent
  <2>3. TypeOK'
    BY <1>0, <2>1 DEF TypeOK, PcValues
  <2>. QED
    BY <1>0, <2>1, <2>2, <2>3 DEF IInv, CountersMatchGuards, MutualExclusion,
                                  ReadHolders, WriteHolders
<1>12. CASE UNCHANGED vars
  BY <1>0, <1>12 DEF vars, IInv, TypeOK, CountersMatchGuards, MutualExclusion,
                     WaitingConsistent, ReadHolders, WriteHolders
<1>. QED
  BY <1>1, <1>2, <1>3, <1>4, <1>5, <1>6, <1>7, <1>8, <1>9, <1>10, <1>11,
     <1>12 DEF Next

-----------------------------------------------------------------------------
(* The read-biased XLock never lets a write guard live beside another      *)
(* guard (spec 8), for any finite number of threads and any interleaving   *)
(* of its calls, timeouts, spurious wakeups and notifications.             *)
THEOREM MutualExclusionTheorem == Spec => []MutualExclusion
<1>1. IInv => MutualExclusion
  BY DEF IInv
<1>. QED
  BY InitIInv, NextIInv, <1>1, PTL DEF Spec

(* The moderator's counters always account exactly for the live guards, so *)
(* the debug_asserts of read_unlock, write_unlock, downgrade and           *)
(* try_upgrade never fire and the u32 decrement never underflows.          *)
THEOREM CountersTheorem == Spec => []CountersMatchGuards
<1>1. IInv => CountersMatchGuards
  BY DEF IInv
<1>. QED
  BY InitIInv, NextIInv, <1>1, PTL DEF Spec
=============================================================================
