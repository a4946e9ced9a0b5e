------------------------------- MODULE RWLock -------------------------------
(***************************************************************************)
(* What every lock of libmutex promises its callers (spec sections 3, 4.1  *)
(* and 8), with the waiting left out: a thread holds nothing, shared read  *)
(* access or exclusive write access, and access changes only by one of the *)
(* operations below, each atomic.  XLock, UrwLock and SpinLock are shown   *)
(* to implement it by instantiating this module with a refinement mapping. *)
(***************************************************************************)
CONSTANT Threads

VARIABLE access    \* access[t]: what thread t holds

Modes == {"none", "read", "write"}

NoWriter == \A u \in Threads : access[u] # "write"

OthersIdle(t) == \A u \in Threads \ {t} : access[u] = "none"

(* a read guard is handed out only while no write guard lives *)
AcquireRead(t) ==
    /\ access[t] = "none"
    /\ NoWriter
    /\ access' = [access EXCEPT ![t] = "read"]

(* a write guard is handed out only while no guard at all lives *)
AcquireWrite(t) ==
    /\ access[t] = "none"
    /\ OthersIdle(t)
    /\ access' = [access EXCEPT ![t] = "write"]

(* a guard is dropped *)
Release(t) ==
    /\ access[t] # "none"
    /\ access' = [access EXCEPT ![t] = "none"]

(* upgrade completes atomically, and only for the sole holder *)
Upgrade(t) ==
    /\ access[t] = "read"
    /\ OthersIdle(t)
    /\ access' = [access EXCEPT ![t] = "write"]

(* downgrade turns the write guard into a read guard in one step *)
Downgrade(t) ==
    /\ access[t] = "write"
    /\ access' = [access EXCEPT ![t] = "read"]

Init == access = [t \in Threads |-> "none"]

Next ==
    \E t \in Threads :
        AcquireRead(t) \/ AcquireWrite(t) \/ Release(t) \/ Upgrade(t)
        \/ Downgrade(t)

Spec == Init /\ [][Next]_access

=============================================================================
