CONSTANTS
    t1 = t1
    t2 = t2
    t3 = t3
    t4 = t4
    Threads <- MCThreads
SYMMETRY MCSymmetry
SPECIFICATION Spec
INVARIANT UrwTypeOK
INVARIANT UrwCountersMatchGuards
INVARIANT InnerLockWaitsOnlyOnReleasing
INVARIANT NoStrandedWaiter
PROPERTY ImplementsRWLock
