CONSTANTS
    t1 = t1
    t2 = t2
    t3 = t3
    t4 = t4
    Threads <- MCThreads
    ReaderModulus = 8
SYMMETRY MCSymmetry
SPECIFICATION Spec
INVARIANT MutualExclusion
INVARIANT CountersMatchGuards
INVARIANT NoLostWakeup
