SPECIFICATION Spec
CONSTANTS
    t1 = t1
    t2 = t2
    t3 = t3
    Threads <- MCThreads
    Classes <- MCLockedClasses
    NoThread = NoThread
    Reorder = TRUE
SYMMETRY MCSymmetry
INVARIANTS
    ReturnedConstructed
CHECK_DEADLOCK FALSE
