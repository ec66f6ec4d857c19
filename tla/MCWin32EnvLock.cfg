CONSTANTS
    t1 = t1
    t2 = t2
    cur = cur
    tmp = tmp
    d1 = d1
    d2 = d2
    Threads <- MCThreads
    Names <- MCNames
    Data <- MCData
    Protected = {}
SYMMETRY Symmetry
SPECIFICATION Spec
\* The first LockFile on a LOCK file that does not exist yet.
INVARIANT LockExclusive
