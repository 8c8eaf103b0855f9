\* Two special-qs finished at once, each with two threads; every mix of
\* complete and not complete; checksums modulo 3.
CONSTANTS
    Objects = {q1, q2}
    Threads = {t1, t2}
    Reps <- MCReps
    ChecksumPrime = 3
    NoOwner = NoOwner
SPECIFICATION Spec
\* every destructor returns: the final states have no successor
CHECK_DEADLOCK FALSE
INVARIANT
    ReportsMerged
