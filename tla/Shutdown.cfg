\* SIGINT comes at any time: one handler holds a lock and another waits for it.
SPECIFICATION Spec
CONSTANT Thread = {t1, t2}
INVARIANTS
    TypeOK
    OnlyUnlistedRuns
PROPERTY
    EndsUnlessStuck
CHECK_DEADLOCK FALSE
