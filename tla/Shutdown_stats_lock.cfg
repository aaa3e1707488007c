\* SIGINT comes while a handler waits for the lock of the statistics.
SPECIFICATION Spec
CONSTANT Thread = {t1, t2}
PROPERTY StatsLockHarmless
CHECK_DEADLOCK FALSE
