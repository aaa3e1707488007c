\* SIGINT comes between pthread_create and the list.
SPECIFICATION Spec
CONSTANT Thread = {t1, t2}
INVARIANT StatsFreedUnused
CHECK_DEADLOCK FALSE
