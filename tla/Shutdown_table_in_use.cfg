\* SIGINT comes while a request is handled.
SPECIFICATION Spec
CONSTANT Thread = {t1, t2}
INVARIANT TableFreedUnused
CHECK_DEADLOCK FALSE
