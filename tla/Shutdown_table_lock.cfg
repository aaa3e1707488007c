\* SIGINT comes while a handler waits for the lock of the table.
SPECIFICATION Spec
CONSTANT Thread = {t1, t2}
PROPERTY TableLockHarmless
CHECK_DEADLOCK FALSE
