\* Four threads: two writers and two readers can contend, a writer can
\* overtake a woken one, and a broadcast has several readers to wake.
SPECIFICATION FairSpec
CONSTANT Thread = {t1, t2, t3, t4}
INVARIANTS
    TypeOK
    Exclusion
    CountersExact
    NoLostWakeup
PROPERTIES
    QuietServesAll
    ImplementsPromise
