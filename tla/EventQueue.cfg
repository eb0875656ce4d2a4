CONSTANTS
    Posts = {p1}
    h1 = h1
    b1 = b1
    b2 = b2
    Finishers = {h1}
    Batch <- BatchOfTwo
    Waits = {w1}
    TimedWaits = {t1, t2}
    Callbacks = {c1}
    None = None
SPECIFICATION FairSpec
INVARIANTS LockOrder NoIdleConsumer NoDanglingAccept
PROPERTIES ApiSpec AcceptedIsReturned CallsFinish
CHECK_DEADLOCK FALSE
