CONSTANTS
    c1 = c1
    c2 = c2
    t1 = t1
    t2 = t2
    t3 = t3
    u1 = u1
    NoTask = NoTask
    Key <- MCKey
    Task <- MCTask
    KeyOf <- MCKeyOf
SPECIFICATION MutexSpec
INVARIANTS
    MutualExclusion
PROPERTIES
    ImplementsFifoLock
CHECK_DEADLOCK FALSE
