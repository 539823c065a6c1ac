CONSTANTS
    th1 = th1
    th2 = th2
    t1 = t1
    t2 = t2
    s1 = s1
    s2 = s2
    NoSocket = NoSocket
    Thread <- MCThread
    Topic <- MCTopic
    Socket <- MCSocket
    MaxId = 3
    MaxPublished = 1
SPECIFICATION Spec
SYMMETRY Symmetry
INVARIANTS IndexConsistent SocketMapConsistent PendingIdsFresh SnapshotExact
CHECK_DEADLOCK FALSE
