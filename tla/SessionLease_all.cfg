\* Two worker processes, one after the other or at once.
CONSTANTS
    w1 = w1  w2 = w2  h1 = h1  t1 = t1  t2 = t2
    NoPid = NoPid  NoTask = NoTask
    Workers <- MCWorkers
    Handlers = {h1}
    Pid <- MCPid
    Readers = {r1}
    Tasks <- MCTasks
    MaxEpoch = 2
    Overlap = TRUE
SPECIFICATION Spec
SYMMETRY MCSymmetry
INVARIANTS TypeOK LeaseEndsWithRelease AnswerHeldLease
CHECK_DEADLOCK FALSE
