\* Three workers, four handlers, chunks of up to two members.
CONSTANTS
    w1 = w1
    w2 = w2
    w3 = w3
    Workers <- MCWorkers
    MaxHandled = 4
    MaxChunk = 2
SYMMETRY MCSymmetry
SPECIFICATION Spec
INVARIANT NoDeadlock
INVARIANT LockOrder
