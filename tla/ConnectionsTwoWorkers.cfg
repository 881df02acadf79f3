CONSTANTS
    n1 = n1
    j1 = j1
    j2 = j2
    Node = {n1}
    JobId = {j1, j2}
    Worker = {w1, w2}
    Target <- MCTarget
    Fd = {1, 2}
    ANNOUNCE_TIMEOUT = 3
    MAX_DEAD = 10
    PayloadRoom = 1
    MaxLost = 0
    Faults = {}
SPECIFICATION Spec
INVARIANT ReleaseFrees
