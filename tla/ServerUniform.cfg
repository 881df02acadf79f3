CONSTANTS
    cpu = cpu
    gpu = gpu
    a = a
    b = b
    j1 = j1
    j2 = j2
    Total <- MCTotal
    resource_t = {cpu, gpu}
    Socket = {a, b}
    JobId = {j1, j2}
    Quantities = {1}
    MAX_OUTBOX = 4
    MaxSweep = 4
    Mortal = {}
    RepeatIds = FALSE
SPECIFICATION LiveSpec
PROPERTIES EventuallyServed
INVARIANTS WorkConserving
