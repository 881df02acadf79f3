CONSTANTS
    n1 = n1
    n2 = n2
    cpu = cpu
    gpu = gpu
    j1 = j1
    j2 = j2
    j3 = j3
    j4 = j4
    j5 = j5
    Node = {n1, n2}
    JobId = {j1, j2, j3, j4, j5}
    resource_t = {cpu, gpu}
    Home <- MCHome
    Total <- MCTotal
    Need <- MCNeed
    NodeOrder <- MCNodeOrder
    resource_order <- MCResourceOrder
    MAX_JOB_RESOURCES = 4
    MaxSweep = 4
SPECIFICATION LiveSpec
INVARIANTS
    TypeOK
    NoCircularWait
    HeldIsAccountedFor
    AnswersExpected
PROPERTIES
    ImplementsAllocator
    EveryJobFinishes
CHECK_DEADLOCK FALSE
