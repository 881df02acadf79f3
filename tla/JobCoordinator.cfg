CONSTANTS
    j1 = j1
    j2 = j2
    n1 = n1
    n2 = n2
    cpu = cpu
    mem = mem
    erl = erl
    PetitionsOf <- MCPetitionsOf
    JobId = {j1, j2}
    Node = {n1, n2}
    resource_t = {cpu, mem}
    Client = {erl}
    MAX_JOB_RESOURCES = 2
    MAX_OUTBOX = 8
    MAX_AFFECTED = 3
    MAX_ORPHANS = 3
    MaxConn = 2
    Faults = {"timeout", "scheduler", "link", "silence", "race"}
SPECIFICATION LiveSpec
INVARIANTS
    TypeOK
    ReservedInOrder
    GrantedIsHeld
    RollbackIsComplete
    AnswerDiscipline
PROPERTIES
    EveryRequestAnswered
CHECK_DEADLOCK FALSE
