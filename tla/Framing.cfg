CONSTANTS
    JobId = {1, 12}
    Prefix <- MCPrefix
    N_REQUESTS = 1
    MaxSize = 2
    Buffer = 20
    TRIES = 2
    Faults = {"fragment"}
SPECIFICATION Spec
INVARIANT GrantCoversRequest
