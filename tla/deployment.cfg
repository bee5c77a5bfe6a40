SPECIFICATION Spec
CONSTANTS
    g1 = g1
    p2 = p2
    Replicas <- MCReplicas
    NoReplica = NoReplica
    Settings <- MCSettings
    Busy = {g1}
    Migrations = 2
    LlmTimeout = 1
    WalAttempts = 2
    MaxSockets = 1
    Own = g1
    Other = p2
    Commands = {"run", "harness", "serve"}
    GatewayTimeout = 1
INVARIANTS
    ServesCompleteSchema
    EveryReturnCleans
    
CHECK_DEADLOCK FALSE
