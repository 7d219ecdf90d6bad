\* The model server may fail to answer a recovery.
CHECK_DEADLOCK FALSE
SPECIFICATION DeploymentSpec
CONSTANTS
    Policies = {q1, q2}
    NoPolicy = NoPolicy
    MaxIds = 2
    MaxTroubles = 2
    Careful = TRUE
    Steady = FALSE
PROPERTIES RecoveryCompletes
