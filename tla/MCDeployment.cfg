\* Two policies, two transitions, and two deaths, errors or user updates.
CHECK_DEADLOCK FALSE
SPECIFICATION DeploymentSpec
CONSTANTS
    Policies = {q1, q2}
    NoPolicy = NoPolicy
    MaxIds = 2
    MaxTroubles = 2
    Careful = TRUE
    Steady = TRUE
INVARIANTS RoutedValidated 
PROPERTIES RecoveryCompletes
