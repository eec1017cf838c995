SPECIFICATION Spec
CONSTANTS
    Configs <- AllConfigs
    Requests <- AllRequests
    Behind <- BehindOf
    Challenges = {c1}
    Faults = TRUE
INVARIANTS
    RoutesNameScope
    MountsAgree
    RejectionIsFinal
