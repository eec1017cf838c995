\* An instrumentation result accepted after its own TTL.
SPECIFICATION Spec
CONSTANTS
    Ids = {1}
    Deployments <- ShortProbes
    DefaultPow <- Defaults
    MaxPow <- Limits
    DefaultTTL = 2
    DefaultTokenTTL = 2
    MaxTime = 3
    MaxStarts = 1
    MaxRedeemed = 2
INVARIANTS
    InstrumentationTTLBounds
