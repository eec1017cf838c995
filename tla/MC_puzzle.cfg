\* Challenges and redemptions of both formats and of custom generators.
SPECIFICATION Spec
CONSTANTS
    Ids = {1, 2}
    Deployments <- Services
    DefaultPow <- Defaults
    MaxPow <- Limits
    DefaultTTL = 1
    DefaultTokenTTL = 2
    MaxTime = 2
    MaxStarts = 2
    MaxRedeemed = 2
INVARIANTS
    HonestRedeems
    SolvedOnly
    OnePerChallenge
    PuzzleInv
