\* Expired entries go as long as calls come.
SPECIFICATION FairSpec
CONSTANTS
    Workers = {w1, w2}
    Challenges = {c1}
    Tokens = {t1}
    Scopes = {any}
    NoScope = any
    Absent = absent
    Modes = {"stored", "signed"}
    Ops = {"challenge", "redeem", "validate"}
    Verdicts = {"good"}
    SkipNonces = {FALSE}
    ChallengeTTLs = {1}
    TokenTTL = 1
    CleanupInterval = 1
    Faults = FALSE
    MaxTime = 3
    MaxResets = 0
PROPERTIES
    EventuallySwept
