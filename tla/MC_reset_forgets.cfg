\* A signed challenge that outlives Reset.
SPECIFICATION Spec
CONSTANTS
    Workers = {w1}
    Challenges = {c1}
    Tokens = {t1, t2}
    Scopes = {any}
    NoScope = any
    Absent = absent
    Modes = {"signed"}
    Ops = {"challenge", "redeem", "reset"}
    Verdicts = {"good"}
    SkipNonces = {FALSE}
    ChallengeTTLs = {2}
    TokenTTL = 2
    CleanupInterval = 2
    Faults = FALSE
    MaxTime = 4
    MaxResets = 1
SYMMETRY Symmetric
INVARIANTS
    ResetDropsChallenges
