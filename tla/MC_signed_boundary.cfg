\* A signed challenge redeemed twice in the millisecond it expires.
SPECIFICATION Spec
CONSTANTS
    Workers = {w1}
    Challenges = {c1}
    Tokens = {t1, t2}
    Scopes = {any}
    NoScope = any
    Absent = absent
    Modes = {"signed"}
    Ops = {"challenge", "redeem"}
    Verdicts = {"good"}
    SkipNonces = {FALSE}
    ChallengeTTLs = {1}
    TokenTTL = 2
    CleanupInterval = 2
    Faults = FALSE
    MaxTime = 4
    MaxResets = 0
SYMMETRY Symmetric
INVARIANTS
    SignedUsedOnce
