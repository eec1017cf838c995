\* Redemptions of stored and signed challenges against cleanups, a Reset, expiry
\* and a store that fails before or after it has done its work.
SPECIFICATION Spec
CONSTANTS
    Workers = {w1, w2}
    Challenges = {c1}
    Tokens = {t1, t2}
    Scopes = {any}
    NoScope = any
    Absent = absent
    Modes = {"stored", "signed"}
    Ops = {"challenge", "redeem", "cleanup", "reset"}
    Verdicts = {"good"}
    SkipNonces = {TRUE, FALSE}
    ChallengeTTLs = {1}
    TokenTTL = 1
    CleanupInterval = 1
    Faults = TRUE
    MaxTime = 2
    MaxResets = 1
SYMMETRY Symmetric
INVARIANTS
    TypeOK
    OneTokenPerChallenge
    SweepsSpaced
PROPERTIES
    DropsOnlyExpired
