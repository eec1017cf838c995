\* Validations of tokens of a site and of none, with and without Keep, across
\* the expiry of the tokens.
SPECIFICATION Spec
CONSTANTS
    Workers = {w1, w2}
    Challenges = {c1}
    Tokens = {t1}
    Scopes = {any, site1, site2}
    NoScope = any
    Absent = absent
    Modes = {"stored", "signed"}
    Ops = {"challenge", "redeem", "validate"}
    Verdicts = {"good"}
    SkipNonces = {FALSE}
    ChallengeTTLs = {1}
    TokenTTL = 2
    CleanupInterval = 2
    Faults = FALSE
    MaxTime = 3
    MaxResets = 0
SYMMETRY Symmetric
INVARIANTS
    AcceptedInTime
    AcceptedInScope
PROPERTIES
    AcceptedOnce
    ValidTokenAccepted
