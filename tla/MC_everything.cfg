\* Every method, expiry, a Reset and a failing store, with all kinds of
\* solutions: the inductive invariant and the ledger.
SPECIFICATION Spec
CONSTANTS
    Workers = {w1, w2}
    Challenges = {c1}
    Tokens = {t1}
    Scopes = {any}
    NoScope = any
    Absent = absent
    Modes = {"stored", "signed"}
    Ops = {"challenge", "redeem", "validate", "cleanup", "reset"}
    Verdicts = {"good", "wrong", "malformed"}
    SkipNonces = {FALSE}
    ChallengeTTLs = {1}
    TokenTTL = 1
    CleanupInterval = 2
    Faults = TRUE
    MaxTime = 2
    MaxResets = 1
SYMMETRY Symmetric
INVARIANTS
    IInv
PROPERTIES
    ImplementsLedger
