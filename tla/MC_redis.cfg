\* Redemptions and validations on two replicas, one of them ahead, with resent
\* commands, failures, key expiry and a Reset.
SPECIFICATION Spec
CONSTANTS
    Workers = {1, 2}
    Challenges = {c1}
    Tokens = {t1, t2}
    Scopes = {any}
    NoScope = any
    Absent = absent
    Skew <- Ahead
    MaxSkew = 1
    Modes = {"stored", "signed"}
    Ops = {"challenge", "redeem", "validate", "reset"}
    ChallengeTTL = 2
    TokenTTL = 1
    MaxTime = 2
SYMMETRY Symmetric
INVARIANTS
    TypeOK
    WipedStay
    IInv
PROPERTIES
    KeysLiveOn
    ImplementsLedger
