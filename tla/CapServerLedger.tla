-------------------------- MODULE CapServerLedger --------------------------
(***************************************************************************)
(* Calls on one Cap over the in-memory store implement the ledger: the     *)
(* refinement mapping.                                                     *)
(***************************************************************************)
EXTENDS CapServerInv

\* A stored challenge is open while its record is there. A signed one is open
\* until its nonce is claimed, and lapses when it expires or Reset drops the
\* nonces.
StatusOf(c) ==
    IF issued[c] = Absent THEN "new"
    ELSE IF ~Enforced(c) THEN "lapsed"
    ELSE IF Spent(c) THEN "spent" ELSE "open"

\* A call that is about to issue a token for its challenge holds a right.
RightOf(w) == IF Redeems(w, req[w].chal) THEN req[w].chal ELSE Absent

TokOf(t) ==
    IF granted[t] = Absent THEN "new"
    ELSE IF t \in used THEN "used"
    ELSE IF tokens[t] = Absent THEN "gone" ELSE "good"

OriginOf(t) ==
    IF granted[t] = Absent \/ granted[t].skipNonce THEN Absent
    ELSE granted[t].chal

VerdictOf(w) == IF pc[w] = "accepted" THEN req[w].tok ELSE Absent

L == INSTANCE Ledger WITH
        Agents <- Workers,
        None <- Absent,
        status <- [c \in Challenges |-> StatusOf(c)],
        right <- [w \in Workers |-> RightOf(w)],
        tok <- [t \in Tokens |-> TokOf(t)],
        origin <- [t \in Tokens |-> OriginOf(t)],
        verdict <- [w \in Workers |-> VerdictOf(w)]

\* Whatever goroutines, cleanups, resets and store failures do, the calls on a
\* Cap look to their clients like steps of the ledger: each challenge is spent
\* once before it gives a token, each token is accepted only while good.
ImplementsLedger == L!Spec
=============================================================================
