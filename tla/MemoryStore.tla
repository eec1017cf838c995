---------------------------- MODULE MemoryStore ----------------------------
(***************************************************************************)
(* The in-memory Store of store.go: three maps behind one mutex.           *)
(*                                                                         *)
(* Every method of MemoryStore holds the mutex from its first line to its  *)
(* last, so each is one atomic step here: a method is an action on the     *)
(* three maps (Take..., Claim..., Put...) together with, where the method  *)
(* returns an "ok", a state predicate of the same name with the suffix Ok  *)
(* that is evaluated in the state the method starts in.                    *)
(*                                                                         *)
(* A map is a total function whose value at an unused key is Absent. Times *)
(* are Unix milliseconds; a caller passes the time it read earlier, which  *)
(* the parameter "at" stands for. Of a ChallengeRecord only the fields     *)
(* that decide control are kept: the scope and the expiry. A challenge's   *)
(* nonce key ("nonce:" plus the signature of the token) is one-to-one with *)
(* the challenge, so nonces is indexed by challenges.                      *)
(***************************************************************************)
EXTENDS Naturals

CONSTANTS
    Challenges,     \* challenge tokens
    Tokens,         \* verification tokens (their hashed keys, one to one)
    Scopes,         \* scopes, the empty one included
    NoScope,        \* the empty scope ""
    Absent          \* "no entry in the map"

ASSUME NoScopeAssumption == NoScope \in Scopes

\* What a challenge or a token record keeps, and what a nonce keeps.
Record == [scope: Scopes, expires: Nat]
Nonce  == [expires: Nat]

ASSUME AbsentAssumption ==
    /\ Absent \notin Nat
    /\ Absent \notin Record
    /\ Absent \notin Nonce

VARIABLES
    challenges,     \* stored challenges
    nonces,         \* signed challenges already redeemed
    tokens          \* verification tokens not consumed yet

storeVars == <<challenges, nonces, tokens>>

StoreTypeOK ==
    /\ challenges \in [Challenges -> Record \cup {Absent}]
    /\ nonces \in [Challenges -> Nonce \cup {Absent}]
    /\ tokens \in [Tokens -> Record \cup {Absent}]

StoreInit ==
    /\ challenges = [c \in Challenges |-> Absent]
    /\ nonces = [c \in Challenges |-> Absent]
    /\ tokens = [t \in Tokens |-> Absent]

-----------------------------------------------------------------------------
(* Challenges *)

PutChallenge(c, record) ==
    /\ challenges' = [challenges EXCEPT ![c] = record]
    /\ UNCHANGED <<nonces, tokens>>

TakeChallengeOk(c, at) ==
    /\ challenges[c] # Absent
    /\ at < challenges[c].expires

\* A bug: the record is only fetched, as if Take were a Get.
GetChallenge(c) == UNCHANGED storeVars

\* The entry goes whether or not it had expired.
TakeChallenge(c) ==
    /\ challenges' = [challenges EXCEPT ![c] = Absent]
    /\ UNCHANGED <<nonces, tokens>>

-----------------------------------------------------------------------------
(* Nonces of signed challenges *)

ClaimNonceOk(c, at) ==
    \/ nonces[c] = Absent
    \/ nonces[c].expires <= at

ClaimNonce(c, expires, at) ==
    /\ nonces' = IF ClaimNonceOk(c, at)
                 THEN [nonces EXCEPT ![c] = [expires |-> expires]]
                 ELSE nonces
    /\ UNCHANGED <<challenges, tokens>>

-----------------------------------------------------------------------------
(* Verification tokens *)

PutToken(t, record) ==
    /\ tokens' = [tokens EXCEPT ![t] = record]
    /\ UNCHANGED <<challenges, nonces>>

ScopeFits(recordScope, scope) == scope = NoScope \/ recordScope = scope

\* A bug: an expired token is accepted.
ConsumeExpiredOk(t, scope, at) ==
    /\ tokens[t] # Absent
    /\ ScopeFits(tokens[t].scope, scope)

\* A bug: the scope of the token is not compared.
ConsumeAnyScopeOk(t, scope, at) ==
    /\ tokens[t] # Absent
    /\ at < tokens[t].expires

ConsumeTokenOk(t, scope, at) ==
    /\ tokens[t] # Absent
    /\ at < tokens[t].expires
    /\ ScopeFits(tokens[t].scope, scope)

\* A bug: the token stays in the map although the caller consumes it.
ConsumeTokenKeeps(t, scope, at, keep) == UNCHANGED storeVars

\* A bug: a scope mismatch deletes the token.
ConsumeTokenDrops(t, scope, at, keep) ==
    /\ tokens' = IF tokens[t] # Absent /\ (~keep \/ tokens[t].expires <= at)
                 THEN [tokens EXCEPT ![t] = Absent]
                 ELSE tokens
    /\ UNCHANGED <<challenges, nonces>>

\* An expired token is deleted, a token of another scope is left untouched,
\* an accepted one is deleted unless the caller keeps it.
ConsumeToken(t, scope, at, keep) ==
    /\ tokens' =
         IF \/ tokens[t] # Absent /\ tokens[t].expires <= at
            \/ ConsumeTokenOk(t, scope, at) /\ ~keep
         THEN [tokens EXCEPT ![t] = Absent]
         ELSE tokens
    /\ UNCHANGED <<challenges, nonces>>

-----------------------------------------------------------------------------
(* Maintenance *)

\* A bug: an entry goes one millisecond early.
LiveEntriesEarly(map, at) ==
    [k \in DOMAIN map |->
        IF map[k] # Absent /\ map[k].expires <= at + 1 THEN Absent ELSE map[k]]

\* What remains of a map after Cleanup at the given time.
LiveEntries(map, at) ==
    [k \in DOMAIN map |->
        IF map[k] # Absent /\ map[k].expires <= at THEN Absent ELSE map[k]]

StoreCleanup(at) ==
    /\ challenges' = LiveEntries(challenges, at)
    /\ nonces' = LiveEntries(nonces, at)
    /\ tokens' = LiveEntries(tokens, at)

StoreReset ==
    /\ challenges' = [c \in Challenges |-> Absent]
    /\ nonces' = [c \in Challenges |-> Absent]
    /\ tokens' = [t \in Tokens |-> Absent]
=============================================================================
