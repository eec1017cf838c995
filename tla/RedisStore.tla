---------------------------- MODULE RedisStore -----------------------------
(***************************************************************************)
(* The Redis Store of capredis/store.go: keys with a time to live that all *)
(* replicas share.                                                         *)
(*                                                                         *)
(* Redis runs one command or script at a time, so each is one step here.   *)
(* Time is the variable clock of the module that extends this one. Redis   *)
(* counts a time to live on its own clock, of which only the length of     *)
(* intervals matters; a key is gone once the clock has passed its "until". *)
(* A replica has a clock of its own, so the times it passes in ("at") and  *)
(* the expiries in the records may be off.                                 *)
(***************************************************************************)
EXTENDS Integers

CONSTANTS
    Challenges,     \* challenge tokens; their nonces, one to one
    Tokens,         \* hashed keys of verification tokens
    Scopes,
    NoScope,        \* the empty scope
    Absent          \* "no such key"

ASSUME ScopeAssumption == NoScope \in Scopes

Record == [scope: Scopes, expires: Nat, until: Nat]
Nonce  == [until: Nat]

ASSUME NoKeyAssumption == Absent \notin Record \cup Nonce \cup Challenges

VARIABLES
    challenges,     \* keys cap:challenge:...
    nonces,         \* keys cap:nonce:...
    tokens          \* keys cap:token:...

storeVars == <<challenges, nonces, tokens>>

StoreTypeOK ==
    /\ challenges \in [Challenges -> Record \cup {Absent}]
    /\ nonces \in [Challenges -> Nonce \cup {Absent}]
    /\ tokens \in [Tokens -> Record \cup {Absent}]

StoreInit ==
    /\ challenges = [c \in Challenges |-> Absent]
    /\ nonces = [c \in Challenges |-> Absent]
    /\ tokens = [t \in Tokens |-> Absent]

\* A bug: a millisecond is lost.
TTLForShort(expires, at) == IF expires - at < 2 THEN 1 ELSE expires - at - 1

\* At least one millisecond: Redis takes no less.
TTLFor(expires, at) == IF expires - at < 1 THEN 1 ELSE expires - at

\* SET key value PX ttl.
PutChallenge(c, scope, expires, until) ==
    /\ challenges' = [challenges EXCEPT ![c] =
          [scope |-> scope, expires |-> expires, until |-> until]]
    /\ UNCHANGED <<nonces, tokens>>

TakeChallengeOk(c, at) == challenges[c] # Absent /\ at < challenges[c].expires

\* A bug: the script does not delete.
GetChallenge(c) == UNCHANGED storeVars

\* takeChallengeScript: GET, then DEL.
TakeChallenge(c) ==
    /\ challenges' = [challenges EXCEPT ![c] = Absent]
    /\ UNCHANGED <<nonces, tokens>>

ClaimNonceOk(c) == nonces[c] = Absent

\* SET NX PX.
ClaimNonce(c, until) ==
    /\ nonces' = IF ClaimNonceOk(c)
                 THEN [nonces EXCEPT ![c] = [until |-> until]]
                 ELSE nonces
    /\ UNCHANGED <<challenges, tokens>>

PutToken(t, scope, expires, until) ==
    /\ tokens' = [tokens EXCEPT ![t] =
          [scope |-> scope, expires |-> expires, until |-> until]]
    /\ UNCHANGED <<challenges, nonces>>

ScopeFits(recordScope, scope) == scope = NoScope \/ recordScope = scope

ConsumeTokenOk(t, scope, at) ==
    /\ tokens[t] # Absent
    /\ ScopeFits(tokens[t].scope, scope)
    /\ at < tokens[t].expires

\* A bug: the script does not delete.
GetToken(t, scope, at, keep) == UNCHANGED storeVars

\* consumeTokenScript compares the scope first: an expired token of another
\* scope stays until Redis drops it.
ConsumeToken(t, scope, at, keep) ==
    /\ tokens' = IF /\ tokens[t] # Absent
                    /\ ScopeFits(tokens[t].scope, scope)
                    /\ tokens[t].expires <= at \/ ~keep
                 THEN [tokens EXCEPT ![t] = Absent]
                 ELSE tokens
    /\ UNCHANGED <<challenges, nonces>>

-----------------------------------------------------------------------------
(* Keys: expiry, SCAN and DEL *)

Keys == ({"challenge", "nonce"} \X Challenges) \cup ({"token"} \X Tokens)

Entry(k) == CASE k[1] = "challenge" -> challenges[k[2]]
              [] k[1] = "nonce"     -> nonces[k[2]]
              [] k[1] = "token"     -> tokens[k[2]]

Present == {k \in Keys : Entry(k) # Absent}

Without(map, K) == [k \in DOMAIN map |-> IF k \in K THEN Absent ELSE map[k]]

\* DEL of the keys in K, or their expiry.
Delete(K) ==
    /\ challenges' = Without(challenges, {c \in Challenges : <<"challenge", c>> \in K})
    /\ nonces' = Without(nonces, {c \in Challenges : <<"nonce", c>> \in K})
    /\ tokens' = Without(tokens, {t \in Tokens : <<"token", t>> \in K})

\* The keys that are gone when Redis's clock is at the given time.
Outlived(at) == {k \in Present : Entry(k).until < at}
=============================================================================
