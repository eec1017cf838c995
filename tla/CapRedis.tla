------------------------------ MODULE CapRedis ------------------------------
(***************************************************************************)
(* Calls on the Caps of several replicas that share one Redis (cap.go over *)
(* capredis/store.go).                                                     *)
(*                                                                         *)
(* A worker serves calls on some replica, whose clock is Skew[w] ahead of  *)
(* the slowest one; cap.go and capredis both read it. lazyCleanup is left  *)
(* out: Store.Cleanup does nothing here. The random identifiers a call     *)
(* draws are fixed when it starts. A call may fail at any point (the       *)
(* solutions are wrong, the context is cancelled, Redis is down, the       *)
(* replica crashes), and the Redis client may send a command again whose   *)
(* answer was lost, so that its effect happens more than once.             *)
(***************************************************************************)
EXTENDS RedisStore

CONSTANTS
    Workers,
    Skew,           \* how far the clock of a worker's replica is ahead
    MaxSkew,        \* the largest of these
    Modes,          \* subset of {"stored", "signed"}
    Ops,            \* subset of {"challenge", "redeem", "validate", "reset"}
    ChallengeTTL,   \* in ms
    TokenTTL,       \* in ms
    MaxTime         \* bound on the clock

ASSUME CapRedisAssumption ==
    /\ MaxSkew \in Nat
    /\ Skew \in [Workers -> 0..MaxSkew]
    /\ Modes \subseteq {"stored", "signed"}
    /\ Ops \subseteq {"challenge", "redeem", "validate", "reset"}
    /\ ChallengeTTL \in Nat
    /\ TokenTTL \in Nat
    /\ MaxTime \in Nat

ChallengeCalls == [op: {"challenge"}, mode: Modes, scope: Scopes, chal: Challenges]
RedeemCalls    == [op: {"redeem"}, chal: Challenges, scope: Scopes, tok: Tokens]
ValidateCalls  == [op: {"validate"}, tok: Tokens, scope: Scopes, keep: BOOLEAN]
ResetCalls     == [op: {"reset"}, held: SUBSET Keys]
NoCall         == [op |-> "none"]
Requests       == ChallengeCalls \cup RedeemCalls \cup ValidateCalls
                     \cup ResetCalls \cup {NoCall}

Issued  == [mode: Modes, scope: Scopes, expires: Nat]
Granted == [chal: Challenges, expires: Nat]

ASSUME NothingHeldAssumption == Absent \notin Issued /\ Absent \notin Granted

VARIABLES
    clock,          \* that of the slowest replica
    pc, req, now,   \* per worker: the place, the call, the time read last
    left,           \* per worker: keys its Reset has yet to delete
    \* What the world outside has seen:
    issued,         \* challenges that Challenge returned
    granted,        \* tokens that Redeem returned
    used,           \* tokens accepted by a Validate without Keep
    dropped,        \* challenges whose nonce a Reset deleted
    wiped           \* what clients held when a Reset began that has returned

control == <<pc, req, now, left>>
history == <<issued, granted, used, dropped, wiped>>
vars    == <<storeVars, control, history, clock>>

Locations == {"idle", "put", "take", "check", "claim", "issue", "consume",
              "accepted", "reset"}

TypeOK ==
    /\ StoreTypeOK
    /\ clock \in Nat
    /\ pc \in [Workers -> Locations]
    /\ req \in [Workers -> Requests]
    /\ now \in [Workers -> Nat]
    /\ left \in [Workers -> SUBSET Keys]
    /\ issued \in [Challenges -> Issued \cup {Absent}]
    /\ granted \in [Tokens -> Granted \cup {Absent}]
    /\ used \subseteq Tokens
    /\ dropped \subseteq Challenges
    /\ wiped \subseteq Keys

Init ==
    /\ StoreInit
    /\ clock = 0
    /\ pc = [w \in Workers |-> "idle"]
    /\ req = [w \in Workers |-> NoCall]
    /\ now = [w \in Workers |-> 0]
    /\ left = [w \in Workers |-> {}]
    /\ issued = [c \in Challenges |-> Absent]
    /\ granted = [t \in Tokens |-> Absent]
    /\ used = {} /\ dropped = {} /\ wiped = {}

\* What worker w reads when it asks for the time.
Local(w) == clock + Skew[w]

-----------------------------------------------------------------------------
(* Control of a worker *)

Goto(w, place) ==
    /\ pc' = [pc EXCEPT ![w] = place]
    /\ UNCHANGED <<req, now, left>>

Return(w) ==
    /\ pc' = [pc EXCEPT ![w] = "idle"]
    /\ req' = [req EXCEPT ![w] = NoCall]
    /\ now' = [now EXCEPT ![w] = 0]
    /\ left' = [left EXCEPT ![w] = {}]

\* A call runs up to its first command.
Begin(w, call, place, keys) ==
    /\ pc[w] = "idle"
    /\ call.op \in Ops
    /\ pc' = [pc EXCEPT ![w] = place]
    /\ req' = [req EXCEPT ![w] = call]
    /\ now' = [now EXCEPT ![w] = Local(w)]
    /\ left' = [left EXCEPT ![w] = keys]
    /\ UNCHANGED <<storeVars, history, clock>>

\* Identifiers are random: nobody has drawn them before.
FreshChallenge(c) ==
    /\ issued[c] = Absent /\ challenges[c] = Absent
    /\ \A w \in Workers : req[w].op = "challenge" => req[w].chal # c
FreshToken(t) ==
    /\ granted[t] = Absent /\ tokens[t] = Absent
    /\ \A w \in Workers : req[w].op = "redeem" => req[w].tok # t

\* challengeStored up to PutChallenge.
BeginStored(w) ==
    \E call \in ChallengeCalls :
        /\ call.mode = "stored" /\ FreshChallenge(call.chal)
        /\ Begin(w, call, "put", {})

\* redeemStored up to TakeChallenge.
BeginRedeemStored(w) ==
    \E call \in RedeemCalls :
        /\ issued[call.chal] # Absent /\ issued[call.chal].mode = "stored"
        /\ FreshToken(call.tok)
        /\ Begin(w, call, "take", {})

\* redeemSigned up to the checks of the claims,
BeginRedeemSigned(w) ==
    \E call \in RedeemCalls :
        /\ issued[call.chal] # Absent /\ issued[call.chal].mode = "signed"
        /\ FreshToken(call.tok)
        /\ Begin(w, call, "check", {})

\* and these.
Check(w) ==
    LET claims == issued[req[w].chal] IN
    /\ pc[w] = "check"
    /\ IF now[w] <= claims.expires /\ ScopeFits(claims.scope, req[w].scope)
       THEN Goto(w, "claim")
       ELSE Return(w)
    /\ UNCHANGED <<storeVars, history, clock>>

BeginValidate(w) ==
    \E call \in ValidateCalls :
        granted[call.tok] # Absent /\ Begin(w, call, "consume", {})

\* A client holds the challenge or token of the key.
Held(k) == \/ k[1] = "challenge" /\ issued[k[2]] # Absent
           \/ k[1] = "token" /\ granted[k[2]] # Absent

\* The keys there are when Reset begins are the ones SCAN is sure to return.
\* The call remembers which of them are in the hands of a client.
BeginReset(w) ==
    Begin(w, [op |-> "reset", held |-> {k \in Present : Held(k)}],
          "reset", Present)

-----------------------------------------------------------------------------
(* Commands *)

\* A bug: the lifetime is subtracted.
TokenExpiryPast(w) == now[w] - TokenTTL

\* The expiries of what a call puts. ttlFor reads the clock once more, at some
\* time between the call's own reading and the command.
ChallengeExpiry(w) == now[w] + ChallengeTTL
TokenExpiry(w)     == now[w] + TokenTTL
Until(w, expires)  == {clock + TTLFor(expires, at) : at \in now[w]..Local(w)}

DoPut(w) ==
    \E until \in Until(w, ChallengeExpiry(w)) :
        PutChallenge(req[w].chal, req[w].scope, ChallengeExpiry(w), until)
DoTake(w)    == TakeChallenge(req[w].chal)
DoClaim(w)   == LET expires == issued[req[w].chal].expires IN
                ClaimNonce(req[w].chal, clock + TTLFor(expires, now[w]))
DoIssue(w)   == \E until \in Until(w, TokenExpiry(w)) :
                    PutToken(req[w].tok, issued[req[w].chal].scope,
                             TokenExpiry(w), until)
DoConsume(w) == ConsumeToken(req[w].tok, req[w].scope, now[w], req[w].keep)

\* challengeSigned and challengeV2 send no command.
IssueSigned(w) ==
    /\ pc[w] = "idle" /\ "challenge" \in Ops /\ "signed" \in Modes
    /\ \E c \in Challenges, scope \in Scopes :
          /\ FreshChallenge(c)
          /\ issued' = [issued EXCEPT ![c] =
                [mode |-> "signed", scope |-> scope,
                 expires |-> Local(w) + ChallengeTTL]]
    /\ UNCHANGED <<storeVars, control, clock, granted, used, dropped,
                   wiped>>

Put(w) ==
    /\ pc[w] = "put"
    /\ DoPut(w)
    /\ issued' = [issued EXCEPT ![req[w].chal] =
          [mode |-> "stored", scope |-> req[w].scope,
           expires |-> ChallengeExpiry(w)]]
    /\ Return(w)
    /\ UNCHANGED <<clock, granted, used, dropped, wiped>>

Take(w) ==
    LET c == req[w].chal IN
    /\ pc[w] = "take"
    /\ DoTake(w)
    /\ IF TakeChallengeOk(c, now[w]) /\ ScopeFits(challenges[c].scope, req[w].scope)
       THEN Goto(w, "issue")
       ELSE Return(w)
    /\ UNCHANGED <<clock, history>>

Claim(w) ==
    LET c == req[w].chal IN
    /\ pc[w] = "claim"
    /\ DoClaim(w)
    /\ IF ClaimNonceOk(c) THEN Goto(w, "issue") ELSE Return(w)
    /\ UNCHANGED <<clock, history>>

IssueToken(w) ==
    /\ pc[w] = "issue"
    /\ DoIssue(w)
    /\ granted' = [granted EXCEPT ![req[w].tok] =
          [chal |-> req[w].chal, expires |-> TokenExpiry(w)]]
    /\ Return(w)
    /\ UNCHANGED <<clock, issued, used, dropped, wiped>>

Consume(w) ==
    LET ok == ConsumeTokenOk(req[w].tok, req[w].scope, now[w]) IN
    /\ pc[w] = "consume"
    /\ DoConsume(w)
    /\ IF ok THEN Goto(w, "accepted") ELSE Return(w)
    /\ used' = IF ok /\ ~req[w].keep THEN used \cup {req[w].tok} ELSE used
    /\ UNCHANGED <<clock, issued, granted, dropped, wiped>>

\* Validate returns true.
Accept(w) ==
    /\ pc[w] = "accepted"
    /\ Return(w)
    /\ UNCHANGED <<storeVars, clock, history>>

\* Reset deletes a key that SCAN returned; keys made since may be among them.
ResetDel(w) ==
    /\ pc[w] = "reset"
    /\ \E k \in Present :
          /\ Delete({k})
          /\ left' = [v \in Workers |-> left[v] \ {k}]
          /\ dropped' = IF k[1] = "nonce" THEN dropped \cup {k[2]} ELSE dropped
    /\ UNCHANGED <<pc, req, now, clock, issued, granted, used, wiped>>

\* A bug: Reset returns after the first batch of keys.
ResetDoneEarly(w) ==
    /\ pc[w] = "reset"
    /\ wiped' = wiped \cup req[w].held
    /\ Return(w)
    /\ UNCHANGED <<storeVars, clock, issued, granted, used, dropped>>

\* The cursor is back at 0: every key that was there all along was returned.
ResetDone(w) ==
    /\ pc[w] = "reset"
    /\ left[w] \cap Present = {}
    /\ wiped' = wiped \cup req[w].held
    /\ Return(w)
    /\ UNCHANGED <<storeVars, clock, issued, granted, used, dropped>>

\* The answer is lost and the client will send the command again.
Resend(w) ==
    /\ \/ pc[w] = "put" /\ DoPut(w)
       \/ pc[w] = "take" /\ DoTake(w)
       \/ pc[w] = "claim" /\ DoClaim(w)
       \/ pc[w] = "issue" /\ DoIssue(w)
       \/ pc[w] = "consume" /\ DoConsume(w)
    /\ UNCHANGED <<control, clock, history>>

\* The call fails, whatever it has sent so far: a Reset too, half way.
Fail(w) ==
    /\ pc[w] \notin {"idle", "accepted"}
    /\ Return(w)
    /\ UNCHANGED <<storeVars, clock, history>>

Step(w) == \/ Put(w) \/ Take(w) \/ Check(w) \/ Claim(w) \/ IssueToken(w)
           \/ Consume(w) \/ Accept(w) \/ ResetDel(w) \/ ResetDone(w)
           \/ Resend(w) \/ Fail(w)

Call(w) == \/ BeginStored(w) \/ IssueSigned(w)
           \/ BeginRedeemStored(w) \/ BeginRedeemSigned(w)
           \/ BeginValidate(w) \/ BeginReset(w)

\* Time passes, and Redis drops the keys that have outlived their time.
Tick ==
    /\ clock < MaxTime
    /\ clock' = clock + 1
    /\ Delete(Outlived(clock'))
    /\ left' = [w \in Workers |-> left[w] \ Outlived(clock')]
    /\ UNCHANGED <<pc, req, now, history>>

Next == Tick \/ \E w \in Workers : Call(w) \/ Step(w)

Spec == Init /\ [][Next]_vars

-----------------------------------------------------------------------------
(* Safety *)

\* The challenges whose single use Redis can still enforce: a stored one
\* always; a signed one until the fastest clock has reached its expiry, unless
\* a Reset dropped its nonce.
Enforced(c) ==
    \/ issued[c].mode = "stored"
    \/ clock + MaxSkew <= issued[c].expires /\ c \notin dropped

\* Redis drops nothing that is still live on every replica: times to live are
\* computed from a record's expiry and a clock that may be ahead, yet a key
\* lives until the fastest replica has reached the expiry.
KeysLiveOn ==
    [][clock' # clock =>
        /\ \A c \in Challenges :
              challenges[c] # Absent /\ challenges'[c] = Absent =>
                  challenges[c].expires < clock' + MaxSkew
        /\ \A c \in Challenges :
              nonces[c] # Absent /\ nonces'[c] = Absent =>
                  issued[c].expires < clock' + MaxSkew
        /\ \A t \in Tokens :
              tokens[t] # Absent /\ tokens'[t] = Absent =>
                  tokens[t].expires < clock' + MaxSkew]_vars

\* What a client held when a Reset began is gone for good once the Reset has
\* returned, whichever calls and resent commands ran beside it.
WipedStay == wiped \cap Present = {}

-----------------------------------------------------------------------------
(* The ledger *)

SpentInRedis(c) ==
    IF issued[c].mode = "stored" THEN challenges[c] = Absent
    ELSE nonces[c] # Absent

\* The ledger's view of challenges, workers and tokens.
StatusOf(c) ==
    IF issued[c] = Absent THEN "new"
    ELSE IF ~Enforced(c) THEN "lapsed"
    ELSE IF SpentInRedis(c) THEN "spent" ELSE "open"
RightOf(w) == IF pc[w] = "issue" THEN req[w].chal ELSE Absent
TokOf(t) ==
    IF granted[t] = Absent THEN "new"
    ELSE IF t \in used THEN "used"
    ELSE IF tokens[t] = Absent THEN "gone" ELSE "good"
OriginOf(t)  == IF granted[t] = Absent THEN Absent ELSE granted[t].chal
VerdictOf(w) == IF pc[w] = "accepted" THEN req[w].tok ELSE Absent

L == INSTANCE Ledger WITH
        Agents  <- Workers,
        None    <- Absent,
        status  <- [c \in Challenges |-> StatusOf(c)],
        right   <- [w \in Workers |-> RightOf(w)],
        tok     <- [t \in Tokens |-> TokOf(t)],
        origin  <- [t \in Tokens |-> OriginOf(t)],
        verdict <- [w \in Workers |-> VerdictOf(w)]

\* Replicas with clocks that differ, over Redis, with commands that are resent
\* and a Reset that deletes key by key, implement the same ledger as one Cap
\* over the in-memory store: a challenge gives at most one token as long as its
\* use can be enforced, and no replica accepts a token that another consumed.
ImplementsLedger == L!Spec
=============================================================================
