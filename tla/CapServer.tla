----------------------------- MODULE CapServer -----------------------------
(***************************************************************************)
(* Concurrent calls on one Cap (cap.go): Challenge, Redeem, Validate,      *)
(* Cleanup and Reset, each running in a goroutine of its own over a shared *)
(* Store and a shared clock.                                               *)
(*                                                                         *)
(* A worker is a goroutine that serves one call after another. A call runs *)
(* as a sequence of steps, split exactly where another goroutine can get   *)
(* in between: reading the clock, the critical section of lazyCleanup, and *)
(* every call of the Store. What runs between two such points (parsing,    *)
(* proof-of-work and instrumentation checks, signing) touches no shared    *)
(* state and is part of the step before it; its verdict is the "sol" field *)
(* of a redemption. A "signed" challenge stands for the stateless format 1 *)
(* and for format 2, which redeem through the same claims and nonce.       *)
(*                                                                         *)
(* Verification tokens are the built-in ones (SignToken and VerifyToken    *)
(* unset).                                                                 *)
(***************************************************************************)
EXTENDS MemoryStore

CONSTANTS
    Workers,            \* goroutines
    Modes,              \* subset of {"stored", "signed"}
    Ops,                \* the methods that callers use
    Verdicts,           \* subset of {"good", "wrong", "malformed"}
    SkipNonces,         \* values of RedeemOptions.SkipNonce in use
    ChallengeTTLs,      \* challenge lifetimes, in ms
    TokenTTL,           \* lifetime of a verification token, in ms
    CleanupInterval,    \* least time between two lazy cleanups, in ms
    Faults,             \* may the Store return errors?
    MaxTime,            \* bound on the clock
    MaxResets           \* bound on the calls of Reset

ASSUME CapServerAssumption ==
    /\ Modes \subseteq {"stored", "signed"}
    /\ Ops \subseteq {"challenge", "redeem", "validate", "cleanup", "reset"}
    /\ Verdicts \subseteq {"good", "wrong", "malformed"}
    /\ SkipNonces \subseteq BOOLEAN
    /\ ChallengeTTLs \subseteq Nat
    /\ TokenTTL \in Nat
    /\ CleanupInterval \in Nat \ {0}
    /\ Faults \in BOOLEAN
    /\ MaxTime \in Nat
    /\ MaxResets \in Nat

\* The arguments of a call in progress.
ChallengeCalls == [op: {"challenge"}, mode: Modes, scope: Scopes,
                   ttl: ChallengeTTLs]
RedeemCalls    == [op: {"redeem"}, chal: Challenges, scope: Scopes,
                   sol: Verdicts, skipNonce: SkipNonces]
ValidateCalls  == [op: {"validate"}, tok: Tokens, scope: Scopes,
                   keep: BOOLEAN]
PlainCalls     == [op: {"none", "cleanup", "reset"}]
NoCall         == [op |-> "none"]
Requests       == ChallengeCalls \cup RedeemCalls \cup ValidateCalls
                    \cup PlainCalls

\* A challenge a client holds, and a token a client holds.
Issued  == [mode: Modes, scope: Scopes, expires: Nat, epoch: Nat]
Granted == [chal: Challenges, at: Nat, epoch: Nat, skipNonce: BOOLEAN]

ASSUME HistoryAssumption == Absent \notin Issued /\ Absent \notin Granted

VARIABLES
    clock,          \* Options.Now in Unix ms
    lastCleanup,    \* Cap.lastCleanup; Absent is the zero time
    pc,             \* where each worker's call is
    req,            \* the call each worker serves
    now,            \* the time the call read last (0 when idle)
    \* What the world outside has seen:
    issued,         \* challenges that Challenge returned
    granted,        \* tokens that Redeem returned
    used,           \* tokens accepted by a Validate without Keep
    resets          \* Resets done so far

serverVars == <<lastCleanup, pc, req, now>>
history    == <<issued, granted, used, resets>>
vars       == <<storeVars, serverVars, history, clock>>

Locations == {"idle", "lazy", "sweep", "body", "put", "take", "claim",
              "issue", "consume", "accepted", "cleanup", "reset"}

TypeOK ==
    /\ StoreTypeOK
    /\ clock \in Nat
    /\ lastCleanup \in Nat \cup {Absent}
    /\ pc \in [Workers -> Locations]
    /\ req \in [Workers -> Requests]
    /\ now \in [Workers -> Nat]
    /\ issued \in [Challenges -> Issued \cup {Absent}]
    /\ granted \in [Tokens -> Granted \cup {Absent}]
    /\ used \in SUBSET Tokens
    /\ resets \in Nat

Init ==
    /\ StoreInit
    /\ clock = 0
    /\ lastCleanup = Absent
    /\ pc = [w \in Workers |-> "idle"]
    /\ req = [w \in Workers |-> NoCall]
    /\ now = [w \in Workers |-> 0]
    /\ issued = [c \in Challenges |-> Absent]
    /\ granted = [t \in Tokens |-> Absent]
    /\ used = {}
    /\ resets = 0

-----------------------------------------------------------------------------
(* Control of a worker *)

\* The call goes on at the given place with what it has read already.
Goto(w, place) ==
    /\ pc' = [pc EXCEPT ![w] = place]
    /\ UNCHANGED <<req, now>>

\* The call goes on and reads the clock (c.now()).
ReadClockGoto(w, place) ==
    /\ pc' = [pc EXCEPT ![w] = place]
    /\ now' = [now EXCEPT ![w] = clock]
    /\ UNCHANGED req

\* The call returns, with a result or with an error.
Return(w) ==
    /\ pc' = [pc EXCEPT ![w] = "idle"]
    /\ req' = [req EXCEPT ![w] = NoCall]
    /\ now' = [now EXCEPT ![w] = 0]

\* A call starts; each method reads the clock first, in lazyCleanup or,
\* for Cleanup itself, to pass it to the store.
Begin(w, call, place) ==
    /\ pc[w] = "idle"
    /\ call.op \in Ops
    /\ pc' = [pc EXCEPT ![w] = place]
    /\ req' = [req EXCEPT ![w] = call]
    /\ now' = [now EXCEPT ![w] = clock]
    /\ UNCHANGED <<storeVars, lastCleanup, history, clock>>

BeginChallenge(w) ==
    \E call \in ChallengeCalls : Begin(w, call, "lazy")

\* A client redeems a challenge that it was given,
BeginRedeem(w) ==
    \E call \in RedeemCalls :
        issued[call.chal] # Absent /\ Begin(w, call, "lazy")

\* and a site validates a token that a client was given.
BeginValidate(w) ==
    \E call \in ValidateCalls :
        granted[call.tok] # Absent /\ Begin(w, call, "lazy")

BeginCleanup(w) == Begin(w, [op |-> "cleanup"], "cleanup")

BeginReset(w) == resets < MaxResets /\ Begin(w, [op |-> "reset"], "reset")

Call(w) == \/ BeginChallenge(w)
           \/ BeginRedeem(w)
           \/ BeginValidate(w)
           \/ BeginCleanup(w)
           \/ BeginReset(w)

-----------------------------------------------------------------------------
(* Cleanup and Reset *)

\* A bug: only the first call ever cleans up.
CleanupDueOnce(at) == lastCleanup = Absent

CleanupDue(at) ==
    lastCleanup = Absent \/ lastCleanup + CleanupInterval <= at

\* A bug: lastCleanup is not set in the critical section.
LazyCleanupForgets(w) ==
    /\ pc[w] = "lazy"
    /\ IF CleanupDue(now[w]) THEN Goto(w, "sweep") ELSE Goto(w, "body")
    /\ UNCHANGED <<storeVars, lastCleanup, history, clock>>

\* The critical section of lazyCleanup. The time it compares was read before
\* the mutex was taken, so it may be older than lastCleanup.
LazyCleanup(w) ==
    /\ pc[w] = "lazy"
    /\ IF CleanupDue(now[w])
       THEN lastCleanup' = now[w] /\ Goto(w, "sweep")
       ELSE lastCleanup' = lastCleanup /\ Goto(w, "body")
    /\ UNCHANGED <<storeVars, history, clock>>

\* Store.Cleanup with the time lazyCleanup read; its error is ignored.
Sweep(w) ==
    /\ pc[w] = "sweep"
    /\ StoreCleanup(now[w])
    /\ Goto(w, "body")
    /\ UNCHANGED <<lastCleanup, history, clock>>

\* The exported Cleanup.
Cleanup(w) ==
    /\ pc[w] = "cleanup"
    /\ StoreCleanup(now[w])
    /\ Return(w)
    /\ UNCHANGED <<lastCleanup, history, clock>>

\* The exported Reset; the minters it also forgets are a cache.
Reset(w) ==
    /\ pc[w] = "reset"
    /\ StoreReset
    /\ resets' = resets + 1
    /\ Return(w)
    /\ UNCHANGED <<lastCleanup, issued, granted, used, clock>>

-----------------------------------------------------------------------------
(* Challenge *)

\* A token that no client and no map knows: the tokens are random.
FreshChallenge(c) == issued[c] = Absent /\ challenges[c] = Absent

\* The client gets challenge c.
IssueChallenge(w, c, expires) ==
    issued' = [issued EXCEPT ![c] =
        [mode |-> req[w].mode, scope |-> req[w].scope,
         expires |-> expires, epoch |-> resets]]

\* challengeStored up to the Store: it reads the clock, then draws the token
\* and generates the instrumentation, which takes a while.
ChallengeStored(w) ==
    /\ pc[w] = "body" /\ req[w].op = "challenge" /\ req[w].mode = "stored"
    /\ ReadClockGoto(w, "put")
    /\ UNCHANGED <<storeVars, lastCleanup, history, clock>>

\* The rest of challengeStored. The expiry counts from the time read above.
PutStored(w) ==
    /\ pc[w] = "put"
    /\ \E c \in Challenges :
          /\ FreshChallenge(c)
          /\ PutChallenge(c, [scope |-> req[w].scope,
                              expires |-> now[w] + req[w].ttl])
          /\ IssueChallenge(w, c, now[w] + req[w].ttl)
    /\ Return(w)
    /\ UNCHANGED <<lastCleanup, granted, used, resets, clock>>

\* challengeSigned and challengeV2 keep nothing on the server.
ChallengeSigned(w) ==
    /\ pc[w] = "body" /\ req[w].op = "challenge" /\ req[w].mode = "signed"
    /\ \E c \in Challenges :
          FreshChallenge(c) /\ IssueChallenge(w, c, clock + req[w].ttl)
    /\ Return(w)
    /\ UNCHANGED <<storeVars, lastCleanup, granted, used, resets, clock>>

-----------------------------------------------------------------------------
(* Redeem *)

\* Both kinds check the form of the solutions before they touch the store.
Redeeming(w, mode) ==
    /\ pc[w] = "body"
    /\ req[w].op = "redeem"
    /\ issued[req[w].chal].mode = mode

\* redeemStored up to TakeChallenge.
RedeemStored(w) ==
    /\ Redeeming(w, "stored")
    /\ IF req[w].sol = "malformed"
       THEN Return(w)
       ELSE ReadClockGoto(w, "take")
    /\ UNCHANGED <<storeVars, lastCleanup, history, clock>>

\* TakeChallenge and the checks after it. Whatever they say, the challenge
\* is gone.
Take(w) ==
    LET c == req[w].chal IN
    /\ pc[w] = "take"
    /\ IF /\ TakeChallengeOk(c, now[w])
          /\ ScopeFits(challenges[c].scope, req[w].scope)
          /\ req[w].sol = "good"
       THEN Goto(w, "issue")
       ELSE Return(w)
    /\ TakeChallenge(c)
    /\ UNCHANGED <<lastCleanup, history, clock>>

\* A bug: a signed challenge never expires.
SignedAcceptableForever(c, r, at) ==
    /\ ScopeFits(issued[c].scope, r.scope)
    /\ r.sol = "good"

\* What redeemSigned checks before the nonce. The expiry is inclusive here,
\* exclusive in the Store.
SignedAcceptable(c, r, at) ==
    /\ ScopeFits(issued[c].scope, r.scope)
    /\ issued[c].expires # 0
    /\ at <= issued[c].expires
    /\ r.sol = "good"

\* redeemSigned up to ClaimNonce: the claims are those of the signed token.
RedeemSigned(w) ==
    /\ Redeeming(w, "signed")
    /\ IF ~SignedAcceptable(req[w].chal, req[w], clock)
       THEN Return(w)
       ELSE ReadClockGoto(w, IF req[w].skipNonce THEN "issue" ELSE "claim")
    /\ UNCHANGED <<storeVars, lastCleanup, history, clock>>

\* ClaimNonce, with the time read before the solutions were verified.
Claim(w) ==
    LET c == req[w].chal IN
    /\ pc[w] = "claim"
    /\ IF ClaimNonceOk(c, now[w]) THEN Goto(w, "issue") ELSE Return(w)
    /\ ClaimNonce(c, issued[c].expires, now[w])
    /\ UNCHANGED <<lastCleanup, history, clock>>

\* Like challenges, token identifiers are random.
FreshToken(t) == granted[t] = Absent /\ tokens[t] = Absent

\* A bug: the lifetime is subtracted.
TokenRecordPast(c, at) == [scope |-> issued[c].scope, expires |-> at - TokenTTL]

\* What issueToken stores for a redemption of challenge c.
TokenRecord(c, at) == [scope |-> issued[c].scope, expires |-> at + TokenTTL]

\* issueToken: the client gets a token of the challenge's scope.
IssueToken(w) ==
    LET c == req[w].chal IN
    /\ pc[w] = "issue"
    /\ \E t \in Tokens :
          /\ FreshToken(t)
          /\ PutToken(t, TokenRecord(c, now[w]))
          /\ granted' = [granted EXCEPT ![t] =
                [chal |-> c, at |-> now[w], epoch |-> resets,
                 skipNonce |-> req[w].skipNonce /\ issued[c].mode = "signed"]]
    /\ Return(w)
    /\ UNCHANGED <<lastCleanup, issued, used, resets, clock>>

-----------------------------------------------------------------------------
(* Validate *)

\* Validate up to ConsumeToken: the clock is read before the mutex is taken.
Validate(w) ==
    /\ pc[w] = "body" /\ req[w].op = "validate"
    /\ ReadClockGoto(w, "consume")
    /\ UNCHANGED <<storeVars, lastCleanup, history, clock>>

\* A bug: the scope and the lifetime of the token are checked, but not that the
\* store still has it.
ConsumeUnchecked(w) ==
    LET t == req[w].tok
        ok == /\ ScopeFits(issued[granted[t].chal].scope, req[w].scope)
              /\ now[w] < granted[t].at + TokenTTL
    IN
    /\ pc[w] = "consume"
    /\ IF ok THEN Goto(w, "accepted") ELSE Return(w)
    /\ ConsumeToken(t, req[w].scope, now[w], req[w].keep)
    /\ used' = IF ok /\ ~req[w].keep THEN used \cup {t} ELSE used
    /\ UNCHANGED <<lastCleanup, issued, granted, resets, clock>>

\* ConsumeToken, whose answer is that of the call.
Consume(w) ==
    LET t == req[w].tok
        ok == ConsumeTokenOk(t, req[w].scope, now[w])
    IN
    /\ pc[w] = "consume"
    /\ IF ok THEN Goto(w, "accepted") ELSE Return(w)
    /\ ConsumeToken(t, req[w].scope, now[w], req[w].keep)
    /\ used' = IF ok /\ ~req[w].keep THEN used \cup {t} ELSE used
    /\ UNCHANGED <<lastCleanup, issued, granted, resets, clock>>

\* Validate returns true.
Accept(w) ==
    /\ pc[w] = "accepted"
    /\ Return(w)
    /\ UNCHANGED <<storeVars, lastCleanup, history, clock>>

-----------------------------------------------------------------------------
(* Failures *)

\* No configuration, no entropy, no instrumentation, or a context cancelled:
\* the call gives up before the Store is asked to keep anything.
Abandon(w) ==
    /\ \/ pc[w] = "body" /\ req[w].op = "challenge"
       \/ pc[w] \in {"put", "issue"}
    /\ Return(w)
    /\ UNCHANGED <<storeVars, lastCleanup, history, clock>>

\* The Store returns an error and has done nothing.
StoreFails(w) ==
    /\ Faults
    /\ \/ pc[w] = "sweep" /\ Goto(w, "body")
       \/ pc[w] \in {"put", "take", "claim", "issue", "consume",
                     "cleanup", "reset"} /\ Return(w)
    /\ UNCHANGED <<storeVars, lastCleanup, history, clock>>

\* The Store has done its work and its answer is lost. (For Sweep, Cleanup and
\* Reset that is no different from success.)
StoreReplyLost(w) ==
    /\ Faults
    /\ \/ /\ pc[w] = "put"
          /\ \E c \in Challenges :
                /\ FreshChallenge(c)
                /\ PutChallenge(c, [scope |-> req[w].scope,
                                    expires |-> now[w] + req[w].ttl])
       \/ /\ pc[w] = "take"
          /\ TakeChallenge(req[w].chal)
       \/ /\ pc[w] = "claim"
          /\ ClaimNonce(req[w].chal, issued[req[w].chal].expires, now[w])
       \/ /\ pc[w] = "issue"
          /\ \E t \in Tokens :
                FreshToken(t) /\ PutToken(t, TokenRecord(req[w].chal, now[w]))
       \/ /\ pc[w] = "consume"
          /\ ConsumeToken(req[w].tok, req[w].scope, now[w], req[w].keep)
    /\ Return(w)
    /\ UNCHANGED <<lastCleanup, history, clock>>

-----------------------------------------------------------------------------
(* The specification *)

Step(w) == \/ LazyCleanup(w) \/ Sweep(w)
           \/ Cleanup(w) \/ Reset(w)
           \/ ChallengeStored(w) \/ PutStored(w) \/ ChallengeSigned(w)
           \/ RedeemStored(w) \/ Take(w)
           \/ RedeemSigned(w) \/ Claim(w)
           \/ IssueToken(w)
           \/ Validate(w) \/ Consume(w) \/ Accept(w)
           \/ Abandon(w) \/ StoreFails(w) \/ StoreReplyLost(w)

Tick == /\ clock < MaxTime
        /\ clock' = clock + 1
        /\ UNCHANGED <<storeVars, serverVars, history>>

Next == Tick \/ \E w \in Workers : Call(w) \/ Step(w)

Spec == Init /\ [][Next]_vars

\* The Go scheduler runs every runnable goroutine eventually, and time passes.
FairSpec == /\ Spec
            /\ WF_vars(Tick)
            /\ \A w \in Workers : WF_vars(Step(w))

-----------------------------------------------------------------------------
(* Safety *)

\* A challenge that is neither expired nor issued before the latest Reset.
Current(c) == clock < issued[c].expires /\ issued[c].epoch = resets

\* The challenges whose single use the server can still enforce: a stored one
\* always, a signed one while the server remembers its nonce.
Enforced(c) == issued[c].mode = "stored" \/ Current(c)

GrantedFor(c, t) ==
    granted[t] # Absent /\ granted[t].chal = c /\ ~granted[t].skipNonce

\* However redemptions of one challenge, cleanups and resets interleave, at
\* most one of them returns a token (redemptions that ask for SkipNonce aside).
\* TakeChallenge gives this for stored challenges; for signed ones ClaimNonce
\* does until the challenge expires or the store is reset.
OneTokenPerChallenge ==
    \A c \in Challenges : issued[c] # Absent /\ Enforced(c) =>
        \A t1, t2 \in Tokens :
            GrantedFor(c, t1) /\ GrantedFor(c, t2) => t1 = t2

\* Validate returns true to nobody once it has consumed the token, whichever
\* calls overlap, with and without Keep.
AcceptedOnce ==
    [][\A w \in Workers :
          pc[w] = "consume" /\ pc'[w] = "accepted" => req[w].tok \notin used]_vars

\* A site that names a scope accepts only tokens whose challenge was created
\* for it: the scope survives challenge, redemption, token and validation.
AcceptedInScope ==
    \A w \in Workers :
        pc[w] = "accepted" =>
            ScopeFits(issued[granted[req[w].tok].chal].scope, req[w].scope)

\* By the clock Validate read, a token is accepted less than TokenTTL after
\* the end of the challenge it was redeemed from, late redemptions and slow
\* verification included.
AcceptedInTime ==
    \A w \in Workers :
        pc[w] = "accepted" =>
            now[w] < issued[granted[req[w].tok].chal].expires + TokenTTL

\* A live token is honoured: without store errors, Validate accepts a token that
\* was not consumed, is not expired when the store is asked, was granted since
\* the last Reset and fits the scope. In particular no cleanup, failed
\* validation or validation with Keep takes it away.
ValidTokenAccepted ==
    [][\A w \in Workers :
          LET t == req[w].tok IN
          /\ pc[w] = "consume" /\ pc'[w] # "consume"
          /\ t \notin used
          /\ granted[t].epoch = resets
          /\ clock < granted[t].at + TokenTTL
          /\ ScopeFits(issued[granted[t].chal].scope, req[w].scope)
          => pc'[w] = "accepted"]_vars

\* An entry that is still live by the clock leaves the store only because it
\* was taken or consumed, or by Reset: cleanups that run late, with a time read
\* long ago, or twice at once, drop nothing else. A nonce leaves only expired.
DropsOnlyExpired ==
    [][resets' = resets =>
        /\ \A c \in Challenges :
              challenges[c] # Absent /\ challenges'[c] = Absent =>
                  \/ challenges[c].expires <= clock
                  \/ \E w \in Workers :
                        pc[w] = "take" /\ pc'[w] # "take" /\ req[w].chal = c
        /\ \A c \in Challenges :
              nonces[c] # Absent /\ nonces'[c] = Absent =>
                  nonces[c].expires <= clock
        /\ \A t \in Tokens :
              tokens[t] # Absent /\ tokens'[t] = Absent =>
                  \/ tokens[t].expires <= clock
                  \/ \E w \in Workers :
                        /\ pc[w] = "consume" /\ pc'[w] # "consume"
                        /\ req[w].tok = t /\ ~req[w].keep
                        /\ ScopeFits(tokens[t].scope, req[w].scope)]_vars

\* lazyCleanup lets no two calls sweep within one interval: of two sweeps in
\* progress one was started at least CleanupInterval later than the other.
SweepsSpaced ==
    \A w1, w2 \in Workers :
        pc[w1] = "sweep" /\ pc[w2] = "sweep" /\ w1 # w2 =>
            \/ now[w1] + CleanupInterval <= now[w2]
            \/ now[w2] + CleanupInterval <= now[w1]

-----------------------------------------------------------------------------
(* Promises of the documentation that the code does not keep *)

\* "A challenge, nonce or token can be used exactly once" (store.go:26-29), for
\* signed challenges and without Reset. redeemSigned still accepts a challenge
\* in the millisecond it expires, when its nonce no longer counts.
SignedUsedOnce ==
    \A c \in Challenges, t1, t2 \in Tokens :
        GrantedFor(c, t1) /\ GrantedFor(c, t2) => t1 = t2

\* The same for redemptions that read the clock before the challenge expired.
\* ClaimNonce is asked with that time after another call has swept the nonce.
SignedEarlyUsedOnce ==
    \A c \in Challenges, t1, t2 \in Tokens :
        /\ GrantedFor(c, t1) /\ granted[t1].at < issued[c].expires
        /\ GrantedFor(c, t2) /\ granted[t2].at < issued[c].expires
        => t1 = t2

\* "Reset drops all outstanding challenges, nonces and tokens" (cap.go:435): no
\* token is granted after a Reset for a challenge issued before it. (Checked
\* with one worker, so that no redemption was under way.) A signed challenge is
\* in its own token and stays redeemable.
ResetDropsChallenges ==
    \A t \in Tokens : granted[t] # Absent =>
        granted[t].epoch = issued[granted[t].chal].epoch

-----------------------------------------------------------------------------
(* Liveness *)

Expired(map, k) == map[k] # Absent /\ map[k].expires <= clock

\* Expired entries do not pile up: as long as calls keep coming, lazyCleanup
\* removes every one of them, also when the sweep under way when it expired has
\* already missed it. (The clock must be able to reach the next interval.)
EventuallySwept ==
    []<><<\E w \in Workers : pc[w] = "idle" /\ pc'[w] = "lazy">>_vars =>
        LET InTime == clock + CleanupInterval <= MaxTime IN
        /\ \A c \in Challenges :
              /\ Expired(challenges, c) /\ InTime ~> challenges[c] = Absent
              /\ Expired(nonces, c) /\ InTime ~> nonces[c] = Absent
        /\ \A t \in Tokens :
              Expired(tokens, t) /\ InTime ~> tokens[t] = Absent
=============================================================================
