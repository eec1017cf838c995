----------------------------- MODULE CapPuzzle -----------------------------
(***************************************************************************)
(* What a challenge asks and what a redemption checks (cap.go, with the    *)
(* token formats of crypto.go and the checks of instrumentation.go): the   *)
(* effective configuration, the three kinds of challenge, the JSON that    *)
(* the client sees of them, and the verdict on its answers.                *)
(*                                                                         *)
(* A call is one step here: CapServer has the interleavings. What the      *)
(* client sees (the wire form and the blob) and what the server keeps (the *)
(* record, the claims of the signed token, the encrypted metadata) are     *)
(* kept apart, and requests are made of the former only.                   *)
(*                                                                         *)
(* Puzzles are symbolic. A proof of work is named by its salt and target   *)
(* and answered with the pair that was solved; a time-lock puzzle by its   *)
(* x, which also names the y that squaring gives (Rsw); an instrumentation *)
(* program by what running its blob reports (InstrProgram). A nil pointer  *)
(* is <<>>, any other is a sequence of one. The reason that goes with a    *)
(* refusal is left out.                                                    *)
(***************************************************************************)
EXTENDS Integers, FiniteSets, Sequences, SequencesExt

CONSTANTS
    Ids,            \* random challenge tokens and nonces, 1, 2, ...
    Deployments,    \* the configurations and callers to look at (see Deployment)
    DefaultPow,     \* DefaultChallengeCount, -Size and -Difficulty
    MaxPow,         \* MaxChallengeCount, -Size and -Difficulty
    DefaultTTL,     \* DefaultChallengeTTL
    DefaultTokenTTL,
    MaxTime,        \* bound on the clock
    MaxStarts,      \* bound on the calls of New
    MaxRedeemed     \* bound on the redemptions that give a token

\* A service: values of Options passed to New, values of ChallengeOptions, what
\* its instrumentation generators do (see Generate), and the scopes that
\* redemptions name.
Deployment(configs, calls, generated, scopes) ==
    [configs |-> configs, calls |-> calls, generated |-> generated,
     scopes |-> scopes]

\* The empty string, and pointers.
Empty == ""
Pointers(S) == {p \in Seq(S) : Len(p) <= 1}

\* The fields of Options and ChallengeOptions that matter here.
PoWSettings == [count: Int, size: Int, difficulty: Int]
Probes      == [block: BOOLEAN, ttl: Int]
Options ==
    [secret: STRING, format: Int, stateless: BOOLEAN, pow: PoWSettings, ttl: Int,
     tokenTTL: Int, iterations: Int, keypair: {"none", "good", "bad"},
     protocols: Seq(STRING), instr: Pointers(Probes), generator: BOOLEAN,
     signToken: BOOLEAN, verifyToken: BOOLEAN]
ChallengeOptions ==
    [scope: STRING, format: Int, stateless: Pointers(BOOLEAN), pow: PoWSettings,
     ttl: Int, protocols: Seq(STRING), instr: Pointers(Probes), disable: BOOLEAN,
     generator: BOOLEAN]

ASSUME CapPuzzleAssumption ==
    /\ Ids \subseteq Nat \ {0}
    /\ {DefaultTTL, DefaultTokenTTL, MaxTime, MaxStarts, MaxRedeemed}
         \subseteq Nat \ {0}
    /\ DefaultPow \in PoWSettings
    /\ MaxPow \in PoWSettings
    /\ \A d \in Deployments : /\ d.configs \subseteq Options
                              /\ d.calls \subseteq ChallengeOptions

VARIABLES
    deployment, \* the service at hand; it never changes
    opts,       \* Cap.opts, or <<>> before the first New
    starts,     \* calls of New so far
    clock,      \* Options.Now in Unix ms
    stored,     \* the store's challenge records
    claimed,    \* the store's nonces
    reused,     \* challenges whose generator has reused its result since
    \* What the world outside has seen:
    held,       \* the challenges that clients hold
    accepted    \* the redemptions that gave a token, in order

vars == <<deployment, opts, starts, clock, stored, claimed, reused, held, accepted>>

Init ==
    /\ deployment \in Deployments
    /\ opts = <<>>
    /\ starts = 0
    /\ clock = 0
    /\ stored = [id \in Ids |-> <<>>]
    /\ claimed = {}
    /\ reused = {}
    /\ held = [id \in Ids |-> <<>>]
    /\ accepted = <<>>

Or(x, default) == IF x = 0 THEN default ELSE x

PowOr(pow, default) == [k \in DOMAIN pow |-> Or(pow[k], default[k])]

-----------------------------------------------------------------------------
(* Configuration *)

ValidatePoWParams(pow) == \A k \in DOMAIN pow : pow[k] \in 1..MaxPow[k]

\* New fills in what is missing,
Effective(c) ==
    [c EXCEPT !.format = Or(@, 1),
              !.pow = PowOr(@, DefaultPow),
              !.ttl = Or(@, DefaultTTL),
              !.tokenTTL = Or(@, DefaultTokenTTL),
              !.iterations = Or(@, 1),
              !.protocols = IF @ = <<>> THEN <<"rsw">> ELSE @]

ProtocolNames == {"sha256-pow", "rsw", "instrumentation"}

\* and refuses what cannot work.
Sound(c) ==
    /\ c.secret # "short"
    /\ c.format \in {1, 2}
    /\ ValidatePoWParams(c.pow)
    /\ c.ttl >= 0
    /\ c.tokenTTL >= 0
    /\ c.iterations >= 1
    /\ c.keypair # "bad"
    /\ ToSet(c.protocols) \subseteq ProtocolNames
    /\ c.signToken = c.verifyToken
    /\ (c.stateless \/ c.format = 2) => c.secret # Empty

\* A server starts, or starts again with other options over the same store.
New(c) ==
    /\ starts < MaxStarts
    /\ Sound(Effective(c))
    /\ opts' = <<Effective(c)>>
    /\ starts' = starts + 1
    /\ UNCHANGED <<deployment, clock, stored, claimed, reused, held, accepted>>

Opts == opts[1]

-----------------------------------------------------------------------------
(* Instrumentation: the generator and what Cap keeps of its result *)

InstrumentationOptions(o) ==
    IF o.disable THEN <<>>
    ELSE IF o.instr # <<>> THEN o.instr ELSE Opts.instr

\* What a generator returns for the key-th program: a blob (what running it
\* reports) and metadata. The built-in one does what is asked; "gen" says
\* what a custom one gets wrong. The slices of a custom generator's result
\* are its own, and it may reuse them later.
Generate(o, io, key, at, gen) ==
    LET vars_ == IF gen = "novars" THEN <<>>
                 ELSE IF gen = "twice" THEN <<"a", "a">>
                 ELSE IF gen = "unnamed" THEN <<"a", Empty>> ELSE <<"a", "b">>
        vals  == <<key[1], key[1] + 10>>
    IN  [err     |-> gen = "error",
         isNil   |-> gen = "nil",
         blob    |-> IF gen = "noblob" THEN <<>>
                     ELSE <<[i |-> key,
                             state |-> [v \in ToSet(vars_) |->
                               vals[CHOOSE k \in DOMAIN vars_ : vars_[k] = v]]]>>,
         id      |-> IF gen = "noid" THEN <<>> ELSE key,
         vars    |-> vars_,
         vals    |-> IF gen = "short" THEN <<key[1]>> ELSE vals,
         block   |-> IF gen = "policy" THEN ~io.block ELSE io.block,
         expires |-> IF gen = "noexpiry" THEN 0 ELSE at + io.ttl,
         shared  |-> o.generator \/ Opts.generator,
         key     |-> key]

\* The context is looked at before and after the generator runs, and the
\* result is refused when a client could not satisfy it or it has another
\* blocking policy.
WellGenerated(out, io, gen) ==
    /\ gen # "cancelled"
    /\ ~out.err
    /\ ~out.isNil
    /\ out.blob # <<>>
    /\ out.id # <<>>
    /\ out.vars # <<>>
    /\ Len(out.vars) = Len(out.vals)
    /\ Empty \notin ToSet(out.vars)
    /\ IsInjective(out.vars)
    /\ out.block = io.block

\* A bug: the slices of the result are kept instead of copies.
KeptShared(out, io, at) ==
    [out EXCEPT !.expires = Or(@, at + io.ttl)]

\* Copies are kept, and an expiry is filled in.
Kept(out, io, at) ==
    [out EXCEPT !.shared = FALSE, !.expires = Or(@, at + io.ttl)]

\* runInstrumentationGenerator, with the TTL of the challenge by default.
RunInstrumentationGenerator(o, io, ttl, key, at, gen) ==
    LET want == [io EXCEPT !.ttl = IF @ <= 0 THEN ttl ELSE @]
        out  == Generate(o, want, key, at, gen)
    IN  IF WellGenerated(out, want, gen) THEN <<Kept(out, want, at)>> ELSE <<>>

\* The expected values, as metadata holds them now.
ExpectedVals(meta) ==
    IF meta.shared /\ meta.key[1] \in reused
    THEN [k \in DOMAIN meta.vals |-> 0]
    ELSE meta.vals

-----------------------------------------------------------------------------
(* Challenge *)

PowParams(o) == PowOr(o.pow, Opts.pow)

ChallengeTTL(o) == IF o.ttl > 0 THEN o.ttl ELSE Opts.ttl

\* What format1Pair derives from the text of a token: the target is a
\* prefix of one stream, so a target of d digits is named by d (Prng).
Format1Pair(token, index, pow) ==
    [salt   |-> <<token.id, token.kind, token.spelling, 0, index, pow.size>>,
     target |-> pow.difficulty]

\* AES-GCM under a key derived from the secret and the label.
EncryptGCM(secret, info, plain) ==
    [secret |-> secret, info |-> info, plain |-> plain]
DecryptsGCM(secret, info, box) == box.secret = secret /\ box.info = info

\* A token names its challenge, and a signed one carries claims under a
\* signature; the text of the signature is not covered by itself.
HexToken(id) ==
    [kind |-> "hex", id |-> id, spelling |-> "as issued", secret |-> Empty,
     claims |-> <<>>]
JwtSign(claims, secret) ==
    [kind |-> "jwt", id |-> claims.n, spelling |-> "as issued",
     secret |-> secret, claims |-> <<claims>>]

\* What a challenge call yields: the challenge, a record for the store.
Made(ch, record) == <<[ch |-> ch, record |-> record]>>

BlobOf(instr) == IF instr = <<>> THEN <<>> ELSE instr[1].blob

ChallengeFormat1(token, o, expires, instr) ==
    [format |-> 1, token |-> token, expires |-> expires, scope |-> o.scope,
     pow |-> PowParams(o), instrumentation |-> BlobOf(instr)]

ChallengeStored(o, id, gen) ==
    LET ttl     == ChallengeTTL(o)
        expires == clock + ttl
        io      == InstrumentationOptions(o)
        instr   == IF io = <<>> THEN <<>>
                   ELSE RunInstrumentationGenerator(o, io[1], ttl, <<id, 1>>,
                                                    clock, gen)
    IN  IF ~ValidatePoWParams(PowParams(o)) \/ Len(instr) # Len(io) THEN <<>>
        ELSE Made(ChallengeFormat1(HexToken(id), o, expires, instr),
                  <<[pow |-> PowParams(o), scope |-> o.scope,
                     expires |-> expires, instr |-> instr]>>)

\* The metadata of a signed challenge expires with it, and is encrypted.
ChallengeSigned(o, id, gen) ==
    LET ttl     == ChallengeTTL(o)
        expires == clock + ttl
        io      == InstrumentationOptions(o)
        instr   == IF io = <<>> THEN <<>>
                   ELSE RunInstrumentationGenerator(o, io[1], ttl, <<id, 1>>,
                                                    clock, gen)
        claims  == [f |-> 0, n |-> id, pow |-> PowParams(o), exp |-> expires,
                    iat |-> clock, sk |-> o.scope,
                    ei |-> [k \in DOMAIN instr |->
                              EncryptGCM(Opts.secret, "cap:enc-v1",
                                 [instr[k] EXCEPT !.expires = expires])],
                    ev |-> <<>>]
    IN  IF \/ Opts.secret = Empty
           \/ ~ValidatePoWParams(PowParams(o))
           \/ Len(instr) # Len(io)
        THEN <<>>
        ELSE Made(ChallengeFormat1(JwtSign(claims, Opts.secret), o, expires,
                                   instr), <<>>)

\* The protocols of a format-2 challenge: instrumentation is added when it
\* is configured and not listed.
ProtocolsOf(o) ==
    LET listed == IF o.protocols # <<>> THEN o.protocols ELSE Opts.protocols
    IN  IF InstrumentationOptions(o) # <<>> /\ ~Contains(listed, "instrumentation")
        THEN Append(listed, "instrumentation")
        ELSE listed

NoPow == [salt |-> <<>>, target |-> 0]

\* An entry, as the client sees it and as the server expects it; or <<>>.
EntriesFor(o, id, j, gen) ==
    LET proto == ProtocolsOf(o)[j]
        pow   == PowParams(o)
        io    == InstrumentationOptions(o)
        none  == [protocol |-> proto, pow |-> NoPow, x |-> <<>>, instr |-> <<>>]
    IN  CASE proto = "sha256-pow" ->
               IF ~ValidatePoWParams(pow) THEN <<>>
               ELSE [i \in 1..pow.count |->
                      [none EXCEPT !.pow =
                         [salt |-> <<id, "v2", Empty, j, i, pow.size>>,
                          target |-> pow.difficulty]]]
          [] proto = "rsw" ->
               IF Opts.keypair = "none" THEN <<>>
               ELSE <<[none EXCEPT !.x = <<id, j>>]>>
          [] proto = "instrumentation" ->
               LET instr == RunInstrumentationGenerator(o,
                              IF io = <<>> THEN [block |-> FALSE, ttl |-> 0]
                              ELSE io[1],
                              ChallengeTTL(o), <<id, j>>, clock, gen)
               IN  [k \in DOMAIN instr |-> [none EXCEPT !.instr = instr]]
          [] OTHER -> <<>>

ChallengeV2(o, id, gen) ==
    LET expires == clock + ChallengeTTL(o)
        parts   == [j \in DOMAIN ProtocolsOf(o) |-> EntriesFor(o, id, j, gen)]
        entries == FlattenSeq(parts)
        visible == [k \in DOMAIN entries |->
                      [protocol |-> entries[k].protocol, pow |-> entries[k].pow,
                       x |-> entries[k].x, blob |-> BlobOf(entries[k].instr)]]
        expects == [k \in DOMAIN entries |->
                      [protocol |-> entries[k].protocol, pow |-> entries[k].pow,
                       y |-> entries[k].x,
                       instr |-> [m \in DOMAIN entries[k].instr |->
                          [entries[k].instr[m] EXCEPT !.expires = expires]]]]
        claims  == [f |-> 2, n |-> id, pow |-> [k \in DOMAIN MaxPow |-> 0],
                    exp |-> expires, iat |-> clock, sk |-> o.scope, ei |-> <<>>,
                    ev |-> <<EncryptGCM(Opts.secret, "cap:fmt2-v1", expects)>>]
    IN  IF Opts.secret = Empty \/ \E j \in DOMAIN parts : parts[j] = <<>> THEN <<>>
        ELSE Made([format |-> 2, token |-> JwtSign(claims, Opts.secret),
                   expires |-> expires, scope |-> o.scope,
                   challenges |-> visible], <<>>)

Challenge(o, id, gen) ==
    LET format == Or(o.format, Opts.format)
        stateless == IF o.stateless # <<>> THEN o.stateless[1] ELSE Opts.stateless
    IN  CASE format = 1 /\ stateless  -> ChallengeSigned(o, id, gen)
          [] format = 1 /\ ~stateless -> ChallengeStored(o, id, gen)
          [] format = 2               -> ChallengeV2(o, id, gen)
          [] OTHER                    -> <<>>

\* The JSON of a challenge: the scope is not part of it,
MarshalJSON(ch) ==
    IF ch.format = 2
    THEN [token |-> ch.token, format |-> 2, challenges |-> ch.challenges,
          expires |-> ch.expires]
    ELSE [token |-> ch.token, challenge |-> ch.pow, expires |-> ch.expires,
          instrumentation |-> ch.instrumentation]

\* and format 1 is what does not say it is format 2.
UnmarshalJSON(wire) ==
    IF "format" \in DOMAIN wire
    THEN [format |-> 2, token |-> wire.token, expires |-> wire.expires,
          scope |-> Empty, challenges |-> wire.challenges]
    ELSE [format |-> 1, token |-> wire.token, expires |-> wire.expires,
          scope |-> Empty, pow |-> wire.challenge,
          instrumentation |-> wire.instrumentation]

\* What a client holds once Challenge returns.
Given(o, made) ==
    [wire |-> MarshalJSON(made.ch), at |-> clock, scope |-> made.ch.scope,
     io |-> InstrumentationOptions(o), custom |-> o.generator \/ Opts.generator]

\* A call of Challenge, with a fresh id. A built-in generator can only be
\* cancelled; a custom one does what the deployment says. A call that fails
\* before PutChallenge leaves nothing; one whose PutChallenge took effect and
\* lost its reply fails too, and leaves a record that nobody holds.
Issue(o, id, gen) ==
    /\ opts # <<>>
    /\ gen \in {"ok", "cancelled"} \/ o.generator \/ Opts.generator
    /\ LET made == Challenge(o, id, gen)
       IN  \/ made = <<>> /\ UNCHANGED <<stored, held>>
           \/ /\ made # <<>>
              /\ \A k \in Ids : k < id => held[k] # <<>> \/ stored[k] # <<>>
              /\ held[id] = <<>>
              /\ stored[id] = <<>>
              /\ stored' = [stored EXCEPT ![id] = made[1].record]
              /\ \/ held' = [held EXCEPT ![id] = <<Given(o, made[1])>>]
                 \/ made[1].record # <<>> /\ UNCHANGED held
    /\ UNCHANGED <<deployment, opts, starts, clock, claimed, reused, accepted>>

\* A custom generator writes over the result it returned earlier.
Reuse(id) ==
    /\ held[id] # <<>>
    /\ held[id][1].custom
    /\ id \notin reused
    /\ reused' = reused \cup {id}
    /\ UNCHANGED <<deployment, opts, starts, clock, stored, claimed, held, accepted>>

-----------------------------------------------------------------------------
(* Redemption *)

ScopeFits(own, scope) == scope = Empty \/ own = scope

PowMatches(answer, pair) ==
    answer.salt = pair.salt /\ answer.target >= pair.target

VerifyFormat1(token, pow, solutions) ==
    /\ Len(solutions) = pow.count
    /\ \A i \in 1..pow.count :
         PowMatches(solutions[i].pow, Format1Pair(token, i, pow))

\* parseFormat1Solutions: an array of numbers.
ParsesFormat1(req) ==
    /\ req.sent = "array"
    /\ \A i \in DOMAIN req.solutions : req.solutions[i].kind = "number"

\* VerifyInstrumentationResult: every variable has its expected value.
VerifyInstrumentationResult(meta, result) ==
    /\ meta.id # <<>>
    /\ result.kind = "object"
    /\ result.i = meta.id
    /\ meta.vars # <<>>
    /\ Len(meta.vars) = Len(meta.vals)
    /\ \A k \in DOMAIN meta.vars :
         /\ meta.vars[k] \in DOMAIN result.state
         /\ result.state[meta.vars[k]] = ExpectedVals(meta)[k]

\* checkInstrumentation: "blocked" passes when blocking was not asked for,
\* "timeout" never does, and a result has to be there and right.
CheckInstrumentation(meta, answer) ==
    /\ meta.expires = 0 \/ clock <= meta.expires
    /\ IF answer.blocked THEN ~meta.block
       ELSE /\ ~answer.timeout
            /\ answer.instr.kind # "none"
            /\ VerifyInstrumentationResult(meta, answer.instr)

\* redeemStored: what is refused before the store is asked,
WellFormedStored(req) ==
    /\ req.sent # "nothing"
    /\ req.token.kind = "hex"
    /\ ParsesFormat1(req)

\* and what is checked of the record that was taken.
VerifiesStored(req, scope, record) ==
    /\ ScopeFits(record.scope, scope)
    /\ VerifyFormat1(req.token, record.pow, req.solutions)
    /\ record.instr # <<>> => CheckInstrumentation(record.instr[1], req)

StoredAccepts(req, scope) ==
    /\ WellFormedStored(req)
    /\ stored[req.token.id] # <<>>
    /\ stored[req.token.id][1].expires > clock
    /\ VerifiesStored(req, scope, stored[req.token.id][1])

\* A bug: an entry without a solution is skipped.
VerifiesEntryIfSent(expected, answer) ==
    \/ answer.kind # "object"
    \/ CASE expected.protocol = "sha256-pow" ->
              PowMatches(answer.pow, expected.pow)
         [] expected.protocol = "rsw" -> answer.y = expected.y
         [] OTHER -> CheckInstrumentation(expected.instr[1], answer)

VerifiesEntry(expected, answer) ==
    /\ answer.kind = "object"
    /\ CASE expected.protocol = "sha256-pow" ->
              PowMatches(answer.pow, expected.pow)
         [] expected.protocol = "rsw" -> answer.y = expected.y
         [] OTHER -> CheckInstrumentation(expected.instr[1], answer)

VerifyV2(claims, req) ==
    /\ DecryptsGCM(Opts.secret, "cap:fmt2-v1", claims.ev[1])
    /\ req.sent = "array"
    /\ Len(req.solutions) = Len(claims.ev[1].plain)
    /\ \A k \in DOMAIN req.solutions :
         VerifiesEntry(claims.ev[1].plain[k], req.solutions[k])

\* jwtVerify: the signature is decoded and compared, not its text.
JwtVerifies(token, secret) == token.kind = "jwt" /\ token.secret = secret

\* redeemSigned, up to the nonce.
VerifiesSigned(req, scope) ==
    /\ req.sent # "nothing"
    /\ Opts.secret # Empty
    /\ JwtVerifies(req.token, Opts.secret)
    /\ LET claims == req.token.claims[1]
       IN  /\ ScopeFits(claims.sk, scope)
           /\ claims.exp # 0
           /\ claims.exp >= clock
           /\ IF claims.f = 2 THEN VerifyV2(claims, req)
              ELSE /\ ValidatePoWParams(claims.pow)
                   /\ ParsesFormat1(req)
                   /\ VerifyFormat1(req.token, claims.pow, req.solutions)
                   /\ claims.ei # <<>> =>
                        /\ DecryptsGCM(Opts.secret, "cap:enc-v1", claims.ei[1])
                        /\ CheckInstrumentation(claims.ei[1].plain, req)

\* A bug: the nonce is the text of the signature.
NonceKeyText(token) == <<token.id, token.spelling>>

\* The nonce is the signature itself.
NonceKey(token) == <<token.id>>

ClaimsNonce(token) ==
    NonceKey(token) \notin claimed \/ token.claims[1].exp <= clock

\* The token that issueToken makes, built-in or with SignToken.
IssueToken(scope, iat) ==
    [scope |-> scope, expires |-> clock + Opts.tokenTTL, iat |-> iat,
     signed |-> Opts.signToken]

\* What a client reports after running a blob, or without one.
NoResult   == [kind |-> "none", i |-> <<>>, state |-> <<>>]
JunkResult == [kind |-> "junk", i |-> <<>>, state |-> <<>>]
Report(blob) ==
    IF blob = <<>> THEN NoResult
    ELSE [kind |-> "object", i |-> blob[1].i, state |-> blob[1].state]

\* For the record: does the request hold what the challenge, as the client sees it, asks?
Reported(blob, io, answer) ==
    IF answer.blocked THEN io = <<>> \/ ~io[1].block
    ELSE answer.instr = Report(blob)

Solved(id, req) ==
    LET ch == UnmarshalJSON(held[id][1].wire)
        io == held[id][1].io
    IN  IF ch.format = 1
        THEN /\ [i \in DOMAIN req.solutions |-> req.solutions[i].pow]
                  = [i \in 1..ch.pow.count |-> Format1Pair(req.token, i, ch.pow)]
             /\ ch.instrumentation # <<>> => Reported(ch.instrumentation, io, req)
        ELSE /\ Len(req.solutions) = Len(ch.challenges)
             /\ \A k \in DOMAIN ch.challenges :
                  /\ req.solutions[k].pow = ch.challenges[k].pow
                  /\ req.solutions[k].y = ch.challenges[k].x
                  /\ ch.challenges[k].blob # <<>> =>
                       Reported(ch.challenges[k].blob, io, req.solutions[k])

\* What is recorded of a redemption that gives a token.
Redeemed(req, tok) ==
    [id |-> req.token.id, at |-> clock, tok |-> tok,
     solved |-> Solved(req.token.id, req)]

\* Redeem takes a token with a dot in it for a signed one.
RedeemStored(req, scope) ==
    /\ opts # <<>>
    /\ req.token.kind # "jwt"
    /\ StoredAccepts(req, scope) => Len(accepted) < MaxRedeemed
    /\ stored' = IF WellFormedStored(req)
                 THEN [stored EXCEPT ![req.token.id] = <<>>] ELSE stored
    /\ accepted' =
         IF StoredAccepts(req, scope)
         THEN Append(accepted,
                Redeemed(req, IssueToken(stored[req.token.id][1].scope, 0)))
         ELSE accepted
    /\ UNCHANGED <<deployment, opts, starts, clock, claimed, reused, held>>

RedeemSigned(req, scope) ==
    /\ opts # <<>>
    /\ req.token.kind = "jwt"
    /\ LET ok == VerifiesSigned(req, scope) /\ ClaimsNonce(req.token)
       IN  /\ ok => Len(accepted) < MaxRedeemed
           /\ claimed' = IF ok THEN claimed \cup {NonceKey(req.token)}
                         ELSE claimed
           /\ accepted' =
                IF ok
                THEN Append(accepted, Redeemed(req,
                       IssueToken(req.token.claims[1].sk,
                                  req.token.claims[1].iat)))
                ELSE accepted
    /\ UNCHANGED <<deployment, opts, starts, clock, stored, reused, held>>

Tick ==
    /\ clock < MaxTime
    /\ clock' = clock + 1
    /\ UNCHANGED <<deployment, opts, starts, stored, claimed, reused, held, accepted>>

-----------------------------------------------------------------------------
(* The clients *)

Answer(kind, pow, y, instr) ==
    [kind |-> kind, pow |-> pow, y |-> y, instr |-> instr, blocked |-> FALSE,
     timeout |-> FALSE]

\* What SolveChallenge, or the widget, makes of a challenge with the given
\* token: each puzzle solved, each blob run.
SolveChallenge(ch, token) ==
    LET format1 == ch.format = 1
    IN  [token     |-> token,
         sent      |-> "array",
         solutions |->
           IF format1
           THEN [i \in 1..ch.pow.count |->
                  Answer("number", Format1Pair(token, i, ch.pow), <<>>, NoResult)]
           ELSE [k \in DOMAIN ch.challenges |->
                  Answer("object", ch.challenges[k].pow, ch.challenges[k].x,
                         Report(ch.challenges[k].blob))],
         instr     |-> IF format1 THEN Report(ch.instrumentation) ELSE NoResult,
         blocked   |-> FALSE,
         timeout   |-> FALSE]

\* The honest request for a challenge, with its token as issued.
Honest(id) ==
    LET ch == UnmarshalJSON(held[id][1].wire) IN SolveChallenge(ch, ch.token)

\* Ways to get the instrumentation part of an answer wrong.
Misreports(answer) ==
    {[answer EXCEPT !.blocked = TRUE], [answer EXCEPT !.timeout = TRUE]}
      \cup {[answer EXCEPT !.instr = r] : r \in
             {NoResult, JunkResult, [answer.instr EXCEPT !.i = <<0, 0>>],
              [answer.instr EXCEPT !.state = [v \in DOMAIN @ |-> 0]],
              [answer.instr EXCEPT !.state = [v \in DOMAIN @ \ {"a"} |-> @[v]]]}}

\* Solutions that are missing, surplus, misplaced or wrong.
WrongSolutions(id) ==
    LET right == Honest(id).solutions
    IN  {Front(right), Append(right, Last(right)), Reverse(right)}
          \cup {Honest(k).solutions : k \in {m \in Ids \ {id} : held[m] # <<>>}}
          \cup {[right EXCEPT ![i] = a] : i \in 1..Len(right), a \in
                 {Answer(kind, NoPow, <<>>, NoResult) :
                    kind \in {"number", "string", "object"}}}
          \cup UNION {{[right EXCEPT ![i] = a] : a \in Misreports(right[i])} :
                        i \in 1..Len(right)}

\* What clients send: honest work, for the token as issued or as spelled
\* otherwise, and work that is incomplete or wrong.
Requests(id) ==
    LET ch      == UnmarshalJSON(held[id][1].wire)
        honest  == Honest(id)
        respelt == [ch.token EXCEPT !.spelling = "otherwise"]
    IN  {honest, SolveChallenge(ch, respelt), [honest EXCEPT !.token = respelt]}
          \cup Misreports(honest)
          \cup {[honest EXCEPT !.solutions = a] : a \in WrongSolutions(id)}
          \cup {[honest EXCEPT !.sent = s] : s \in {"nothing", "other"}}
          \cup {[honest EXCEPT !.token.secret = "forged"]}
          \cup {[honest EXCEPT !.token.kind = "text"]}

Next ==
    \/ \E c \in deployment.configs : New(c)
    \/ \E o \in deployment.calls, id \in Ids, gen \in deployment.generated :
          Issue(o, id, gen)
    \/ \E id \in Ids : Reuse(id)
    \/ \E id \in Ids, scope \in deployment.scopes :
         /\ held[id] # <<>>
         /\ \E req \in Requests(id) :
              RedeemStored(req, scope) \/ RedeemSigned(req, scope)
    \/ Tick

Spec == Init /\ [][Next]_vars

-----------------------------------------------------------------------------
(* Properties *)

\* An id's challenge is still there for its client to redeem: in time, not
\* redeemed, in the store or signed with the secret in force.
Redeemable(id) ==
    LET token == held[id][1].wire.token
        record == stored[id]
    IN  /\ held[id] # <<>>
        /\ IF token.kind = "hex"
           THEN /\ record # <<>>
                /\ clock < record[1].expires
                /\ record[1].instr # <<>> => clock <= record[1].instr[1].expires
           ELSE /\ token.secret = Opts.secret
                /\ clock <= token.claims[1].exp
                /\ <<id>> \notin claimed

\* Honest work is never refused. What SolveChallenge and the blob give for
\* the challenge as the client received it passes Redeem, with the scope of
\* the challenge and without, whatever was redeemed, refused or generated in
\* between and whichever options the server was started with since.
HonestRedeems ==
    opts # <<>> =>
        \A id \in Ids : Redeemable(id) =>
            \A scope \in {Empty, held[id][1].scope} :
                \/ StoredAccepts(Honest(id), scope)
                \/ VerifiesSigned(Honest(id), scope)

\* A token is only given for the work: every puzzle the client was shown is
\* solved, in its place, and the instrumentation reported, or the client
\* was blocked where the caller had not asked for blocking (verifyFormat1,
\* verifyV2, checkInstrumentation over what Challenge handed out). The token
\* is of the scope the challenge was asked for (issueToken).
SolvedOnly ==
    \A k \in DOMAIN accepted :
        /\ accepted[k].solved
        /\ accepted[k].tok.scope = held[accepted[k].id][1].scope

\* A challenge gives one token before it expires, however the text of its
\* token is spelled: base64 decoding accepts several texts of a signature,
\* and format-1 puzzles follow the text (jwtVerify, redeemSigned).
OnePerChallenge ==
    \A j, k \in DOMAIN accepted :
        /\ j < k
        /\ accepted[j].id = accepted[k].id
        => accepted[k].at >= held[accepted[k].id][1].wire.expires

\* "TTL bounds how long the instrumentation result is accepted": an
\* accepted result is not older than the TTL asked for (challengeSigned and
\* challengeV2 set the expiry of the challenge instead).
InstrumentationTTLBounds ==
    \A k \in DOMAIN accepted :
        LET h == held[accepted[k].id][1]
        IN  h.io # <<>> /\ h.io[1].ttl > 0
              => accepted[k].at <= h.at + h.io[1].ttl
=============================================================================
