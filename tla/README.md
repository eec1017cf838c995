# A verification of capgo

capgo is a Go implementation of the server side of Cap, a proof-of-work
CAPTCHA. A client asks for a *challenge*, solves it, *redeems* it for a
*verification token*, and the site that wants to know whether the client did the
work *validates* that token. The value of all this lies in a handful of promises:
a challenge is worth one token, a token is worth one acceptance, both expire,
both belong to the scope they were made for, and the little state that enforces
it neither leaks nor vanishes. This directory states those promises in TLA+,
checks them with TLC and proves every safety property of the code with TLAPS;
liveness is left to TLC.

## Inventory

| Part | State | Operations | Talks to |
|---|---|---|---|
| `store.go` `Store`, `MemoryStore` | maps of challenges, nonces, tokens; one mutex | `PutChallenge`, `TakeChallenge`, `ClaimNonce`, `PutToken`, `ConsumeToken`, `Cleanup`, `Reset` | called by `Cap` |
| `cap.go` `Cap` | `lastCleanup`, minter cache, one mutex; immutable options | `Challenge`, `Redeem`, `Validate`, `Cleanup`, `Reset` | store, clock, entropy, instrumentation generator, token callbacks |
| `capredis/store.go` | keys with TTLs in Redis | the `Store` methods, two of them Lua scripts | Redis, from many replicas |
| `caphttp/handler.go` | none | `ServeHTTP`, `Challenge`, `Redeem`, `Validate` | `Cap`, scope configuration |
| `instrumentation.go` | none (metadata travels in the challenge) | generate a random program and its expected result; check a client's report | called by `Cap` |
| `rsw.go` | key, base and its image under squaring | `Mint`, `SolveRSW`, `VerifyRSW` | minter cache of `Cap` |
| `prng.go`, number parsing in `cap.go` | none | pure functions shared with the JavaScript client | `Redeem` |
| `crypto.go` | none | sign and verify tokens, encrypt metadata | `Challenge`, `Redeem` |
| `capjs` | a Node process per challenge | generate instrumentation | `Challenge` |
| `errors.go`, `examples`, `internal` | none | error values, an example, test tools | |

What is hard, part by part, and what makes each part correct:

* **Store.** Single use hangs on three read-and-write methods being atomic. Their
  notion of "expired" (at or after the expiry) must agree with that of their callers,
  and the time they are given was read earlier. *Correct when* an entry disappears
  only when taken, consumed, expired or reset, and is found as long as it is there.
* **Cap.** Every request is a goroutine; only lazyCleanup's short critical section
  and the store calls are serialised. Times are read before the work they are used
  after. A redemption spends the challenge before it issues the token, and either store
  call may fail or lose its reply. *Correct when* a challenge yields at most one
  token, a token at most one acceptance, both only for their scope and in time;
  expired state is eventually removed.
* **Redis store.** Expiry runs on Redis's clock, times come from the replicas', calls
  are retried and Reset is not atomic. *Correct when* the promises of the store hold
  across replicas, up to the skew of the clocks.
* **Instrumentation.** Server and browser must compute the same 32-bit arithmetic; a
  custom generator's output must be checked and copied. *Correct when* honest
  clients pass and the metadata accepted is the metadata issued.
* **RSW.** A shortcut through the factorisation must give what the client computes
  without it. *Correct when* the two agree on every base the minter draws.
* **HTTP.** A mux matches the escaped path segment by segment, `ServeHTTP` splits the decoded one; the scope
  of a challenge and that of its redemption come from two requests. *Correct when* a request is served for the
  scope it names and only if that scope is allowed, the ways to mount the handler agree, and a store failure is
  never answered as a verdict.
* **Challenges and verdicts.** What the client is shown and what the server keeps to check it with
  are two things, made in one call and compared in another, perhaps after a restart. *Correct when* honest
  work is never refused and a token is only given for the work that was asked.

`PROJECT.json` lists the same parts with their status, and every hazard at its line.

## What is modelled

| Module | Code | Role |
|---|---|---|
| `Ledger` | the contract in `store.go` | abstract specification of single use |
| `MemoryStore`, `CapServer` | `store.go`, `cap.go` | concurrent calls on one `Cap`; implements `Ledger` (`CapServerLedger`) |
| `RedisStore`, `CapRedis` | `capredis/store.go`, `cap.go` | calls on several replicas over one Redis; implements `Ledger` |
| `CapPuzzle` | `cap.go`, checks of `instrumentation.go`, `crypto.go` | what is asked, and what is checked |
| `Rsw` | `rsw.go`, minter cache of `cap.go` | the arithmetic of the time-lock puzzles and who uses which minter |
| `InstrProgram`, `StringTable` | `instrumentation.go` | the random program, and its string table |
| `Prng` | `prng.go` | salts and targets of format 1 |
| `CapHttp` | `caphttp/handler.go`, `errors.go` | routes, scopes and answers |

`CapServer` and `CapRedis` take the verdict on a solution for given and have the interleavings; `CapPuzzle` has the
verdicts and makes each call one step, and names puzzles symbolically; `Rsw`, `InstrProgram` and `Prng` show on the
arithmetic itself what that naming takes for granted (squaring gives the expected `y`, running a blob the expected
values, a longer target is the harder one). `CapHttp` has the routes, and of a
`Cap` what decides between a verdict and a failure: the order of the checks, what spends a challenge, and which error is returned where.

**`MemoryStore.tla`** is `store.go`. The maps are total functions with `Absent` for a
missing key; a method is one action, because the mutex is held from its first line to
its last, and a state predicate for its "ok". Of a record, scope and expiry are kept.
The nonce key is derived from the challenge's signature one to one, so nonces are
indexed by challenges.

**`CapServer.tla`** extends it with the calls on one `Cap`. A worker is a goroutine; `pc`
says where its call is, `req` holds the arguments, `now` the time it read last. A call
is cut into steps where another goroutine can come between:

| Step(s) | Code |
|---|---|
| `BeginChallenge`, `BeginRedeem`, `BeginValidate`, `BeginCleanup`, `BeginReset` | a method is entered and reads the clock for the first time |
| `LazyCleanup`, `Sweep` | the critical section of `lazyCleanup`, and the store call after it |
| `ChallengeStored`, `PutStored` | `challengeStored` up to and from `PutChallenge` |
| `ChallengeSigned` | `challengeSigned`, `challengeV2`: nothing is kept |
| `RedeemStored`, `Take` | `redeemStored`: clock read, then `TakeChallenge` and every check after it |
| `RedeemSigned`, `Claim` | `redeemSigned`: claims checked and clock read, then `ClaimNonce` |
| `IssueToken` | `issueToken` with `PutToken` |
| `Validate`, `Consume`, `Accept` | `Validate`: clock read, `ConsumeToken`, the answer |
| `Cleanup`, `Reset` | the exported methods' store calls |
| `Abandon` | every error return before a `Put`: configuration, entropy, generator, context |
| `StoreFails`, `StoreReplyLost` | the store returns an error, without or with its effect |
| `Tick` | a millisecond passes |

The variables `issued`, `granted`, `used` and `resets` record what the world outside has
seen; the program does not have them. Steps read them in two places only: the fields of `issued` that are
claims of a signed token (the client presents them), and the scope of a stored
challenge in `issueToken`, which is the one in the record just taken (`RecordInv`).

Verification of a solution touches no shared state: its verdict is the field `sol`
of a redemption. "malformed" is refused before the store is touched, "wrong" after a stored
challenge is taken (which is then lost, as in the code) but before a signed one's nonce is
claimed. Clients redeem challenges and validate tokens they were given; a forged one
fails at the signature or finds no entry and changes nothing, so such calls are left out.

**`Ledger.tla`** is the contract of `Store` without clocks, maps or calls in progress. A challenge is new, open, spent or
lapsed; a redemption gives an agent a *right* that it may turn into one token; a token is new, good, used or gone. A lapsed
challenge is one the store no longer answers for: a signed one at its expiry, or after a Reset that dropped its nonce.
`CapServerLedger` maps `CapServer` to it: a stored challenge is open while its record is there, a signed one until its nonce is; a
worker at `issue` holds a right; a token is good while it is in the store. `CapRedis` has the same mapping for Redis.

**`RedisStore.tla`** is `capredis/store.go`: a key holds a record and the time until which Redis keeps it. Redis runs one command
or script at a time, so `TakeChallenge`, `ClaimNonce` and `ConsumeToken` are single steps. **`CapRedis.tla`** has the calls: each
worker's replica has its own clock (`Skew`), which both `cap.go` and `ttlFor` read; `Until` ranges over every time at which `ttlFor`
may read it. `Resend` is the Redis client repeating a command whose answer was lost, so that its effect happens
once more; `Fail` ends a call anywhere, as a cancelled context or a crash does; `ResetDel` and `ResetDone` are
the SCAN loop, which is sure to return the keys that were there throughout and may return others.

**`CapPuzzle.tla`** keeps apart what the client sees (`held[id].wire`, the JSON) and what the server keeps (`stored`, the claims and
encrypted metadata in the token). `New` fills in defaults and refuses; `Issue` is a call of `Challenge` in its three kinds, with
every outcome of a custom generator; a deployment fixes which options, calls and outcomes there are; requests are built from the wire form only: honest work
(`SolveChallenge`, or the widget running a blob) and work that is missing, surplus, misplaced, wrong, for another challenge, or for
another spelling of the token. `New` may be called again over the same store, with other options or another secret.

**`Rsw.tla`** is `rsw.go` on numbers of a few bits, with the cache: `GetMinter` looks a minter up or builds one under the mutex, `Mint` uses
it after the mutex is released, `Reset` empties the cache, `New` starts over with another key. Powers, inverses, digits and lengths are functions of
numbers of any size; only the instance is small. **`InstrProgram.tla`** runs the server's evaluator
and the script side by side, instruction by instruction; the script's helpers are modelled by what their JavaScript does (prototype lookup, a
chain of DOM nodes and the walk back up), not by the server's formula. **`StringTable.tla`** is `obfuscateStrings`. **`Prng.tla`** is
`prng.go` with words of `Width` bits. 
**`CapHttp.tla`** has a path as its pieces between slashes, and of every slash whether it was escaped (`%2F`). `RegisterRoute` is what a mux
makes of the patterns of `Register`: it matches the escaped path, so an escaped slash ends up inside what `{scope}` takes. `ServeHTTPRoute` splits the decoded path, where all
slashes are alike, and ignores those at its ends; `StrippedRoute` is the same behind `http.StripPrefix`, which takes the prefix off as a string (`Behind` says what is left of a piece that goes on behind the end of
the prefix). A scope is a text in pieces as well. Over the routes sit the handlers and `Redeem`: `RedeemRefused` returns before the store is asked, `RedeemStoreFails` wraps the error of the store
(`StoreErr`), `Take` and `Claim` spend the challenge and then refuse or come to `IssueToken`, whose errors are passed on as they are. `ErrorStatus` is what `errors.As` and the test of the cause
make of each. A call is one step; the races are those of `CapServer`.

**`CapServerInv.tla`**, **`CapRedisInv.tla`** and **`CapPuzzleInv.tla`** hold the inductive invariants of those modules; the modules
named `...Proofs` hold the theorems. **`Derived.tla`** puts `Rsw`, `InstrProgram`, `StringTable` and `Prng`, which share no state, side by side: a
behaviour is one of a single part. The operators on the bits of a word are constants of `InstrProgram` and `Prng`, so that the proofs use of them only what
`BitsFit` says (they stay in the word, `& 1` is the parity, `& 0x7FFFFFFF` is no negative number); `MCDerived` gives TLC the real ones. The other `MC`
modules have constants and symmetry for TLC; the `MC_*.cfg` files are the instances. Definitions introduced by "A bug:" are not used
by the specification: each replaces the definition after it to show that the
property it is paired with in `PROJECT.json` notices.

## What is checked

| Run | Question | Bounds |
|---|---|---|
| `redeem` | one token per challenge, stored or signed, with and without SkipNonce, past expiry, against cleanups, a Reset and a failing store; nothing live is dropped; lazy cleanups keep their interval apart | 2 workers, 1 challenge, 2 tokens, lifetimes of 1, clock to 2 |
| `validate` | a token is accepted once, in time, in scope, and never refused while live | 2 workers, 1 token, 2 scopes and none, clock to 3 |
| `everything` | the invariant of the proofs, and `CapServer` implements the ledger: all methods, all kinds of solutions, faults | 2 workers, 1 challenge, 1 token, clock to 2 |
| `swept` | expired entries are eventually removed | 2 workers, fair |
| `redis` | no key gone early, Reset wipes, the ledger is implemented; the invariant of the proofs | 2 replicas 1 ms apart, 1 challenge, 2 tokens, clock to 2 |
| `puzzle` | honest work passes, a token only for the work, once per challenge; the invariant of the proofs | 3 deployments (format 1, format 2, custom generators with every outcome), 2 challenges, 2 starts, 2 tokens, clock to 2 |
| `derived` | what server and client compute agrees | `Rsw`: 2 goroutines, 2 good keys of 8 bits (one with the Fermat prime 17) and 5 bad ones, 3 iteration counts; `InstrProgram`: 3 variables of 4 bits, 3 instructions, chains of 3 nodes; `StringTable`: scripts of 4 pieces, 3 values, every shuffle; `Prng`: tokens to 3 code units of 5, indices to 12, 5 digits over words of 2 |
| `http` | tokens have the scope both requests named, mounts agree, a rejection of right work is final | 17 paths of 1 to 4 pieces, with at most one escaped slash; 20 configurations; 1 challenge |
| `signed_boundary`, `signed_stale`, `reset_forgets`, `instr_ttl` | documented promises the code breaks (below) | as small as shows it |

Lifetimes and the cleanup interval are one or two ticks: the code only compares
times, so a tick stands for any span, and the clock goes past the last expiry that
matters. Two workers give every race here, all of which are between two calls over one key;
a sweep or a Reset in between is a call of either, as a worker may serve any number of calls. A token is random, so a fresh one is any
not in use; when all are used up, `Abandon` ends the call. `MaxTime` and
`MaxResets` bound the clock and the Resets; calls are not bounded. Workers, challenges,
tokens and scopes are symmetric, which is used except for liveness. No run turns off the
deadlock check. Small bounds are enough elsewhere for similar reasons: in `redis` the skew equals the
shortest lifetime of a token, so every order of the replicas' clocks and of Redis's expiry occurs; the lists of
`CapPuzzle` have up to three entries, so that one can be missing, surplus or swapped; in `Rsw` the
bases include multiples of 11 and 13 (not of 17, see below) and the scalars multiples of `p-1` and `q-1`, where a reduced exponent is 0; in `InstrProgram` the words wrap to
negative numbers, on which shifts and remainders could differ; in `Prng` a target spans three words; the paths of `CapHttp` have each part
of a route (prefix, scope, action) present, missing, doubled, empty, or with its slash escaped.

What is said of Redis: `KeysLiveOn` bounds how early a key may go by `MaxSkew`, and the ledger, with it one token per
challenge and one acceptance per token, holds of a signed challenge until the fastest replica has reached its expiry. With equal clocks that is the
expiry itself. `WipedStay` is about keys that clients held when a Reset began; a call under way may still put a key of its own.

The two properties on nonces deserve a word. `OneTokenPerChallenge` promises single use
of a signed challenge while the clock is before its expiry and no Reset has happened: that is what
the nonce can give. `DropsOnlyExpired` is what makes it true: a cleanup runs with
a time read earlier, never later, so it cannot remove a nonce that still counts.

**Fairness.** `FairSpec` adds weak fairness of time and of every worker's next step: the Go
scheduler runs every runnable goroutine, mutexes are held briefly, and a store call
returns. Nothing forces clients to call; `EventuallySwept` has "calls keep coming" as
its premise, because lazyCleanup runs on calls only, and asks that the bounded clock can
still reach the next interval.

## What the code does differently from what it says

* **A signed challenge is good for two tokens in its last millisecond**
  (`signed_boundary`). `redeemSigned` refuses a challenge when `exp < now`, the store takes a
  nonce for expired when `expires <= now`. At `now = exp` every redemption passes both. This
  takes one goroutine and no race.
* **A late claim finds its nonce swept** (`signed_stale`). Redemption A reads the clock before the
  expiry and verifies; B redeems; the challenge expires; any call's cleanup removes B's nonce;
  A claims it again, with its old time, and gets a second token.
* **Reset does not drop signed challenges** (`reset_forgets`). `Reset` is said to drop "all
  outstanding challenges, nonces and tokens"; signed challenges are not in the store, and
  with their nonces gone even redeemed ones can be redeemed again. (Rotating the secret, which the comment
  gives as an example, does invalidate them, but takes a new `Cap`.)

* **The TTL of the instrumentation is ignored for signed challenges** (`instr_ttl`): `challengeSigned` and `challengeV2` overwrite the expiry
  with that of the challenge. Stored challenges keep it.

Seen while modelling, without a run of their own:

* `ClaimNonce` of the Redis store gives a nonce a TTL of the expiry minus the claiming replica's time. If that clock is ahead, Redis drops the
  key while the challenge is still live for slower replicas. This is why `Enforced` in `CapRedis` allows for `MaxSkew`.
* `redeemStored` passes 0 where `TokenClaims.IssuedAt` promises the time the challenge was created (`RedeemStored` of `CapPuzzle`).
* `New` accepts format 2 with its default protocol and no keypair, and every plain challenge then fails (`Sound` of `CapPuzzle` asks for no keypair).
* `Mint` promises that y is x^(2^t), and `Validate` lets any two distinct primes pass whose product has 1024 bits. With a Fermat prime p among them, 2^t is reduced to
  0 modulo p-1, and if the random base is a multiple of p, then y is 1 modulo p where squaring gives 0: the honest answer is refused. `GenerateRSWKeypair` draws factors of half the
  bits, none of which is a Fermat prime; only an imported keypair can be of this kind. `KeysFit` of `Rsw` leaves out exactly these bases.
* With `Options.Scopes` nil, `ServeHTTP` serves a path with a scope segment as an unscoped one; `Register` does not (`ServeHTTPRoute` of `CapHttp`).
* `/cap/x%2Flogin/redeem` is served by `Register` for the scope `x/login` and by `ServeHTTP`, which splits the decoded path, for `login`. An allowlist of
  names without a slash settles it: the first refuses the request. This is why `MountsAgree` is about such allowlists (`NamesOnly`); with an empty one, which lets any scope pass, the two differ.
* `http.StripPrefix` takes off a string: with the prefix `/cap`, `/caplogin/redeem` reaches `ServeHTTP` as `login/redeem`. No mux hands it over from the pattern `/cap/`.
* Without `StripPrefix` and with an empty allowlist `ServeHTTP` takes the last segment of its mount point for the scope: `/cap/redeem` is served for `cap`. `RoutesNameScope` allows this,
  as the path does spell `cap` in front of the action.
* A `PutChallenge` that takes effect and loses its reply leaves a record that no client was given, until it expires (`Issue` of `CapPuzzle`).

## What is proved

All theorems hold for any sets of workers, replicas, challenges, tokens, names and scopes, any lifetimes, and without the bounds of
the runs having any particular value. `PROJECT.json` lists them; this is what they say and along which argument.

| Module | Theorems |
|---|---|
| `CapServerProofs` (types in `CapServerTypeProofs`) | `TypeInvariant`, `InvariantHolds` (`IInv`), `ChallengeSingleUse`, `TokenSingleUse`, `ScopeRespected`, `ExpiryRespected`, `SweepsKeepApart`, `LiveEntriesStay`, `LiveTokensHonoured` |
| `LedgerProofs` | `ExclusiveAlways` |
| `CapServerLedgerProofs` | `ServerImplementsLedger` |
| `CapRedisProofs` | `RedisTyped`, `RedisInvariant` (`IInv`), `WipedStayWiped`, `KeysOutliveRecords`, `RedisImplementsLedger`, `RedeemedOnceAcrossReplicas` |
| `CapPuzzleProofs` | `PuzzleInvariant` (`PuzzleInv`), `OnlySolved`, `OncePerChallenge`, `HonestNeverRefused` |
| `CapHttpProofs` | `HttpInvariant`, `TokensNameScope`, `BothMountsAgree`, `RejectedIsFinal` |
| `DerivedProofs` | `MintersFit`, `TrapdoorsOpen`, `ScriptKept`, `PuzzlesDerivedAlike`, `LongerTargetsHarder`, `ProgramsAgree` |

**Assumptions.** The named ASSUMEs of the modules, which TLC evaluates in the runs, and nothing else: the constants have their types (`CapServerAssumption`,
`CapRedisAssumption`, `CapPuzzleAssumption`; `CapHttpAssumption`, which also says that nothing is left of a piece behind itself; the skew of a replica is at most `MaxSkew`, the interval is not 0), the empty scope is a scope, and the
marks for "nothing there" are none of the things that could be there (`AbsentAssumption`, `HistoryAssumption`, `NoKeyAssumption`,
`NothingHeldAssumption`; `None` is no challenge of the ledger); `DerivedAssumption` adds what a word and the program's constants have to fit, that indices end at 1000 (`MaxChallengeCount`), and of keypairs (`KeysFit`) that they are made of
natural numbers and that no base is a multiple of a prime p for which 2^t is 0 modulo p-1. The primality of factors, the size and the product are not assumed: `New` checks them, and `TrapdoorInv` carries what it checked. `LiveTokensHonoured` has the hypothesis `~Faults`: with store errors a token is
gone when the answer of a `ConsumeToken` is lost.

### One Cap over the in-memory store

None of the properties of `CapServer` is inductive. `OneTokenPerChallenge` speaks of tokens already granted; to
survive a step it needs to know that a challenge which was redeemed is *spent* in the store (its
record gone, or its nonce there), that a worker between spending and issuing counts as well, and
that there is one of them at most (`SingleUseInv`). That a nonce stays needs its expiry to be the
challenge's (`RecordInv`) and every worker's time to be in the past (`TimeInv`). Acceptance needs the
token's record to agree with what was granted (`RecordInv`, `InTimeInv`) and a used token to be
gone (`ConsumedInv`). Types need that a call at a place has the arguments of that
place (`CallInv`): `TypeOK /\ CallInv` is proved first, on its own.

`CapServerTypeProofs` has one lemma per store operation and per control step, and one case per
action. `CapServerProofs` first says in how many ways a step can change each map (`ChallengesChange`,
`NoncesChange`, `TokensChange`, `IssuedChange`, `GrantedChange`, `UsedChange`) and from where a
worker reaches a place (`ArriveAtIssue`, `ArriveAtClaim`, `ArriveAtAccepted`, `SweepChange`); each part of
`IInv` then takes a short lemma of its own. `ChallengeLeaves`, `NoncesChange` and `TokenLeaves` say how an entry can leave
its map, which is `LiveEntriesStay`; with them a live token stays in the store while the client may still use it
(`HonoursInv`, an invariant only without store errors and therefore not a part of `IInv`), and `ConsumeAccepts` turns that
into an acceptance.

### The ledger

`ExclusiveAlways`: the ledger keeps its promise; `Exclusive` and its types are inductive together. `ServerImplementsLedger`: every behaviour of
`CapServer` is one of `Ledger` under the mapping of `CapServerLedger`. The argument takes one lemma per kind of step: the steps that only move a call, those that let time pass or clean up (a
`Forget`: a live entry stays by `LiveEntriesStay`, so a token only goes and a challenge only fades), and the ones that issue, redeem, grant and accept. That
a `Claim` or `Take` which succeeds finds its challenge *open* is where the inductive invariant is used.

### Replicas over one Redis

`CapRedisInv` has the invariant, in parts. `CallInv` and `FreshInv`: a call has the arguments of its place, and what it is about to put nobody
holds, though a command sent twice may have put it already. `ClockInv`: no replica acts on a time yet to come. `LifeInv` ties a key's life in Redis to
the expiry it stands for, up to `MaxSkew`; a property of single steps, `KeysLiveOn` (a key goes at most `MaxSkew` before its record expires on Redis's clock), follows from it, and so does that a nonce stays while its challenge counts.
`ConsumedInv`: a consumed token does not come back; with `FreshInv`, no command that is sent again puts it. `ResetInv`: of
the keys held when a Reset began, those still there are still to be deleted, and what was wiped stays away; `WipedStayWiped` is its second half.

The proof first says, once for all actions, what a step of a worker does to the other workers, to what clients hold and to each key; every part of
the invariant is then a lemma over these. The refinement goes the same way: steps that use nothing change the ledger's view only by letting challenges and tokens
lapse (a `Forget`), and `Put`, `Take`, `Claim`, `IssueToken` and `Consume` map to the ledger's action of the same meaning, or to none when the
command is a repetition. `RedeemedOnceAcrossReplicas` then takes the ledger's `Exclusive` back down: while Redis can enforce a challenge, all replicas
together returned at most one token for it, and no call is about to issue another.

### Challenges and verdicts

`PuzzleInv` has four parts. `OptsInv`: options that `New` let through are usable. `HeldInv`, the core: what the server keeps of a challenge (record,
claims, encrypted metadata) asks for exactly what its client was shown, entry by entry, and belongs to that challenge. A record that nobody holds asks nobody. `AcceptedInv`: what was redeemed
is spent, by a missing record or a claimed nonce. `SolvedOnly` and `OnePerChallenge` speak of redemptions that already happened, so they are parts of it too.

That `Challenge` establishes `HeldInv` is proved per kind of challenge, and for format 2 per entry and per outcome of a generator. That a redemption keeps it takes two facts.
*Where the answers come from*: every request of the model is built from a wire form (`RequestSent`), so an answer that fits is genuine work or it does not fit.
*What a check lets through*: a result that passes `checkInstrumentation` reports what running the blob gives, and a solution that passes `verifyFormat1` or
`verifyV2` solves every puzzle shown. The converse, that honest work passes every check, is `HonestNeverRefused`: it follows from `PuzzleInv` in any state, whichever
configuration is in force, as long as the secret is the one the challenge was signed with.

### HTTP

`HttpInvariant`: a token that a client holds has the scope of its challenge; with `RequireScope` that scope is one the options let through, and the paths of both requests spell it. That a served route is spelled by its path (`RouteScope`) is a lemma
per mount: `RegisterScope` cuts the scope out between prefix and action, `ServeHTTPScope` finds it in front of the last segment, and `StripScope` carries that back over the prefix, also when
the prefix ends inside a piece. `TokensNameScope` then needs that a redemption with a scope gives a token of that scope, which `Fits` decides, for stored and signed challenges (`RedeemKeeps`).

`BothMountsAgree` needs no invariant, only the lemmas on texts: it compares what two ways of splitting make of every path. An allowlist of names lets through a scope of one piece only (`AllowedHit`), so the mux matched no
escaped slash; what `StripPrefix` leaves is then the empty piece in front of scope and action (`StrippedIs`), and the last segment is the action on both sides (`RoutesAgree`).

`RejectedIsFinal`: by one case per error path. Before the store is asked, right work is refused for another scope or past the expiry only; behind `Take` and `Claim` the challenge is spent; an error of the store has a cause, so it is no
rejection; and an error while the token is issued, whatever it looks like, comes when the challenge is spent. Which of these a client may hear as a verdict is up to `ErrorStatus`.

### What server and client compute

`MintersFit`: the invariant adds to the property that the cached minter is for the options in force; `New` may replace
the options because it empties the cache while no goroutine holds a minter of the Cap before. `ScriptKept`: the table has the value of every literal whatever
exchanges the shuffle made so far, each value once, so the places looked up after the shuffle are right.

`TrapdoorsOpen`: number theory from the ground up, because neither the provers nor the library know what a prime is, and all of it for numbers of any size. The invariant (`TrapdoorInv`) says
that minters in the cache and in use were made from options that `New` checked, under whichever `New` or `Reset` came since, and that every puzzle outstanding has its one answer.
The work is in `MintedAnswered`, that a puzzle from such a minter has it, in four stages:

* *Fermat's theorem* (`Fermat`). A prime divides no product of smaller numbers (`NoZeroDivisors`, by the least multiple that it divides). So the powers of a number repeat, its order is
  a period (`OrderExists`, by the pigeonhole theorem), multiplication by its powers cuts the numbers below p into orbits of that size (`OrbitSize`, `OrbitLeaves`), and the order divides p-1 (`OrderDivides`, by the
  smallest closed set whose size it does not divide). `Exp` gets its laws from a recursion lemma (`Recursion`, `ExpPlus`, `ExpTimes`).
* *One prime* (`TrapdoorOfPrime`). Exponents count modulo p-1 (`ExpReducesExponent`), so (b^r)^(2^t) is (b^ep)^r. A base that p divides has no order: it is the case in which `KeysFit` is used.
* *Both* (`TrapdoorOfModulus`). `ModInverse` finds an inverse (a power, by Fermat), `Crt` has the two remainders it is given (`CrtRemainders`) and there is one such number below n (`RemaindersDetermine`). Squaring
  t times is raising to 2^t (`Squarings`), and a power modulo n has the powers modulo p and q as its remainders (`ExpOfMultiple`).
* *On the wire* (`HexReadsBack`, `PaddedReadsBack`). What `paddedHex` writes `parseHexInt` reads, at any width that is enough, and `TextWidth` is enough.

`PuzzlesDerivedAlike`: to resume a hash is to hash the longer text (`ResumeConcat`), whatever the hash mixes a unit in with. `LongerTargetsHarder`: the loop for `n` digits and the one
for `n + 1` go the same way until the first is done, and rounds only append (`RoundsAgree`).

`ProgramsAgree`: server and script hold the same integers (`ProgramInv`). Five instructions are the same operators on both sides, or become so when the prototype
helper is expanded. The sixth is the DOM helper. `NodeAlike` follows one node on either side: the server adds an even value to its sum where the script goes
down to the new node; the script asks `(v & 1) == 0` and the server's `v&1 == 0` is stated as parity, which is the same for numbers of either sign (`ParityAgrees`). The
texts from the current node up to the root then add up to the server's sum (`SumAppended`: new nodes change no older sum), through any number of chains. The last step takes a
remainder in Go and in JavaScript; `SaltedAlike` shows that its operand is never negative.

What recursive functions compute (`Collected` in `StringTable`, the joining of entries in `CapPuzzle`, the last segment of a path in `CapHttp`, the hash, the stream of digits, the chains and the walk, powers and hex digits) is proved by the
least-number principle (`LeastNumber`, from the well-foundedness of `<`): no least counterexample exists. The induction theorems of the library are not used.

## What is only model-checked

* `EventuallySwept`: liveness under fairness is out of the prover's reach.
* The documented promises that the code breaks are refuted, not proved.

## Not modelled

* The text of the environment and automation checks (`buildBlockChecks`, `buildClientScript`): JavaScript whose meaning is that of
  browsers. What the server sees of it, a report or the flag "blocked", is in `CapPuzzle`. Whitespace removal, compression and base64 of the script.
* Cryptography itself: a signed token carries what it was issued with, hashes and signatures are one to one, an encrypted box opens
  under its key and label only. Quality of randomness: a fresh identifier is one not in use.
* `GenerateRSWKeypair` (drawing primes) and `jsNumberString` (floating-point formatting).
* Custom tokens (`SignToken`, `VerifyToken`) beyond what `SignToken` is given: their single use is the caller's business.
* In `CapRedis`: redemptions with `SkipNonce` (`CapServer` has them), and a command that is sent again and overtakes its own first attempt.
* In `CapHttp`: escapes of characters other than the slash, paths that a mux cleans and redirects before it matches, `Reset`.
* Corrupt records in Redis, and eviction: a Redis that drops live keys under memory pressure breaks any promise of the store.
* `capjs`: starting a Node process and reading its output. Its outcomes are those of a generator in `CapPuzzle`.
* Example server and test tools; wording, logging and headers.

## Plan

1. An abstract specification of `CapHttp` over the ledger: an answer as the outcome of the ledger's step.
2. The bound under which `jsNumberString` writes a number as JavaScript does, over an abstract type of floating-point numbers.
