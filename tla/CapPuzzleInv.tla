---------------------------- MODULE CapPuzzleInv ----------------------------
(***************************************************************************)
(* The inductive invariant of CapPuzzle: what the server keeps of a        *)
(* challenge (a record, or the claims of its token) asks for exactly what  *)
(* the client was shown, and a redemption leaves a mark that stays.        *)
(***************************************************************************)
EXTENDS CapPuzzle

-----------------------------------------------------------------------------
(* Two sides of one challenge *)

\* The metadata expects what running the blob reports, and has the blocking
\* policy that was asked for. Nothing of it belongs to the generator.
MetaFits(meta, blob, io, id) ==
    /\ Len(meta.id) = 2
    /\ meta.id[1] = id
    /\ blob = <<[i |-> meta.id,
                 state |-> [v \in {"a", "b"} |-> IF v = "a" THEN id ELSE id + 10]]>>
    /\ meta.vars = <<"a", "b">>
    /\ meta.vals = <<id, id + 10>>
    /\ ~meta.shared
    /\ meta.block \in BOOLEAN
    /\ io # <<>> => meta.block = io[1].block

InstrFits(instr, blob, io, id) ==
    \/ instr = <<>> /\ blob = <<>>
    \/ Len(instr) = 1 /\ instr # <<>> /\ blob # <<>> /\ MetaFits(instr[1], blob, io, id)

\* The JSON of a format-1 challenge.
Format1Shown(wire) ==
    /\ DOMAIN wire = {"token", "challenge", "expires", "instrumentation"}
    /\ wire.challenge \in PoWSettings
    /\ ValidatePoWParams(wire.challenge)

\* A stored challenge and, while it is there, its record.
StoredShown(id, h, record) ==
    /\ Format1Shown(h.wire)
    /\ h.wire.token = HexToken(id)
    /\ record # <<>> =>
         /\ record[1].pow = h.wire.challenge
         /\ record[1].scope = h.scope
         /\ record[1].expires = h.wire.expires
         /\ InstrFits(record[1].instr, h.wire.instrumentation, h.io, id)

\* The claims of a signed challenge of format 1.
ClaimsFormat1(id, h, token, claims) ==
    /\ claims.f = 0
    /\ Format1Shown(h.wire)
    /\ claims.pow = h.wire.challenge
    /\ \/ claims.ei = <<>> /\ h.wire.instrumentation = <<>>
       \/ /\ claims.ei # <<>>
          /\ h.wire.instrumentation # <<>>
          /\ DecryptsGCM(token.secret, "cap:enc-v1", claims.ei[1])
          /\ claims.ei[1].plain.expires = claims.exp
          /\ MetaFits(claims.ei[1].plain, h.wire.instrumentation, h.io, id)

\* An entry of a format-2 challenge, as the client sees it and as the server
\* expects it. The puzzles are the challenge's own.
EntryFits(v, e, id, io, exp) ==
    /\ e.protocol = v.protocol
    /\ e.pow = v.pow
    /\ e.y = v.x
    /\ \/ /\ v.protocol = "sha256-pow"
          /\ v.pow = [salt |-> v.pow.salt, target |-> v.pow.target]
          /\ v.pow.target \in Int
          /\ v.pow.salt # <<>> /\ v.pow.salt[1] = id
          /\ v.x = <<>> /\ v.blob = <<>>
       \/ /\ v.protocol = "rsw"
          /\ v.x # <<>> /\ v.x[1] = id
          /\ v.pow = NoPow /\ v.blob = <<>>
       \/ /\ v.protocol = "instrumentation"
          /\ v.pow = NoPow /\ v.x = <<>> /\ v.blob # <<>>
          /\ MetaFits(e.instr[1], v.blob, io, id)
          /\ e.instr[1].expires = exp

\* The claims of a format-2 challenge.
ClaimsV2(id, h, token, claims) ==
    /\ claims.f = 2
    /\ DOMAIN h.wire = {"token", "format", "challenges", "expires"}
    /\ DecryptsGCM(token.secret, "cap:fmt2-v1", claims.ev[1])
    /\ Len(h.wire.challenges) \in Nat
    /\ DOMAIN h.wire.challenges = 1..Len(h.wire.challenges)
    /\ Len(claims.ev[1].plain) = Len(h.wire.challenges)
    /\ \A k \in DOMAIN h.wire.challenges :
         EntryFits(h.wire.challenges[k], claims.ev[1].plain[k], id, h.io, claims.exp)
    /\ \A j, k \in DOMAIN h.wire.challenges :
         /\ h.wire.challenges[j].protocol = "sha256-pow"
         /\ h.wire.challenges[k].protocol = "sha256-pow"
         => h.wire.challenges[j].pow.target = h.wire.challenges[k].pow.target

SignedShown(id, h) ==
    LET token == h.wire.token
        claims == token.claims[1]
    IN  /\ token.kind = "jwt"
        /\ token = JwtSign(claims, token.secret)
        /\ token.secret # Empty
        /\ claims.n = id
        /\ claims.sk = h.scope
        /\ claims.exp = h.wire.expires
        /\ claims.exp \in Nat \ {0}
        /\ ClaimsFormat1(id, h, token, claims) \/ ClaimsV2(id, h, token, claims)

-----------------------------------------------------------------------------
(* The invariant *)

\* New leaves options that can be used.
OptsInv ==
    /\ deployment \in Deployments
    /\ clock \in Nat
    /\ opts # <<>> =>
         /\ Opts.pow \in PoWSettings
         /\ Opts.ttl \in Nat \ {0}
         /\ Opts.protocols \in Seq(ProtocolNames)
         /\ Opts.instr \in Pointers(Probes)

\* Both sides of every challenge agree. A record that nobody holds may be any.
HeldInv ==
    /\ DOMAIN held = Ids
    /\ DOMAIN stored = Ids
    /\ \A id \in Ids : held[id] # <<>> =>
         \/ StoredShown(id, held[id][1], stored[id])
         \/ SignedShown(id, held[id][1]) /\ stored[id] = <<>>

\* A redemption took the record or the nonce for good.
Spent(id) ==
    /\ held[id] # <<>>
    /\ IF held[id][1].wire.token.kind = "hex" THEN stored[id] = <<>>
       ELSE <<id>> \in claimed

AcceptedInv ==
    /\ Len(accepted) \in Nat
    /\ accepted = [k \in 1..Len(accepted) |-> accepted[k]]
    /\ \A k \in DOMAIN accepted :
         /\ accepted[k].id \in Ids
         /\ Spent(accepted[k].id)

\* Needed for every later step: the sides of a challenge agree, and what is
\* redeemed stays spent.
PuzzleInv ==
    /\ OptsInv
    /\ HeldInv
    /\ AcceptedInv
    /\ SolvedOnly
    /\ OnePerChallenge
=============================================================================
