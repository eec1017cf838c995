--------------------------- MODULE CapPuzzleProofs ---------------------------
(***************************************************************************)
(* The properties of CapPuzzle for any options, calls, generators and      *)
(* number of challenges: honest work is never refused, only solved work is *)
(* accepted, and each challenge once.                                      *)
(***************************************************************************)
EXTENDS CapPuzzleInv, SequenceTheorems, WellFoundedInduction, TLAPS

-----------------------------------------------------------------------------
(* Induction over the natural numbers, as the least-number principle *)

LEMMA LeastNumber ==
    ASSUME NEW T \in SUBSET Nat, T # {}
    PROVE  \E m \in T : \A n \in T : m <= n
<1>1. IsWellFoundedOn(OpToRel(<, Nat), Nat)
  BY NatLessThanWellFounded, Zenon
<1>2. PICK m \in T : \A n \in T : ~(<<n, m>> \in OpToRel(<, Nat))
  BY <1>1, WFMin, Zenon
<1>3. \A n \in T : ~(n < m)
  BY <1>2 DEF OpToRel
<1> QED  BY <1>3

-----------------------------------------------------------------------------
(* FlattenSeq, which joins the entries of the protocols *)

\* g is the function that FlattenSeq computes, up to n.
Flattens(seqs, n, g) ==
    g = [i \in 1..n |-> IF i = 1 THEN seqs[i] ELSE g[i - 1] \o seqs[i]]

LEMMA FlattensExtends ==
    ASSUME NEW seqs, NEW m \in Nat \ {0}, NEW g, Flattens(seqs, m - 1, g)
    PROVE  \E h : Flattens(seqs, m, h)
<1> DEFINE h == [i \in 1..m |->
                   IF i = m THEN IF i = 1 THEN seqs[i] ELSE g[i - 1] \o seqs[i]
                   ELSE g[i]]
<1>1. ASSUME NEW i \in 1..m
      PROVE  h[i] = IF i = 1 THEN seqs[i] ELSE h[i - 1] \o seqs[i]
  <2>1. i # 1 => h[i - 1] = g[i - 1]
    OBVIOUS
  <2>2. CASE i = m
    BY <2>1, <2>2
  <2>3. CASE i # m
    <3>1. i \in 1..(m - 1)
      BY <2>3
    <3>2. g[i] = IF i = 1 THEN seqs[i] ELSE g[i - 1] \o seqs[i]
      BY <3>1 DEF Flattens
    <3> QED  BY <2>1, <2>3, <3>2
  <2> QED  BY <2>2, <2>3
<1>2. h = [i \in 1..m |-> h[i]]
  OBVIOUS
<1> HIDE DEF h
<1>3. h = [i \in 1..m |-> IF i = 1 THEN seqs[i] ELSE h[i - 1] \o seqs[i]]
  BY <1>1, <1>2
<1> QED  BY <1>3 DEF Flattens

LEMMA FlattensExists ==
    ASSUME NEW seqs, NEW n \in Nat
    PROVE  \E g : Flattens(seqs, n, g)
<1> DEFINE T == {m \in Nat : ~ \E g : Flattens(seqs, m, g)}
<1> SUFFICES ASSUME T # {} PROVE FALSE
  OBVIOUS
<1>1. PICK m \in T : \A k \in T : m <= k
  BY LeastNumber
<1>2. CASE m = 0
  <2> DEFINE g == [i \in 1..0 |-> 0]
  <2>1. g = [i \in 1..0 |-> IF i = 1 THEN seqs[i] ELSE g[i - 1] \o seqs[i]]
    OBVIOUS
  <2> HIDE DEF g
  <2>2. Flattens(seqs, 0, g)
    BY <2>1 DEF Flattens
  <2> QED  BY <1>2, <2>2
<1>3. CASE m # 0
  <2>1. m \in Nat \ {0} /\ m - 1 \in Nat /\ m - 1 \notin T
    BY <1>1, <1>3
  <2>2. PICK g : Flattens(seqs, m - 1, g)
    BY <2>1
  <2> QED  BY <2>1, <2>2, FlattensExtends
<1> QED  BY <1>2, <1>3

LEMMA FlattenSeqUnfolds ==
    ASSUME NEW seqs, Len(seqs) \in Nat \ {0}
    PROVE  \E g : Flattens(seqs, Len(seqs), g) /\ FlattenSeq(seqs) = g[Len(seqs)]
<1> DEFINE flatten == CHOOSE g : g = [i \in 1..Len(seqs) |->
                        IF i = 1 THEN seqs[i] ELSE g[i - 1] \o seqs[i]]
<1>1. \E g : g = [i \in 1..Len(seqs) |->
                    IF i = 1 THEN seqs[i] ELSE g[i - 1] \o seqs[i]]
  BY FlattensExists DEF Flattens
<1>2. flatten = [i \in 1..Len(seqs) |->
                   IF i = 1 THEN seqs[i] ELSE flatten[i - 1] \o seqs[i]]
  BY <1>1
<1>3. FlattenSeq(seqs) = flatten[Len(seqs)]
  BY DEF FlattenSeq
<1> HIDE DEF flatten
<1> QED  BY <1>2, <1>3 DEF Flattens

\* Sequences over S join to a sequence over S.
LEMMA FlattenSeqIn ==
    ASSUME NEW S, NEW seqs \in Seq(Seq(S))
    PROVE  FlattenSeq(seqs) \in Seq(S)
<1>1. CASE Len(seqs) = 0
  <2>1. seqs = <<>> /\ <<>> \in Seq(S)
    BY <1>1
  <2> QED  BY <1>1, <2>1 DEF FlattenSeq
<1>2. CASE Len(seqs) # 0
  <2>1. Len(seqs) \in Nat \ {0}
    BY <1>2
  <2>2. PICK g : Flattens(seqs, Len(seqs), g) /\ FlattenSeq(seqs) = g[Len(seqs)]
    BY <2>1, FlattenSeqUnfolds
  <2>3. ASSUME NEW i \in 1..Len(seqs)
        PROVE  /\ seqs[i] \in Seq(S)
               /\ g[i] = IF i = 1 THEN seqs[i] ELSE g[i - 1] \o seqs[i]
    <3>1. seqs[i] \in Seq(S)
      BY ElementOfSeq
    <3>2. g[i] = IF i = 1 THEN seqs[i] ELSE g[i - 1] \o seqs[i]
      BY <2>2 DEF Flattens
    <3> QED  BY <3>1, <3>2
  <2> DEFINE T == {i \in 1..Len(seqs) : g[i] \notin Seq(S)}
  <2>4. SUFFICES ASSUME T # {} PROVE FALSE
    <3>1. Len(seqs) \in 1..Len(seqs)
      BY <2>1
    <3> QED  BY <2>2, <3>1
  <2>5. PICK i \in T : \A k \in T : i <= k
    <3>1. T \in SUBSET Nat
      OBVIOUS
    <3> HIDE DEF T
    <3> QED  BY <2>4, <3>1, LeastNumber
  <2>6. CASE i = 1
    BY <2>3, <2>5, <2>6
  <2>7. CASE i # 1
    <3>1. i - 1 \in 1..Len(seqs) /\ i - 1 \notin T
      BY <2>1, <2>5, <2>7
    <3>2. g[i - 1] \in Seq(S) /\ seqs[i] \in Seq(S) /\ g[i] = g[i - 1] \o seqs[i]
      BY <2>3, <2>5, <2>7, <3>1
    <3>3. g[i] \in Seq(S)
      BY <3>2, ConcatProperties
    <3> QED  BY <3>3
  <2> QED  BY <2>6, <2>7
<1> QED  BY <1>1, <1>2

-----------------------------------------------------------------------------
(* Instrumentation: a result that passes the checks fits its blob *)

\* The names that a well-formed result has.
LEMMA WellGeneratedVars ==
    ASSUME NEW o, NEW io, NEW key, NEW at, NEW gen,
           WellGenerated(Generate(o, io, key, at, gen), io, gen)
    PROVE  gen \notin {"novars", "twice", "unnamed", "short", "noblob", "noid"}
<1> DEFINE out == Generate(o, io, key, at, gen)
<1>1. /\ out.blob # <<>> /\ out.id # <<>> /\ out.vars # <<>>
      /\ Len(out.vars) = Len(out.vals) /\ Empty \notin ToSet(out.vars)
      /\ IsInjective(out.vars)
  BY DEF WellGenerated
<1>2. gen # "novars"
  BY <1>1 DEF Generate
<1>3. gen # "noblob"
  BY <1>1 DEF Generate
<1>4. gen # "noid"
  BY <1>1 DEF Generate
<1>5. gen # "twice"
  <2>1. gen = "twice" => out.vars = <<"a", "a">>
    BY DEF Generate
  <2>2. ~IsInjective(<<"a", "a">>)
    BY DEF IsInjective
  <2> QED  BY <1>1, <2>1, <2>2
<1>6. gen # "unnamed"
  <2>1. gen = "unnamed" => out.vars = <<"a", Empty>>
    BY DEF Generate
  <2>2. Empty \in ToSet(<<"a", Empty>>)
    BY DEF ToSet
  <2> QED  BY <1>1, <2>1, <2>2
<1>7. gen # "short"
  <2>1. gen = "short" => out.vars = <<"a", "b">> /\ out.vals = <<key[1]>>
    BY DEF Generate
  <2> QED  BY <1>1, <2>1
<1> QED  BY <1>2, <1>3, <1>4, <1>5, <1>6, <1>7

MetaFields == {"id", "vars", "vals", "block", "expires", "shared"}

\* The result of a generator for the probe p, as it is kept.
Generated(instr, p, id) ==
    /\ Len(instr) = 1
    /\ BlobOf(instr) # <<>>
    /\ DOMAIN instr = {1}
    /\ MetaFits(instr[1], BlobOf(instr), <<p>>, id)
    /\ MetaFields \subseteq DOMAIN instr[1]

LEMMA GeneratedFits ==
    ASSUME NEW o, NEW io \in Probes, NEW ttl \in Int, NEW id \in Nat, NEW j,
           NEW at, NEW gen, NEW instr,
           instr = RunInstrumentationGenerator(o, io, ttl, <<id, j>>, at, gen),
           instr # <<>>
    PROVE  Generated(instr, io, id)
<1> DEFINE want == [io EXCEPT !.ttl = IF @ <= 0 THEN ttl ELSE @]
           key  == <<id, j>>
           out  == Generate(o, want, key, at, gen)
<1>1. want.block = io.block /\ io.block \in BOOLEAN
  BY DEF Probes
<1>2. WellGenerated(out, want, gen) /\ instr = <<Kept(out, want, at)>>
  BY DEF RunInstrumentationGenerator
<1> HIDE DEF want
<1>3. gen \notin {"novars", "twice", "unnamed", "short", "noblob", "noid"}
  BY <1>2, WellGeneratedVars
<1>4. out.block = io.block
  BY <1>1, <1>2 DEF WellGenerated
<1>5. /\ out.vars = <<"a", "b">>
      /\ out.vals = <<id, id + 10>>
      /\ out.id = key
  BY <1>3 DEF Generate
<1>6. out.blob = <<[i |-> key, state |-> [v \in ToSet(<<"a", "b">>) |->
             (<<key[1], key[1] + 10>>)[CHOOSE k \in DOMAIN <<"a", "b">> : (<<"a", "b">>)[k] = v]]]>>
  BY <1>3 DEF Generate
<1>7. [v \in ToSet(<<"a", "b">>) |->
             (<<key[1], key[1] + 10>>)[CHOOSE k \in DOMAIN <<"a", "b">> : (<<"a", "b">>)[k] = v]]
      = [v \in {"a", "b"} |-> IF v = "a" THEN id ELSE id + 10]
  <2>1. ToSet(<<"a", "b">>) = {"a", "b"}
    BY DEF ToSet
  <2>2. (CHOOSE k \in DOMAIN <<"a", "b">> : (<<"a", "b">>)[k] = "a") = 1
    OBVIOUS
  <2>3. (CHOOSE k \in DOMAIN <<"a", "b">> : (<<"a", "b">>)[k] = "b") = 2
    OBVIOUS
  <2> QED  BY <2>1, <2>2, <2>3
<1>8. PICK m : m = Kept(out, want, at)
  OBVIOUS
<1>9. /\ m.vars = out.vars /\ m.vals = out.vals /\ m.id = out.id
      /\ m.blob = out.blob /\ m.block = out.block /\ m.shared = FALSE
      /\ MetaFields \subseteq DOMAIN m
  BY <1>8 DEF Kept, Generate, MetaFields
<1> HIDE DEF out
<1>10. instr = <<m>>
  BY <1>2, <1>8
<1>11. BlobOf(instr) = m.blob
  BY <1>10 DEF BlobOf
<1>12. m.blob # <<>>
  BY <1>6, <1>9
<1>13. MetaFits(m, m.blob, <<io>>, id)
  <2>1. m.id = <<id, j>> /\ Len(m.id) = 2 /\ m.id[1] = id
    BY <1>5, <1>9
  <2>2. m.blob = <<[i |-> m.id, state |-> [v \in {"a", "b"} |->
                                            IF v = "a" THEN id ELSE id + 10]]>>
    BY <1>6, <1>7, <1>9, <2>1
  <2>3. m.block = io.block /\ m.block \in BOOLEAN
    BY <1>1, <1>4, <1>9
  <2>4. ~m.shared
    BY <1>9
  <2>5. (<<io>>)[1] = io
    OBVIOUS
  <2> QED  BY <1>5, <1>9, <2>1, <2>2, <2>3, <2>4, <2>5 DEF MetaFits
<1> QED  BY <1>9, <1>10, <1>11, <1>12, <1>13 DEF Generated

-----------------------------------------------------------------------------
(* Configuration *)

LEMMA EffectiveTyped ==
    ASSUME NEW c \in Options, NEW e, e = Effective(c), Sound(e)
    PROVE  /\ e.pow \in PoWSettings
           /\ e.ttl \in Nat \ {0}
           /\ e.protocols \in Seq(ProtocolNames)
           /\ e.instr \in Pointers(Probes)
<1>1. /\ c.pow \in PoWSettings /\ c.ttl \in Int /\ c.protocols \in Seq(STRING)
      /\ c.instr \in Pointers(Probes)
  BY DEF Options
<1>2. PowOr(c.pow, DefaultPow) \in PoWSettings
  BY <1>1, CapPuzzleAssumption DEF PowOr, Or, PoWSettings
<1>3. Or(c.ttl, DefaultTTL) \in Int /\ Or(c.ttl, DefaultTTL) # 0
  BY <1>1, CapPuzzleAssumption DEF Or
<1>4. /\ e.pow = PowOr(c.pow, DefaultPow)
      /\ e.ttl = Or(c.ttl, DefaultTTL)
      /\ e.protocols = IF c.protocols = <<>> THEN <<"rsw">> ELSE c.protocols
      /\ e.instr = c.instr
  BY DEF Effective, Options
<1>5. e.ttl >= 0 /\ ToSet(e.protocols) \subseteq ProtocolNames
  BY DEF Sound
<1>6. e.protocols \in Seq(ProtocolNames)
  <2>1. CASE c.protocols = <<>>
    <3>1. "rsw" \in ProtocolNames
      BY DEF ProtocolNames
    <3> QED  BY <1>4, <2>1, <3>1
  <2>2. CASE c.protocols # <<>>
    <3>1. PICK p \in Seq(STRING) : p = c.protocols /\ p = e.protocols
      BY <1>1, <1>4, <2>2
    <3>2. \A i \in 1..Len(p) : p[i] \in ProtocolNames
      BY <1>5, <3>1 DEF ToSet
    <3> QED  BY <3>1, <3>2
  <2> QED  BY <2>1, <2>2
<1> QED  BY <1>1, <1>2, <1>3, <1>4, <1>5, <1>6

-----------------------------------------------------------------------------
(* Challenges: what Challenge keeps fits what it shows *)

LEMMA CallTyped ==
    ASSUME OptsInv, opts # <<>>, NEW o \in ChallengeOptions
    PROVE  /\ ChallengeTTL(o) \in Nat \ {0}
           /\ InstrumentationOptions(o) \in Pointers(Probes)
           /\ PowParams(o) \in PoWSettings
<1>2. /\ Opts.ttl \in Nat \ {0} /\ Opts.instr \in Pointers(Probes)
      /\ Opts.pow \in PoWSettings
  BY DEF OptsInv
<1>3. /\ o.ttl \in Int /\ o.instr \in Pointers(Probes)
      /\ o.pow \in PoWSettings
  BY DEF ChallengeOptions
<1>4. ChallengeTTL(o) \in Nat \ {0}
  BY <1>2, <1>3 DEF ChallengeTTL
<1>5. <<>> \in Pointers(Probes)
  BY DEF Pointers
<1>6. InstrumentationOptions(o) \in Pointers(Probes)
  BY <1>2, <1>3, <1>5 DEF InstrumentationOptions
<1>7. PowParams(o) \in PoWSettings
  BY <1>2, <1>3 DEF PowParams, PowOr, Or, PoWSettings
<1> QED  BY <1>4, <1>6, <1>7

LEMMA PointerCases ==
    ASSUME NEW S, NEW p \in Pointers(S)
    PROVE  \/ p = <<>> /\ Len(p) = 0
           \/ p # <<>> /\ Len(p) = 1 /\ p[1] \in S /\ p = <<p[1]>>
<1>1. p \in Seq(S) /\ Len(p) <= 1 /\ Len(p) \in Nat
  BY LenProperties DEF Pointers
<1>2. Len(p) = 0 => p = <<>>
  BY <1>1
<1>3. Len(p) = 1 => p # <<>> /\ p[1] \in S /\ p = <<p[1]>>
  BY <1>1
<1>4. Len(p) = 0 \/ Len(p) = 1
  <2>1. PICK n \in Nat : n = Len(p) /\ n <= 1
    BY <1>1
  <2>2. n = 0 \/ n = 1
    BY <2>1
  <2> QED  BY <2>1, <2>2
<1> QED  BY <1>2, <1>3, <1>4

\* What a generator gave for the options io, or nothing without them.
InstrMade(instr, io, id) ==
    /\ InstrFits(instr, BlobOf(instr), io, id)
    /\ \/ instr = <<>>
       \/ DOMAIN instr = {1} /\ MetaFields \subseteq DOMAIN instr[1]

\* Metadata for a configured probe fits its blob.
LEMMA InstrOfCall ==
    ASSUME NEW o, NEW io \in Pointers(Probes), NEW ttl \in Int, NEW id \in Nat,
           NEW at, NEW gen, NEW instr,
           instr = (IF io = <<>> THEN <<>>
                    ELSE RunInstrumentationGenerator(o, io[1], ttl, <<id, 1>>, at, gen)),
           Len(instr) = Len(io)
    PROVE  InstrMade(instr, io, id)
<1> USE DEF InstrMade
<1>1. CASE io = <<>>
  <2>1. instr = <<>>
    BY <1>1
  <2>2. BlobOf(instr) = <<>>
    BY <2>1 DEF BlobOf
  <2> QED  BY <2>1, <2>2 DEF InstrFits
<1>2. CASE io # <<>>
  <2>1. Len(io) = 1 /\ io[1] \in Probes /\ io = <<io[1]>>
    BY <1>2, PointerCases
  <2>2. instr # <<>>
    BY <2>1
  <2>3. PICK p \in Probes : p = io[1] /\ io = <<p>>
    BY <2>1
  <2>4. instr = RunInstrumentationGenerator(o, p, ttl, <<id, 1>>, at, gen)
    BY <1>2, <2>3
  <2>5. /\ Len(instr) = 1 /\ BlobOf(instr) # <<>> /\ DOMAIN instr = {1}
        /\ MetaFits(instr[1], BlobOf(instr), <<p>>, id)
        /\ MetaFields \subseteq DOMAIN instr[1]
    BY <2>2, <2>4, GeneratedFits DEF Generated
  <2> QED  BY <2>2, <2>3, <2>5 DEF InstrFits
<1> QED  BY <1>1, <1>2

LEMMA StoredMade ==
    ASSUME OptsInv, opts # <<>>, NEW o \in ChallengeOptions, NEW id \in Ids,
           NEW gen, NEW made, made = ChallengeStored(o, id, gen), made # <<>>,
           NEW h, h.wire = MarshalJSON(made[1].ch), h.scope = made[1].ch.scope,
           h.io = InstrumentationOptions(o)
    PROVE  StoredShown(id, h, made[1].record)
<1> DEFINE ttl     == ChallengeTTL(o)
           expires == clock + ttl
           io      == InstrumentationOptions(o)
           instr   == IF io = <<>> THEN <<>>
                      ELSE RunInstrumentationGenerator(o, io[1], ttl, <<id, 1>>,
                                                       clock, gen)
           record  == [pow |-> PowParams(o), scope |-> o.scope,
                       expires |-> expires, instr |-> instr]
           ch      == ChallengeFormat1(HexToken(id), o, expires, instr)
<1>1. /\ ValidatePoWParams(PowParams(o)) /\ Len(instr) = Len(io)
      /\ made = <<[ch |-> ch, record |-> <<record>>]>>
  BY DEF ChallengeStored, Made
<1>2. /\ ttl \in Nat \ {0} /\ io \in Pointers(Probes)
      /\ PowParams(o) \in PoWSettings
  BY CallTyped
<1>3. id \in Nat /\ ttl \in Int
  BY <1>2, CapPuzzleAssumption
<1> HIDE DEF ttl, io
<1>4. InstrMade(instr, io, id)
  BY <1>1, <1>2, <1>3, InstrOfCall
<1> HIDE DEF instr, expires
<1>5. made[1].ch = ch /\ made[1].record = <<record>>
  BY <1>1
<1>6. /\ record.pow = PowParams(o) /\ record.scope = o.scope
      /\ record.expires = expires /\ record.instr = instr
  OBVIOUS
<1>7. ch = [format |-> 1, token |-> HexToken(id), expires |-> expires,
            scope |-> o.scope, pow |-> PowParams(o), instrumentation |-> BlobOf(instr)]
  BY DEF ChallengeFormat1
<1>8. h.wire = [token |-> HexToken(id), challenge |-> PowParams(o),
                expires |-> expires, instrumentation |-> BlobOf(instr)]
      /\ h.scope = o.scope
  BY <1>5, <1>7 DEF MarshalJSON
<1>9. h.io = io
  BY DEF io
<1>10. Format1Shown(h.wire)
  BY <1>1, <1>2, <1>8 DEF Format1Shown
<1> HIDE DEF record, ch
<1>11. (<<record>>)[1] = record
  OBVIOUS
<1> QED  BY <1>4, <1>5, <1>6, <1>8, <1>9, <1>10, <1>11 DEF StoredShown, InstrMade

LEMMA SignedMade ==
    ASSUME OptsInv, opts # <<>>, NEW o \in ChallengeOptions, NEW id \in Ids,
           NEW gen, NEW made, made = ChallengeSigned(o, id, gen), made # <<>>,
           NEW h, h.wire = MarshalJSON(made[1].ch), h.scope = made[1].ch.scope,
           h.io = InstrumentationOptions(o)
    PROVE  SignedShown(id, h) /\ made[1].record = <<>>
<1> DEFINE ttl     == ChallengeTTL(o)
           expires == clock + ttl
           io      == InstrumentationOptions(o)
           instr   == IF io = <<>> THEN <<>>
                      ELSE RunInstrumentationGenerator(o, io[1], ttl, <<id, 1>>,
                                                       clock, gen)
           ei      == [k \in DOMAIN instr |->
                         EncryptGCM(Opts.secret, "cap:enc-v1",
                                    [instr[k] EXCEPT !.expires = expires])]
           claims  == [f |-> 0, n |-> id, pow |-> PowParams(o), exp |-> expires,
                       iat |-> clock, sk |-> o.scope, ei |-> ei, ev |-> <<>>]
           token   == JwtSign(claims, Opts.secret)
           ch      == ChallengeFormat1(token, o, expires, instr)
<1>1. /\ ValidatePoWParams(PowParams(o)) /\ Len(instr) = Len(io)
      /\ Opts.secret # Empty
      /\ made = <<[ch |-> ch, record |-> <<>>]>>
  BY DEF ChallengeSigned, Made
<1>2. /\ ttl \in Nat \ {0} /\ io \in Pointers(Probes)
      /\ PowParams(o) \in PoWSettings /\ clock \in Nat
  BY CallTyped DEF OptsInv
<1>3. id \in Nat /\ ttl \in Int /\ expires \in Nat \ {0}
  BY <1>2, CapPuzzleAssumption
<1> HIDE DEF ttl, io
<1>4. InstrMade(instr, io, id)
  <2>1. Len(instr) = Len(io)
    BY <1>1
  <2> HIDE DEF expires, ei, claims, token, ch
  <2> QED  BY <1>2, <1>3, <2>1, InstrOfCall
<1> HIDE DEF instr, expires
<1>5. made[1].ch = ch /\ made[1].record = <<>>
  BY <1>1
<1>6. ch = [format |-> 1, token |-> token, expires |-> expires,
            scope |-> o.scope, pow |-> PowParams(o), instrumentation |-> BlobOf(instr)]
  BY DEF ChallengeFormat1
<1>7. h.wire = [token |-> token, challenge |-> PowParams(o),
                expires |-> expires, instrumentation |-> BlobOf(instr)]
      /\ h.scope = o.scope
  BY <1>5, <1>6 DEF MarshalJSON
<1>8. h.io = io
  BY DEF io
<1>9. Format1Shown(h.wire)
  BY <1>1, <1>2, <1>7 DEF Format1Shown
<1>10. /\ h.wire.token = token /\ h.wire.expires = expires
       /\ h.wire.challenge = PowParams(o) /\ h.wire.instrumentation = BlobOf(instr)
  BY <1>7
<1> HIDE DEF ch, ei
<1>11. /\ claims.f = 0 /\ claims.n = id /\ claims.pow = PowParams(o)
       /\ claims.exp = expires /\ claims.sk = o.scope /\ claims.ei = ei
  OBVIOUS
<1> HIDE DEF claims
<1>12. /\ token.claims[1] = claims /\ token.secret = Opts.secret
       /\ token.kind = "jwt" /\ token = JwtSign(claims, token.secret)
  BY DEF JwtSign
<1> HIDE DEF token
<1>13. \/ ei = <<>> /\ BlobOf(instr) = <<>>
       \/ /\ ei # <<>> /\ BlobOf(instr) # <<>>
          /\ DecryptsGCM(Opts.secret, "cap:enc-v1", ei[1])
          /\ ei[1].plain.expires = expires
          /\ MetaFits(ei[1].plain, BlobOf(instr), io, id)
  <2>1. CASE instr = <<>>
    <3>1. ei = <<>>
      BY <2>1 DEF ei
    <3>2. BlobOf(instr) = <<>>
      BY <2>1 DEF BlobOf
    <3> QED  BY <3>1, <3>2
  <2>2. CASE instr # <<>>
    <3>1. /\ DOMAIN instr = {1} /\ MetaFields \subseteq DOMAIN instr[1]
          /\ MetaFits(instr[1], BlobOf(instr), io, id) /\ BlobOf(instr) # <<>>
      BY <1>4, <2>2 DEF InstrFits, InstrMade
    <3>2. PICK m, n, at, blob, probe :
             /\ m = instr[1] /\ at = expires /\ n = [m EXCEPT !.expires = at]
             /\ blob = BlobOf(instr) /\ probe = io
      OBVIOUS
    <3>3. MetaFits(n, BlobOf(instr), io, id) /\ n.expires = expires
      <4>1. MetaFields \subseteq DOMAIN m /\ MetaFits(m, blob, probe, id)
        BY <3>1, <3>2
      <4>2. /\ n.id = m.id /\ n.vars = m.vars /\ n.vals = m.vals
            /\ n.block = m.block /\ n.shared = m.shared /\ n.expires = at
        BY <3>2, <4>1 DEF MetaFields
      <4>3. MetaFits(n, blob, probe, id)
        BY <4>1, <4>2 DEF MetaFits
      <4> QED  BY <3>2, <4>2, <4>3
    <3>4. DOMAIN ei = {1} /\ ei[1] = EncryptGCM(Opts.secret, "cap:enc-v1", n)
      BY <3>1, <3>2 DEF ei
    <3>5. /\ ei # <<>> /\ ei[1].plain = n
          /\ DecryptsGCM(Opts.secret, "cap:enc-v1", ei[1])
      <4>1. PICK box : box = EncryptGCM(Opts.secret, "cap:enc-v1", n)
        OBVIOUS
      <4>2. box.plain = n /\ DecryptsGCM(Opts.secret, "cap:enc-v1", box)
        BY <4>1 DEF EncryptGCM, DecryptsGCM
      <4>3. ei # <<>>
        BY <3>4
      <4> QED  BY <3>4, <4>1, <4>2, <4>3
    <3> QED  BY <3>1, <3>3, <3>5
  <2> QED  BY <2>1, <2>2
<1>14. ClaimsFormat1(id, h, token, claims)
  BY <1>8, <1>9, <1>10, <1>11, <1>12, <1>13 DEF ClaimsFormat1
<1> QED  BY <1>1, <1>3, <1>5, <1>7, <1>10, <1>11, <1>12, <1>14 DEF SignedShown

\* A function on 1..n is a sequence of its values.
LEMMA FunctionIsSeq ==
    ASSUME NEW n \in Nat, NEW S, NEW f, f = [k \in 1..n |-> f[k]],
           \A k \in 1..n : f[k] \in S
    PROVE  f \in Seq(S) /\ Len(f) = n /\ DOMAIN f = 1..n
<1>1. f \in [1..n -> S]
  OBVIOUS
<1> QED  BY <1>1

LEMMA ProtocolsAreSeq ==
    ASSUME OptsInv, opts # <<>>, NEW o \in ChallengeOptions
    PROVE  \E n \in Nat : DOMAIN ProtocolsOf(o) = 1..n
<1>1. o.protocols \in Seq(STRING) /\ Opts.protocols \in Seq(ProtocolNames)
  BY DEF OptsInv, ChallengeOptions
<1> DEFINE listed == IF o.protocols # <<>> THEN o.protocols ELSE Opts.protocols
           Texts  == STRING \cup ProtocolNames
<1>2. ASSUME NEW S, NEW T, NEW q \in Seq(S) PROVE q \in Seq(S \cup T)
  <2>1. Len(q) \in Nat /\ DOMAIN q = 1..Len(q) /\ q = [k \in 1..Len(q) |-> q[k]]
        /\ \A k \in 1..Len(q) : q[k] \in S \cup T
    BY LenProperties, ElementOfSeq
  <2> QED  BY <2>1, FunctionIsSeq
<1>3. listed \in Seq(Texts)
  <2>1. o.protocols \in Seq(Texts)
    BY <1>1, <1>2
  <2>2. Opts.protocols \in Seq(ProtocolNames \cup STRING)
    BY <1>1, <1>2
  <2>3. ProtocolNames \cup STRING = Texts
    OBVIOUS
  <2> QED  BY <2>1, <2>2, <2>3
<1> HIDE DEF listed, Texts
<1>4. "instrumentation" \in Texts
  BY DEF Texts, ProtocolNames
<1>5. ProtocolsOf(o) = listed \/ ProtocolsOf(o) = Append(listed, "instrumentation")
  BY DEF ProtocolsOf, listed
<1>6. ProtocolsOf(o) \in Seq(Texts)
  BY <1>3, <1>4, <1>5, AppendProperties
<1> QED  BY <1>6, LenProperties

\* An entry that EntriesFor makes: a puzzle of this challenge, or a program
\* with metadata that fits its blob.
GoodEntry(e, target, io, id) ==
    \/ /\ e.protocol = "sha256-pow"
       /\ e.pow = [salt |-> e.pow.salt, target |-> target]
       /\ e.pow.salt # <<>> /\ e.pow.salt[1] = id
       /\ e.pow.target = target /\ target \in Int
       /\ e.x = <<>> /\ e.instr = <<>>
    \/ /\ e.protocol = "rsw"
       /\ e.x # <<>> /\ e.x[1] = id
       /\ e.pow = NoPow /\ e.instr = <<>>
    \/ /\ e.protocol = "instrumentation"
       /\ e.pow = NoPow /\ e.x = <<>>
       /\ e.instr # <<>> /\ DOMAIN e.instr = {1}
       /\ MetaFields \subseteq DOMAIN e.instr[1]
       /\ BlobOf(e.instr) # <<>>
       /\ MetaFits(e.instr[1], BlobOf(e.instr), io, id)

LEMMA EntriesAreGood ==
    ASSUME OptsInv, opts # <<>>, NEW o \in ChallengeOptions, NEW id \in Ids,
           NEW j, NEW gen, NEW es, es = EntriesFor(o, id, j, gen), es # <<>>
    PROVE  \E n \in Nat :
             /\ es = [k \in 1..n |-> es[k]]
             /\ \A k \in 1..n : GoodEntry(es[k], PowParams(o).difficulty,
                                          InstrumentationOptions(o), id)
<1>1. /\ ChallengeTTL(o) \in Int /\ id \in Nat /\ PowParams(o) \in PoWSettings
      /\ InstrumentationOptions(o) \in Pointers(Probes)
  BY CallTyped, CapPuzzleAssumption
<1>2. PICK proto, pow, io, d, none :
        /\ proto = ProtocolsOf(o)[j] /\ pow = PowParams(o)
        /\ io = InstrumentationOptions(o) /\ d = pow.difficulty
        /\ none = [protocol |-> proto, pow |-> NoPow, x |-> <<>>, instr |-> <<>>]
  OBVIOUS
<1>3. SUFFICES \E n \in Nat : /\ es = [k \in 1..n |-> es[k]]
                              /\ \A k \in 1..n : GoodEntry(es[k], d, io, id)
  BY <1>2
<1>4. CASE proto = "sha256-pow"
  <2>1. /\ ValidatePoWParams(pow)
        /\ es = [i \in 1..pow.count |->
                   [none EXCEPT !.pow =
                      [salt |-> <<id, "v2", Empty, j, i, pow.size>>,
                       target |-> pow.difficulty]]]
    BY <1>2, <1>4 DEF EntriesFor
  <2>2. pow.count \in Nat
    BY <1>1, <1>2, <2>1, CapPuzzleAssumption DEF ValidatePoWParams, PoWSettings
  <2>3. ASSUME NEW i \in 1..pow.count PROVE GoodEntry(es[i], d, io, id)
    <3>1. PICK salt, e : /\ salt = <<id, "v2", Empty, j, i, pow.size>>
                         /\ e = [none EXCEPT !.pow = [salt |-> salt, target |-> d]]
      OBVIOUS
    <3>2. es[i] = e
      BY <1>2, <2>1, <3>1
    <3>3. salt # <<>> /\ salt[1] = id
      BY <3>1
    <3>4. /\ e.protocol = proto /\ e.x = <<>> /\ e.instr = <<>>
          /\ e.pow.salt = salt /\ e.pow.target = d
          /\ e.pow = [salt |-> salt, target |-> d]
      BY <1>2, <3>1
    <3>5. d \in Int
      BY <1>1, <1>2 DEF PoWSettings
    <3> QED  BY <1>4, <3>2, <3>3, <3>4, <3>5 DEF GoodEntry
  <2>4. es = [k \in 1..pow.count |-> es[k]]
    BY <2>1
  <2> QED  BY <2>2, <2>3, <2>4
<1>5. CASE proto = "rsw"
  <2>1. es = <<[none EXCEPT !.x = <<id, j>>]>>
    BY <1>2, <1>5 DEF EntriesFor
  <2>2. PICK e : e = [none EXCEPT !.x = <<id, j>>]
    OBVIOUS
  <2>3. /\ e.protocol = proto /\ e.pow = NoPow /\ e.instr = <<>>
        /\ e.x = <<id, j>> /\ e.x # <<>> /\ e.x[1] = id
    BY <1>2, <2>2
  <2>4. GoodEntry(e, d, io, id)
    BY <1>5, <2>3 DEF GoodEntry
  <2>5. es = [k \in 1..1 |-> es[k]] /\ es[1] = e
    BY <2>1, <2>2
  <2> QED  BY <2>4, <2>5
<1>6. CASE proto = "instrumentation"
  <2>1. PICK p, instr :
          /\ p = IF io = <<>> THEN [block |-> FALSE, ttl |-> 0] ELSE io[1]
          /\ instr = RunInstrumentationGenerator(o, p, ChallengeTTL(o), <<id, j>>,
                                                 clock, gen)
    OBVIOUS
  <2>2. es = [k \in DOMAIN instr |-> [none EXCEPT !.instr = instr]]
    BY <1>2, <1>6, <2>1 DEF EntriesFor
  <2>3. p \in Probes /\ (io # <<>> => io[1] = p)
    <3>1. CASE io = <<>>
      BY <2>1, <3>1 DEF Probes
    <3>2. CASE io # <<>>
      BY <1>1, <1>2, <2>1, <3>2, PointerCases
    <3> QED  BY <3>1, <3>2
  <2>4. instr # <<>>
    <3>1. instr = <<>> => DOMAIN instr = {}
      OBVIOUS
    <3> QED  BY <2>2, <3>1
  <2>5. /\ BlobOf(instr) # <<>> /\ DOMAIN instr = {1}
        /\ MetaFits(instr[1], BlobOf(instr), <<p>>, id)
        /\ MetaFields \subseteq DOMAIN instr[1]
    <3>1. PICK ttl \in Int : ttl = ChallengeTTL(o)
      BY <1>1
    <3>2. PICK at : at = clock
      OBVIOUS
    <3>3. PICK n \in Nat : n = id
      BY <1>1
    <3>4. instr = RunInstrumentationGenerator(o, p, ttl, <<n, j>>, at, gen)
      BY <2>1, <3>1, <3>2, <3>3
    <3>5. Generated(instr, p, n)
      BY <2>3, <2>4, <3>4, GeneratedFits
    <3> QED  BY <3>3, <3>5 DEF Generated
  <2>6. MetaFits(instr[1], BlobOf(instr), io, id)
    BY <2>3, <2>5 DEF MetaFits
  <2>7. PICK e : e = [none EXCEPT !.instr = instr]
    OBVIOUS
  <2>8. /\ e.protocol = proto /\ e.pow = NoPow /\ e.x = <<>> /\ e.instr = instr
    BY <1>2, <2>7
  <2>9. GoodEntry(e, d, io, id)
    BY <1>6, <2>4, <2>5, <2>6, <2>8 DEF GoodEntry
  <2>10. es = [k \in 1..1 |-> es[k]] /\ es[1] = e
    <3>1. 1..1 = {1}
      OBVIOUS
    <3> QED  BY <2>2, <2>5, <2>7, <3>1
  <2> QED  BY <2>9, <2>10
<1>7. CASE proto \notin ProtocolNames
  BY <1>2, <1>7 DEF EntriesFor, ProtocolNames
<1> QED  BY <1>4, <1>5, <1>6, <1>7 DEF ProtocolNames

\* Joined, they are a sequence of good entries.
LEMMA EntriesOfV2 ==
    ASSUME OptsInv, opts # <<>>, NEW o \in ChallengeOptions, NEW id \in Ids,
           NEW gen, NEW parts,
           parts = [j \in DOMAIN ProtocolsOf(o) |-> EntriesFor(o, id, j, gen)],
           \A j \in DOMAIN parts : parts[j] # <<>>
    PROVE  \E S : /\ FlattenSeq(parts) \in Seq(S)
                 /\ \A e \in S : GoodEntry(e, PowParams(o).difficulty,
                                           InstrumentationOptions(o), id)
<1>1. PICK d, io : d = PowParams(o).difficulty /\ io = InstrumentationOptions(o)
  OBVIOUS
<1>2. PICK n \in Nat : DOMAIN ProtocolsOf(o) = 1..n
  BY ProtocolsAreSeq
<1> DEFINE All == UNION {{parts[j][k] : k \in DOMAIN parts[j]} : j \in 1..n}
           S   == {e \in All : GoodEntry(e, d, io, id)}
<1>3. parts = [j \in 1..n |-> parts[j]]
  BY <1>2
<1>4. ASSUME NEW j \in 1..n PROVE parts[j] \in Seq(S)
  <2>1. PICK es : es = parts[j]
    OBVIOUS
  <2>2. es = EntriesFor(o, id, j, gen) /\ es # <<>>
    BY <1>2, <2>1
  <2>3. PICK m \in Nat : /\ es = [k \in 1..m |-> es[k]]
                         /\ \A k \in 1..m : GoodEntry(es[k], d, io, id)
    BY <1>1, <2>2, EntriesAreGood
  <2>4. DOMAIN es = 1..m
    BY <2>3
  <2>5. \A k \in 1..m : es[k] \in All
    BY <2>1, <2>4
  <2> HIDE DEF All
  <2>6. \A k \in 1..m : es[k] \in S
    BY <2>3, <2>5
  <2> HIDE DEF S
  <2>7. es \in Seq(S)
    BY <2>3, <2>6, FunctionIsSeq
  <2> QED  BY <2>1, <2>7
<1>5. \A e \in S : GoodEntry(e, d, io, id)
  OBVIOUS
<1> HIDE DEF S
<1>6. parts \in Seq(Seq(S))
  BY <1>3, <1>4, FunctionIsSeq
<1>7. FlattenSeq(parts) \in Seq(S)
  BY <1>6, FlattenSeqIn
<1> QED  BY <1>1, <1>5, <1>7

\* What is shown and what is expected of a good entry.
VisibleOf(e) ==
    [protocol |-> e.protocol, pow |-> e.pow, x |-> e.x, blob |-> BlobOf(e.instr)]
ExpectedOf(e, expires) ==
    [protocol |-> e.protocol, pow |-> e.pow, y |-> e.x,
     instr |-> [m \in DOMAIN e.instr |-> [e.instr[m] EXCEPT !.expires = expires]]]

LEMMA GoodEntryFits ==
    ASSUME NEW e, NEW d, NEW io, NEW id, NEW exp, GoodEntry(e, d, io, id)
    PROVE  EntryFits(VisibleOf(e), ExpectedOf(e, exp), id, io, exp)
<1>1. PICK v, x : v = VisibleOf(e) /\ x = ExpectedOf(e, exp)
  OBVIOUS
<1>2. /\ v.protocol = e.protocol /\ v.pow = e.pow /\ v.x = e.x
      /\ v.blob = BlobOf(e.instr)
  BY <1>1 DEF VisibleOf
<1>3. /\ x.protocol = e.protocol /\ x.pow = e.pow /\ x.y = e.x
      /\ x.instr = [m \in DOMAIN e.instr |-> [e.instr[m] EXCEPT !.expires = exp]]
  BY <1>1 DEF ExpectedOf
<1>4. e.instr = <<>> => v.blob = <<>>
  BY <1>2 DEF BlobOf
<1>5. CASE e.protocol = "sha256-pow"
  BY <1>2, <1>3, <1>4, <1>5, <1>1 DEF GoodEntry, EntryFits
<1>6. CASE e.protocol = "rsw"
  BY <1>2, <1>3, <1>4, <1>6, <1>1 DEF GoodEntry, EntryFits
<1>7. CASE e.protocol = "instrumentation"
  <2>1. /\ e.pow = NoPow /\ e.x = <<>> /\ DOMAIN e.instr = {1}
        /\ MetaFields \subseteq DOMAIN e.instr[1] /\ BlobOf(e.instr) # <<>>
        /\ MetaFits(e.instr[1], BlobOf(e.instr), io, id)
    BY <1>7 DEF GoodEntry
  <2>2. PICK m, n : m = e.instr[1] /\ n = [m EXCEPT !.expires = exp]
    OBVIOUS
  <2>3. /\ n.id = m.id /\ n.vars = m.vars /\ n.vals = m.vals
        /\ n.block = m.block /\ n.shared = m.shared /\ n.expires = exp
    BY <2>1, <2>2 DEF MetaFields
  <2>4. MetaFits(m, BlobOf(e.instr), io, id)
    BY <2>1, <2>2
  <2>5. MetaFits(n, BlobOf(e.instr), io, id)
    BY <2>3, <2>4 DEF MetaFits
  <2>6. x.instr[1] = n
    BY <1>3, <2>1, <2>2
  <2>7. MetaFits(x.instr[1], v.blob, io, id) /\ x.instr[1].expires = exp
    BY <1>2, <2>3, <2>5, <2>6
  <2>8. v.blob # <<>>
    BY <1>2, <2>1
  <2> QED  BY <1>1, <1>2, <1>3, <1>7, <2>1, <2>7, <2>8 DEF EntryFits
<1> QED  BY <1>5, <1>6, <1>7 DEF GoodEntry

LEMMA V2Made ==
    ASSUME OptsInv, opts # <<>>, NEW o \in ChallengeOptions, NEW id \in Ids,
           NEW gen, NEW made, made = ChallengeV2(o, id, gen), made # <<>>,
           NEW h, h.wire = MarshalJSON(made[1].ch), h.scope = made[1].ch.scope,
           h.io = InstrumentationOptions(o)
    PROVE  SignedShown(id, h) /\ made[1].record = <<>>
<1> DEFINE expires == clock + ChallengeTTL(o)
           parts   == [j \in DOMAIN ProtocolsOf(o) |-> EntriesFor(o, id, j, gen)]
           entries == FlattenSeq(parts)
           visible == [k \in DOMAIN entries |->
                         [protocol |-> entries[k].protocol, pow |-> entries[k].pow,
                          x |-> entries[k].x, blob |-> BlobOf(entries[k].instr)]]
           expects == [k \in DOMAIN entries |->
                         [protocol |-> entries[k].protocol, pow |-> entries[k].pow,
                          y |-> entries[k].x,
                          instr |-> [m \in DOMAIN entries[k].instr |->
                             [entries[k].instr[m] EXCEPT !.expires = expires]]]]
           box     == EncryptGCM(Opts.secret, "cap:fmt2-v1", expects)
           claims  == [f |-> 2, n |-> id, pow |-> [k \in DOMAIN MaxPow |-> 0],
                       exp |-> expires, iat |-> clock, sk |-> o.scope, ei |-> <<>>,
                       ev |-> <<box>>]
           token   == JwtSign(claims, Opts.secret)
           ch      == [format |-> 2, token |-> token, expires |-> expires,
                       scope |-> o.scope, challenges |-> visible]
<1>1. /\ Opts.secret # Empty
      /\ \A j \in DOMAIN parts : parts[j] # <<>>
      /\ made = <<[ch |-> ch, record |-> <<>>]>>
  BY DEF ChallengeV2, Made
<1>2. ChallengeTTL(o) \in Nat \ {0} /\ clock \in Nat
  BY CallTyped DEF OptsInv
<1>3. expires \in Nat \ {0}
  BY <1>2
<1>4. PICK d, io : d = PowParams(o).difficulty /\ io = InstrumentationOptions(o)
  OBVIOUS
<1>5. PICK S : entries \in Seq(S) /\ \A e \in S : GoodEntry(e, d, io, id)
  <2>1. \A j \in DOMAIN parts : parts[j] # <<>>
    BY <1>1
  <2> HIDE DEF expires, visible, expects, box, claims, token, ch
  <2> QED  BY <1>4, <2>1, EntriesOfV2
<1> HIDE DEF parts, entries, expires
<1>6. PICK n \in Nat : n = Len(entries) /\ DOMAIN entries = 1..n
  BY <1>5, LenProperties
<1>7. \A k \in 1..n : GoodEntry(entries[k], d, io, id)
  BY <1>5, <1>6, ElementOfSeq
<1>8. ASSUME NEW k \in 1..n
      PROVE  /\ visible[k] = VisibleOf(entries[k])
             /\ expects[k] = ExpectedOf(entries[k], expires)
  BY <1>6 DEF VisibleOf, ExpectedOf
<1>9. Len(visible) = n /\ DOMAIN visible = 1..n /\ Len(expects) = n
  BY <1>6
<1> HIDE DEF visible, expects
<1>10. \A k \in 1..n : EntryFits(visible[k], expects[k], id, io, expires)
  BY <1>7, <1>8, GoodEntryFits
<1>11. \A k \in 1..n : visible[k].protocol = "sha256-pow" => visible[k].pow.target = d
  <2> TAKE k \in 1..n
  <2>1. PICK e : e = entries[k] /\ GoodEntry(e, d, io, id)
    BY <1>7
  <2>2. visible[k].protocol = e.protocol /\ visible[k].pow = e.pow
    <3>1. visible[k] = VisibleOf(e)
      BY <1>8, <2>1
    <3> QED  BY <3>1 DEF VisibleOf
  <2>3. e.protocol = "sha256-pow" => e.pow.target = d
    BY <2>1 DEF GoodEntry
  <2> QED  BY <2>2, <2>3
<1>12. box.plain = expects /\ DecryptsGCM(Opts.secret, "cap:fmt2-v1", box)
  BY DEF EncryptGCM, DecryptsGCM
<1> HIDE DEF box
<1>13. /\ claims.f = 2 /\ claims.n = id /\ claims.exp = expires
       /\ claims.sk = o.scope /\ claims.ev[1] = box
  OBVIOUS
<1> HIDE DEF claims
<1>14. /\ token.claims[1] = claims /\ token.secret = Opts.secret
       /\ token.kind = "jwt" /\ token = JwtSign(claims, token.secret)
  BY DEF JwtSign
<1> HIDE DEF token
<1>15. made[1].ch = ch /\ made[1].record = <<>>
  BY <1>1
<1>16. h.wire = [token |-> token, format |-> 2, challenges |-> visible,
                 expires |-> expires]
       /\ h.scope = o.scope /\ h.io = io
  BY <1>4, <1>15 DEF MarshalJSON
<1>17. /\ h.wire.token = token /\ h.wire.expires = expires
       /\ h.wire.challenges = visible
       /\ DOMAIN h.wire = {"token", "format", "challenges", "expires"}
  BY <1>16
<1>18. ClaimsV2(id, h, token, claims)
  BY <1>9, <1>10, <1>11, <1>12, <1>13, <1>14, <1>16, <1>17 DEF ClaimsV2
<1> QED  BY <1>1, <1>3, <1>13, <1>14, <1>15, <1>16, <1>17, <1>18 DEF SignedShown

-----------------------------------------------------------------------------
(* The steps that do not redeem *)

LEMMA ChallengeMade ==
    ASSUME OptsInv, opts # <<>>, NEW o \in ChallengeOptions, NEW id \in Ids,
           NEW gen, NEW made, made = Challenge(o, id, gen), made # <<>>,
           NEW h, h.wire = MarshalJSON(made[1].ch), h.scope = made[1].ch.scope,
           h.io = InstrumentationOptions(o)
    PROVE  \/ StoredShown(id, h, made[1].record)
           \/ SignedShown(id, h) /\ made[1].record = <<>>
<1>1. \/ made = ChallengeSigned(o, id, gen)
      \/ made = ChallengeStored(o, id, gen)
      \/ made = ChallengeV2(o, id, gen)
  BY DEF Challenge
<1>2. CASE made = ChallengeSigned(o, id, gen)
  BY <1>2, SignedMade
<1>3. CASE made = ChallengeStored(o, id, gen)
  BY <1>3, StoredMade
<1>4. CASE made = ChallengeV2(o, id, gen)
  BY <1>4, V2Made
<1> QED  BY <1>1, <1>2, <1>3, <1>4

\* What was accepted stays as it was while nothing more is.
LEMMA AcceptedStays ==
    ASSUME PuzzleInv, accepted' = accepted, claimed \subseteq claimed',
           \A id \in Ids : held[id] # <<>> =>
              /\ held'[id] = held[id]
              /\ stored[id] = <<>> => stored'[id] = <<>>
    PROVE  AcceptedInv' /\ SolvedOnly' /\ OnePerChallenge'
<1>1. ASSUME NEW k \in DOMAIN accepted
      PROVE  /\ accepted[k].id \in Ids
             /\ held[accepted[k].id] # <<>>
             /\ held'[accepted[k].id] = held[accepted[k].id]
             /\ Spent(accepted[k].id) /\ Spent(accepted[k].id)'
  <2>1. PICK id \in Ids : id = accepted[k].id /\ Spent(id) /\ held[id] # <<>>
    BY DEF PuzzleInv, AcceptedInv, Spent
  <2>2. held'[id] = held[id] /\ (stored[id] = <<>> => stored'[id] = <<>>)
    BY <2>1
  <2>3. Spent(id)'
    BY <2>1, <2>2 DEF Spent
  <2>4. accepted'[k].id = id
    BY <2>1
  <2> QED  BY <2>1, <2>2, <2>3, <2>4 DEF Spent
<1>2. AcceptedInv'
  BY <1>1 DEF PuzzleInv, AcceptedInv
<1>3. SolvedOnly'
  BY <1>1 DEF PuzzleInv, SolvedOnly
<1>4. OnePerChallenge'
  BY <1>1 DEF PuzzleInv, OnePerChallenge
<1> QED  BY <1>2, <1>3, <1>4

LEMMA NewKeeps ==
    ASSUME PuzzleInv, NEW c \in deployment.configs, New(c)
    PROVE  PuzzleInv'
<1>1. /\ Sound(Effective(c)) /\ opts' = <<Effective(c)>>
      /\ UNCHANGED <<deployment, clock, stored, claimed, reused, held, accepted>>
  BY DEF New
<1>2. c \in Options /\ deployment \in Deployments /\ clock \in Nat
  BY CapPuzzleAssumption DEF PuzzleInv, OptsInv
<1>3. PICK e : e = Effective(c)
  OBVIOUS
<1>4. /\ e.pow \in PoWSettings /\ e.ttl \in Nat \ {0}
      /\ e.protocols \in Seq(ProtocolNames) /\ e.instr \in Pointers(Probes)
  BY <1>1, <1>2, <1>3, EffectiveTyped
<1>5. Opts' = e
  BY <1>1, <1>3 DEF Opts
<1>6. OptsInv'
  BY <1>1, <1>2, <1>4, <1>5 DEF OptsInv
<1>7. HeldInv'
  BY <1>1 DEF PuzzleInv, HeldInv
<1> QED  BY <1>1, <1>6, <1>7, AcceptedStays DEF PuzzleInv

LEMMA IssueKeeps ==
    ASSUME PuzzleInv, NEW o \in deployment.calls, NEW id \in Ids, NEW gen,
           Issue(o, id, gen)
    PROVE  PuzzleInv'
<1>1. PICK made, h :
        /\ made = Challenge(o, id, gen)
        /\ h = Given(o, made[1])
  OBVIOUS
<1>2. /\ opts # <<>>
      /\ \/ UNCHANGED <<stored, held>>
         \/ /\ made # <<>> /\ held[id] = <<>> /\ stored[id] = <<>>
            /\ stored' = [stored EXCEPT ![id] = made[1].record]
            /\ UNCHANGED held \/ held' = [held EXCEPT ![id] = <<h>>]
      /\ UNCHANGED <<deployment, opts, starts, clock, claimed, reused, accepted>>
  BY <1>1 DEF Issue
<1>3. o \in ChallengeOptions /\ OptsInv /\ OptsInv'
  BY <1>2, CapPuzzleAssumption DEF PuzzleInv, OptsInv, Opts
<1>4. /\ DOMAIN held = Ids /\ DOMAIN stored = Ids
      /\ DOMAIN held' = Ids /\ DOMAIN stored' = Ids
      /\ \A k \in Ids : k # id => held'[k] = held[k] /\ stored'[k] = stored[k]
      /\ \/ held'[id] = held[id] /\ (held[id] = <<>> \/ stored'[id] = stored[id])
         \/ /\ made # <<>> /\ held[id] = <<>>
            /\ held'[id] = <<h>> /\ stored'[id] = made[1].record
  BY <1>2 DEF PuzzleInv, HeldInv
<1>5. ASSUME held'[id] # <<>>, held[id] = <<>>
      PROVE  \/ StoredShown(id, held'[id][1], stored'[id])
             \/ SignedShown(id, held'[id][1]) /\ stored'[id] = <<>>
  <2>1. made # <<>> /\ held'[id] = <<h>> /\ stored'[id] = made[1].record
    BY <1>4, <1>5
  <2>2. /\ h.wire = MarshalJSON(made[1].ch) /\ h.scope = made[1].ch.scope
        /\ h.io = InstrumentationOptions(o)
    BY <1>1 DEF Given
  <2>3. \/ StoredShown(id, h, made[1].record)
        \/ SignedShown(id, h) /\ made[1].record = <<>>
    BY <1>1, <1>2, <1>3, <2>1, <2>2, ChallengeMade
  <2> QED  BY <2>1, <2>3
<1>6. HeldInv'
  <2>1. ASSUME NEW k \in Ids, held'[k] # <<>>
        PROVE  \/ StoredShown(k, held'[k][1], stored'[k])
               \/ SignedShown(k, held'[k][1]) /\ stored'[k] = <<>>
    <3>1. CASE k = id /\ held[id] = <<>>
      BY <1>5, <2>1, <3>1
    <3>2. CASE k # id \/ held[id] # <<>>
      <4>1. held'[k] = held[k] /\ stored'[k] = stored[k]
        BY <1>4, <3>2
      <4> QED  BY <2>1, <4>1 DEF PuzzleInv, HeldInv
    <3> QED  BY <3>1, <3>2
  <2> QED  BY <1>4, <2>1 DEF HeldInv
<1>7. AcceptedInv' /\ SolvedOnly' /\ OnePerChallenge'
  BY <1>2, <1>4, AcceptedStays
<1> QED  BY <1>3, <1>6, <1>7 DEF PuzzleInv

\* Reuse, Tick and stuttering leave options, challenges and tokens alone.
LEMMA OthersKeep ==
    ASSUME PuzzleInv, clock' \in Nat,
           UNCHANGED <<deployment, opts, stored, claimed, held, accepted>>
    PROVE  PuzzleInv'
<1>1. OptsInv'
  BY DEF PuzzleInv, OptsInv, Opts
<1>2. HeldInv'
  BY DEF PuzzleInv, HeldInv
<1> QED  BY <1>1, <1>2, AcceptedStays DEF PuzzleInv

-----------------------------------------------------------------------------
(* What clients send *)

\* A challenge as its client reads it.
Ch(id) == UnmarshalJSON(held[id][1].wire)
TokenOf(id) == held[id][1].wire.token

RequestFields == {"token", "sent", "solutions", "instr", "blocked", "timeout"}
TokenFields == {"kind", "id", "spelling", "secret", "claims"}

LEMMA HeldCases ==
    ASSUME HeldInv, NEW id \in Ids, held[id] # <<>>
    PROVE  /\ Ch(id).token = TokenOf(id) /\ TokenOf(id).id = id
           /\ TokenFields = DOMAIN TokenOf(id)
           /\ \/ TokenOf(id).kind = "hex" /\ StoredShown(id, held[id][1], stored[id])
              \/ TokenOf(id).kind = "jwt" /\ SignedShown(id, held[id][1])
<1>1. CASE StoredShown(id, held[id][1], stored[id])
  <2>1. TokenOf(id) = HexToken(id) /\ "format" \notin DOMAIN held[id][1].wire
    BY <1>1 DEF StoredShown, Format1Shown, TokenOf
  <2>2. Ch(id).token = TokenOf(id)
    BY <2>1 DEF Ch, TokenOf, UnmarshalJSON
  <2>3. PICK t : t = HexToken(id)
    OBVIOUS
  <2>4. t.kind = "hex" /\ t.id = id /\ DOMAIN t = TokenFields
    BY <2>3 DEF HexToken, TokenFields
  <2> QED  BY <1>1, <2>1, <2>2, <2>3, <2>4
<1>2. CASE SignedShown(id, held[id][1])
  <2>1. PICK claims : claims = TokenOf(id).claims[1]
    OBVIOUS
  <2>2. TokenOf(id) = JwtSign(claims, TokenOf(id).secret) /\ claims.n = id
    BY <1>2, <2>1 DEF SignedShown, TokenOf
  <2>3. Ch(id).token = TokenOf(id)
    BY DEF Ch, TokenOf, UnmarshalJSON
  <2>4. PICK secret : TokenOf(id) = JwtSign(claims, secret)
    BY <2>2
  <2>5. PICK t : t = JwtSign(claims, secret)
    OBVIOUS
  <2>6. t.kind = "jwt" /\ t.id = id /\ DOMAIN t = TokenFields
    BY <2>2, <2>5 DEF JwtSign, TokenFields
  <2> QED  BY <1>2, <2>3, <2>4, <2>5, <2>6
<1> QED  BY <1>1, <1>2 DEF HeldInv

\* The honest request and its answers.
LEMMA HonestFields ==
    ASSUME NEW id
    PROVE  /\ DOMAIN Honest(id) = RequestFields
           /\ Honest(id).token = Ch(id).token
           /\ Honest(id).sent = "array"
           /\ Honest(id).blocked = FALSE
           /\ Honest(id).timeout = FALSE
BY DEF Honest, SolveChallenge, Ch, RequestFields

\* A misreport differs from the answer in one of three fields.
LEMMA MisreportFields ==
    ASSUME NEW a, {"instr", "blocked", "timeout"} \subseteq DOMAIN a,
           NEW b \in Misreports(a)
    PROVE  /\ DOMAIN b = DOMAIN a
           /\ \A f \in DOMAIN a : f \notin {"instr", "blocked", "timeout"} => b[f] = a[f]
<1>1. \/ b = [a EXCEPT !.blocked = TRUE]
      \/ b = [a EXCEPT !.timeout = TRUE]
      \/ \E r : b = [a EXCEPT !.instr = r]
  BY DEF Misreports
<1> QED  BY <1>1

Respelt(id) == [Ch(id).token EXCEPT !.spelling = "otherwise"]

\* The requests, one by one.
LEMMA RequestCases ==
    ASSUME NEW id, NEW req \in Requests(id)
    PROVE  \/ req = Honest(id)
           \/ req = SolveChallenge(Ch(id), Respelt(id))
           \/ req = [Honest(id) EXCEPT !.token = Respelt(id)]
           \/ req \in Misreports(Honest(id))
           \/ \E a \in WrongSolutions(id) : req = [Honest(id) EXCEPT !.solutions = a]
           \/ \E x \in {"nothing", "other"} : req = [Honest(id) EXCEPT !.sent = x]
           \/ req = [Honest(id) EXCEPT !.token.secret = "forged"]
           \/ req = [Honest(id) EXCEPT !.token.kind = "text"]
BY DEF Requests, Ch, Respelt

\* Every request is about its challenge: a token with its id and claims.
\* Only a token that is no longer one is of another kind.
LEMMA RequestToken ==
    ASSUME HeldInv, NEW id \in Ids, held[id] # <<>>, NEW req \in Requests(id)
    PROVE  /\ req.token.id = id
           /\ req.token.claims = TokenOf(id).claims
           /\ req.token.kind \in {TokenOf(id).kind, "text"}
<1>1. PICK t : t = TokenOf(id)
  OBVIOUS
<1>2. /\ Ch(id).token = t /\ t.id = id /\ DOMAIN t = TokenFields
  BY <1>1, HeldCases
<1>3. PICK h : h = Honest(id)
  OBVIOUS
<1>4. DOMAIN h = RequestFields /\ h.token = t
  BY <1>2, <1>3, HonestFields
<1>5. PICK r : r = [t EXCEPT !.spelling = "otherwise"]
  OBVIOUS
<1>6. Respelt(id) = r /\ r.id = id /\ r.claims = t.claims /\ r.kind = t.kind
  BY <1>2, <1>5 DEF Respelt, TokenFields
<1>7. CASE req = h
  BY <1>1, <1>2, <1>4, <1>7
<1>8. CASE req = SolveChallenge(Ch(id), Respelt(id))
  <2>1. req.token = r
    BY <1>6, <1>8 DEF SolveChallenge
  <2> QED  BY <1>1, <1>6, <2>1
<1>9. CASE req = [h EXCEPT !.token = r]
  <2>1. req.token = r
    BY <1>4, <1>9 DEF RequestFields
  <2> QED  BY <1>1, <1>6, <2>1
<1>10. CASE req \in Misreports(h)
  <2>1. {"instr", "blocked", "timeout"} \subseteq DOMAIN h /\ "token" \in DOMAIN h
    BY <1>4 DEF RequestFields
  <2>2. req.token = t
    BY <1>4, <1>10, <2>1, MisreportFields
  <2> QED  BY <1>1, <1>2, <2>2
<1>11. CASE \E a : req = [h EXCEPT !.solutions = a]
  <2>1. req.token = t
    BY <1>4, <1>11 DEF RequestFields
  <2> QED  BY <1>1, <1>2, <2>1
<1>12. CASE \E x : req = [h EXCEPT !.sent = x]
  <2>1. req.token = t
    BY <1>4, <1>12 DEF RequestFields
  <2> QED  BY <1>1, <1>2, <2>1
<1>13. CASE req = [h EXCEPT !.token.secret = "forged"]
  <2>1. req.token = [t EXCEPT !.secret = "forged"]
    BY <1>4, <1>13 DEF RequestFields
  <2> QED  BY <1>1, <1>2, <2>1 DEF TokenFields
<1>14. CASE req = [h EXCEPT !.token.kind = "text"]
  <2>1. req.token = [t EXCEPT !.kind = "text"]
    BY <1>4, <1>14 DEF RequestFields
  <2> QED  BY <1>1, <1>2, <2>1 DEF TokenFields
<1> QED
  BY <1>3, <1>6, <1>7, <1>8, <1>9, <1>10, <1>11, <1>12, <1>13, <1>14, RequestCases

-----------------------------------------------------------------------------
(* Reports: what running the blob gives is accepted, and nothing else is *)

\* The state that the program of id leaves.
StateOf(id) == [v \in {"a", "b"} |-> IF v = "a" THEN id ELSE id + 10]

LEMMA FitsReport ==
    ASSUME NEW meta, NEW blob, NEW io, NEW id \in Nat, MetaFits(meta, blob, io, id)
    PROVE  /\ Report(blob) = [kind |-> "object", i |-> meta.id, state |-> StateOf(id)]
           /\ meta.id # <<>> /\ meta.id[1] = id
           /\ meta.vars = <<"a", "b">> /\ ExpectedVals(meta) = <<id, id + 10>>
           /\ Len(meta.vars) = Len(meta.vals)
           /\ (io # <<>> => meta.block = io[1].block)
<1>1. blob = <<[i |-> meta.id, state |-> StateOf(id)]>>
  BY DEF MetaFits, StateOf
<1>2. /\ blob # <<>> /\ blob[1].i = meta.id /\ blob[1].state = StateOf(id)
  BY <1>1
<1>3. Report(blob) = [kind |-> "object", i |-> meta.id, state |-> StateOf(id)]
  BY <1>2 DEF Report
<1>4. /\ Len(meta.id) = 2 /\ meta.id[1] = id /\ meta.vars = <<"a", "b">>
      /\ meta.vals = <<id, id + 10>> /\ ~meta.shared
      /\ (io # <<>> => meta.block = io[1].block)
  BY DEF MetaFits
<1>5. meta.id # <<>>
  BY <1>4
<1>6. ExpectedVals(meta) = meta.vals
  BY <1>4 DEF ExpectedVals
<1>7. Len(meta.vars) = Len(meta.vals)
  BY <1>4
<1> QED  BY <1>3, <1>4, <1>5, <1>6, <1>7

\* An honest report passes, in time.
LEMMA ReportPasses ==
    ASSUME NEW meta, NEW blob, NEW io, NEW id \in Nat, MetaFits(meta, blob, io, id),
           meta.expires = 0 \/ clock <= meta.expires,
           NEW a, a.blocked = FALSE, a.timeout = FALSE, a.instr = Report(blob)
    PROVE  CheckInstrumentation(meta, a)
<1>1. /\ a.instr.kind = "object" /\ a.instr.i = meta.id /\ a.instr.state = StateOf(id)
      /\ meta.id # <<>> /\ meta.vars = <<"a", "b">>
      /\ ExpectedVals(meta) = <<id, id + 10>> /\ Len(meta.vars) = Len(meta.vals)
  BY FitsReport
<1>2. ASSUME NEW k \in DOMAIN meta.vars
      PROVE  /\ meta.vars[k] \in DOMAIN a.instr.state
             /\ a.instr.state[meta.vars[k]] = ExpectedVals(meta)[k]
  <2>1. k = 1 \/ k = 2
    BY <1>1
  <2>2. /\ DOMAIN StateOf(id) = {"a", "b"} /\ StateOf(id)["a"] = id
        /\ StateOf(id)["b"] = id + 10
    BY DEF StateOf
  <2>3. /\ meta.vars[1] = "a" /\ meta.vars[2] = "b"
        /\ ExpectedVals(meta)[1] = id /\ ExpectedVals(meta)[2] = id + 10
    BY <1>1
  <2> QED  BY <1>1, <2>1, <2>2, <2>3
<1>3. meta.vars # <<>>
  BY <1>1
<1>4. VerifyInstrumentationResult(meta, a.instr)
  BY <1>1, <1>2, <1>3 DEF VerifyInstrumentationResult
<1>5. a.instr.kind # "none"
  BY <1>1
<1> QED  BY <1>4, <1>5 DEF CheckInstrumentation

\* What an accepted report that is not "blocked" has to be.
LEMMA PassedReport ==
    ASSUME NEW meta, NEW blob, NEW io, NEW id \in Nat, MetaFits(meta, blob, io, id),
           NEW a, CheckInstrumentation(meta, a), a.blocked = FALSE
    PROVE  /\ a.instr.kind = "object" /\ a.instr.i = meta.id
           /\ "a" \in DOMAIN a.instr.state /\ a.instr.state["a"] = id
           /\ ~a.timeout
<1>1. VerifyInstrumentationResult(meta, a.instr) /\ ~a.timeout
  BY DEF CheckInstrumentation
<1>2. /\ meta.vars = <<"a", "b">> /\ ExpectedVals(meta) = <<id, id + 10>>
  BY FitsReport
<1>3. /\ 1 \in DOMAIN meta.vars /\ meta.vars[1] = "a" /\ ExpectedVals(meta)[1] = id
  BY <1>2
<1>4. /\ a.instr.kind = "object" /\ a.instr.i = meta.id
      /\ \A k \in DOMAIN meta.vars :
           /\ meta.vars[k] \in DOMAIN a.instr.state
           /\ a.instr.state[meta.vars[k]] = ExpectedVals(meta)[k]
  BY <1>1 DEF VerifyInstrumentationResult
<1>5. "a" \in DOMAIN a.instr.state /\ a.instr.state["a"] = id
  BY <1>3, <1>4
<1> QED  BY <1>1, <1>4, <1>5

\* A misreport passes when it is "blocked" and blocking was not asked for.
LEMMA MisreportChecked ==
    ASSUME NEW meta, NEW blob, NEW io, NEW id \in Nat \ {0},
           MetaFits(meta, blob, io, id),
           NEW a, {"instr", "blocked", "timeout"} \subseteq DOMAIN a,
           a.blocked = FALSE, a.timeout = FALSE, a.instr = Report(blob),
           NEW b \in Misreports(a), CheckInstrumentation(meta, b)
    PROVE  Reported(blob, io, b)
<1>1. /\ a.instr = [kind |-> "object", i |-> meta.id, state |-> StateOf(id)]
      /\ meta.id[1] = id /\ (io # <<>> => meta.block = io[1].block)
  BY FitsReport
<1>2. CASE b = [a EXCEPT !.blocked = TRUE]
  <2>1. b.blocked = TRUE
    BY <1>2
  <2>2. ~meta.block
    BY <2>1 DEF CheckInstrumentation
  <2> QED  BY <1>1, <2>1, <2>2 DEF Reported
<1>3. CASE b = [a EXCEPT !.timeout = TRUE]
  <2>1. b.blocked = FALSE /\ b.timeout = TRUE
    BY <1>3
  <2> QED  BY <2>1, PassedReport
<1>4. ASSUME NEW r, b = [a EXCEPT !.instr = r],
             \/ r = NoResult \/ r = JunkResult
             \/ r = [a.instr EXCEPT !.i = <<0, 0>>]
             \/ r = [a.instr EXCEPT !.state = [v \in DOMAIN @ |-> 0]]
             \/ r = [a.instr EXCEPT !.state = [v \in DOMAIN @ \ {"a"} |-> @[v]]]
      PROVE  FALSE
  <2>1. b.instr = r /\ b.blocked = FALSE
    BY <1>4
  <2>2. /\ r.kind = "object" /\ r.i = meta.id
        /\ "a" \in DOMAIN r.state /\ r.state["a"] = id
    BY <2>1, PassedReport
  <2>3. CASE r = NoResult
    BY <2>2, <2>3 DEF NoResult
  <2>4. CASE r = JunkResult
    BY <2>2, <2>4 DEF JunkResult
  <2>5. CASE r = [a.instr EXCEPT !.i = <<0, 0>>]
    <3>1. r.i = <<0, 0>>
      BY <1>1, <2>5
    <3> QED  BY <1>1, <2>2, <3>1
  <2>6. CASE r = [a.instr EXCEPT !.state = [v \in DOMAIN @ |-> 0]]
    <3>1. r.state = [v \in DOMAIN StateOf(id) |-> 0]
      BY <1>1, <2>6
    <3> QED  BY <2>2, <3>1
  <2>7. CASE r = [a.instr EXCEPT !.state = [v \in DOMAIN @ \ {"a"} |-> @[v]]]
    <3>1. r.state = [v \in DOMAIN StateOf(id) \ {"a"} |-> StateOf(id)[v]]
      BY <1>1, <2>7
    <3> QED  BY <2>2, <3>1
  <2> QED  BY <1>4, <2>3, <2>4, <2>5, <2>6, <2>7
<1> QED  BY <1>2, <1>3, <1>4 DEF Misreports

-----------------------------------------------------------------------------
(* Honest work is never refused *)

\* The honest request for a format-1 challenge.
LEMMA HonestFormat1 ==
    ASSUME NEW id, Format1Shown(held[id][1].wire), NEW w, w = held[id][1].wire
    PROVE  /\ Ch(id).format = 1 /\ Ch(id).pow = w.challenge
           /\ Ch(id).instrumentation = w.instrumentation
           /\ Ch(id).token = w.token
           /\ Honest(id).instr = Report(w.instrumentation)
           /\ Honest(id).solutions =
                [i \in 1..w.challenge.count |->
                   Answer("number", Format1Pair(w.token, i, w.challenge), <<>>, NoResult)]
<1>1. "format" \notin DOMAIN w
  BY DEF Format1Shown
<1>2. Ch(id) = [format |-> 1, token |-> w.token, expires |-> w.expires,
                scope |-> Empty, pow |-> w.challenge,
                instrumentation |-> w.instrumentation]
  BY <1>1 DEF Ch, UnmarshalJSON
<1>3. PICK c : c = Ch(id)
  OBVIOUS
<1>4. /\ c.format = 1 /\ c.pow = w.challenge /\ c.token = w.token
      /\ c.instrumentation = w.instrumentation
  BY <1>2, <1>3
<1>5. Honest(id) = SolveChallenge(c, c.token)
  BY <1>3 DEF Honest, Ch
<1>6. /\ Honest(id).instr = Report(c.instrumentation)
      /\ Honest(id).solutions =
            [i \in 1..c.pow.count |->
               Answer("number", Format1Pair(c.token, i, c.pow), <<>>, NoResult)]
  BY <1>4, <1>5 DEF SolveChallenge
<1> QED  BY <1>3, <1>4, <1>6

\* Its solutions verify.
LEMMA Format1Verifies ==
    ASSUME NEW id, Format1Shown(held[id][1].wire), NEW w, w = held[id][1].wire
    PROVE  /\ ParsesFormat1(Honest(id))
           /\ VerifyFormat1(w.token, w.challenge, Honest(id).solutions)
<1>1. PICK n, pow, t : n = w.challenge.count /\ pow = w.challenge /\ t = w.token
  OBVIOUS
<1>2. n \in Nat /\ pow.difficulty \in Int
  BY <1>1, CapPuzzleAssumption DEF Format1Shown, ValidatePoWParams, PoWSettings
<1>3. PICK sols : sols = Honest(id).solutions
  OBVIOUS
<1>4. sols = [i \in 1..n |-> Answer("number", Format1Pair(t, i, pow), <<>>, NoResult)]
  BY <1>1, <1>3, HonestFormat1
<1>5. Len(sols) = n /\ DOMAIN sols = 1..n
  BY <1>2, <1>4
<1>6. ASSUME NEW i \in 1..n
      PROVE  /\ sols[i].kind = "number"
             /\ PowMatches(sols[i].pow, Format1Pair(t, i, pow))
  <2>1. sols[i].kind = "number" /\ sols[i].pow = Format1Pair(t, i, pow)
    BY <1>4 DEF Answer
  <2>2. Format1Pair(t, i, pow).target = pow.difficulty
    BY DEF Format1Pair
  <2> QED  BY <1>2, <2>1, <2>2 DEF PowMatches
<1>7. ParsesFormat1(Honest(id))
  BY <1>3, <1>5, <1>6, HonestFields DEF ParsesFormat1
<1>8. VerifyFormat1(t, pow, sols)
  BY <1>1, <1>5, <1>6 DEF VerifyFormat1
<1> QED  BY <1>1, <1>3, <1>7, <1>8

LEMMA HonestStored ==
    ASSUME PuzzleInv, NEW id \in Ids, Redeemable(id), TokenOf(id).kind = "hex",
           NEW scope \in {Empty, held[id][1].scope}
    PROVE  StoredAccepts(Honest(id), scope)
<1>1. PICK h, w, rec : /\ h = held[id][1] /\ w = h.wire /\ rec = stored[id][1]
  OBVIOUS
<1>2. /\ held[id] # <<>> /\ stored[id] # <<>> /\ clock < rec.expires
      /\ (rec.instr # <<>> => clock <= rec.instr[1].expires)
  BY <1>1 DEF Redeemable, TokenOf
<1>3. HeldInv /\ clock \in Nat /\ id \in Nat
  BY CapPuzzleAssumption DEF PuzzleInv, OptsInv
<1>4. StoredShown(id, h, stored[id]) /\ Ch(id).token = w.token
  BY <1>1, <1>2, <1>3, HeldCases DEF TokenOf
<1>5. /\ Format1Shown(w) /\ w.token = HexToken(id)
      /\ rec.pow = w.challenge /\ rec.scope = h.scope /\ rec.expires = w.expires
      /\ InstrFits(rec.instr, w.instrumentation, h.io, id)
  BY <1>1, <1>2, <1>4 DEF StoredShown
<1>6. PICK req : req = Honest(id)
  OBVIOUS
<1>7. /\ req.token = w.token /\ req.sent = "array"
      /\ req.blocked = FALSE /\ req.timeout = FALSE
      /\ req.instr = Report(w.instrumentation)
  <2>1. /\ Honest(id).token = Ch(id).token /\ Honest(id).sent = "array"
        /\ Honest(id).blocked = FALSE /\ Honest(id).timeout = FALSE
    BY HonestFields
  <2>2. w = held[id][1].wire /\ Format1Shown(held[id][1].wire)
    BY <1>1, <1>5
  <2>3. Honest(id).instr = Report(w.instrumentation)
    BY <2>2, HonestFormat1
  <2> QED  BY <1>4, <1>6, <2>1, <2>3
<1>8. ParsesFormat1(req) /\ VerifyFormat1(w.token, w.challenge, req.solutions)
  BY <1>1, <1>5, <1>6, Format1Verifies
<1>9. req.token.id = id /\ req.token.kind = "hex"
  BY <1>1, <1>2, <1>3, <1>5, <1>7, HeldCases DEF TokenOf
<1>10. WellFormedStored(req)
  BY <1>7, <1>8, <1>9 DEF WellFormedStored
<1>11. ScopeFits(rec.scope, scope)
  BY <1>1, <1>5 DEF ScopeFits
<1>12. ASSUME rec.instr # <<>> PROVE CheckInstrumentation(rec.instr[1], req)
  <2>1. MetaFits(rec.instr[1], w.instrumentation, h.io, id)
    BY <1>5, <1>12 DEF InstrFits
  <2>2. PICK m : m = rec.instr[1]
    OBVIOUS
  <2>3. clock <= m.expires
    BY <1>2, <1>12, <2>2
  <2>4. PICK blob, io, n : blob = w.instrumentation /\ io = h.io /\ n = id
    OBVIOUS
  <2>5. MetaFits(m, blob, io, n) /\ n \in Nat
    BY <1>3, <2>1, <2>2, <2>4
  <2>6. CheckInstrumentation(m, req)
    BY <1>7, <2>3, <2>4, <2>5, ReportPasses
  <2> QED  BY <2>2, <2>6
<1>13. VerifiesStored(req, scope, rec)
  BY <1>5, <1>7, <1>8, <1>11, <1>12 DEF VerifiesStored
<1>14. rec.expires > clock
  <2>1. clock < rec.expires
    BY <1>2
  <2> QED  BY <2>1
<1> QED  BY <1>1, <1>2, <1>6, <1>9, <1>10, <1>13, <1>14 DEF StoredAccepts

\* The honest request for a format-2 challenge.
V2Solutions(chs) ==
    [k \in DOMAIN chs |->
       Answer("object", chs[k].pow, chs[k].x, Report(chs[k].blob))]

LEMMA HonestV2 ==
    ASSUME NEW id, NEW w, w = held[id][1].wire,
           DOMAIN w = {"token", "format", "challenges", "expires"}
    PROVE  /\ Ch(id).format = 2 /\ Ch(id).token = w.token
           /\ Ch(id).challenges = w.challenges
           /\ Honest(id).solutions = V2Solutions(w.challenges)
<1>1. Ch(id) = [format |-> 2, token |-> w.token, expires |-> w.expires,
                scope |-> Empty, challenges |-> w.challenges]
  BY DEF Ch, UnmarshalJSON
<1>2. PICK c : c = Ch(id)
  OBVIOUS
<1>3. c.format = 2 /\ c.token = w.token /\ c.challenges = w.challenges
  BY <1>1, <1>2
<1>4. Honest(id) = SolveChallenge(c, c.token)
  BY <1>2 DEF Honest, Ch
<1>5. Honest(id).solutions = V2Solutions(c.challenges)
  BY <1>3, <1>4 DEF SolveChallenge, V2Solutions
<1> QED  BY <1>2, <1>3, <1>5

\* An honest answer to an entry verifies.
LEMMA HonestEntry ==
    ASSUME NEW v, NEW e, NEW id \in Nat, NEW io, NEW exp,
           EntryFits(v, e, id, io, exp), exp \in Nat, clock \in Nat, clock <= exp,
           NEW a, a = Answer("object", v.pow, v.x, Report(v.blob))
    PROVE  VerifiesEntry(e, a)
<1>1. /\ a.kind = "object" /\ a.pow = v.pow /\ a.y = v.x
      /\ a.instr = Report(v.blob) /\ a.blocked = FALSE /\ a.timeout = FALSE
  BY DEF Answer
<1>2. e.protocol = v.protocol /\ e.pow = v.pow /\ e.y = v.x
  BY DEF EntryFits
<1>3. CASE v.protocol = "sha256-pow"
  <2>1. v.pow.target \in Int
    BY <1>3 DEF EntryFits
  <2>2. PowMatches(a.pow, e.pow)
    BY <1>1, <1>2, <2>1 DEF PowMatches
  <2> QED  BY <1>1, <1>2, <1>3, <2>2 DEF VerifiesEntry
<1>4. CASE v.protocol = "rsw"
  BY <1>1, <1>2, <1>4 DEF VerifiesEntry
<1>5. CASE v.protocol = "instrumentation"
  <2>1. MetaFits(e.instr[1], v.blob, io, id) /\ e.instr[1].expires = exp
    BY <1>5 DEF EntryFits
  <2>2. PICK m, blob : m = e.instr[1] /\ blob = v.blob
    OBVIOUS
  <2>3. MetaFits(m, blob, io, id) /\ clock <= m.expires /\ a.instr = Report(blob)
    BY <1>1, <2>1, <2>2
  <2>4. CheckInstrumentation(m, a)
    BY <1>1, <2>3, ReportPasses
  <2> QED  BY <1>1, <1>2, <1>5, <2>2, <2>4 DEF VerifiesEntry
<1> QED  BY <1>3, <1>4, <1>5 DEF EntryFits

\* What SignedShown says, with names for the parts.
LEMMA SignedParts ==
    ASSUME NEW id, NEW h, SignedShown(id, h), NEW w, w = h.wire,
           NEW t, t = w.token, NEW cl, cl = t.claims[1]
    PROVE  /\ t.kind = "jwt" /\ t.id = id /\ t.secret # Empty
           /\ cl.sk = h.scope /\ cl.exp = w.expires /\ cl.exp \in Nat \ {0}
           /\ ClaimsFormat1(id, h, t, cl) \/ ClaimsV2(id, h, t, cl)
<1>1. /\ t = JwtSign(cl, t.secret) /\ t.secret # Empty /\ cl.n = id
      /\ cl.sk = h.scope /\ cl.exp = w.expires /\ cl.exp \in Nat \ {0}
      /\ ClaimsFormat1(id, h, t, cl) \/ ClaimsV2(id, h, t, cl)
  BY DEF SignedShown
<1>2. PICK c, s, u : c = cl /\ u = t /\ u = JwtSign(c, s)
  BY <1>1
<1>3. u.kind = "jwt" /\ u.id = c.n
  <2>1. u = JwtSign(c, s)
    BY <1>2
  <2> QED  BY <2>1 DEF JwtSign
<1> QED  BY <1>1, <1>2, <1>3

LEMMA HonestSigned ==
    ASSUME PuzzleInv, NEW id \in Ids, Redeemable(id), TokenOf(id).kind = "jwt",
           NEW scope \in {Empty, held[id][1].scope}
    PROVE  VerifiesSigned(Honest(id), scope)
<1>1. PICK h, w, t, cl : h = held[id][1] /\ w = h.wire /\ t = w.token /\ cl = t.claims[1]
  OBVIOUS
<1>2. held[id] # <<>> /\ t.secret = Opts.secret /\ clock <= cl.exp
  BY <1>1 DEF Redeemable, TokenOf
<1>3. HeldInv /\ clock \in Nat /\ id \in Nat
  BY CapPuzzleAssumption DEF PuzzleInv, OptsInv
<1>4. SignedShown(id, h) /\ Ch(id).token = t
  BY <1>1, <1>2, <1>3, HeldCases DEF TokenOf
<1>5. /\ t.kind = "jwt" /\ t.secret # Empty
      /\ cl.sk = h.scope /\ cl.exp \in Nat \ {0}
      /\ ClaimsFormat1(id, h, t, cl) \/ ClaimsV2(id, h, t, cl)
  BY <1>1, <1>4, SignedParts
<1>6. PICK req : req = Honest(id)
  OBVIOUS
<1>7. /\ req.token = t /\ req.sent = "array"
      /\ req.blocked = FALSE /\ req.timeout = FALSE
  BY <1>4, <1>6, HonestFields
<1>8. JwtVerifies(req.token, Opts.secret) /\ Opts.secret # Empty
  BY <1>2, <1>5, <1>7 DEF JwtVerifies
<1>9. ScopeFits(cl.sk, scope) /\ cl.exp # 0 /\ cl.exp >= clock
  <2>1. cl.exp \in Nat /\ cl.exp # 0 /\ cl.exp >= clock
    BY <1>2, <1>3, <1>5
  <2>2. ScopeFits(cl.sk, scope)
    BY <1>1, <1>5 DEF ScopeFits
  <2> QED  BY <2>1, <2>2
<1>10. CASE ClaimsFormat1(id, h, t, cl)
  <2>1. /\ cl.f = 0 /\ Format1Shown(w) /\ cl.pow = w.challenge
        /\ ValidatePoWParams(cl.pow)
    BY <1>1, <1>10 DEF ClaimsFormat1, Format1Shown
  <2>2. /\ ParsesFormat1(req) /\ VerifyFormat1(t, cl.pow, req.solutions)
        /\ req.instr = Report(w.instrumentation)
    BY <1>1, <1>6, <2>1, Format1Verifies, HonestFormat1
  <2>3. ASSUME cl.ei # <<>>
        PROVE  /\ DecryptsGCM(Opts.secret, "cap:enc-v1", cl.ei[1])
               /\ CheckInstrumentation(cl.ei[1].plain, req)
    <3>1. PICK m, blob, io, n : /\ m = cl.ei[1].plain /\ blob = w.instrumentation
                                /\ io = h.io /\ n = id
      OBVIOUS
    <3>2. /\ DecryptsGCM(t.secret, "cap:enc-v1", cl.ei[1])
          /\ m.expires = cl.exp /\ MetaFits(m, blob, io, n)
      BY <1>1, <1>10, <2>3, <3>1 DEF ClaimsFormat1
    <3>3. clock <= m.expires /\ n \in Nat /\ req.instr = Report(blob)
      BY <1>2, <1>3, <2>2, <3>1, <3>2
    <3>4. CheckInstrumentation(m, req)
      BY <1>7, <3>2, <3>3, ReportPasses
    <3> QED  BY <1>2, <3>1, <3>2, <3>4
  <2>4. cl.f # 2
    BY <2>1
  <2> QED  BY <1>1, <1>6, <1>7, <1>8, <1>9, <2>1, <2>2, <2>3, <2>4 DEF VerifiesSigned
<1>11. CASE ClaimsV2(id, h, t, cl)
  <2>1. PICK chs, plain : chs = w.challenges /\ plain = cl.ev[1].plain
    OBVIOUS
  <2>2. /\ cl.f = 2 /\ DOMAIN w = {"token", "format", "challenges", "expires"}
        /\ DecryptsGCM(t.secret, "cap:fmt2-v1", cl.ev[1])
        /\ Len(chs) \in Nat /\ DOMAIN chs = 1..Len(chs) /\ Len(plain) = Len(chs)
        /\ \A k \in DOMAIN chs : EntryFits(chs[k], plain[k], id, h.io, cl.exp)
    BY <1>1, <1>11, <2>1 DEF ClaimsV2
  <2>3. PICK sols : sols = req.solutions
    OBVIOUS
  <2>4. sols = [k \in DOMAIN chs |->
                  Answer("object", chs[k].pow, chs[k].x, Report(chs[k].blob))]
    <3>1. w = held[id][1].wire
      BY <1>1
    <3>2. DOMAIN w = {"token", "format", "challenges", "expires"}
      BY <2>2
    <3>3. Honest(id).solutions = V2Solutions(w.challenges)
      BY <3>1, <3>2, HonestV2
    <3> QED  BY <1>6, <2>1, <2>3, <3>3 DEF V2Solutions
  <2>5. Len(sols) = Len(chs) /\ DOMAIN sols = DOMAIN chs
    BY <2>2, <2>4
  <2>6. ASSUME NEW k \in DOMAIN sols PROVE VerifiesEntry(plain[k], sols[k])
    <3>1. PICK v, e, a, io, exp, n :
            /\ v = chs[k] /\ e = plain[k] /\ a = sols[k] /\ io = h.io
            /\ exp = cl.exp /\ n = id
      OBVIOUS
    <3>2. /\ EntryFits(v, e, n, io, exp) /\ n \in Nat /\ exp \in Nat /\ clock <= exp
          /\ a = Answer("object", v.pow, v.x, Report(v.blob))
      BY <1>2, <1>3, <1>5, <2>2, <2>4, <2>5, <2>6, <3>1
    <3>3. VerifiesEntry(e, a)
      BY <1>3, <3>2, HonestEntry
    <3> QED  BY <3>1, <3>3
  <2>7. VerifyV2(cl, req)
    BY <1>2, <1>7, <2>1, <2>2, <2>3, <2>5, <2>6 DEF VerifyV2
  <2> QED  BY <1>1, <1>6, <1>7, <1>8, <1>9, <2>2, <2>7 DEF VerifiesSigned
<1> QED  BY <1>5, <1>10, <1>11

-----------------------------------------------------------------------------
(* Where the answers in a request come from *)

V2Wire(w) == DOMAIN w = {"token", "format", "challenges", "expires"}

\* A pair of the format-1 challenge m, for some index and spelling.
NumberFrom(m, a) ==
    /\ held[m] # <<>> /\ Format1Shown(held[m][1].wire)
    /\ a.pow = [salt |-> a.pow.salt,
                target |-> held[m][1].wire.challenge.difficulty]
    /\ a.pow.salt # <<>> /\ a.pow.salt[1] = m

\* The honest answer to an entry of the format-2 challenge m.
EntryFrom(m, a) ==
    /\ held[m] # <<>> /\ V2Wire(held[m][1].wire)
    /\ \E j \in DOMAIN held[m][1].wire.challenges :
         LET c == held[m][1].wire.challenges[j]
         IN  a = Answer("object", c.pow, c.x, Report(c.blob))

Genuine(a) ==
    \E m \in Ids :
        \/ a.kind = "number" /\ NumberFrom(m, a)
        \/ a.kind = "object" /\ EntryFrom(m, a)

\* A challenge is of one format or the other.
LEMMA FormatCases ==
    ASSUME HeldInv, NEW id \in Ids, held[id] # <<>>, NEW w, w = held[id][1].wire
    PROVE  \/ Format1Shown(w)
           \/ /\ V2Wire(w) /\ Len(w.challenges) \in Nat
              /\ DOMAIN w.challenges = 1..Len(w.challenges)
<1>1. CASE StoredShown(id, held[id][1], stored[id])
  BY <1>1 DEF StoredShown
<1>2. CASE SignedShown(id, held[id][1])
  <2>1. PICK h, t, cl : h = held[id][1] /\ t = w.token /\ cl = t.claims[1]
    OBVIOUS
  <2>2. ClaimsFormat1(id, h, t, cl) \/ ClaimsV2(id, h, t, cl)
    BY <1>2, <2>1, SignedParts
  <2>3. h.wire = w
    BY <2>1
  <2>4. CASE ClaimsFormat1(id, h, t, cl)
    BY <2>3, <2>4 DEF ClaimsFormat1
  <2>5. CASE ClaimsV2(id, h, t, cl)
    BY <2>3, <2>5 DEF ClaimsV2, V2Wire
  <2> QED  BY <2>2, <2>4, <2>5
<1> QED  BY <1>1, <1>2 DEF HeldInv

\* What SolveChallenge answers, for any token of the challenge.
LEMMA SolutionsAreGenuine ==
    ASSUME HeldInv, NEW id \in Ids, held[id] # <<>>, NEW t, t.id = id,
           NEW sols, sols = SolveChallenge(Ch(id), t).solutions
    PROVE  /\ Len(sols) \in Nat /\ DOMAIN sols = 1..Len(sols)
           /\ sols = [k \in 1..Len(sols) |-> sols[k]]
           /\ \A k \in DOMAIN sols : Genuine(sols[k])
<1>1. PICK w, c : w = held[id][1].wire /\ c = Ch(id)
  OBVIOUS
<1>2. CASE Format1Shown(w)
  <2>1. c.format = 1 /\ c.pow = w.challenge
    BY <1>1, <1>2, HonestFormat1
  <2>2. PICK n, pow : n = w.challenge.count /\ pow = w.challenge
    OBVIOUS
  <2>3. n \in Nat
    BY <1>2, <2>2, CapPuzzleAssumption DEF Format1Shown, ValidatePoWParams, PoWSettings
  <2>4. sols = [i \in 1..n |-> Answer("number", Format1Pair(t, i, pow), <<>>, NoResult)]
    BY <1>1, <2>1, <2>2 DEF SolveChallenge
  <2>5. Len(sols) = n /\ DOMAIN sols = 1..n /\ sols = [k \in 1..n |-> sols[k]]
    BY <2>3, <2>4
  <2>6. ASSUME NEW k \in 1..n PROVE Genuine(sols[k])
    <3>1. PICK a, salt : /\ a = sols[k]
                         /\ salt = <<t.id, t.kind, t.spelling, 0, k, pow.size>>
      OBVIOUS
    <3>2. a.kind = "number" /\ a.pow = Format1Pair(t, k, pow)
      BY <2>4, <3>1 DEF Answer
    <3>3. a.pow = [salt |-> salt, target |-> pow.difficulty]
      BY <3>1, <3>2 DEF Format1Pair
    <3>4. salt # <<>> /\ salt[1] = id
      BY <3>1
    <3>5. NumberFrom(id, a)
      BY <1>1, <1>2, <2>2, <3>3, <3>4 DEF NumberFrom
    <3>6. a.kind = "number"
      BY <3>2
    <3>7. Genuine(a)
      BY <3>5, <3>6 DEF Genuine
    <3> QED  BY <3>1, <3>7
  <2> QED  BY <2>3, <2>5, <2>6
<1>3. CASE V2Wire(w) /\ Len(w.challenges) \in Nat
           /\ DOMAIN w.challenges = 1..Len(w.challenges)
  <2>1. c.format = 2 /\ c.challenges = w.challenges
    BY <1>1, <1>3, HonestV2 DEF V2Wire
  <2>2. PICK chs, n : chs = w.challenges /\ n = Len(w.challenges)
    OBVIOUS
  <2>3. sols = [k \in DOMAIN chs |->
                  Answer("object", chs[k].pow, chs[k].x, Report(chs[k].blob))]
    BY <1>1, <2>1, <2>2 DEF SolveChallenge
  <2>4. n \in Nat /\ DOMAIN chs = 1..n
    BY <1>3, <2>2
  <2>5. Len(sols) = n /\ DOMAIN sols = 1..n /\ sols = [k \in 1..n |-> sols[k]]
    BY <2>3, <2>4
  <2>6. ASSUME NEW k \in 1..n PROVE Genuine(sols[k])
    <3>1. PICK a, v : a = sols[k] /\ v = chs[k]
      OBVIOUS
    <3>2. a = Answer("object", v.pow, v.x, Report(v.blob)) /\ k \in DOMAIN chs
      BY <2>3, <2>4, <3>1
    <3>3. a.kind = "object"
      BY <3>2 DEF Answer
    <3>4. EntryFrom(id, a)
      BY <1>1, <1>3, <2>2, <3>1, <3>2 DEF EntryFrom
    <3>5. Genuine(a)
      BY <3>3, <3>4 DEF Genuine
    <3> QED  BY <3>1, <3>5
  <2> QED  BY <2>4, <2>5, <2>6
<1> QED  BY <1>1, <1>2, <1>3, FormatCases

\* What may stand at place k of the solutions sent for challenge id.
Sent(a, id, k) ==
    \/ Genuine(a)
    \/ a.pow = NoPow /\ a.y = <<>> /\ a.instr = NoResult /\ a.blocked = FALSE
    \/ /\ k \in DOMAIN Honest(id).solutions
       /\ a \in Misreports(Honest(id).solutions[k])

AllSent(sols, id) ==
    /\ Len(sols) \in Nat /\ DOMAIN sols = 1..Len(sols)
    /\ \A k \in DOMAIN sols : Sent(sols[k], id, k)

\* The honest solutions.
LEMMA HonestSent ==
    ASSUME HeldInv, NEW id \in Ids, held[id] # <<>>, NEW m \in Ids, held[m] # <<>>,
           NEW sols, sols = Honest(m).solutions
    PROVE  /\ Len(sols) \in Nat /\ DOMAIN sols = 1..Len(sols)
           /\ sols = [k \in 1..Len(sols) |-> sols[k]]
           /\ \A k \in DOMAIN sols : Genuine(sols[k])
           /\ AllSent(sols, id)
<1>1. PICK t : t = Ch(m).token /\ t.id = m
  BY HeldCases
<1>2. sols = SolveChallenge(Ch(m), t).solutions
  BY <1>1 DEF Honest, Ch
<1>3. /\ Len(sols) \in Nat /\ DOMAIN sols = 1..Len(sols)
      /\ sols = [k \in 1..Len(sols) |-> sols[k]]
      /\ \A k \in DOMAIN sols : Genuine(sols[k])
  BY <1>1, <1>2, SolutionsAreGenuine
<1> QED  BY <1>3 DEF AllSent, Sent

\* Replacing one of the honest solutions.
LEMMA OneReplaced ==
    ASSUME NEW right, NEW n \in Nat, right = [k \in 1..n |-> right[k]],
           NEW i \in 1..n, NEW a, NEW sols, sols = [right EXCEPT ![i] = a], NEW id,
           Sent(a, id, i), \A k \in 1..n : Sent(right[k], id, k)
    PROVE  AllSent(sols, id)
<1>1. sols = [k \in 1..n |-> IF k = i THEN a ELSE right[k]]
  OBVIOUS
<1>2. Len(sols) = n /\ DOMAIN sols = 1..n
  BY <1>1
<1>3. ASSUME NEW k \in 1..n PROVE Sent(sols[k], id, k)
  <2>1. CASE k = i
    <3>1. sols[k] = a
      BY <1>1, <2>1
    <3> QED  BY <2>1, <3>1
  <2>2. CASE k # i
    <3>1. sols[k] = right[k]
      BY <1>1, <2>2
    <3> QED  BY <3>1
  <2> QED  BY <2>1, <2>2
<1> QED  BY <1>2, <1>3 DEF AllSent

LEMMA WrongSent ==
    ASSUME HeldInv, NEW id \in Ids, held[id] # <<>>,
           NEW sols \in WrongSolutions(id), Len(sols) = Len(Honest(id).solutions)
    PROVE  AllSent(sols, id)
<1>1. PICK right, n : right = Honest(id).solutions /\ n = Len(right)
  OBVIOUS
<1>2. /\ n \in Nat /\ DOMAIN right = 1..n /\ right = [k \in 1..n |-> right[k]]
      /\ \A k \in 1..n : Genuine(right[k]) /\ Sent(right[k], id, k)
  BY <1>1, HonestSent DEF AllSent
<1>3. CASE sols = Front(right)
  <2>1. PICK S : S = {right[k] : k \in 1..n}
    OBVIOUS
  <2>2. right \in Seq(S)
    BY <1>2, <2>1
  <2>3. Len(sols) = n
    BY <1>1
  <2>4. sols = SubSeq(right, 1, n - 1)
    BY <1>1, <1>3 DEF Front
  <2>5. n = 0
    BY <1>2, <2>2, <2>3, <2>4
  <2>6. DOMAIN sols = 1..0 /\ Len(sols) = 0
    BY <1>2, <2>2, <2>4, <2>5
  <2> QED  BY <2>6 DEF AllSent
<1>4. CASE sols = Append(right, Last(right))
  <2>1. Len(sols) = n + 1
    BY <1>2, <1>4
  <2> QED  BY <1>1, <1>2, <2>1
<1>5. CASE sols = Reverse(right)
  <2>1. sols = [i \in 1..n |-> right[(n - i) + 1]]
    BY <1>1, <1>5 DEF Reverse
  <2>2. Len(sols) = n /\ DOMAIN sols = 1..n
    BY <1>2, <2>1
  <2>3. ASSUME NEW k \in 1..n PROVE Sent(sols[k], id, k)
    <3>1. PICK j \in 1..n : sols[k] = right[j]
      BY <1>2, <2>1
    <3> QED  BY <1>2, <3>1 DEF Sent
  <2> QED  BY <1>2, <2>2, <2>3 DEF AllSent
<1>6. ASSUME NEW m \in Ids, held[m] # <<>>, sols = Honest(m).solutions
      PROVE  AllSent(sols, id)
  BY <1>6, HonestSent
<1>7. ASSUME NEW i \in 1..n, NEW kind, NEW a, a = Answer(kind, NoPow, <<>>, NoResult),
             sols = [right EXCEPT ![i] = a]
      PROVE  AllSent(sols, id)
  <2>1. a.pow = NoPow /\ a.y = <<>> /\ a.instr = NoResult /\ a.blocked = FALSE
    BY <1>7 DEF Answer
  <2>2. Sent(a, id, i)
    BY <2>1 DEF Sent
  <2> QED  BY <1>2, <1>7, <2>2, OneReplaced
<1>8. ASSUME NEW i \in 1..n, NEW a \in Misreports(right[i]),
             sols = [right EXCEPT ![i] = a]
      PROVE  AllSent(sols, id)
  <2>1. Sent(a, id, i)
    BY <1>1, <1>2, <1>8 DEF Sent
  <2> QED  BY <1>2, <1>8, <2>1, OneReplaced
<1>9. \/ sols \in {Front(right), Append(right, Last(right)), Reverse(right)}
      \/ \E m \in Ids : held[m] # <<>> /\ sols = Honest(m).solutions
      \/ \E i \in 1..n : \E kind \in {"number", "string", "object"} :
            sols = [right EXCEPT ![i] = Answer(kind, NoPow, <<>>, NoResult)]
      \/ \E i \in 1..n : \E a \in Misreports(right[i]) :
            sols = [right EXCEPT ![i] = a]
  BY <1>1 DEF WrongSolutions
<1> QED  BY <1>3, <1>4, <1>5, <1>6, <1>7, <1>8, <1>9

\* Every request with as many solutions as were asked for.
LEMMA RequestSent ==
    ASSUME HeldInv, NEW id \in Ids, held[id] # <<>>, NEW req \in Requests(id),
           Len(req.solutions) = Len(Honest(id).solutions)
    PROVE  /\ AllSent(req.solutions, id)
           /\ \/ req.blocked = FALSE /\ req.instr = Honest(id).instr
              \/ req \in Misreports(Honest(id))
<1>1. PICK h : h = Honest(id)
  OBVIOUS
<1>2. DOMAIN h = RequestFields /\ h.blocked = FALSE /\ AllSent(h.solutions, id)
  BY <1>1, HonestFields, HonestSent
<1>3. CASE req = SolveChallenge(Ch(id), Respelt(id))
  <2>1. PICK t : t = Respelt(id) /\ t.id = id
    <3>1. PICK u : u = Ch(id).token
      OBVIOUS
    <3>2. u.id = id /\ DOMAIN u = TokenFields
      BY <3>1, HeldCases
    <3>3. Respelt(id) = [u EXCEPT !.spelling = "otherwise"]
      BY <3>1 DEF Respelt
    <3>4. Respelt(id).id = id
      BY <3>2, <3>3 DEF TokenFields
    <3> QED  BY <3>4
  <2>2. PICK sols : sols = req.solutions
    OBVIOUS
  <2>3. sols = SolveChallenge(Ch(id), t).solutions
    BY <1>3, <2>1, <2>2
  <2>4. /\ Len(sols) \in Nat /\ DOMAIN sols = 1..Len(sols)
        /\ \A k \in DOMAIN sols : Genuine(sols[k])
    BY <2>1, <2>3, SolutionsAreGenuine
  <2>5. AllSent(sols, id)
    BY <2>4 DEF AllSent, Sent
  <2>6. req.blocked = FALSE /\ req.instr = h.instr
    BY <1>1, <1>3 DEF Honest, Ch, SolveChallenge
  <2> QED  BY <1>1, <2>2, <2>5, <2>6
<1>4. CASE req \in Misreports(h)
  <2>1. {"instr", "blocked", "timeout"} \subseteq DOMAIN h /\ "solutions" \in DOMAIN h
    BY <1>2 DEF RequestFields
  <2>2. req.solutions = h.solutions
    BY <1>4, <2>1, MisreportFields
  <2> QED  BY <1>1, <1>2, <1>4, <2>2
<1>5. ASSUME NEW a \in WrongSolutions(id), req = [h EXCEPT !.solutions = a]
      PROVE  /\ AllSent(req.solutions, id)
             /\ req.blocked = FALSE /\ req.instr = h.instr
  <2>1. req.solutions = a /\ req.blocked = FALSE /\ req.instr = h.instr
    BY <1>2, <1>5 DEF RequestFields
  <2>2. AllSent(a, id)
    BY <1>5, <2>1, WrongSent
  <2> QED  BY <2>1, <2>2
<1>6. CASE \/ req = h
           \/ \E x : req = [h EXCEPT !.token = x]
           \/ \E x : req = [h EXCEPT !.sent = x]
  <2>1. req.solutions = h.solutions /\ req.blocked = FALSE /\ req.instr = h.instr
    BY <1>2, <1>6 DEF RequestFields
  <2> QED  BY <1>1, <1>2, <2>1
<1>7. CASE \/ req = [h EXCEPT !.token.secret = "forged"]
           \/ req = [h EXCEPT !.token.kind = "text"]
  <2>1. req.solutions = h.solutions /\ req.blocked = FALSE /\ req.instr = h.instr
    BY <1>2, <1>7 DEF RequestFields
  <2> QED  BY <1>1, <1>2, <2>1
<1> QED  BY <1>1, <1>3, <1>4, <1>5, <1>6, <1>7, RequestCases

-----------------------------------------------------------------------------
(* A token is only given for the work *)

\* A number that is accepted in a place of a format-1 challenge answers it.
LEMMA NumberSolves ==
    ASSUME HeldInv, NEW id \in Ids, NEW w, w = held[id][1].wire, Format1Shown(w),
           NEW k, NEW a, Sent(a, id, k), a.kind = "number", NEW t, t.id = id,
           NEW pair, pair = Format1Pair(t, k, w.challenge), PowMatches(a.pow, pair)
    PROVE  a.pow = pair
<1>1. PICK s, d : /\ s = <<t.id, t.kind, t.spelling, 0, k, w.challenge.size>>
                  /\ d = w.challenge.difficulty
  OBVIOUS
<1>2. pair = [salt |-> s, target |-> d] /\ s # <<>> /\ s[1] = id
  BY <1>1 DEF Format1Pair
<1>3. a.pow.salt = s
  BY <1>2 DEF PowMatches
<1>4. ASSUME NEW m \in Ids, NumberFrom(m, a) PROVE a.pow = pair
  <2>1. PICK p : p = a.pow
    OBVIOUS
  <2>2. /\ p = [salt |-> p.salt, target |-> held[m][1].wire.challenge.difficulty]
        /\ p.salt[1] = m
    BY <1>4, <2>1 DEF NumberFrom
  <2>3. m = id
    BY <1>2, <1>3, <2>1, <2>2
  <2> QED  BY <1>1, <1>2, <1>3, <2>1, <2>2, <2>3
<1>5. CASE a.pow = NoPow
  BY <1>2, <1>3, <1>5 DEF NoPow
<1>6. CASE k \in DOMAIN Honest(id).solutions /\ a \in Misreports(Honest(id).solutions[k])
  <2>1. PICK b : b = Honest(id).solutions[k]
    OBVIOUS
  <2>2. PICK pow, tok : pow = w.challenge /\ tok = w.token
    OBVIOUS
  <2>3. Honest(id).solutions =
          [i \in 1..pow.count |->
             Answer("number", Format1Pair(tok, i, pow), <<>>, NoResult)]
    BY <2>2, HonestFormat1
  <2>4. b = Answer("number", Format1Pair(tok, k, pow), <<>>, NoResult)
    BY <1>6, <2>1, <2>3
  <2>5. /\ {"instr", "blocked", "timeout"} \subseteq DOMAIN b /\ "pow" \in DOMAIN b
        /\ b.pow = Format1Pair(tok, k, pow)
    BY <2>4 DEF Answer
  <2>6. a.pow = b.pow
    BY <1>6, <2>1, <2>5, MisreportFields
  <2>7. PICK p, r : p = a.pow /\ p = [salt |-> r, target |-> d]
    BY <1>1, <2>2, <2>5, <2>6 DEF Format1Pair
  <2>8. r = s
    BY <1>3, <2>7
  <2> QED  BY <1>2, <2>7, <2>8
<1>7. CASE Genuine(a)
  <2>1. PICK m \in Ids : NumberFrom(m, a)
    BY <1>7 DEF Genuine
  <2> QED  BY <1>4, <2>1
<1> QED  BY <1>5, <1>6, <1>7 DEF Sent

\* An accepted report on a format-1 challenge is right.
LEMMA ReportSolves ==
    ASSUME HeldInv, NEW id \in Ids, held[id] # <<>>, NEW req \in Requests(id),
           Len(req.solutions) = Len(Honest(id).solutions),
           NEW w, w = held[id][1].wire, Format1Shown(w), NEW io, NEW meta,
           MetaFits(meta, w.instrumentation, io, id), CheckInstrumentation(meta, req)
    PROVE  Reported(w.instrumentation, io, req)
<1>1. PICK h, blob, n : h = Honest(id) /\ blob = w.instrumentation /\ n = id
  OBVIOUS
<1>2. /\ DOMAIN h = RequestFields /\ h.blocked = FALSE /\ h.timeout = FALSE
      /\ h.instr = Report(blob)
  BY <1>1, HonestFields, HonestFormat1
<1>3. n \in Nat \ {0} /\ MetaFits(meta, blob, io, n)
  BY <1>1, CapPuzzleAssumption
<1>4. CASE req.blocked = FALSE /\ req.instr = h.instr
  BY <1>1, <1>2, <1>4 DEF Reported
<1>5. CASE req \in Misreports(h)
  <2>1. {"instr", "blocked", "timeout"} \subseteq DOMAIN h
    BY <1>2 DEF RequestFields
  <2>2. Reported(blob, io, req)
    BY <1>2, <1>3, <1>5, <2>1, MisreportChecked
  <2> QED  BY <1>1, <2>2
<1> QED  BY <1>1, <1>4, <1>5, RequestSent

\* What is accepted for a format-1 challenge, stored or signed.
LEMMA Format1Solved ==
    ASSUME HeldInv, NEW id \in Ids, held[id] # <<>>, NEW req \in Requests(id),
           NEW w, w = held[id][1].wire, Format1Shown(w),
           ParsesFormat1(req), VerifyFormat1(req.token, w.challenge, req.solutions),
           w.instrumentation # <<>> =>
             \E meta : /\ MetaFits(meta, w.instrumentation, held[id][1].io, id)
                       /\ CheckInstrumentation(meta, req)
    PROVE  Solved(id, req)
<1>1. PICK t, pow, n, sols, io : /\ t = req.token /\ pow = w.challenge /\ n = pow.count
                                 /\ sols = req.solutions /\ io = held[id][1].io
  OBVIOUS
<1>2. n \in Nat
  <2>1. pow \in PoWSettings /\ ValidatePoWParams(pow)
    BY <1>1 DEF Format1Shown
  <2>2. "count" \in DOMAIN pow
    BY <2>1 DEF PoWSettings
  <2>3. MaxPow.count \in Int
    BY CapPuzzleAssumption DEF PoWSettings
  <2>4. pow.count \in 1..MaxPow.count
    BY <2>1, <2>2 DEF ValidatePoWParams
  <2> QED  BY <1>1, <2>3, <2>4
<1>3. t.id = id
  BY <1>1, RequestToken
<1>4. /\ Len(sols) = n
      /\ \A i \in 1..n : PowMatches(sols[i].pow, Format1Pair(t, i, pow))
  BY <1>1 DEF VerifyFormat1
<1>5. Len(Honest(id).solutions) = n
  <2>1. PICK hs, u : hs = Honest(id).solutions /\ u = w.token
    OBVIOUS
  <2>2. hs = [i \in 1..n |-> Answer("number", Format1Pair(u, i, pow), <<>>, NoResult)]
    BY <1>1, <2>1, HonestFormat1
  <2> QED  BY <1>2, <2>1, <2>2
<1>6. AllSent(sols, id)
  BY <1>1, <1>4, <1>5, RequestSent
<1>7. DOMAIN sols = 1..n /\ \A k \in 1..n : Sent(sols[k], id, k) /\ sols[k].kind = "number"
  BY <1>1, <1>4, <1>6 DEF AllSent, ParsesFormat1
<1>8. ASSUME NEW k \in 1..n PROVE sols[k].pow = Format1Pair(t, k, pow)
  <2>1. PICK a, pair : a = sols[k] /\ pair = Format1Pair(t, k, w.challenge)
    OBVIOUS
  <2>2. Sent(a, id, k) /\ a.kind = "number" /\ PowMatches(a.pow, pair)
    BY <1>1, <1>4, <1>7, <2>1
  <2>3. a.pow = pair
    BY <1>3, <2>1, <2>2, NumberSolves
  <2> QED  BY <1>1, <2>1, <2>3
<1>9. [i \in DOMAIN sols |-> sols[i].pow] = [i \in 1..n |-> Format1Pair(t, i, pow)]
  BY <1>7, <1>8
<1>10. w.instrumentation # <<>> => Reported(w.instrumentation, io, req)
  BY <1>1, <1>4, <1>5, ReportSolves
<1>11. PICK c : c = Ch(id)
  OBVIOUS
<1>12. c.format = 1 /\ c.pow = pow /\ c.instrumentation = w.instrumentation
  BY <1>1, <1>11, HonestFormat1
<1>13. [i \in DOMAIN req.solutions |-> req.solutions[i].pow]
         = [i \in 1..c.pow.count |-> Format1Pair(req.token, i, c.pow)]
  BY <1>1, <1>9, <1>12
<1>14. c.instrumentation # <<>> => Reported(c.instrumentation, held[id][1].io, req)
  BY <1>1, <1>10, <1>12
<1>15. c = UnmarshalJSON(held[id][1].wire)
  BY <1>11 DEF Ch
<1> QED  BY <1>12, <1>13, <1>14, <1>15 DEF Solved

\* What is accepted for an entry of a format-2 challenge.
EntrySolved(v, io, a) ==
    /\ a.pow = v.pow /\ a.y = v.x
    /\ v.blob # <<>> => Reported(v.blob, io, a)

\* An honest answer to some entry is accepted for that entry only, or for one
\* that asks the same.
LEMMA HonestEntrySolves ==
    ASSUME NEW id \in Nat, NEW v, NEW e, NEW io, NEW exp, EntryFits(v, e, id, io, exp),
           NEW m \in Nat, NEW v2, NEW e2, NEW io2, NEW exp2,
           EntryFits(v2, e2, m, io2, exp2),
           /\ m = id /\ v.protocol = "sha256-pow" /\ v2.protocol = "sha256-pow"
           => v.pow.target = v2.pow.target,
           NEW a, a = Answer("object", v2.pow, v2.x, Report(v2.blob)),
           VerifiesEntry(e, a)
    PROVE  EntrySolved(v, io, a)
<1>1. /\ a.pow = v2.pow /\ a.y = v2.x /\ a.instr = Report(v2.blob) /\ a.blocked = FALSE
  BY DEF Answer
<1>2. e.protocol = v.protocol /\ e.pow = v.pow /\ e.y = v.x
  BY DEF EntryFits
<1>3. CASE v.protocol = "sha256-pow"
  <2>1. /\ v.pow = [salt |-> v.pow.salt, target |-> v.pow.target]
        /\ v.pow.salt # <<>> /\ v.pow.salt[1] = id /\ v.x = <<>> /\ v.blob = <<>>
    BY <1>3 DEF EntryFits
  <2>2. v2.pow.salt = v.pow.salt
    BY <1>1, <1>2, <1>3 DEF VerifiesEntry, PowMatches
  <2>3. v2.pow # NoPow
    BY <2>1, <2>2 DEF NoPow
  <2>4. /\ v2.protocol = "sha256-pow" /\ v2.x = <<>> /\ v2.pow.salt[1] = m
        /\ v2.pow = [salt |-> v2.pow.salt, target |-> v2.pow.target]
    BY <2>3 DEF EntryFits
  <2>5. m = id
    BY <2>1, <2>2, <2>4
  <2>6. v2.pow.target = v.pow.target
    BY <1>3, <2>4, <2>5
  <2>7. v2.pow = v.pow
    BY <2>1, <2>2, <2>4, <2>6
  <2> QED  BY <1>1, <2>1, <2>4, <2>7 DEF EntrySolved
<1>4. CASE v.protocol = "rsw"
  <2>1. v.x # <<>> /\ v.pow = NoPow /\ v.blob = <<>>
    BY <1>4 DEF EntryFits
  <2>2. v2.x = v.x
    BY <1>1, <1>2, <1>4 DEF VerifiesEntry
  <2>3. v2.pow = NoPow
    BY <2>1, <2>2 DEF EntryFits
  <2> QED  BY <1>1, <2>1, <2>2, <2>3 DEF EntrySolved
<1>5. CASE v.protocol = "instrumentation"
  <2>1. PICK meta, blob : meta = e.instr[1] /\ blob = v.blob
    OBVIOUS
  <2>2. v.pow = NoPow /\ v.x = <<>> /\ MetaFits(meta, blob, io, id)
    BY <1>5, <2>1 DEF EntryFits
  <2>3. CheckInstrumentation(meta, a)
    BY <1>2, <1>5, <2>1 DEF VerifiesEntry
  <2>4. a.instr.kind = "object"
    BY <1>1, <2>2, <2>3, PassedReport
  <2>5. v2.blob # <<>>
    BY <1>1, <2>4 DEF Report, NoResult
  <2>6. PICK meta2, blob2 : meta2 = e2.instr[1] /\ blob2 = v2.blob
    OBVIOUS
  <2>7. v2.pow = NoPow /\ v2.x = <<>> /\ MetaFits(meta2, blob2, io2, m)
    BY <2>5, <2>6 DEF EntryFits
  <2>8. a.instr = Report(blob2)
    BY <1>1, <2>6
  <2>9. blob2 = blob
    <3>1. a.instr.i = meta.id
      BY <1>1, <2>2, <2>3, PassedReport
    <3>2. a.instr.i = meta2.id
      BY <2>7, <2>8, FitsReport
    <3>3. meta.id[1] = id /\ meta2.id[1] = m
      BY <2>2, <2>7 DEF MetaFits
    <3> QED  BY <2>2, <2>7, <3>1, <3>2, <3>3 DEF MetaFits
  <2>10. Reported(blob, io, a)
    <3>1. a.blocked = FALSE /\ a.instr = Report(blob)
      BY <1>1, <2>8, <2>9
    <3> QED  BY <3>1 DEF Reported
  <2>11. a.pow = v.pow /\ a.y = v.x
    BY <1>1, <2>2, <2>7
  <2> QED  BY <2>1, <2>10, <2>11 DEF EntrySolved
<1> QED  BY <1>3, <1>4, <1>5 DEF EntryFits

\* So is the honest answer to the entry with another report.
LEMMA OwnMisreportSolves ==
    ASSUME NEW id \in Nat \ {0}, NEW v, NEW e, NEW io, NEW exp,
           EntryFits(v, e, id, io, exp),
           NEW a, a = Answer("object", v.pow, v.x, Report(v.blob)),
           NEW b \in Misreports(a), VerifiesEntry(e, b)
    PROVE  EntrySolved(v, io, b)
<1>1. /\ a.pow = v.pow /\ a.y = v.x /\ a.instr = Report(v.blob)
      /\ a.blocked = FALSE /\ a.timeout = FALSE
      /\ {"instr", "blocked", "timeout"} \subseteq DOMAIN a
      /\ "pow" \in DOMAIN a /\ "y" \in DOMAIN a
  BY DEF Answer
<1>2. b.pow = v.pow /\ b.y = v.x
  BY <1>1, MisreportFields
<1>3. ASSUME v.blob # <<>> PROVE Reported(v.blob, io, b)
  <2>1. PICK meta, blob : meta = e.instr[1] /\ blob = v.blob
    OBVIOUS
  <2>2. e.protocol = "instrumentation" /\ MetaFits(meta, blob, io, id)
    BY <1>3, <2>1 DEF EntryFits
  <2>3. CheckInstrumentation(meta, b)
    BY <2>1, <2>2 DEF VerifiesEntry
  <2>4. a.instr = Report(blob)
    BY <1>1, <2>1
  <2>5. Reported(blob, io, b)
    BY <1>1, <2>2, <2>3, <2>4, MisreportChecked
  <2> QED  BY <2>1, <2>5
<1> QED  BY <1>2, <1>3 DEF EntrySolved

\* An answer with nothing in it is never accepted.
LEMMA NothingSolves ==
    ASSUME NEW id \in Nat, NEW v, NEW e, NEW io, NEW exp, EntryFits(v, e, id, io, exp),
           NEW a, a.pow = NoPow, a.y = <<>>, a.instr = NoResult, a.blocked = FALSE,
           VerifiesEntry(e, a)
    PROVE  FALSE
<1>1. e.protocol = v.protocol /\ e.pow = v.pow /\ e.y = v.x
  BY DEF EntryFits
<1>2. CASE v.protocol = "sha256-pow"
  <2>1. v.pow.salt # <<>>
    BY <1>2 DEF EntryFits
  <2>2. NoPow.salt = v.pow.salt
    BY <1>1, <1>2 DEF VerifiesEntry, PowMatches
  <2> QED  BY <2>1, <2>2 DEF NoPow
<1>3. CASE v.protocol = "rsw"
  <2>1. v.x # <<>>
    BY <1>3 DEF EntryFits
  <2> QED  BY <1>1, <1>3, <2>1 DEF VerifiesEntry
<1>4. CASE v.protocol = "instrumentation"
  <2>1. PICK meta, blob : meta = e.instr[1] /\ blob = v.blob
    OBVIOUS
  <2>2. MetaFits(meta, blob, io, id)
    BY <1>4, <2>1 DEF EntryFits
  <2>3. CheckInstrumentation(meta, a)
    BY <1>1, <1>4, <2>1 DEF VerifiesEntry
  <2>4. a.instr.kind = "object"
    BY <2>2, <2>3, PassedReport
  <2> QED  BY <2>4 DEF NoResult
<1> QED  BY <1>2, <1>3, <1>4 DEF EntryFits

\* The entries of every format-2 challenge fit what their server expects.
LEMMA ShownEntry ==
    ASSUME HeldInv, NEW m \in Ids, held[m] # <<>>, NEW w, w = held[m][1].wire,
           V2Wire(w), NEW j \in DOMAIN w.challenges, NEW v, v = w.challenges[j]
    PROVE  \E e, io, exp : EntryFits(v, e, m, io, exp)
<1>1. ~Format1Shown(w)
  <2>1. "format" \in DOMAIN w
    BY DEF V2Wire
  <2> QED  BY <2>1 DEF Format1Shown
<1>2. SignedShown(m, held[m][1])
  BY <1>1 DEF HeldInv, StoredShown
<1>3. PICK h, t, cl : h = held[m][1] /\ t = w.token /\ cl = t.claims[1]
  OBVIOUS
<1>4. ClaimsFormat1(m, h, t, cl) \/ ClaimsV2(m, h, t, cl)
  BY <1>2, <1>3, SignedParts
<1>5. ClaimsV2(m, h, t, cl)
  BY <1>1, <1>3, <1>4 DEF ClaimsFormat1
<1>6. \A k \in DOMAIN w.challenges :
        EntryFits(w.challenges[k], cl.ev[1].plain[k], m, h.io, cl.exp)
  BY <1>3, <1>5 DEF ClaimsV2
<1>7. EntryFits(v, cl.ev[1].plain[j], m, h.io, cl.exp)
  BY <1>6
<1> QED  BY <1>7

LEMMA EntryAccepted ==
    ASSUME HeldInv, NEW id \in Ids, held[id] # <<>>, NEW h, h = held[id][1],
           NEW chs, chs = h.wire.challenges, NEW t, NEW cl, ClaimsV2(id, h, t, cl),
           NEW k \in DOMAIN chs, NEW e, e = cl.ev[1].plain[k],
           NEW a, Sent(a, id, k), VerifiesEntry(e, a)
    PROVE  EntrySolved(chs[k], h.io, a)
<1>1. PICK v, io, exp, n : v = chs[k] /\ io = h.io /\ exp = cl.exp /\ n = id
  OBVIOUS
<1>2. /\ V2Wire(h.wire) /\ EntryFits(v, e, n, io, exp) /\ n \in Nat \ {0}
      /\ \A i, j \in DOMAIN chs :
            chs[i].protocol = "sha256-pow" /\ chs[j].protocol = "sha256-pow"
              => chs[i].pow.target = chs[j].pow.target
  <2>1. V2Wire(h.wire)
    BY DEF ClaimsV2, V2Wire
  <2>2. \A i \in DOMAIN h.wire.challenges :
          EntryFits(h.wire.challenges[i], cl.ev[1].plain[i], id, h.io, cl.exp)
    BY DEF ClaimsV2
  <2>3. EntryFits(v, e, n, io, exp)
    BY <1>1, <2>2
  <2>4. \A i, j \in DOMAIN chs :
            chs[i].protocol = "sha256-pow" /\ chs[j].protocol = "sha256-pow"
              => chs[i].pow.target = chs[j].pow.target
    BY DEF ClaimsV2
  <2>5. n \in Nat \ {0}
    BY <1>1, CapPuzzleAssumption
  <2> QED  BY <2>1, <2>3, <2>4, <2>5
<1>3. a.kind = "object"
  BY DEF VerifiesEntry
<1>4. CASE Genuine(a)
  <2>1. PICK m \in Ids : EntryFrom(m, a)
    BY <1>3, <1>4 DEF Genuine
  <2>2. PICK w : w = held[m][1].wire
    OBVIOUS
  <2>3. held[m] # <<>> /\ V2Wire(w)
    BY <2>1, <2>2 DEF EntryFrom
  <2>4. PICK j \in DOMAIN w.challenges :
          a = Answer("object", w.challenges[j].pow, w.challenges[j].x,
                     Report(w.challenges[j].blob))
    BY <2>1, <2>2 DEF EntryFrom
  <2>5. PICK v2 : v2 = w.challenges[j]
    OBVIOUS
  <2>6. PICK e2, io2, exp2 : EntryFits(v2, e2, m, io2, exp2)
    BY <2>2, <2>3, <2>5, ShownEntry
  <2>7. /\ m = n /\ v.protocol = "sha256-pow" /\ v2.protocol = "sha256-pow"
        => v.pow.target = v2.pow.target
    <3>1. SUFFICES ASSUME m = n, v.protocol = "sha256-pow", v2.protocol = "sha256-pow"
                   PROVE  v.pow.target = v2.pow.target
      OBVIOUS
    <3>2. w.challenges = chs
      BY <1>1, <2>2, <3>1
    <3>3. j \in DOMAIN chs /\ v = chs[k] /\ v2 = chs[j]
      BY <1>1, <2>5, <3>2
    <3>4. \A i, l \in DOMAIN chs :
            chs[i].protocol = "sha256-pow" /\ chs[l].protocol = "sha256-pow"
              => chs[i].pow.target = chs[l].pow.target
      BY <1>2
    <3> QED  BY <3>1, <3>3, <3>4, Zenon
  <2>8. a = Answer("object", v2.pow, v2.x, Report(v2.blob)) /\ m \in Nat
    BY <2>4, <2>5, CapPuzzleAssumption
  <2>9. EntrySolved(v, io, a)
    BY <1>2, <2>6, <2>7, <2>8, HonestEntrySolves
  <2> QED  BY <1>1, <2>9
<1>5. CASE a.pow = NoPow /\ a.y = <<>> /\ a.instr = NoResult /\ a.blocked = FALSE
  BY <1>2, <1>5, NothingSolves
<1>6. CASE k \in DOMAIN Honest(id).solutions /\ a \in Misreports(Honest(id).solutions[k])
  <2>1. PICK w, b : w = h.wire /\ b = Honest(id).solutions[k]
    OBVIOUS
  <2>2. Honest(id).solutions = V2Solutions(w.challenges)
    <3>1. w = held[id][1].wire /\ DOMAIN w = {"token", "format", "challenges", "expires"}
      BY <1>2, <2>1 DEF V2Wire
    <3> QED  BY <3>1, HonestV2
  <2>3. b = V2Solutions(chs)[k]
    BY <2>1, <2>2
  <2>4. b = Answer("object", v.pow, v.x, Report(v.blob))
    BY <1>1, <2>3 DEF V2Solutions
  <2>5. a \in Misreports(b)
    BY <1>6, <2>1
  <2>6. EntrySolved(v, io, a)
    BY <1>2, <2>4, <2>5, OwnMisreportSolves
  <2> QED  BY <1>1, <2>6
<1> QED  BY <1>4, <1>5, <1>6 DEF Sent

\* What is accepted for a format-2 challenge.
LEMMA V2Solved ==
    ASSUME HeldInv, NEW id \in Ids, held[id] # <<>>, NEW h, h = held[id][1],
           NEW t, NEW cl, ClaimsV2(id, h, t, cl), NEW req \in Requests(id),
           VerifyV2(cl, req)
    PROVE  Solved(id, req)
<1>1. PICK w, chs, sols, plain, n :
        /\ w = h.wire /\ chs = w.challenges /\ sols = req.solutions
        /\ plain = cl.ev[1].plain /\ n = Len(chs)
  OBVIOUS
<1>2. /\ V2Wire(w) /\ n \in Nat /\ DOMAIN chs = 1..n /\ Len(plain) = n
  BY <1>1 DEF ClaimsV2, V2Wire
<1>3. Len(sols) = n /\ \A k \in DOMAIN sols : VerifiesEntry(plain[k], sols[k])
  BY <1>1, <1>2 DEF VerifyV2
<1>4. Len(Honest(id).solutions) = n
  <2>1. Honest(id).solutions = V2Solutions(chs)
    BY <1>1, <1>2, HonestV2 DEF V2Wire
  <2>2. PICK hs : hs = V2Solutions(chs)
    OBVIOUS
  <2>3. hs = [k \in 1..n |-> Answer("object", chs[k].pow, chs[k].x, Report(chs[k].blob))]
    BY <1>2, <2>2 DEF V2Solutions
  <2>4. Len(hs) = n
    BY <1>2, <2>3
  <2> QED  BY <2>1, <2>2, <2>4
<1>5. AllSent(sols, id)
  BY <1>1, <1>3, <1>4, RequestSent
<1>6. DOMAIN sols = 1..n /\ \A k \in 1..n : Sent(sols[k], id, k)
  BY <1>3, <1>5 DEF AllSent
<1>7. ASSUME NEW k \in 1..n PROVE EntrySolved(chs[k], h.io, sols[k])
  <2>1. PICK e, a : e = plain[k] /\ a = sols[k]
    OBVIOUS
  <2>2. Sent(a, id, k) /\ VerifiesEntry(e, a) /\ k \in DOMAIN chs
    BY <1>2, <1>3, <1>6, <2>1
  <2>3. EntrySolved(chs[k], h.io, a)
    BY <1>1, <2>1, <2>2, EntryAccepted
  <2> QED  BY <2>1, <2>3
<1>8. PICK c : c = Ch(id)
  OBVIOUS
<1>9. c.format = 2 /\ c.challenges = chs
  BY <1>1, <1>2, <1>8, HonestV2 DEF V2Wire
<1>10. ASSUME NEW k \in DOMAIN c.challenges
       PROVE  /\ req.solutions[k].pow = c.challenges[k].pow
              /\ req.solutions[k].y = c.challenges[k].x
              /\ c.challenges[k].blob # <<>> =>
                   Reported(c.challenges[k].blob, held[id][1].io, req.solutions[k])
  <2>1. EntrySolved(c.challenges[k], held[id][1].io, req.solutions[k])
    BY <1>1, <1>2, <1>7, <1>9
  <2> QED  BY <2>1 DEF EntrySolved
<1>11. c.format # 1 /\ Len(req.solutions) = Len(c.challenges)
  BY <1>1, <1>3, <1>9
<1>12. c = UnmarshalJSON(held[id][1].wire)
  BY <1>8 DEF Ch
<1> QED  BY <1>10, <1>11, <1>12 DEF Solved

-----------------------------------------------------------------------------
(* Redemptions preserve the invariant *)

\* One more redemption, of a challenge that was not spent in its time.
LEMMA AppendAccepted ==
    ASSUME PuzzleInv, NEW x, accepted' = Append(accepted, x), held' = held,
           claimed \subseteq claimed',
           \A id \in Ids : stored[id] = <<>> => stored'[id] = <<>>,
           x.id \in Ids, Spent(x.id)', x.solved,
           x.tok.scope = held[x.id][1].scope,
           \A j \in DOMAIN accepted :
              accepted[j].id = x.id => x.at >= held[x.id][1].wire.expires
    PROVE  AcceptedInv' /\ SolvedOnly' /\ OnePerChallenge'
<1>1. PICK n \in Nat : n = Len(accepted) /\ accepted = [k \in 1..n |-> accepted[k]]
  BY DEF PuzzleInv, AcceptedInv
<1>2. DOMAIN accepted = 1..n
  BY <1>1
<1>3. /\ Len(accepted') = n + 1 /\ DOMAIN accepted' = 1..(n + 1)
      /\ accepted' = [k \in 1..(n + 1) |-> accepted'[k]]
      /\ accepted'[n + 1] = x /\ \A k \in 1..n : accepted'[k] = accepted[k]
  <2>1. PICK S : S = {accepted[k] : k \in 1..n} \cup {x}
    OBVIOUS
  <2>2. accepted \in Seq(S) /\ x \in S
    BY <1>1, <2>1, FunctionIsSeq
  <2>3. /\ Append(accepted, x) \in Seq(S) /\ Len(Append(accepted, x)) = n + 1
        /\ \A k \in 1..n : Append(accepted, x)[k] = accepted[k]
        /\ Append(accepted, x)[n + 1] = x
    BY <1>1, <2>2, AppendProperties
  <2>4. /\ DOMAIN Append(accepted, x) = 1..(n + 1)
        /\ Append(accepted, x) = [k \in 1..(n + 1) |-> Append(accepted, x)[k]]
    <3>1. PICK f : f = Append(accepted, x)
      OBVIOUS
    <3>2. f \in Seq(S) /\ Len(f) = n + 1
      BY <2>3, <3>1
    <3>3. f \in [1..Len(f) -> S] /\ DOMAIN f = 1..Len(f)
      BY <3>2, LenProperties
    <3> QED  BY <3>1, <3>2, <3>3
  <2> QED  BY <2>3, <2>4
<1>4. ASSUME NEW k \in 1..(n + 1) PROVE k = n + 1 \/ k \in 1..n
  BY <1>1
<1>5. ASSUME NEW k \in 1..n
      PROVE  /\ accepted[k].id \in Ids /\ Spent(accepted[k].id)'
             /\ accepted[k].solved
             /\ accepted[k].tok.scope = held[accepted[k].id][1].scope
  <2>1. PICK id \in Ids : id = accepted[k].id /\ Spent(id) /\ held[id] # <<>>
    BY <1>2 DEF PuzzleInv, AcceptedInv, Spent
  <2>2. stored[id] = <<>> => stored'[id] = <<>>
    BY <2>1
  <2>3. Spent(id)'
    BY <2>1, <2>2 DEF Spent
  <2>4. accepted'[k].id = id
    BY <1>3, <2>1
  <2> QED  BY <1>2, <1>3, <2>1, <2>3, <2>4 DEF PuzzleInv, SolvedOnly, Spent
<1>6. AcceptedInv'
  <2>1. ASSUME NEW k \in 1..(n + 1)
        PROVE  accepted'[k].id \in Ids /\ Spent(accepted[k].id)'
    <3>1. CASE k = n + 1
      BY <1>3, <3>1 DEF Spent
    <3>2. CASE k \in 1..n
      BY <1>3, <1>5, <3>2
    <3> QED  BY <1>4, <3>1, <3>2
  <2>2. \A k \in DOMAIN accepted' : accepted'[k].id \in Ids /\ Spent(accepted[k].id)'
    BY <1>3, <2>1
  <2>3. /\ Len(accepted') \in Nat
        /\ accepted' = [k \in 1..Len(accepted') |-> accepted'[k]]
    <3>1. n + 1 \in Nat /\ Len(accepted') = n + 1
      BY <1>1, <1>3
    <3>2. accepted' = [k \in 1..(n + 1) |-> accepted'[k]]
      BY <1>3
    <3> QED  BY <3>1, <3>2
  <2> QED  BY <2>2, <2>3 DEF AcceptedInv
<1>7. SolvedOnly'
  BY <1>3, <1>4, <1>5 DEF SolvedOnly
<1>8. OnePerChallenge'
  <2>1. ASSUME NEW j \in 1..(n + 1), NEW k \in 1..(n + 1), j < k,
               accepted'[j].id = accepted'[k].id
        PROVE  accepted'[k].at >= held'[accepted'[k].id][1].wire.expires
    <3>1. j \in 1..n
      BY <1>1, <2>1
    <3>2. CASE k = n + 1
      BY <1>2, <1>3, <2>1, <3>1, <3>2
    <3>3. CASE k \in 1..n
      BY <1>2, <1>3, <2>1, <3>1, <3>3 DEF PuzzleInv, OnePerChallenge
    <3> QED  BY <1>4, <3>2, <3>3
  <2> QED  BY <1>3, <2>1 DEF OnePerChallenge
<1> QED  BY <1>6, <1>7, <1>8

\* What is recorded of a redemption.
LEMMA RedeemedFields ==
    ASSUME NEW req, NEW scope, NEW iat, NEW x,
           x = Redeemed(req, IssueToken(scope, iat)), Solved(req.token.id, req)
    PROVE  x.id = req.token.id /\ x.at = clock /\ x.tok.scope = scope /\ x.solved
<1>1. PICK tok : tok = IssueToken(scope, iat)
  OBVIOUS
<1>2. tok.scope = scope
  BY <1>1 DEF IssueToken
<1>3. x = [id |-> req.token.id, at |-> clock, tok |-> tok,
           solved |-> Solved(req.token.id, req)]
  BY <1>1 DEF Redeemed
<1> QED  BY <1>2, <1>3

\* What is accepted before gives no second token of the same record.
LEMMA SpentBefore ==
    ASSUME PuzzleInv, NEW j \in DOMAIN accepted, NEW id, accepted[j].id = id
    PROVE  Spent(id)
BY DEF PuzzleInv, AcceptedInv

LEMMA RedeemStoredKeeps ==
    ASSUME PuzzleInv, NEW id \in Ids, held[id] # <<>>, NEW scope,
           NEW req \in Requests(id), RedeemStored(req, scope)
    PROVE  PuzzleInv'
<1>1. PICK h, w, rec : h = held[id][1] /\ w = h.wire /\ rec = stored[id][1]
  OBVIOUS
<1>2. HeldInv /\ OptsInv
  BY DEF PuzzleInv
<1>3. req.token.id = id /\ req.token.kind \in {TokenOf(id).kind, "text"}
  BY <1>2, RequestToken
<1>4. /\ UNCHANGED <<deployment, opts, starts, clock, claimed, reused, held>>
      /\ stored' = IF WellFormedStored(req) THEN [stored EXCEPT ![id] = <<>>] ELSE stored
      /\ accepted' = IF StoredAccepts(req, scope)
                     THEN Append(accepted, Redeemed(req, IssueToken(rec.scope, 0)))
                     ELSE accepted
  BY <1>1, <1>3 DEF RedeemStored
<1>5. ASSUME WellFormedStored(req)
      PROVE  TokenOf(id).kind = "hex" /\ StoredShown(id, h, stored[id])
  <2>1. req.token.kind = "hex"
    BY <1>5 DEF WellFormedStored
  <2>2. TokenOf(id).kind = "hex"
    BY <1>3, <2>1
  <2> QED  BY <1>1, <1>2, <2>2, HeldCases
<1>6. /\ DOMAIN stored' = Ids
      /\ \A k \in Ids : stored'[k] = stored[k] \/ (k = id /\ stored'[k] = <<>>)
      /\ (WellFormedStored(req) => stored'[id] = <<>>)
  BY <1>2, <1>4 DEF HeldInv
<1>7. OptsInv'
  BY <1>2, <1>4 DEF OptsInv, Opts
<1>8. HeldInv'
  <2>1. ASSUME NEW k \in Ids, held[k] # <<>>
        PROVE  \/ StoredShown(k, held[k][1], stored'[k])
               \/ SignedShown(k, held[k][1]) /\ stored'[k] = <<>>
    <3>1. CASE stored'[k] = stored[k]
      BY <1>2, <2>1, <3>1 DEF HeldInv
    <3>2. CASE stored'[k] = <<>>
      BY <1>2, <2>1, <3>2 DEF HeldInv, StoredShown
    <3> QED  BY <1>6, <3>1, <3>2
  <2>2. held' = held /\ DOMAIN held = Ids
    BY <1>2, <1>4 DEF HeldInv
  <2> QED  BY <1>6, <2>1, <2>2 DEF HeldInv
<1>9. CASE StoredAccepts(req, scope)
  <2>1. /\ WellFormedStored(req) /\ stored[id] # <<>> /\ VerifiesStored(req, scope, rec)
    BY <1>1, <1>3, <1>9 DEF StoredAccepts
  <2>2. /\ TokenOf(id).kind = "hex" /\ Format1Shown(w)
        /\ rec.pow = w.challenge /\ rec.scope = h.scope
        /\ InstrFits(rec.instr, w.instrumentation, h.io, id)
    BY <1>1, <1>5, <2>1 DEF StoredShown
  <2>3. /\ ParsesFormat1(req) /\ VerifyFormat1(req.token, w.challenge, req.solutions)
        /\ rec.instr # <<>> => CheckInstrumentation(rec.instr[1], req)
    BY <2>1, <2>2 DEF WellFormedStored, VerifiesStored
  <2>4. w.instrumentation # <<>> =>
          \E meta : /\ MetaFits(meta, w.instrumentation, held[id][1].io, id)
                    /\ CheckInstrumentation(meta, req)
    BY <1>1, <2>2, <2>3 DEF InstrFits
  <2>5. Solved(id, req)
    BY <1>1, <1>2, <2>2, <2>3, <2>4, Format1Solved
  <2>6. PICK x, sc : x = Redeemed(req, IssueToken(sc, 0)) /\ sc = rec.scope
    OBVIOUS
  <2>7. x.id = id /\ x.at = clock /\ x.tok.scope = sc /\ x.solved
    BY <1>3, <2>5, <2>6, RedeemedFields
  <2>8. accepted' = Append(accepted, x)
    BY <1>4, <1>9, <2>6
  <2>9. Spent(id)'
    BY <1>4, <1>6, <2>1, <2>2 DEF Spent, TokenOf
  <2>10. Spent(x.id)' /\ x.tok.scope = held[x.id][1].scope
    BY <1>1, <2>2, <2>6, <2>7, <2>9
  <2>11. ASSUME NEW j \in DOMAIN accepted, accepted[j].id = x.id PROVE FALSE
    <3>1. Spent(id)
      BY <2>7, <2>11, SpentBefore
    <3> QED  BY <2>1, <2>2, <3>1 DEF Spent, TokenOf
  <2>12. \A k \in Ids : stored[k] = <<>> => stored'[k] = <<>>
    BY <1>6
  <2>13. AcceptedInv' /\ SolvedOnly' /\ OnePerChallenge'
    BY <1>4, <2>7, <2>8, <2>10, <2>11, <2>12, AppendAccepted
  <2> QED  BY <1>7, <1>8, <2>13 DEF PuzzleInv
<1>10. CASE ~StoredAccepts(req, scope)
  <2>1. accepted' = accepted /\ claimed \subseteq claimed'
    BY <1>4, <1>10
  <2>2. \A k \in Ids : held[k] # <<>> =>
           held'[k] = held[k] /\ (stored[k] = <<>> => stored'[k] = <<>>)
    BY <1>4, <1>6
  <2>3. AcceptedInv' /\ SolvedOnly' /\ OnePerChallenge'
    BY <2>1, <2>2, AcceptedStays
  <2> QED  BY <1>7, <1>8, <2>3 DEF PuzzleInv
<1> QED  BY <1>9, <1>10

\* A signed challenge whose token verifies was solved.
LEMMA SignedSolved ==
    ASSUME HeldInv, NEW id \in Ids, held[id] # <<>>, NEW h, h = held[id][1],
           SignedShown(id, h), NEW cl, cl = h.wire.token.claims[1],
           NEW req \in Requests(id), req.token.claims[1] = cl,
           NEW scope, VerifiesSigned(req, scope)
    PROVE  Solved(id, req)
<1>1. PICK w, t : w = h.wire /\ t = w.token
  OBVIOUS
<1>2. ClaimsFormat1(id, h, t, cl) \/ ClaimsV2(id, h, t, cl)
  BY <1>1, SignedParts
<1>3. IF cl.f = 2 THEN VerifyV2(cl, req)
      ELSE /\ ParsesFormat1(req)
           /\ VerifyFormat1(req.token, cl.pow, req.solutions)
           /\ cl.ei # <<>> => CheckInstrumentation(cl.ei[1].plain, req)
  BY DEF VerifiesSigned
<1>4. CASE ClaimsFormat1(id, h, t, cl)
  <2>1. /\ cl.f = 0 /\ Format1Shown(w) /\ cl.pow = w.challenge
        /\ w.instrumentation # <<>> =>
             cl.ei # <<>> /\ MetaFits(cl.ei[1].plain, w.instrumentation, h.io, id)
    BY <1>1, <1>4 DEF ClaimsFormat1
  <2>2. /\ ParsesFormat1(req) /\ VerifyFormat1(req.token, w.challenge, req.solutions)
        /\ cl.ei # <<>> => CheckInstrumentation(cl.ei[1].plain, req)
    <3>1. cl.f # 2 /\ cl.pow = w.challenge
      BY <2>1
    <3>2. /\ ParsesFormat1(req)
          /\ VerifyFormat1(req.token, cl.pow, req.solutions)
          /\ cl.ei # <<>> => CheckInstrumentation(cl.ei[1].plain, req)
      BY <1>3, <3>1, Zenon
    <3> QED  BY <3>1, <3>2, Zenon
  <2>3. w.instrumentation # <<>> =>
          \E meta : /\ MetaFits(meta, w.instrumentation, held[id][1].io, id)
                    /\ CheckInstrumentation(meta, req)
    BY <2>1, <2>2
  <2> QED  BY <1>1, <2>1, <2>2, <2>3, Format1Solved
<1>5. CASE ClaimsV2(id, h, t, cl)
  <2>1. cl.f = 2
    BY <1>5 DEF ClaimsV2
  <2>2. VerifyV2(cl, req)
    BY <1>3, <2>1
  <2> QED  BY <1>5, <2>2, V2Solved
<1> QED  BY <1>2, <1>4, <1>5

LEMMA RedeemSignedKeeps ==
    ASSUME PuzzleInv, NEW id \in Ids, held[id] # <<>>, NEW scope,
           NEW req \in Requests(id), RedeemSigned(req, scope)
    PROVE  PuzzleInv'
<1>1. PICK h, w, t, cl : h = held[id][1] /\ w = h.wire /\ t = w.token /\ cl = t.claims[1]
  OBVIOUS
<1>2. HeldInv /\ OptsInv
  BY DEF PuzzleInv
<1>3. /\ req.token.id = id /\ req.token.claims[1] = cl
      /\ req.token.kind \in {TokenOf(id).kind, "text"}
  BY <1>1, <1>2, RequestToken DEF TokenOf
<1>4. PICK ok \in BOOLEAN : ok <=> VerifiesSigned(req, scope) /\ ClaimsNonce(req.token)
  OBVIOUS
<1>5. /\ UNCHANGED <<deployment, opts, starts, clock, stored, reused, held>>
      /\ req.token.kind = "jwt"
      /\ claimed' = IF ok THEN claimed \cup {<<id>>} ELSE claimed
      /\ accepted' = IF ok THEN Append(accepted, Redeemed(req, IssueToken(cl.sk, cl.iat)))
                     ELSE accepted
  BY <1>3, <1>4 DEF RedeemSigned, NonceKey
<1>6. OptsInv' /\ HeldInv'
  BY <1>2, <1>5 DEF OptsInv, Opts, HeldInv
<1>7. claimed \subseteq claimed'
  BY <1>5
<1>8. CASE ok
  <2>1. TokenOf(id).kind = "jwt"
    BY <1>3, <1>5
  <2>2. SignedShown(id, h)
    BY <1>1, <1>2, <2>1, HeldCases
  <2>3. cl.sk = h.scope /\ cl.exp = w.expires /\ cl.exp \in Nat /\ clock \in Nat
    BY <1>1, <1>2, <2>2, SignedParts DEF OptsInv
  <2>4. VerifiesSigned(req, scope) /\ ClaimsNonce(req.token)
    BY <1>4, <1>8
  <2>5. Solved(id, req)
    BY <1>1, <1>2, <1>3, <2>2, <2>4, SignedSolved
  <2>6. PICK x, sc, iat : x = Redeemed(req, IssueToken(sc, iat)) /\ sc = cl.sk /\ iat = cl.iat
    OBVIOUS
  <2>7. x.id = id /\ x.at = clock /\ x.tok.scope = sc /\ x.solved
    BY <1>3, <2>5, <2>6, RedeemedFields
  <2>8. accepted' = Append(accepted, x)
    BY <1>5, <1>8, <2>6
  <2>9. Spent(id)'
    <3>1. <<id>> \in claimed' /\ held'[id] = held[id]
      BY <1>5, <1>8
    <3>2. held[id][1].wire.token.kind # "hex"
      BY <2>1 DEF TokenOf
    <3> QED  BY <3>1, <3>2 DEF Spent
  <2>10. Spent(x.id)' /\ x.tok.scope = held[x.id][1].scope
    BY <1>1, <2>3, <2>6, <2>7, <2>9
  <2>11. ASSUME NEW j \in DOMAIN accepted, accepted[j].id = x.id
         PROVE  x.at >= held[x.id][1].wire.expires
    <3>1. Spent(id)
      BY <2>7, <2>11, SpentBefore
    <3>2. held[id][1].wire.token.kind # "hex"
      BY <2>1 DEF TokenOf
    <3>3. <<id>> \in claimed
      BY <3>1, <3>2 DEF Spent
    <3>4. cl.exp <= clock
      BY <1>3, <2>4, <3>3 DEF ClaimsNonce, NonceKey
    <3> QED  BY <1>1, <2>3, <2>7, <3>4
  <2>12. \A k \in Ids : stored[k] = <<>> => stored'[k] = <<>>
    BY <1>5
  <2>13. AcceptedInv' /\ SolvedOnly' /\ OnePerChallenge'
    BY <1>5, <1>7, <2>7, <2>8, <2>10, <2>11, <2>12, AppendAccepted
  <2> QED  BY <1>6, <2>13 DEF PuzzleInv
<1>9. CASE ~ok
  <2>1. accepted' = accepted
    BY <1>5, <1>9
  <2>2. \A k \in Ids : held[k] # <<>> =>
           held'[k] = held[k] /\ (stored[k] = <<>> => stored'[k] = <<>>)
    BY <1>5
  <2>3. AcceptedInv' /\ SolvedOnly' /\ OnePerChallenge'
    BY <1>7, <2>1, <2>2, AcceptedStays
  <2> QED  BY <1>6, <2>3 DEF PuzzleInv
<1> QED  BY <1>8, <1>9

-----------------------------------------------------------------------------
(* The theorems *)

LEMMA PuzzleInit ==
    ASSUME Init PROVE PuzzleInv
<1>1. OptsInv
  BY DEF Init, OptsInv
<1>2. HeldInv
  BY DEF Init, HeldInv
<1>3. Len(accepted) = 0 /\ DOMAIN accepted = {} /\ accepted = [k \in 1..0 |-> accepted[k]]
  BY DEF Init
<1>4. AcceptedInv
  BY <1>3 DEF AcceptedInv
<1>5. SolvedOnly /\ OnePerChallenge
  BY <1>3 DEF SolvedOnly, OnePerChallenge
<1> QED  BY <1>1, <1>2, <1>4, <1>5 DEF PuzzleInv

LEMMA PuzzleStep ==
    ASSUME PuzzleInv, [Next]_vars PROVE PuzzleInv'
<1>1. ASSUME NEW c \in deployment.configs, New(c) PROVE PuzzleInv'
  BY <1>1, NewKeeps
<1>2. ASSUME NEW o \in deployment.calls, NEW id \in Ids, NEW gen, Issue(o, id, gen)
      PROVE  PuzzleInv'
  BY <1>2, IssueKeeps
<1>3. ASSUME NEW id \in Ids, Reuse(id) PROVE PuzzleInv'
  <2>1. /\ clock' \in Nat
        /\ UNCHANGED <<deployment, opts, stored, claimed, held, accepted>>
    BY <1>3 DEF Reuse, PuzzleInv, OptsInv
  <2> QED  BY <2>1, OthersKeep
<1>4. ASSUME NEW id \in Ids, held[id] # <<>>, NEW scope, NEW req \in Requests(id),
             RedeemStored(req, scope) \/ RedeemSigned(req, scope)
      PROVE  PuzzleInv'
  BY <1>4, RedeemStoredKeeps, RedeemSignedKeeps
<1>5. CASE Tick
  <2>1. /\ clock' \in Nat
        /\ UNCHANGED <<deployment, opts, stored, claimed, held, accepted>>
    BY <1>5 DEF Tick, PuzzleInv, OptsInv
  <2> QED  BY <2>1, OthersKeep
<1>6. CASE UNCHANGED vars
  <2>1. /\ clock' \in Nat
        /\ UNCHANGED <<deployment, opts, stored, claimed, held, accepted>>
    BY <1>6 DEF vars, PuzzleInv, OptsInv
  <2> QED  BY <2>1, OthersKeep
<1> QED  BY <1>1, <1>2, <1>3, <1>4, <1>5, <1>6 DEF Next

\* What the server keeps of a challenge asks for exactly what the client was
\* shown of it, and a redemption leaves its mark for good: the inductive
\* invariant of Challenge and Redeem under every deployment.
THEOREM PuzzleInvariant == Spec => []PuzzleInv
<1>1. Init => PuzzleInv
  BY PuzzleInit
<1>2. PuzzleInv /\ [Next]_vars => PuzzleInv'
  BY PuzzleStep
<1> QED  BY <1>1, <1>2, PTL DEF Spec

\* A token is only given for the work that its client was shown, in the
\* scope the challenge was asked for (verifyFormat1, verifyV2,
\* checkInstrumentation, issueToken).
THEOREM OnlySolved == Spec => []SolvedOnly
<1>1. PuzzleInv => SolvedOnly
  BY DEF PuzzleInv
<1> QED  BY <1>1, PuzzleInvariant, PTL

\* A challenge gives one token in its time, in whatever spelling its token is
\* sent (redeemStored takes the record, redeemSigned claims the signature).
THEOREM OncePerChallenge == Spec => []OnePerChallenge
<1>1. PuzzleInv => OnePerChallenge
  BY DEF PuzzleInv
<1> QED  BY <1>1, PuzzleInvariant, PTL

\* Honest work on a challenge that is still there passes Redeem, under every
\* configuration, generator and history.
THEOREM HonestNeverRefused == Spec => []HonestRedeems
<1>1. ASSUME PuzzleInv PROVE HonestRedeems
  <2>1. ASSUME NEW id \in Ids, Redeemable(id), NEW scope \in {Empty, held[id][1].scope}
        PROVE  StoredAccepts(Honest(id), scope) \/ VerifiesSigned(Honest(id), scope)
    <3>1. HeldInv /\ held[id] # <<>>
      BY <1>1, <2>1 DEF PuzzleInv, Redeemable
    <3>2. TokenOf(id).kind = "hex" \/ TokenOf(id).kind = "jwt"
      BY <3>1, HeldCases
    <3> QED  BY <1>1, <2>1, <3>2, HonestStored, HonestSigned
  <2> QED  BY <2>1 DEF HonestRedeems
<1> QED  BY <1>1, PuzzleInvariant, PTL
=============================================================================
