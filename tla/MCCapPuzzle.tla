---------------------------- MODULE MCCapPuzzle ----------------------------
(* Options and calls for model-checking CapPuzzle. *)
EXTENDS CapPuzzleInv

Pow(c, s, d) == [count |-> c, size |-> s, difficulty |-> d]
Defaults == Pow(1, 2, 1)
Limits   == Pow(2, 2, 2)

\* Options and ChallengeOptions with nothing set.
Zero ==
    [secret |-> "", format |-> 0, stateless |-> FALSE, pow |-> Pow(0, 0, 0),
     ttl |-> 0, tokenTTL |-> 0, iterations |-> 0, keypair |-> "none",
     protocols |-> <<>>, instr |-> <<>>, generator |-> FALSE,
     signToken |-> FALSE, verifyToken |-> FALSE]
Plain ==
    [scope |-> "", format |-> 0, stateless |-> <<>>, pow |-> Pow(0, 0, 0),
     ttl |-> 0, protocols |-> <<>>, instr |-> <<>>, disable |-> FALSE,
     generator |-> FALSE]

Probe(block, ttl) == <<[block |-> block, ttl |-> ttl]>>
Signing == [Zero EXCEPT !.secret = "s1", !.keypair = "good"]

\* Format 1, stored and signed, and a restart with other defaults or with
\* another secret; New refuses the last two.
Format1Options ==
    {[Signing EXCEPT !.instr = Probe(FALSE, 1)],
     [Signing EXCEPT !.stateless = TRUE, !.pow = Pow(2, 1, 2)],
     [Signing EXCEPT !.secret = "s2", !.format = 2],
     [Zero EXCEPT !.secret = "short"],
     [Zero EXCEPT !.pow = Pow(3, 1, 1)]}
Format1Calls ==
    {[Plain EXCEPT !.scope = "login"],
     [Plain EXCEPT !.stateless = <<TRUE>>, !.format = 1, !.instr = Probe(TRUE, 0)],
     [Plain EXCEPT !.stateless = <<FALSE>>, !.format = 1, !.pow = Pow(2, 0, 2),
                   !.disable = TRUE],
     [Plain EXCEPT !.format = 1, !.pow = Pow(0, 3, 0)]}

\* Format 2 with every protocol, alone and together.
Format2Options ==
    {[Signing EXCEPT !.format = 2],
     [Signing EXCEPT !.format = 2, !.instr = Probe(TRUE, 2),
                     !.pow = Pow(2, 1, 2), !.signToken = TRUE, !.verifyToken = TRUE],
     [Zero EXCEPT !.secret = "s1"]}
Format2Calls ==
    {[Plain EXCEPT !.scope = "login"],
     [Plain EXCEPT !.format = 2, !.protocols = <<"sha256-pow", "rsw">>],
     [Plain EXCEPT !.format = 2, !.protocols = <<"instrumentation", "rsw", "rsw">>,
                   !.disable = TRUE, !.ttl = 1]}

\* A custom generator, in every format, and its mistakes.
GeneratorOptions ==
    {[Signing EXCEPT !.instr = Probe(FALSE, 0), !.generator = TRUE]}
GeneratorCalls ==
    {Plain,
     [Plain EXCEPT !.stateless = <<TRUE>>, !.instr = Probe(TRUE, 0)],
     [Plain EXCEPT !.format = 2]}
Everything ==
    {"ok", "cancelled", "error", "nil", "noblob", "noid", "novars", "short",
     "twice", "unnamed", "policy", "noexpiry"}

\* A signed challenge with instrumentation that should expire first.
TTLOptions == {[Signing EXCEPT !.instr = Probe(FALSE, 1)]}
TTLCalls   == {[Plain EXCEPT !.stateless = <<TRUE>>]}

Services ==
    {Deployment(Format1Options, Format1Calls, {"ok", "cancelled"}, {"", "login"}),
     Deployment(Format2Options, Format2Calls, {"ok", "cancelled"}, {""}),
     Deployment(GeneratorOptions, GeneratorCalls, Everything, {""})}

ShortProbes == {Deployment(TTLOptions, TTLCalls, {"ok"}, {""})}
=============================================================================
