------------------------------- MODULE Derived -------------------------------
(***************************************************************************)
(* What server and client compute apart from each other has to agree: the  *)
(* squarings of rsw.go, the random program and the string table of         *)
(* instrumentation.go and the salts and targets of prng.go.                *)
(*                                                                         *)
(* These parts share no state. A behaviour is one of a single part, chosen *)
(* at the start; the variables of the others rest.                         *)
(***************************************************************************)
EXTENDS Integers, Sequences

CONSTANTS
    AndOp(_, _), OrOp(_, _), XorOp(_, _),
    Workers, Serialized, Counts, Bases, Scalars, MinBits,
    MaxPuzzles, MaxStarts, MaxResets,                           \* Rsw
    Half, Chain, SumModulus, Names, InitVals, Keys, Steps,
    Salts, Spread, Offset,                                      \* InstrProgram
    Values, MaxPieces,                                          \* StringTable
    Width, OffsetBasis, Prime, Shifts, Units, UnitD,
    MaxLen, MaxIndex, MaxDigits                                 \* Prng

VARIABLES
    part,           \* the part that runs
    key, count, minters, using, puzzles, starts, resets,
    server, client, left, salted,
    script, values, index, i, out,
    token

rswVars     == <<key, count, minters, using, puzzles, starts, resets>>
programVars == <<server, client, left, salted>>
tableVars   == <<script, values, index, i, out>>

R == INSTANCE Rsw
I == INSTANCE InstrProgram
T == INSTANCE StringTable
P == INSTANCE Prng

ASSUME DerivedAssumption ==
    /\ R!KeysFit
    /\ I!Fitting
    /\ I!BitsFit
    /\ P!DigitsFit

NoProgram == server = <<>> /\ client = <<>> /\ left = 0 /\ salted = {}
NoScript == script = <<>> /\ values = <<>> /\ index = <<>> /\ i = 0 /\ out = <<>>

NoToken   == token = <<>>

Init ==
    \/ part = "rsw"     /\ R!Init /\ NoProgram /\ NoScript /\ NoToken
    \/ part = "program" /\ R!Init /\ I!Init    /\ NoScript /\ NoToken
    \/ part = "table"   /\ R!Init /\ NoProgram /\ T!Init   /\ NoToken
    \/ part = "prng"    /\ R!Init /\ NoProgram /\ NoScript /\ P!Init

Next ==
    /\ UNCHANGED part
    /\ \/ part = "rsw"     /\ R!Next /\ UNCHANGED <<programVars, tableVars, token>>
       \/ part = "program" /\ I!Next /\ UNCHANGED <<rswVars, tableVars, token>>
       \/ part = "table"   /\ T!Next /\ UNCHANGED <<rswVars, programVars, token>>
       \/ part = "prng"    /\ P!Next /\ UNCHANGED <<rswVars, programVars, tableVars>>

derivedVars == <<part, rswVars, programVars, tableVars, token>>

Spec == Init /\ [][Next]_derivedVars

\* The y a minter publishes through the trapdoor is what SolveRSW finds.
TrapdoorAgrees == part = "rsw" => R!TrapdoorAgrees

\* Whatever Reset and New do to the cache of minters (rswMinter in cap.go),
\* goroutines mint for their options.
MinterFitsOptions == part = "rsw" => R!MinterFitsOptions

\* GenerateInstrumentation expects the values the script computes.
ScriptAgrees == part = "program" => I!ScriptAgrees

\* obfuscateStrings keeps the meaning of a script.
SameScript == part = "table" => T!SameScript

\* format1Pair derives the puzzles that the widget derives.
ServerMatchesWidget == part = "prng" => P!ServerMatchesWidget

\* A longer target of prngFromHash extends the shorter ones.
LongerIsHarder == part = "prng" => P!LongerIsHarder
=============================================================================
