-------------------------------- MODULE Prng --------------------------------
(***************************************************************************)
(* prng.go: the salts and targets of format 1, derived from the text of a  *)
(* token. The widget hashes token + index, and token + index + "d", from   *)
(* the start; the server resumes the hash of the token. The arithmetic is  *)
(* the code's with words of Width bits and smaller constants.              *)
(*                                                                         *)
(* Tokens grow by one code unit per step, so that a run visits all of      *)
(* them up to a length.                                                    *)
(***************************************************************************)
EXTENDS Integers, Sequences, SequencesExt

CONSTANTS
    XorOp(_, _),        \* of the bits of natural numbers
    Width,              \* bits of a word, a multiple of 4
    OffsetBasis, Prime, \* of the FNV hash
    Shifts,             \* <<13, 17, 5>> for 32 bits
    Units,              \* UTF-16 code units of tokens
    UnitD,              \* the code unit of "d"
    MaxLen,             \* bound on the length of a token
    MaxIndex,           \* bound on the index of a puzzle
    MaxDigits           \* bound on salt and target lengths

\* A word has a digit at least, and an index is at most MaxChallengeCount.
DigitsFit == Width \in Nat /\ Width \div 4 >= 1 /\ MaxIndex <= 1000

VARIABLE token          \* a sequence of code units

Modulo(n) == n % (2 ^ Width)

\* h ^= unit; h *= 16777619
Mix(h, unit) == Modulo(XorOp(h, unit) * Prime)

Fnv1a32Resume(state, input) ==
    LET h[k \in 0..Len(input)] ==
          IF k = 0 THEN state ELSE Mix(h[k - 1], input[k])
    IN  h[Len(input)]

Fnv1a32(seed) == Fnv1a32Resume(OffsetBasis, seed)

\* The three xorshifts that make the next word.
NextWord(s) ==
    LET a == XorOp(s, Modulo(s * 2 ^ Shifts[1]))
        b == XorOp(a, a \div 2 ^ Shifts[2])
    IN  XorOp(b, Modulo(b * 2 ^ Shifts[3]))

\* %08x: the hex digits of a word.
Hex(word) ==
    [k \in 1..(Width \div 4) |-> (word \div 16 ^ (Width \div 4 - k)) % 16]

\* A bug: the last digits are taken instead of the first.
FirstDigitsLast(digits, length) ==
    SubSeq(digits, Len(digits) - length + 1, Len(digits))

FirstDigits(digits, length) == SubSeq(digits, 1, length)

\* One round of the loop: the state and the text so far, for length digits.
Round(s, length) ==
    IF Len(s.out) >= length THEN s
    ELSE LET next == NextWord(s.state)
         IN  [state |-> next, out |-> s.out \o Hex(next)]

\* Every round adds a digit or more, so there are length of them at most.
PrngFromHash(state, length) ==
    LET at[k \in 0..length] ==
          IF k = 0 THEN [state |-> state, out |-> <<>>]
          ELSE Round(at[k - 1], length)
    IN  FirstDigits(at[length].out, length)

PRNG(seed, length) == PrngFromHash(Fnv1a32(seed), length)

\* fmt.Sprint(index): decimal digits, four at most, as code units.
Sprint(index) ==
    LET n == IF index < 10 THEN 1 ELSE IF index < 100 THEN 2
             ELSE IF index < 1000 THEN 3 ELSE 4
    IN  [k \in 1..n |-> 48 + ((index \div 10 ^ (n - k)) % 10)]

\* A bug: the target is resumed from the hash of the token alone.
TargetStateShort(text, index) == Fnv1a32Resume(Fnv1a32(text), <<UnitD>>)

TargetState(text, index) ==
    Fnv1a32Resume(Fnv1a32Resume(Fnv1a32(text), Sprint(index)), <<UnitD>>)

Format1Pair(text, index, size, difficulty) ==
    [salt |-> PrngFromHash(Fnv1a32Resume(Fnv1a32(text), Sprint(index)), size),
     target |-> PrngFromHash(TargetState(text, index), difficulty)]

Init == token = <<>>

Extend ==
    /\ Len(token) < MaxLen
    /\ \E unit \in Units : token' = Append(token, unit)

Full == Len(token) = MaxLen /\ UNCHANGED token

Next == Extend \/ Full

Spec == Init /\ [][Next]_token

-----------------------------------------------------------------------------

\* The server's puzzles are the widget's: "salt PRNG(token+i, size) and
\* target PRNG(token+i+"d", difficulty)".
ServerMatchesWidget ==
    \A index \in 1..MaxIndex, n \in 1..MaxDigits :
        Format1Pair(token, index, n, n) =
            [salt   |-> PRNG(token \o Sprint(index), n),
             target |-> PRNG(token \o Sprint(index) \o <<UnitD>>, n)]

\* A longer target of the same puzzle begins with the shorter ones, across
\* the words of the stream: an answer to a harder puzzle also answers the
\* easier one, and CapPuzzle may name a target by its length.
LongerIsHarder ==
    \A index \in 1..MaxIndex, n \in 1..(MaxDigits - 1) :
        IsPrefix(PrngFromHash(TargetState(token, index), n),
                 PrngFromHash(TargetState(token, index), n + 1))
=============================================================================
