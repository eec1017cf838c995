----------------------------- MODULE StringTable -----------------------------
(***************************************************************************)
(* obfuscateStrings of instrumentation.go: every string literal of a       *)
(* script is moved into a table, the table is shuffled and the literals    *)
(* become references into it.                                              *)
(*                                                                         *)
(* A script is the sequence of pieces that the scan cuts it into: code,    *)
(* literals that decodeJSString can read, and quotes that open none; these *)
(* stay as they are and the scan goes on behind them. The shuffle takes a  *)
(* step per exchange, with any random index.                               *)
(***************************************************************************)
EXTENDS Integers, Sequences, FiniteSets, SequencesExt

CONSTANTS
    Values,         \* values of string literals
    MaxPieces       \* bound on the length of a script

Pieces  == [kind: {"literal", "unreadable"}, value: Values]
             \cup [kind: {"code"}, value: {0}]
Scripts == BoundedSeq(Pieces, MaxPieces)

VARIABLES
    script,     \* the script before
    values,     \* the table
    index,      \* the map from a value to its place in the table
    i,          \* the loop variable of shuffleStrings, 1-based
    out         \* the script after, or <<>> until it is written

vars == <<script, values, index, i, out>>

\* The values of the literals, each once, in the order they are met.
Collected(s) ==
    LET step[k \in 0..Len(s)] ==
          IF k = 0 THEN <<>>
          ELSE IF \/ s[k].kind # "literal"
                  \/ Contains(step[k - 1], s[k].value)
               THEN step[k - 1]
          ELSE Append(step[k - 1], s[k].value)
    IN  step[Len(s)]

IndexOf(table) ==
    [v \in ToSet(table) |-> CHOOSE k \in DOMAIN table : table[k] = v]

Init ==
    /\ script \in Scripts
    /\ values = Collected(script)
    /\ index = IndexOf(values)
    /\ i = Len(values)
    /\ out = <<>>

\* shuffleStrings: items[i], items[j] = items[j], items[i]
Shuffle ==
    /\ i > 1
    /\ \E j \in 1..i : values' =
         [values EXCEPT ![i] = values[j], ![j] = values[i]]
    /\ i' = i - 1
    /\ UNCHANGED <<script, index, out>>

\* A bug: references use the places from before the shuffle.
ReindexedStale(table) == index

\* After the shuffle every value has its new place.
Reindexed(table) == IndexOf(table)

Ref(k) == [kind |-> "ref", value |-> k]

\* A script without literals is returned unchanged.
Write ==
    /\ i <= 1
    /\ out = <<>>
    /\ script # <<>>
    /\ index' = Reindexed(values)
    /\ out' = [k \in DOMAIN script |->
                 IF script[k].kind = "literal" THEN Ref(index'[script[k].value])
                 ELSE script[k]]
    /\ UNCHANGED <<script, values, i>>

Done == (out # <<>> \/ script = <<>>) /\ UNCHANGED vars

Next == Shuffle \/ Write \/ Done

Spec == Init /\ [][Next]_vars

-----------------------------------------------------------------------------

\* The script means what it meant: with every reference looked up in the
\* table, the script written is the script given, and every literal that
\* could be read is gone from it.
SameScript ==
    out # <<>> =>
        \A k \in DOMAIN script :
            IF script[k].kind = "literal"
            THEN out[k].kind = "ref" /\ values[out[k].value] = script[k].value
            ELSE out[k] = script[k]
=============================================================================
