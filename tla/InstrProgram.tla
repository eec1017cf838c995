---------------------------- MODULE InstrProgram ----------------------------
(***************************************************************************)
(* The random program of an instrumentation challenge (instrumentation.go, *)
(* GenerateInstrumentation): for every instruction the server appends an   *)
(* equation to the client's script and computes, in int32, what the script *)
(* will have computed. The client runs its script in JavaScript, with a    *)
(* helper that uses prototypes and one that builds and walks DOM nodes.    *)
(*                                                                         *)
(* Half stands for 2^31, chains have Chain nodes instead of 8, and sums    *)
(* are taken modulo SumModulus instead of 256. Bit operators of JavaScript *)
(* and of Go's int32 agree, so they are written once; numbers of           *)
(* JavaScript are integers here, as none leaves the 32 bits.               *)
(***************************************************************************)
EXTENDS Integers, Sequences

CONSTANTS
    AndOp(_, _), OrOp(_, _), XorOp(_, _), \* of the bits of natural numbers
    Half,           \* half the number of words
    Chain, SumModulus,
    Names,          \* the indices of the program's variables
    InitVals,       \* initial values
    Keys,           \* values of correctKey
    Steps,          \* instructions in a program
    Salts,          \* salts of the last step
    Spread, Offset  \* the range of a reported value (900000, 100000)

\* What the constants have to fit.
Fitting ==
    /\ {Half, Chain, SumModulus, Steps, Spread, Offset} \subseteq Nat \ {0}
    /\ InitVals \cup Keys \cup Salts \subseteq 0..(Half - 1)

\* What the proofs use of the bit operators.
BitsFit ==
    LET words == 0..(2 * Half - 1)
    IN  \A a, b \in words : /\ {AndOp(a, b), OrOp(a, b), XorOp(a, b)} \subseteq words
                            /\ AndOp(a, 1) = a % 2
                            /\ AndOp(a, Half - 1) < Half

VARIABLES
    server,     \* vals, as the server computes them
    client,     \* the variables, as the script computes them
    left,       \* instructions still to come
    salted      \* variables that went through the last step

vars == <<server, client, left, salted>>

-----------------------------------------------------------------------------
(* 32-bit words *)

Bits(v) == v % (2 * Half)
Word(u) == IF u < Half THEN u ELSE u - 2 * Half

BAnd(a, b) == Word(AndOp(Bits(a), Bits(b)))
BOr(a, b)  == Word(OrOp(Bits(a), Bits(b)))
BXor(a, b) == Word(XorOp(Bits(a), Bits(b)))
BNot(a)    == -a - 1
Odd(a)     == a % 2 = 1
Halved(a)  == a \div 2      \* a >> 1: rounds down

\* The remainder of Go and JavaScript has the sign of the dividend.
Rem(a, m) == IF a >= 0 THEN a % m ELSE -((-a) % m)

-----------------------------------------------------------------------------
(* What the server computes *)

\* A bug: v /= 2 for v >>= 1, which rounds negative numbers up.
ShiftTowardsZero(a) == IF a >= 0 THEN a \div 2 ELSE -((-a) \div 2)

Shift(a) == Halved(a)

\* A child of the current node becomes the current one if its value is even.
\* Of the path from there to the root, only the sum is kept.
ChainStep(s) ==
    [sum |-> IF Odd(s.v) THEN s.sum ELSE s.sum + s.v, v |-> Shift(s.v)]

BuildChain(sum, v) ==
    LET at[i \in 0..Chain] ==
          IF i = 0 THEN [sum |-> sum, v |-> v] ELSE ChainStep(at[i - 1])
    IN  at[Chain].sum

DomSumMock(x, y, z) ==
    Rem(BuildChain(BuildChain(BuildChain(0, x), y), z), SumModulus)

ServerStep(op, d, s1, s2, s3) ==
    CASE op = 0 -> BNot(BAnd(d, s1))
      [] op = 1 -> BXor(d, s1)
      [] op = 2 -> BOr(d, s1)
      [] op = 3 -> BAnd(d, s1)
      [] op = 4 -> BOr(BXor(s2, s1), BXor(d, s2))
      [] op = 5 -> DomSumMock(s1, s2, s3)

-----------------------------------------------------------------------------
(* What the script computes *)

\* The prototype helper. An object's k is its own or its prototype's; v()
\* gives k ^ d, with the d that the object was made with. The prototype
\* {k: c} is there for the second object only.
FnHelper(a, b, c) ==
    LET first  == [d |-> a, k |-> b]
        second == [d |-> b, k |-> c]
    IN  BOr(BXor(first.k, first.d), BXor(second.k, second.d))

\* The DOM helper. A appends a chain of elements below p: each gets v as
\* its text, and those with an even v become the parent of the next.
AppendNode(s) ==
    [nodes |-> Append(s.nodes, [parent |-> s.p, text |-> s.v]),
     p     |-> IF BAnd(s.v, 1) = 0 THEN Len(s.nodes) + 1 ELSE s.p,
     v     |-> Halved(s.v)]

AppendChain(dom, v) ==
    LET at[i \in 0..Chain] ==
          IF i = 0 THEN [nodes |-> dom.nodes, p |-> dom.p, v |-> v]
          ELSE AppendNode(at[i - 1])
    IN  [nodes |-> at[Chain].nodes, p |-> at[Chain].p]

\* B walks from the last parent up to the root (0), adding the texts; it
\* drops the children of a node first, so its text is its own.
DomHelper(x, y, z) ==
    LET root == [nodes |-> <<>>, p |-> 0]
        dom  == AppendChain(AppendChain(AppendChain(root, x), y), z)
        up[n \in 0..Len(dom.nodes)] ==
          IF n = 0 THEN 0 ELSE dom.nodes[n].text + up[dom.nodes[n].parent]
    IN  Rem(up[dom.p], SumModulus)

ScriptStep(op, d, s1, s2, s3) ==
    CASE op = 0 -> BNot(BAnd(d, s1))
      [] op = 1 -> BXor(d, s1)
      [] op = 2 -> BOr(d, s1)
      [] op = 3 -> BAnd(d, s1)
      [] op = 4 -> FnHelper(s1, s2, d)
      [] op = 5 -> DomHelper(s1, s2, s3)

-----------------------------------------------------------------------------

\* The first equation mixes a key into the first variable, provided that
\* the browser has a user agent, as real ones do.
Init ==
    \E init \in [Names -> InitVals], key \in Keys, first \in Names :
        /\ \A n \in Names : first <= n
        /\ server = [init EXCEPT ![first] = BXor(@, key)]
        /\ client = [init EXCEPT ![first] = BXor(@, key)]
        /\ left = Steps
        /\ salted = {}

Instruction(op, d, s1, s2, s3) ==
    /\ left > 0
    /\ server' = [server EXCEPT ![d] =
         ServerStep(op, server[d], server[s1], server[s2], server[s3])]
    /\ client' = [client EXCEPT ![d] =
         ScriptStep(op, client[d], client[s1], client[s2], client[s3])]
    /\ left' = left - 1
    /\ UNCHANGED salted

\* ((v ^ salt) & 0x7FFFFFFF) % 900000 + 100000, on the server
Salted(v, salt) ==
    Rem(BAnd(BXor(v, salt), Half - 1), Spread) + Offset

\* and in the script.
SaltedInScript(v, salt) ==
    (BAnd(BXor(v, salt), Half - 1) % Spread) + Offset

Salt(n, salt) ==
    /\ left = 0
    /\ n \notin salted
    /\ \A m \in Names : m < n => m \in salted
    /\ server' = [server EXCEPT ![n] = Salted(@, salt)]
    /\ client' = [client EXCEPT ![n] = SaltedInScript(@, salt)]
    /\ salted' = salted \cup {n}
    /\ UNCHANGED left

\* The script has reported; the program is over.
Done == left = 0 /\ salted = Names /\ UNCHANGED vars

Next ==
    \/ \E op \in 0..5, d, s1, s2, s3 \in Names : Instruction(op, d, s1, s2, s3)
    \/ \E n \in Names, salt \in Salts : Salt(n, salt)
    \/ Done

Spec == Init /\ [][Next]_vars

-----------------------------------------------------------------------------

\* What the server expects is what the script reports: after any sequence
\* of instructions, over numbers of either sign, both hold the same values
\* (GenerateInstrumentation and domSumMock against the script they emit).
ScriptAgrees == client = server
=============================================================================
