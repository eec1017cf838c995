------------------------------ MODULE MCDerived ------------------------------
(***************************************************************************)
(* The bit operators and small numbers for Derived.                        *)
(***************************************************************************)
EXTENDS Derived, Bitwise, TLC

BitAnd(a, b) == a & b
BitOr(a, b)  == a | b
BitXor(a, b) == a ^^ b

\* Serialized keypairs. Good ones, one of them without its size and with a
\* Fermat prime that divides none of the bases; and a composite factor,
\* twice the same factor, another modulus, another size, and one too small.
Key(n, p, q, bits) == [n |-> n, p |-> p, q |-> q, bits |-> bits]
Keypairs ==
    {Key(143, 11, 13, 8), Key(187, 17, 11, 0),
     Key(165, 15, 11, 8), Key(169, 13, 13, 8), Key(187, 13, 11, 8),
     Key(143, 13, 11, 9), Key(77, 7, 11, 7)}

\* Shifts for words of eight bits.
SmallShifts == <<3, 5, 1>>

Symmetric == Permutations(Workers)
=============================================================================
