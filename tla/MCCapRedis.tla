----------------------------- MODULE MCCapRedis -----------------------------
(***************************************************************************)
(* Instances of CapRedis for TLC. Workers are numbered; each runs on a     *)
(* replica that is a millisecond ahead of the one before.                  *)
(***************************************************************************)
EXTENDS CapRedisInv, TLC

Ahead == [w \in Workers |-> w - 1]

Symmetric == Permutations(Challenges) \cup Permutations(Tokens)
                \cup Permutations(Scopes \ {NoScope})
=============================================================================
