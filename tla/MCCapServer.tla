--------------------------- MODULE MCCapServer ----------------------------
(***************************************************************************)
(* Instances of CapServer for TLC.                                         *)
(***************************************************************************)
EXTENDS CapServerLedger, TLC

\* Workers, challenges, tokens and non-empty scopes are interchangeable. (Not
\* used for liveness.)
Symmetric == Permutations(Workers) \cup Permutations(Challenges)
                \cup Permutations(Tokens) \cup Permutations(Scopes \ {NoScope})
=============================================================================
