---------------------------- MODULE LedgerProofs ----------------------------
(***************************************************************************)
(* The ledger keeps its promise, for any challenges, tokens and agents.    *)
(* Exclusive is inductive as it stands, given the type invariant.          *)
(***************************************************************************)
EXTENDS Ledger, TLAPS

LEMMA InitSafe ==
    ASSUME None \notin Challenges
    PROVE  Init => TypeOK /\ Exclusive
BY DEF Init, TypeOK, Exclusive

\* The ledger stays well typed.
LEMMA NextTyped == TypeOK /\ [Next]_ledger => TypeOK'
<1> SUFFICES ASSUME TypeOK, [Next]_ledger PROVE TypeOK'
  OBVIOUS
<1>1. CASE Forget
  BY <1>1 DEF TypeOK, Forget
<1>2. ASSUME NEW c \in Challenges, Issue(c) PROVE TypeOK'
  BY <1>2 DEF TypeOK, Issue
<1>3. ASSUME NEW t \in Tokens, GrantFree(t) PROVE TypeOK'
  BY <1>3 DEF TypeOK, GrantFree
<1>4. ASSUME NEW a \in Agents, Forfeit(a) \/ Answer(a) PROVE TypeOK'
  BY <1>4 DEF TypeOK, Forfeit, Answer
<1>5. ASSUME NEW a \in Agents, NEW c \in Challenges, Redeem(a, c) PROVE TypeOK'
  BY <1>5 DEF TypeOK, Redeem
<1>6. ASSUME NEW a \in Agents, NEW t \in Tokens, Grant(a, t) PROVE TypeOK'
  BY <1>6 DEF TypeOK, Grant
<1>7. ASSUME NEW a \in Agents, NEW t \in Tokens, Accept(a, t) PROVE TypeOK'
  BY <1>7 DEF TypeOK, Accept
<1>8. CASE UNCHANGED ledger
  BY <1>8 DEF TypeOK, ledger
<1> QED
  BY <1>1, <1>2, <1>3, <1>4, <1>5, <1>6, <1>7, <1>8 DEF Next

\* So does Exclusive, if None can be told from a challenge.
LEMMA NextExclusive ==
    ASSUME None \notin Challenges
    PROVE  TypeOK /\ Exclusive /\ [Next]_ledger => Exclusive'
<1> SUFFICES ASSUME TypeOK, Exclusive, [Next]_ledger PROVE Exclusive'
  OBVIOUS
<1>1. CASE Forget
  <2>1. \A c \in Challenges : status'[c] # "lapsed" => status[c] # "lapsed"
        /\ (status[c] = "spent" => status'[c] = "spent")
    BY <1>1 DEF Forget, MayFade
  <2> QED  BY <1>1, <2>1 DEF Exclusive, Forget
<1>2. ASSUME NEW c \in Challenges, Issue(c) PROVE Exclusive'
  BY <1>2 DEF TypeOK, Exclusive, Issue
<1>3. ASSUME NEW a \in Agents, Forfeit(a) PROVE Exclusive'
  BY <1>3 DEF TypeOK, Exclusive, Forfeit
<1>4. ASSUME NEW a \in Agents, NEW c \in Challenges, Redeem(a, c)
      PROVE  Exclusive'
  BY <1>4 DEF TypeOK, Exclusive, Redeem
<1>5. ASSUME NEW a \in Agents, NEW t \in Tokens, Grant(a, t) PROVE Exclusive'
  BY <1>5 DEF TypeOK, Exclusive, Grant
<1>6. CASE UNCHANGED <<status, right, origin>>
  BY <1>6 DEF Exclusive
<1> QED
  BY <1>1, <1>2, <1>3, <1>4, <1>5, <1>6
     DEF Next, GrantFree, Answer, Accept, ledger

\* At most one right or token stands for a challenge that has not lapsed,
\* however redemptions, failures and forgetting interleave.
THEOREM ExclusiveAlways ==
    ASSUME None \notin Challenges
    PROVE  Spec => []Exclusive
<1>1. TypeOK /\ Exclusive /\ [Next]_ledger => (TypeOK /\ Exclusive)'
  BY NextTyped, NextExclusive
<1> QED  BY <1>1, InitSafe, PTL DEF Spec
=============================================================================
