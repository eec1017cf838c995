------------------------------- MODULE Ledger -------------------------------
(***************************************************************************)
(* What the contract of Store (store.go) promises, whatever the store:     *)
(* "a challenge, nonce or token can be used exactly once across all        *)
(* replicas sharing the store".                                            *)
(*                                                                         *)
(* The ledger knows of no clocks, maps, nonces or calls in progress. A     *)
(* challenge is new, open (it can be redeemed), spent, or lapsed: the      *)
(* store no longer answers for it. A redemption gives the agent that made  *)
(* it a right, which it may turn into one token; a token is good until it  *)
(* is used or has gone. CapServer and CapRedis are shown to implement it.  *)
(***************************************************************************)
CONSTANTS
    Challenges,
    Tokens,
    Agents,     \* whoever redeems and validates
    None        \* no challenge, no token

VARIABLES
    status,     \* of each challenge
    right,      \* the challenge each agent may turn into a token
    tok,        \* the state of each token
    origin,     \* the challenge a token was redeemed from
    verdict     \* the token each agent is accepting

ledger == <<status, right, tok, origin, verdict>>

TypeOK ==
    /\ status \in [Challenges -> {"new", "open", "spent", "lapsed"}]
    /\ right \in [Agents -> Challenges \cup {None}]
    /\ tok \in [Tokens -> {"new", "good", "used", "gone"}]
    /\ origin \in [Tokens -> Challenges \cup {None}]
    /\ verdict \in [Agents -> Tokens \cup {None}]

Init ==
    /\ status = [c \in Challenges |-> "new"]
    /\ right = [a \in Agents |-> None]
    /\ tok = [t \in Tokens |-> "new"]
    /\ origin = [t \in Tokens |-> None]
    /\ verdict = [a \in Agents |-> None]

\* A challenge without any lifetime lapses as it is issued.
Issue(c) ==
    /\ status[c] = "new"
    /\ \E s \in {"open", "lapsed"} : status' = [status EXCEPT ![c] = s]
    /\ UNCHANGED <<right, tok, origin, verdict>>

\* An open challenge gives one right. A lapsed one may give any number.
Redeem(a, c) ==
    /\ \/ status[c] = "open" /\ status' = [status EXCEPT ![c] = "spent"]
       \/ status[c] = "lapsed" /\ status' = status
    /\ right' = [right EXCEPT ![a] = c]
    /\ UNCHANGED <<tok, origin, verdict>>

\* The redemption fails after all.
Forfeit(a) ==
    /\ right' = [right EXCEPT ![a] = None]
    /\ UNCHANGED <<status, tok, origin, verdict>>

Grant(a, t) ==
    /\ right[a] # None
    /\ tok[t] = "new"
    /\ tok' = [tok EXCEPT ![t] = "good"]
    /\ origin' = [origin EXCEPT ![t] = right[a]]
    /\ right' = [right EXCEPT ![a] = None]
    /\ UNCHANGED <<status, verdict>>

\* The caller waives the single use (RedeemOptions.SkipNonce): the token
\* counts for no challenge.
GrantFree(t) ==
    /\ tok[t] = "new"
    /\ tok' = [tok EXCEPT ![t] = "good"]
    /\ UNCHANGED <<status, right, origin, verdict>>

\* A good token is accepted and used up, unless the caller keeps it.
Accept(a, t) ==
    /\ tok[t] = "good"
    /\ tok' \in {tok, [tok EXCEPT ![t] = "used"]}
    /\ verdict' = [verdict EXCEPT ![a] = t]
    /\ UNCHANGED <<status, right, origin>>

Answer(a) ==
    /\ verdict' = [verdict EXCEPT ![a] = None]
    /\ UNCHANGED <<status, right, tok, origin>>

\* How a challenge and a token may change without being used.
MayFade(s1, s2) == \/ s1 = s2
                   \/ s1 = "open" /\ s2 \in {"spent", "lapsed"}
                   \/ s1 = "spent" /\ s2 = "lapsed"
MayGo(s1, s2) == \/ s1 = s2
                 \/ s1 = "good" /\ s2 = "gone"

\* Time passes, the store is cleaned or reset, or a call fails half way: an
\* open challenge may be lost, any challenge may lapse, a token may go.
Forget ==
    /\ status' \in [Challenges -> {"new", "open", "spent", "lapsed"}]
    /\ tok' \in [Tokens -> {"new", "good", "used", "gone"}]
    /\ \A c \in Challenges : MayFade(status[c], status'[c])
    /\ \A t \in Tokens : MayGo(tok[t], tok'[t])
    /\ UNCHANGED <<right, origin, verdict>>

Next == \/ Forget
        \/ \E c \in Challenges : Issue(c)
        \/ \E t \in Tokens : GrantFree(t)
        \/ \E a \in Agents : Forfeit(a) \/ Answer(a)
        \/ \E a \in Agents, c \in Challenges : Redeem(a, c)
        \/ \E a \in Agents, t \in Tokens : Grant(a, t) \/ Accept(a, t)

Spec == Init /\ [][Next]_ledger

-----------------------------------------------------------------------------
\* The promise the ledger keeps: as long as a challenge has not lapsed, at most
\* one agent or one token stands for it, and none while it can be redeemed. It
\* is what TakeChallenge and ClaimNonce have to be atomic for.
Exclusive ==
    \A c \in Challenges : status[c] # "lapsed" =>
        LET Holds(a) == right[a] = c
            From(t)  == origin[t] = c
        IN  /\ \A a \in Agents : Holds(a) => status[c] = "spent"
            /\ \A t \in Tokens : From(t) => status[c] = "spent"
            /\ \A a1, a2 \in Agents : Holds(a1) /\ Holds(a2) => a1 = a2
            /\ \A t1, t2 \in Tokens : From(t1) /\ From(t2) => t1 = t2
            /\ \A a \in Agents, t \in Tokens : ~(Holds(a) /\ From(t))
=============================================================================
