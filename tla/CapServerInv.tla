--------------------------- MODULE CapServerInv ---------------------------
(***************************************************************************)
(* The inductive invariant behind the safety properties of CapServer.      *)
(***************************************************************************)
EXTENDS CapServer

\* Who is where: a call is at a place of its own method, and it names a
\* challenge or a token that exists.
CallOK(w) ==
    /\ pc[w] = "put" => req[w].op = "challenge"
    /\ pc[w] \in {"take", "claim", "issue"} => req[w].op = "redeem"
    /\ pc[w] \in {"consume", "accepted"} => req[w].op = "validate"
    /\ req[w].op = "redeem" => issued[req[w].chal] # Absent
    /\ req[w].op = "validate" => granted[req[w].tok] # Absent
    /\ pc[w] = "take" => issued[req[w].chal].mode = "stored"
    /\ pc[w] = "claim" =>
          issued[req[w].chal].mode = "signed" /\ ~req[w].skipNonce

CallInv == \A w \in Workers : CallOK(w)

\* Nobody knows a time or a Reset that is yet to come.
TimeInv ==
    /\ \A w \in Workers : now[w] <= clock
    /\ lastCleanup # Absent => lastCleanup <= clock
    /\ \A c \in Challenges : issued[c] # Absent => issued[c].epoch <= resets
    /\ \A t \in Tokens : granted[t] # Absent => granted[t].epoch <= resets

\* What the store keeps about a challenge or token is what its client holds.
RecordInv ==
    /\ \A c \in Challenges :
          challenges[c] # Absent /\ issued[c] # Absent =>
              /\ challenges[c].scope = issued[c].scope
              /\ challenges[c].expires = issued[c].expires
    /\ \A c \in Challenges :
          nonces[c] # Absent =>
              issued[c] # Absent /\ nonces[c].expires = issued[c].expires
    /\ \A t \in Tokens :
          granted[t] # Absent =>
              /\ issued[granted[t].chal] # Absent
              /\ tokens[t] # Absent =>
                    /\ tokens[t].scope = issued[granted[t].chal].scope
                    /\ tokens[t].expires = granted[t].at + TokenTTL

\* Redemptions happen before their challenge has expired.
InTimeInv ==
    /\ \A w \in Workers :
          pc[w] \in {"claim", "issue"} => now[w] <= issued[req[w].chal].expires
    /\ \A t \in Tokens :
          granted[t] # Absent => granted[t].at <= issued[granted[t].chal].expires

\* Worker w has spent challenge c and is about to issue its token.
Redeems(w, c) ==
    /\ pc[w] = "issue"
    /\ req[w].chal = c
    /\ issued[c].mode = "signed" => ~req[w].skipNonce

\* The store can tell that c was redeemed.
Spent(c) ==
    IF issued[c].mode = "stored" THEN challenges[c] = Absent
    ELSE nonces[c] # Absent

\* If c was redeemed it is spent, and at most one redemption of it has issued
\* its token or is about to.
SingleUse(c) ==
    /\ \A w \in Workers : Redeems(w, c) => Spent(c)
    /\ \A t \in Tokens : GrantedFor(c, t) => Spent(c)
    /\ \A w1, w2 \in Workers : Redeems(w1, c) /\ Redeems(w2, c) => w1 = w2
    /\ \A w \in Workers, t \in Tokens : ~(Redeems(w, c) /\ GrantedFor(c, t))
    /\ \A t1, t2 \in Tokens :
          GrantedFor(c, t1) /\ GrantedFor(c, t2) => t1 = t2

SingleUseInv ==
    \A c \in Challenges : issued[c] # Absent /\ Enforced(c) => SingleUse(c)

\* A consumed token is gone for good.
ConsumedInv ==
    \A t \in used : granted[t] # Absent /\ tokens[t] = Absent

\* What an accepting Validate has found out.
AcceptedInv ==
    \A w \in Workers : pc[w] = "accepted" =>
        LET g == granted[req[w].tok] IN
        /\ ScopeFits(issued[g.chal].scope, req[w].scope)
        /\ now[w] < g.at + TokenTTL

\* The call that started the latest sweep has the latest time.
SweepInv ==
    /\ \A w \in Workers :
          pc[w] = "sweep" => lastCleanup # Absent /\ now[w] <= lastCleanup
    /\ SweepsSpaced

IInv == /\ CallInv
        /\ TimeInv
        /\ RecordInv
        /\ InTimeInv
        /\ SingleUseInv
        /\ ConsumedInv
        /\ AcceptedInv
        /\ SweepInv

\* Without store errors, a token that is live, not consumed and granted since
\* the latest Reset is in the store. (Not a part of IInv: it fails when the
\* answer of a ConsumeToken is lost.)
HonoursInv ==
    \A t \in Tokens :
        /\ granted[t] # Absent
        /\ t \notin used
        /\ granted[t].epoch = resets
        /\ clock < granted[t].at + TokenTTL
        => tokens[t] # Absent
=============================================================================
