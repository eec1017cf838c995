---------------------------- MODULE CapRedisInv ----------------------------
(***************************************************************************)
(* The inductive invariant behind the safety properties of CapRedis.       *)
(***************************************************************************)
EXTENDS CapRedis

\* Who is where: a call is at a place of its own method, and it names a
\* challenge or a token that exists.
CallOK(w) ==
    /\ pc[w] = "put" => req[w].op = "challenge" /\ req[w].mode = "stored"
    /\ pc[w] \in {"take", "check", "claim", "issue"} => req[w].op = "redeem"
    /\ pc[w] \in {"consume", "accepted"} => req[w].op = "validate"
    /\ pc[w] = "reset" => req[w].op = "reset"
    /\ req[w].op = "redeem" => issued[req[w].chal] # Absent
    /\ req[w].op = "validate" => granted[req[w].tok] # Absent
    /\ pc[w] = "take" => issued[req[w].chal].mode = "stored"
    /\ pc[w] \in {"check", "claim"} => issued[req[w].chal].mode = "signed"

CallInv == \A w \in Workers : CallOK(w)

\* What a call is about to put is known to nobody but this call, although a
\* command sent before may have put it already.
FreshInv ==
    /\ \A w \in Workers :
          /\ req[w].op = "challenge" => issued[req[w].chal] = Absent
          /\ req[w].op = "redeem" => granted[req[w].tok] = Absent
    /\ \A v, w \in Workers : v # w /\ req[v].op = req[w].op =>
          /\ req[v].op = "challenge" => req[v].chal # req[w].chal
          /\ req[v].op = "redeem" => req[v].tok # req[w].tok

\* No replica has read a time that is yet to come on its clock.
ClockInv == \A w \in Workers : now[w] <= Local(w)

\* Redis keeps a key until the fastest replica has reached the expiry of what
\* it stands for. A nonce is that of a challenge a client holds.
LifeInv ==
    /\ \A c \in Challenges : challenges[c] # Absent =>
          challenges[c].expires <= challenges[c].until + MaxSkew
    /\ \A c \in Challenges : nonces[c] # Absent =>
          issued[c] # Absent /\ issued[c].expires <= nonces[c].until + MaxSkew
    /\ \A t \in Tokens : tokens[t] # Absent =>
          tokens[t].expires <= tokens[t].until + MaxSkew

\* A consumed token is gone for good.
ConsumedInv == \A t \in used : granted[t] # Absent /\ tokens[t] = Absent

\* A Reset has yet to delete those of the keys held when it began that are
\* still there. Clients hold all of these, and what a Reset has wiped: nobody
\* draws such an identifier again.
ResetInv ==
    /\ \A w \in Workers : req[w].op = "reset" =>
          /\ \A k \in req[w].held : Held(k)
          /\ req[w].held \cap Present \subseteq left[w]
    /\ \A k \in wiped : Held(k) /\ k \notin Present

IInv == /\ CallInv
        /\ FreshInv
        /\ ClockInv
        /\ LifeInv
        /\ ConsumedInv
        /\ ResetInv
=============================================================================
