-------------------------- MODULE CapServerProofs -------------------------
(***************************************************************************)
(* The safety properties of CapServer, from the inductive invariant IInv.  *)
(***************************************************************************)
EXTENDS CapServerTypeProofs

Typed == TypeOK /\ CallInv

(***************************************************************************)
(* What a step of one worker does to each map and to what clients hold.    *)
(* A step changes an entry in a few ways only.                             *)
(***************************************************************************)

\* An issued challenge only ever leaves the store.
LEMMA ChallengesChange ==
    ASSUME Typed, NEW w \in Workers, Call(w) \/ Step(w),
           NEW c \in Challenges, issued[c] # Absent
    PROVE  challenges'[c] \in {challenges[c], Absent}
<1>1. TypeOK /\ CallOK(w)
  BY DEF Typed, CallInv
<1>2. CASE challenges' = challenges
  BY <1>2
<1>3. CASE StoreReset
  BY <1>3 DEF StoreReset
<1>4. ASSUME NEW at, StoreCleanup(at) PROVE challenges'[c] \in {challenges[c], Absent}
  BY <1>1, <1>4 DEF StoreCleanup, LiveEntries, TypeOK, StoreTypeOK
<1>5. ASSUME NEW d, TakeChallenge(d)
      PROVE  challenges'[c] \in {challenges[c], Absent}
  BY <1>1, <1>5 DEF TakeChallenge, TypeOK, StoreTypeOK
<1>6. ASSUME NEW d, NEW r, FreshChallenge(d), PutChallenge(d, r)
      PROVE  challenges'[c] \in {challenges[c], Absent}
  BY <1>1, <1>6 DEF FreshChallenge, PutChallenge, TypeOK, StoreTypeOK
<1>7. Call(w) => challenges' = challenges
  BY DEF Call, BeginChallenge, BeginRedeem, BeginValidate, BeginCleanup,
     BeginReset, Begin, storeVars
<1>8. Step(w) => \/ challenges' = challenges
                 \/ StoreReset
                 \/ \E at : StoreCleanup(at)
                 \/ \E d : TakeChallenge(d)
                 \/ \E d, r : FreshChallenge(d) /\ PutChallenge(d, r)
  BY DEF Step, LazyCleanup, Sweep, Cleanup, Reset, ChallengeStored, PutStored,
     ChallengeSigned, RedeemStored, Take, RedeemSigned, Claim, ClaimNonce,
     IssueToken, PutToken, Validate, Consume, ConsumeToken, Accept, Abandon,
     StoreFails, StoreReplyLost, storeVars
<1> QED  BY <1>2, <1>3, <1>4, <1>5, <1>6, <1>7, <1>8

\* A nonce leaves the store expired or by Reset; it is written by a claim.
LEMMA NoncesChange ==
    ASSUME Typed, TimeInv, NEW w \in Workers, Call(w) \/ Step(w),
           NEW c \in Challenges
    PROVE  \/ nonces'[c] = nonces[c]
           \/ /\ nonces'[c] = Absent
              /\ \/ resets' = resets + 1
                 \/ nonces[c] # Absent /\ nonces[c].expires <= clock
           \/ /\ pc[w] = "claim" /\ req[w].chal = c
              /\ ClaimNonceOk(c, now[w])
              /\ nonces'[c] = [expires |-> issued[c].expires]
<1>1. /\ TypeOK /\ CallOK(w)
      /\ now[w] \in Nat /\ clock \in Nat /\ now[w] <= clock
      /\ nonces \in [Challenges -> Nonce \cup {Absent}]
  BY DEF Typed, CallInv, TypeOK, StoreTypeOK, TimeInv
<1>2. ASSUME StoreCleanup(now[w]), nonces'[c] # nonces[c]
      PROVE  nonces'[c] = Absent /\ nonces[c] # Absent
             /\ nonces[c].expires <= clock
  <2>1. nonces'[c] = Absent /\ nonces[c] # Absent
        /\ nonces[c].expires <= now[w]
    BY <1>1, <1>2 DEF StoreCleanup, LiveEntries
  <2>2. nonces[c].expires \in Nat
    BY <1>1, <2>1 DEF Nonce
  <2> QED  BY <1>1, <2>1, <2>2
<1>3. CASE Reset(w)
  BY <1>3 DEF Reset, StoreReset
<1>4. ASSUME pc[w] = "claim",
             ClaimNonce(req[w].chal, issued[req[w].chal].expires, now[w]),
             nonces'[c] # nonces[c]
      PROVE  /\ req[w].chal = c
             /\ ClaimNonceOk(c, now[w])
             /\ nonces'[c] = [expires |-> issued[c].expires]
  BY <1>1, <1>4 DEF ClaimNonce
<1>5. Call(w) => nonces' = nonces
  BY DEF Call, BeginChallenge, BeginRedeem, BeginValidate, BeginCleanup,
     BeginReset, Begin, storeVars
<1>6. Step(w) => \/ nonces' = nonces
                 \/ Reset(w)
                 \/ StoreCleanup(now[w])
                 \/ /\ pc[w] = "claim"
                    /\ ClaimNonce(req[w].chal, issued[req[w].chal].expires,
                                  now[w])
  BY DEF Step, LazyCleanup, Sweep, Cleanup, ChallengeStored, PutStored,
     PutChallenge, ChallengeSigned, RedeemStored, Take, TakeChallenge,
     RedeemSigned, Claim, IssueToken, PutToken, Validate, Consume,
     ConsumeToken, Accept, Abandon, StoreFails, StoreReplyLost, storeVars
<1> QED  BY <1>2, <1>3, <1>4, <1>5, <1>6

\* A token leaves the store, or a fresh one enters it.
LEMMA TokensChange ==
    ASSUME Typed, NEW w \in Workers, Call(w) \/ Step(w), NEW t \in Tokens
    PROVE  \/ tokens'[t] \in {tokens[t], Absent}
           \/ /\ pc[w] = "issue" /\ FreshToken(t)
              /\ tokens'[t] = TokenRecord(req[w].chal, now[w])
<1>1. TypeOK /\ CallOK(w) /\ tokens \in [Tokens -> Record \cup {Absent}]
  BY DEF Typed, CallInv, TypeOK, StoreTypeOK
<1>2. ASSUME NEW at, StoreCleanup(at) PROVE tokens'[t] \in {tokens[t], Absent}
  BY <1>1, <1>2 DEF StoreCleanup, LiveEntries
<1>3. CASE StoreReset
  BY <1>3 DEF StoreReset
<1>4. ASSUME NEW u, NEW s, NEW at, NEW k, ConsumeToken(u, s, at, k)
      PROVE  tokens'[t] \in {tokens[t], Absent}
  BY <1>1, <1>4 DEF ConsumeToken
<1>5. ASSUME pc[w] = "issue", NEW u \in Tokens, FreshToken(u),
             PutToken(u, TokenRecord(req[w].chal, now[w]))
      PROVE  \/ tokens'[t] = tokens[t]
             \/ /\ FreshToken(t)
                /\ tokens'[t] = TokenRecord(req[w].chal, now[w])
  BY <1>1, <1>5 DEF PutToken
<1>6. Call(w) => tokens' = tokens
  BY DEF Call, BeginChallenge, BeginRedeem, BeginValidate, BeginCleanup,
     BeginReset, Begin, storeVars
<1>7. Step(w) => \/ tokens' = tokens
                 \/ StoreReset
                 \/ \E at : StoreCleanup(at)
                 \/ \E u, s, at, k : ConsumeToken(u, s, at, k)
                 \/ /\ pc[w] = "issue"
                    /\ \E u \in Tokens :
                          /\ FreshToken(u)
                          /\ PutToken(u, TokenRecord(req[w].chal, now[w]))
  BY DEF Step, LazyCleanup, Sweep, Cleanup, Reset, ChallengeStored, PutStored,
     PutChallenge, ChallengeSigned, RedeemStored, Take, TakeChallenge,
     RedeemSigned, Claim, ClaimNonce, IssueToken, Validate, Consume, Accept,
     Abandon, StoreFails, StoreReplyLost, storeVars
<1> QED  BY <1>2, <1>3, <1>4, <1>5, <1>6, <1>7

\* A challenge that is issued is new to the store, and what the store keeps
\* of it is what the client gets.
LEMMA IssuedChange ==
    ASSUME Typed, NEW w \in Workers, Call(w) \/ Step(w),
           NEW c \in Challenges, issued[c] = Absent, issued'[c] # Absent
    PROVE  /\ issued'[c].epoch = resets
           /\ nonces' = nonces /\ granted' = granted /\ pc'[w] = "idle"
           /\ challenges'[c] # Absent =>
                 /\ challenges'[c].scope = issued'[c].scope
                 /\ challenges'[c].expires = issued'[c].expires
<1>1. TypeOK /\ issued \in [Challenges -> Issued \cup {Absent}]
      /\ challenges \in [Challenges -> Record \cup {Absent}]
      /\ pc \in [Workers -> Locations]
  BY DEF Typed, TypeOK, StoreTypeOK
<1>2. CASE PutStored(w)
  <2>1. PICK d \in Challenges :
          /\ FreshChallenge(d)
          /\ PutChallenge(d, [scope |-> req[w].scope,
                              expires |-> now[w] + req[w].ttl])
          /\ IssueChallenge(w, d, now[w] + req[w].ttl)
    BY <1>2 DEF PutStored
  <2>2. d = c
    BY <1>1, <2>1 DEF IssueChallenge
  <2>3. nonces' = nonces /\ granted' = granted /\ pc'[w] = "idle"
    BY <1>1, <1>2, <2>1 DEF PutStored, PutChallenge, Return
  <2> QED
    BY <1>1, <2>1, <2>2, <2>3 DEF IssueChallenge, PutChallenge
<1>3. CASE ChallengeSigned(w)
  <2>1. PICK d \in Challenges :
          FreshChallenge(d) /\ IssueChallenge(w, d, clock + req[w].ttl)
    BY <1>3 DEF ChallengeSigned
  <2>2. d = c
    BY <1>1, <2>1 DEF IssueChallenge
  <2>3. /\ nonces' = nonces /\ granted' = granted /\ pc'[w] = "idle"
        /\ challenges'[c] = Absent
    BY <1>1, <1>3, <2>1, <2>2
       DEF ChallengeSigned, Return, storeVars, FreshChallenge
  <2> QED
    BY <1>1, <2>1, <2>2, <2>3 DEF IssueChallenge
<1>4. Call(w) => issued' = issued
  BY DEF Call, BeginChallenge, BeginRedeem, BeginValidate, BeginCleanup,
     BeginReset, Begin, history
<1>5. Step(w) => \/ issued' = issued \/ PutStored(w) \/ ChallengeSigned(w)
  BY DEF Step, LazyCleanup, Sweep, Cleanup, Reset, ChallengeStored,
     RedeemStored, Take, RedeemSigned, Claim, IssueToken, Validate, Consume,
     Accept, Abandon, StoreFails, StoreReplyLost, history
<1> QED  BY <1>2, <1>3, <1>4, <1>5

\* A token is granted by the worker that redeemed its challenge.
LEMMA GrantedChange ==
    ASSUME Typed, NEW w \in Workers, Call(w) \/ Step(w),
           NEW t \in Tokens, granted[t] = Absent, granted'[t] # Absent
    PROVE  /\ pc[w] = "issue" /\ pc'[w] = "idle"
           /\ granted'[t].chal = req[w].chal
           /\ granted'[t].at = now[w]
           /\ granted'[t].epoch = resets
           /\ ~granted'[t].skipNonce =>
                ~(req[w].skipNonce /\ issued[req[w].chal].mode = "signed")
           /\ tokens'[t] = TokenRecord(req[w].chal, now[w])
           /\ \A s \in Tokens \ {t} : granted'[s] = granted[s]
           /\ UNCHANGED <<issued, challenges, nonces, used, resets>>
<1>1. CASE IssueToken(w)
  <2> DEFINE r == req[w].chal
             g == [chal |-> r, at |-> now[w], epoch |-> resets,
                   skipNonce |-> req[w].skipNonce /\ issued[r].mode = "signed"]
  <2>1. /\ granted \in [Tokens -> Granted \cup {Absent}]
        /\ tokens \in [Tokens -> Record \cup {Absent}]
        /\ pc \in [Workers -> Locations]
    BY DEF Typed, TypeOK, StoreTypeOK
  <2>2. PICK u \in Tokens :
          /\ PutToken(u, TokenRecord(r, now[w]))
          /\ granted' = [granted EXCEPT ![u] = g]
    BY <1>1 DEF IssueToken
  <2>3. /\ pc[w] = "issue" /\ pc'[w] = "idle"
        /\ UNCHANGED <<issued, used, resets>>
    BY <1>1, <2>1 DEF IssueToken, Return
  <2> HIDE DEF g
  <2>4. u = t
    BY <2>1, <2>2
  <2>5. /\ granted'[t] = g
        /\ \A s \in Tokens \ {t} : granted'[s] = granted[s]
    BY <2>1, <2>2, <2>4
  <2>6. /\ tokens'[t] = TokenRecord(r, now[w])
        /\ UNCHANGED <<challenges, nonces>>
    BY <2>1, <2>2, <2>4 DEF PutToken
  <2>7. /\ g.chal = r /\ g.at = now[w] /\ g.epoch = resets
        /\ ~g.skipNonce => ~(req[w].skipNonce /\ issued[r].mode = "signed")
    BY DEF g
  <2> QED  BY <2>3, <2>5, <2>6, <2>7
<1>2. Call(w) => granted' = granted
  BY DEF Call, BeginChallenge, BeginRedeem, BeginValidate, BeginCleanup,
     BeginReset, Begin, history
<1>3. Step(w) => granted' = granted \/ IssueToken(w)
  BY DEF Step, LazyCleanup, Sweep, Cleanup, Reset, ChallengeStored, PutStored,
     ChallengeSigned, RedeemStored, Take, RedeemSigned, Claim, Validate,
     Consume, Accept, Abandon, StoreFails, StoreReplyLost, history
<1> QED  BY <1>1, <1>2, <1>3

\* A worker comes to issue a token from one of three places.
LEMMA ArriveAtIssue ==
    ASSUME Typed, NEW w \in Workers, Call(w) \/ Step(w), pc'[w] = "issue"
    PROVE  LET c == req[w].chal IN
           /\ req'[w] = req[w]
           /\ UNCHANGED <<history, clock>>
           /\ \/ /\ pc[w] = "take" /\ now'[w] = now[w]
                 /\ TakeChallengeOk(c, now[w])
                 /\ challenges'[c] = Absent /\ nonces' = nonces
              \/ /\ pc[w] = "claim" /\ now'[w] = now[w]
                 /\ ClaimNonceOk(c, now[w])
                 /\ nonces'[c] = [expires |-> issued[c].expires]
                 /\ challenges' = challenges
              \/ /\ pc[w] = "body" /\ now'[w] = clock
                 /\ req[w].op = "redeem" /\ req[w].skipNonce
                 /\ issued[c].mode = "signed" /\ clock <= issued[c].expires
                 /\ UNCHANGED storeVars
<1> DEFINE c == req[w].chal
<1>1. /\ TypeOK /\ CallOK(w)
      /\ pc \in [Workers -> Locations] /\ now \in [Workers -> Nat]
      /\ challenges \in [Challenges -> Record \cup {Absent}]
      /\ nonces \in [Challenges -> Nonce \cup {Absent}]
  BY DEF Typed, CallInv, TypeOK, StoreTypeOK
<1>2. ASSUME NEW p, Goto(w, p) \/ ReadClockGoto(w, p) PROVE p = "issue"
  BY <1>1, <1>2 DEF Goto, ReadClockGoto
<1>3. ~Return(w) /\ ~\E call, p : Begin(w, call, p) /\ p # "issue"
  BY <1>1 DEF Return, Begin
<1>4. \/ Take(w) /\ Goto(w, "issue")
      \/ Claim(w) /\ Goto(w, "issue")
      \/ RedeemSigned(w) /\ ~Return(w)
  BY <1>2, <1>3 DEF Call, BeginChallenge, BeginRedeem, BeginValidate,
     BeginCleanup, BeginReset, Step, LazyCleanup, Sweep, Cleanup, Reset,
     ChallengeStored, PutStored, ChallengeSigned, RedeemStored, Take, Claim,
     IssueToken, Validate, Consume, Accept, Abandon, StoreFails,
     StoreReplyLost
<1>5. CASE Take(w) /\ Goto(w, "issue")
  <2>1. c \in Challenges
    BY <1>1, <1>5, Arguments DEF Take
  <2>2. TakeChallengeOk(c, now[w])
    BY <1>3, <1>5 DEF Take
  <2> QED
    BY <1>1, <1>5, <2>1, <2>2 DEF Take, TakeChallenge, Goto
<1>6. CASE Claim(w) /\ Goto(w, "issue")
  <2>1. c \in Challenges
    BY <1>1, <1>6, Arguments DEF Claim
  <2>2. ClaimNonceOk(c, now[w])
    BY <1>3, <1>6 DEF Claim
  <2> QED
    BY <1>1, <1>6, <2>1, <2>2 DEF Claim, ClaimNonce, Goto
<1>7. CASE RedeemSigned(w) /\ ~Return(w)
  <2>1. /\ SignedAcceptable(c, req[w], clock)
        /\ ReadClockGoto(w, IF req[w].skipNonce THEN "issue" ELSE "claim")
    BY <1>7 DEF RedeemSigned
  <2>2. req[w].skipNonce
    BY <1>2, <2>1
  <2>3. /\ req'[w] = req[w] /\ now'[w] = clock
        /\ UNCHANGED <<history, clock, storeVars>>
    BY <1>1, <1>7, <2>1 DEF RedeemSigned, ReadClockGoto
  <2>4. /\ pc[w] = "body" /\ req[w].op = "redeem"
        /\ issued[c].mode = "signed" /\ clock <= issued[c].expires
    BY <1>7, <2>1 DEF RedeemSigned, Redeeming, SignedAcceptable
  <2> QED
    BY <2>2, <2>3, <2>4
<1> QED  BY <1>4, <1>5, <1>6, <1>7

\* A worker's time is one it has read.
LEMMA NowChange ==
    ASSUME Typed, NEW w \in Workers, Call(w) \/ Step(w)
    PROVE  now'[w] \in {now[w], clock, 0}
<1>1. TypeOK /\ now \in [Workers -> Nat]
  BY DEF Typed, TypeOK
<1>2. ASSUME NEW p, Goto(w, p) PROVE now'[w] = now[w]
  BY <1>2 DEF Goto
<1>3. ASSUME NEW p, ReadClockGoto(w, p) PROVE now'[w] = clock
  BY <1>1, <1>3 DEF ReadClockGoto
<1>4. ASSUME NEW call, NEW p, Begin(w, call, p) PROVE now'[w] = clock
  BY <1>1, <1>4 DEF Begin
<1>5. Return(w) => now'[w] = 0
  BY <1>1 DEF Return
<1>6. CASE Call(w)
  BY <1>4, <1>6 DEF Call, BeginChallenge, BeginRedeem, BeginValidate,
     BeginCleanup, BeginReset
<1>7. CASE Step(w)
  BY <1>2, <1>3, <1>5, <1>7 DEF Step, LazyCleanup, Sweep, Cleanup, Reset,
     ChallengeStored, PutStored, ChallengeSigned, RedeemStored, Take,
     RedeemSigned, Claim, IssueToken, Validate, Consume, Accept, Abandon,
     StoreFails, StoreReplyLost
<1> QED  BY <1>6, <1>7

(***************************************************************************)
(* Each part of IInv is preserved by every step of a worker.               *)
(***************************************************************************)
LEMMA TimeInvStep ==
    ASSUME Typed, TimeInv, NEW w \in Workers, Call(w) \/ Step(w)
    PROVE  TimeInv'
<1>1. /\ OthersStay(w) /\ HistoryGrows
      /\ clock' = clock /\ clock \in Nat /\ resets \in Nat /\ resets' \in Nat
      /\ resets <= resets'
  BY StepOthersStay, StepHistoryGrows DEF Typed, TypeOK, HistoryGrows
<1>2. \A v \in Workers : now'[v] <= clock'
  BY <1>1, NowChange DEF TimeInv, OthersStay
<1>3. lastCleanup' # Absent => lastCleanup' <= clock'
  <2>1. lastCleanup' \in {lastCleanup, now[w]}
    BY DEF Call, BeginChallenge, BeginRedeem, BeginValidate, BeginCleanup,
       BeginReset, Begin, Step, LazyCleanup, Sweep, Cleanup, Reset,
       ChallengeStored, PutStored, ChallengeSigned, RedeemStored, Take,
       RedeemSigned, Claim, IssueToken, Validate, Consume, Accept, Abandon,
       StoreFails, StoreReplyLost
  <2> QED  BY <1>1, <2>1 DEF TimeInv
<1>4. ASSUME NEW c \in Challenges, issued'[c] # Absent
      PROVE  issued'[c].epoch <= resets'
  <2>1. CASE issued[c] = Absent
    BY <1>1, <1>4, <2>1, IssuedChange
  <2>2. CASE issued[c] # Absent
    <3>1. issued'[c] = issued[c] /\ issued[c].epoch <= resets
      BY <1>1, <2>2 DEF HistoryGrows, TimeInv
    <3>2. issued[c].epoch \in Nat
      BY <2>2 DEF Typed, TypeOK, Issued
    <3> QED  BY <1>1, <3>1, <3>2
  <2> QED  BY <2>1, <2>2
<1>5. ASSUME NEW t \in Tokens, granted'[t] # Absent
      PROVE  granted'[t].epoch <= resets'
  <2>1. CASE granted[t] = Absent
    BY <1>1, <1>5, <2>1, GrantedChange
  <2>2. CASE granted[t] # Absent
    <3>1. granted'[t] = granted[t] /\ granted[t].epoch <= resets
      BY <1>1, <2>2 DEF HistoryGrows, TimeInv
    <3>2. granted[t].epoch \in Nat
      BY <2>2 DEF Typed, TypeOK, Granted
    <3> QED  BY <1>1, <3>1, <3>2
  <2> QED  BY <2>1, <2>2
<1> QED  BY <1>2, <1>3, <1>4, <1>5 DEF TimeInv

LEMMA RecordInvStep ==
    ASSUME Typed, TimeInv, RecordInv, NEW w \in Workers, Call(w) \/ Step(w)
    PROVE  RecordInv'
<1>1. HistoryGrows /\ TypeOK /\ CallOK(w)
  BY StepHistoryGrows DEF Typed, CallInv
<1>2. ASSUME NEW c \in Challenges, challenges'[c] # Absent, issued'[c] # Absent
      PROVE  /\ challenges'[c].scope = issued'[c].scope
             /\ challenges'[c].expires = issued'[c].expires
  <2>1. CASE issued[c] = Absent
    BY <1>2, <2>1, IssuedChange
  <2>2. CASE issued[c] # Absent
    <3>1. issued'[c] = issued[c] /\ challenges'[c] = challenges[c]
      BY <1>1, <1>2, <2>2, ChallengesChange DEF HistoryGrows
    <3> QED  BY <1>2, <2>2, <3>1 DEF RecordInv
  <2> QED  BY <2>1, <2>2
<1>3. ASSUME NEW c \in Challenges, nonces'[c] # Absent
      PROVE  issued'[c] # Absent /\ nonces'[c].expires = issued'[c].expires
  <2>1. CASE nonces'[c] = nonces[c]
    BY <1>1, <1>3, <2>1 DEF RecordInv, HistoryGrows
  <2>2. CASE /\ pc[w] = "claim" /\ req[w].chal = c
             /\ nonces'[c] = [expires |-> issued[c].expires]
    <3>1. issued[c] # Absent /\ issued'[c] = issued[c]
      BY <1>1, <2>2 DEF CallOK, HistoryGrows
    <3> QED  BY <2>2, <3>1
  <2> QED  BY <1>3, <2>1, <2>2, NoncesChange
<1>4. ASSUME NEW t \in Tokens, granted'[t] # Absent
      PROVE  /\ issued'[granted'[t].chal] # Absent
             /\ tokens'[t] # Absent =>
                   /\ tokens'[t].scope = issued'[granted'[t].chal].scope
                   /\ tokens'[t].expires = granted'[t].at + TokenTTL
  <2>1. CASE granted[t] = Absent
    <3> DEFINE c == req[w].chal
    <3>1. /\ pc[w] = "issue" /\ granted'[t].chal = c
          /\ granted'[t].at = now[w] /\ issued' = issued
          /\ tokens'[t] = TokenRecord(c, now[w])
      BY <1>4, <2>1, GrantedChange
    <3>2. issued[c] # Absent
      BY <1>1, <3>1 DEF CallOK
    <3> QED  BY <3>1, <3>2 DEF TokenRecord
  <2>2. CASE granted[t] # Absent
    <3>1. /\ granted'[t] = granted[t]
          /\ issued[granted[t].chal] # Absent
          /\ granted[t].chal \in Challenges
      BY <1>1, <2>2 DEF HistoryGrows, RecordInv, TypeOK, Granted
    <3>2. issued'[granted[t].chal] = issued[granted[t].chal]
      BY <1>1, <3>1 DEF HistoryGrows
    <3>3. tokens'[t] \in {tokens[t], Absent}
      BY <2>2, TokensChange DEF FreshToken
    <3> QED  BY <2>2, <3>1, <3>2, <3>3 DEF RecordInv
  <2> QED  BY <2>1, <2>2
<1> QED  BY <1>2, <1>3, <1>4 DEF RecordInv

\* A worker comes to claim a nonce with the time it has just read.
LEMMA ArriveAtClaim ==
    ASSUME Typed, NEW w \in Workers, Call(w) \/ Step(w), pc'[w] = "claim"
    PROVE  /\ req'[w] = req[w] /\ now'[w] = clock
           /\ UNCHANGED <<history, clock>>
           /\ clock <= issued[req[w].chal].expires
<1>1. pc \in [Workers -> Locations] /\ now \in [Workers -> Nat]
  BY DEF Typed, TypeOK
<1>2. ASSUME NEW p, Goto(w, p) \/ ReadClockGoto(w, p) PROVE p = "claim"
  BY <1>1, <1>2 DEF Goto, ReadClockGoto
<1>3. ~Return(w) /\ ~\E call, p : Begin(w, call, p) /\ p # "claim"
  BY <1>1 DEF Return, Begin
<1>4. RedeemSigned(w)
  BY <1>2, <1>3 DEF Call, BeginChallenge, BeginRedeem, BeginValidate,
     BeginCleanup, BeginReset, Step, LazyCleanup, Sweep, Cleanup, Reset,
     ChallengeStored, PutStored, ChallengeSigned, RedeemStored, Take, Claim,
     IssueToken, Validate, Consume, Accept, Abandon, StoreFails,
     StoreReplyLost
<1> QED
  BY <1>1, <1>3, <1>4 DEF RedeemSigned, ReadClockGoto, SignedAcceptable

LEMMA InTimeInvStep ==
    ASSUME Typed, RecordInv, InTimeInv, NEW w \in Workers, Call(w) \/ Step(w)
    PROVE  InTimeInv'
<1>1. HistoryGrows /\ OthersStay(w) /\ TypeOK /\ \A v \in Workers : CallOK(v)
  BY StepHistoryGrows, StepOthersStay DEF Typed, CallInv
<1>2. ASSUME NEW v \in Workers \ {w}, pc'[v] \in {"claim", "issue"}
      PROVE  now'[v] <= issued'[req'[v].chal].expires
  <2>1. now'[v] = now[v] /\ req'[v] = req[v] /\ pc'[v] = pc[v]
    BY <1>1 DEF OthersStay
  <2>2. issued'[req[v].chal] = issued[req[v].chal]
    BY <1>1, <1>2, <2>1, Arguments DEF CallOK, HistoryGrows
  <2> QED  BY <1>2, <2>1, <2>2 DEF InTimeInv
<1>3. ASSUME pc'[w] = "claim"
      PROVE  now'[w] <= issued'[req'[w].chal].expires
  BY <1>3, ArriveAtClaim DEF history
<1>4. ASSUME pc'[w] = "issue"
      PROVE  now'[w] <= issued'[req'[w].chal].expires
  <2> DEFINE c == req[w].chal
  <2>1. req'[w] = req[w] /\ issued' = issued
    BY <1>4, ArriveAtIssue DEF history
  <2>2. CASE pc[w] = "take" /\ now'[w] = now[w] /\ TakeChallengeOk(c, now[w])
    <3>1. /\ c \in Challenges /\ issued[c] # Absent /\ issued[c] \in Issued
          /\ challenges[c] \in Record \cup {Absent}
      BY <1>1, <2>2, Arguments DEF TypeOK, StoreTypeOK, CallOK
    <3>2. now[w] < issued[c].expires
      BY <2>2, <3>1 DEF TakeChallengeOk, RecordInv
    <3>3. now[w] \in Nat /\ issued[c].expires \in Nat
      BY <1>1, <3>1, Arguments DEF Issued
    <3> QED  BY <2>1, <2>2, <3>2, <3>3
  <2>3. CASE pc[w] = "claim" /\ now'[w] = now[w]
    BY <2>1, <2>3 DEF InTimeInv
  <2>4. CASE now'[w] = clock /\ clock <= issued[c].expires
    BY <2>1, <2>4
  <2> QED  BY <1>4, <2>2, <2>3, <2>4, ArriveAtIssue
<1>5. ASSUME NEW t \in Tokens, granted'[t] # Absent
      PROVE  granted'[t].at <= issued'[granted'[t].chal].expires
  <2>1. CASE granted[t] = Absent
    BY <1>5, <2>1, GrantedChange DEF InTimeInv
  <2>2. CASE granted[t] # Absent
    <3>1. /\ granted'[t] = granted[t]
          /\ issued'[granted[t].chal] = issued[granted[t].chal]
      BY <1>1, <2>2 DEF HistoryGrows, RecordInv, TypeOK, Granted
    <3> QED  BY <2>2, <3>1 DEF InTimeInv
  <2> QED  BY <2>1, <2>2
<1> QED  BY <1>2, <1>3, <1>4, <1>5 DEF InTimeInv

\* A token is marked used when it is accepted and deleted.
LEMMA UsedChange ==
    ASSUME Typed, NEW w \in Workers, Call(w) \/ Step(w)
    PROVE  \/ used' = used
           \/ /\ pc[w] = "consume" /\ req[w].tok \in Tokens
              /\ used' = used \cup {req[w].tok}
              /\ tokens'[req[w].tok] = Absent
              /\ granted' = granted
<1>1. CASE Consume(w)
  <2>1. /\ req[w].tok \in Tokens
        /\ tokens \in [Tokens -> Record \cup {Absent}]
    BY <1>1, Arguments DEF Typed, CallInv, TypeOK, StoreTypeOK, Consume
  <2> QED  BY <1>1, <2>1 DEF Consume, ConsumeToken
<1>2. Call(w) => used' = used
  BY DEF Call, BeginChallenge, BeginRedeem, BeginValidate, BeginCleanup,
     BeginReset, Begin, history
<1>3. Step(w) => used' = used \/ Consume(w)
  BY DEF Step, LazyCleanup, Sweep, Cleanup, Reset, ChallengeStored, PutStored,
     ChallengeSigned, RedeemStored, Take, RedeemSigned, Claim, IssueToken,
     Validate, Accept, Abandon, StoreFails, StoreReplyLost, history
<1> QED  BY <1>1, <1>2, <1>3

LEMMA ConsumedInvStep ==
    ASSUME Typed, ConsumedInv, NEW w \in Workers, Call(w) \/ Step(w)
    PROVE  ConsumedInv'
<1>1. HistoryGrows /\ TypeOK /\ CallOK(w)
  BY StepHistoryGrows DEF Typed, CallInv
<1> SUFFICES ASSUME NEW t \in used'
             PROVE  granted'[t] # Absent /\ tokens'[t] = Absent
  BY DEF ConsumedInv
<1>2. CASE t \in used
  <2>1. t \in Tokens /\ granted[t] # Absent /\ tokens[t] = Absent
    BY <1>1, <1>2 DEF TypeOK, ConsumedInv
  <2>2. granted'[t] # Absent
    BY <1>1, <2>1 DEF HistoryGrows
  <2>3. tokens'[t] \in {tokens[t], Absent}
    BY <2>1, TokensChange DEF FreshToken
  <2> QED  BY <2>1, <2>2, <2>3
<1>3. CASE t \notin used
  <2>1. /\ pc[w] = "consume" /\ t = req[w].tok
        /\ tokens'[t] = Absent /\ granted' = granted
    BY <1>3, UsedChange
  <2>2. granted[t] # Absent
    BY <1>1, <2>1 DEF CallOK
  <2> QED  BY <2>1, <2>2
<1> QED  BY <1>2, <1>3

\* A worker comes to accept a token from the store call that found it.
LEMMA ArriveAtAccepted ==
    ASSUME Typed, NEW w \in Workers, Call(w) \/ Step(w), pc'[w] = "accepted"
    PROVE  /\ pc[w] = "consume"
           /\ ConsumeTokenOk(req[w].tok, req[w].scope, now[w])
           /\ req'[w] = req[w] /\ now'[w] = now[w]
           /\ UNCHANGED <<issued, granted, resets, clock>>
<1>1. pc \in [Workers -> Locations] /\ now \in [Workers -> Nat]
  BY DEF Typed, TypeOK
<1>2. ASSUME NEW p, Goto(w, p) \/ ReadClockGoto(w, p) PROVE p = "accepted"
  BY <1>1, <1>2 DEF Goto, ReadClockGoto
<1>3. ~Return(w) /\ ~\E call, p : Begin(w, call, p) /\ p # "accepted"
  BY <1>1 DEF Return, Begin
<1>4. Consume(w) /\ Goto(w, "accepted")
  BY <1>2, <1>3 DEF Call, BeginChallenge, BeginRedeem, BeginValidate,
     BeginCleanup, BeginReset, Step, LazyCleanup, Sweep, Cleanup, Reset,
     ChallengeStored, PutStored, ChallengeSigned, RedeemStored, Take,
     RedeemSigned, Claim, IssueToken, Validate, Consume, Accept, Abandon,
     StoreFails, StoreReplyLost
<1> QED
  BY <1>3, <1>4 DEF Consume, Goto

LEMMA AcceptedInvStep ==
    ASSUME Typed, RecordInv, AcceptedInv, NEW w \in Workers, Call(w) \/ Step(w)
    PROVE  AcceptedInv'
<1>1. HistoryGrows /\ OthersStay(w) /\ TypeOK /\ \A v \in Workers : CallOK(v)
  BY StepHistoryGrows, StepOthersStay DEF Typed, CallInv
<1> SUFFICES ASSUME NEW v \in Workers, pc'[v] = "accepted"
             PROVE  /\ ScopeFits(issued'[granted'[req'[v].tok].chal].scope,
                                 req'[v].scope)
                    /\ now'[v] < granted'[req'[v].tok].at + TokenTTL
  BY DEF AcceptedInv, ScopeFits
<1>2. CASE v = w
  <2> DEFINE t == req[w].tok
  <2>1. /\ pc[w] = "consume" /\ ConsumeTokenOk(t, req[w].scope, now[w])
        /\ req'[w] = req[w] /\ now'[w] = now[w]
        /\ UNCHANGED <<issued, granted>>
    BY <1>2, ArriveAtAccepted
  <2>2. t \in Tokens /\ granted[t] # Absent /\ tokens[t] # Absent
    BY <1>1, <2>1, Arguments DEF CallOK, ConsumeTokenOk
  <2> QED
    BY <1>2, <2>1, <2>2 DEF ConsumeTokenOk, RecordInv
<1>3. CASE v # w
  <2> DEFINE t == req[v].tok
  <2>1. pc'[v] = pc[v] /\ req'[v] = req[v] /\ now'[v] = now[v]
    BY <1>1, <1>3 DEF OthersStay
  <2>2. /\ t \in Tokens /\ granted[t] # Absent /\ granted[t] \in Granted
    BY <1>1, <2>1, Arguments DEF CallOK
  <2>3. /\ granted'[t] = granted[t]
        /\ issued'[granted[t].chal] = issued[granted[t].chal]
    BY <1>1, <2>2 DEF HistoryGrows, RecordInv, Granted
  <2> QED  BY <2>1, <2>3 DEF AcceptedInv
<1> QED  BY <1>2, <1>3

\* A worker comes to sweep having set lastCleanup; nobody else sets it.
LEMMA SweepChange ==
    ASSUME Typed, NEW w \in Workers, Call(w) \/ Step(w)
    PROVE  \/ /\ pc'[w] = "sweep" /\ now'[w] = now[w]
              /\ CleanupDue(now[w]) /\ lastCleanup' = now[w]
           \/ pc'[w] # "sweep" /\ lastCleanup' = lastCleanup
<1>1. pc \in [Workers -> Locations]
  BY DEF Typed, TypeOK
<1>2. ASSUME NEW p, Goto(w, p) \/ ReadClockGoto(w, p) PROVE pc'[w] = p
  BY <1>1, <1>2 DEF Goto, ReadClockGoto
<1>3. Return(w) => pc'[w] = "idle"
  BY <1>1 DEF Return
<1>4. ASSUME NEW call, NEW p, Begin(w, call, p)
      PROVE  pc'[w] = p /\ lastCleanup' = lastCleanup
  BY <1>1, <1>4 DEF Begin
<1>5. CASE LazyCleanup(w)
  BY <1>2, <1>5 DEF LazyCleanup, Goto
<1>6. CASE Call(w)
  BY <1>4, <1>6 DEF Call, BeginChallenge, BeginRedeem, BeginValidate,
     BeginCleanup, BeginReset
<1>7. Step(w) => \/ LazyCleanup(w)
                 \/ pc'[w] # "sweep" /\ lastCleanup' = lastCleanup
  BY <1>2, <1>3 DEF Step, Sweep, Cleanup, Reset, ChallengeStored, PutStored,
     ChallengeSigned, RedeemStored, Take, RedeemSigned, Claim, IssueToken,
     Validate, Consume, Accept, Abandon, StoreFails, StoreReplyLost
<1> QED  BY <1>5, <1>6, <1>7

LEMMA SweepInvStep ==
    ASSUME Typed, SweepInv, NEW w \in Workers, Call(w) \/ Step(w)
    PROVE  SweepInv'
<1>1. /\ OthersStay(w) /\ now \in [Workers -> Nat]
      /\ lastCleanup \in Nat \cup {Absent}
      /\ CleanupInterval \in Nat /\ Absent \notin Nat
  BY StepOthersStay, CapServerAssumption, AbsentAssumption DEF Typed, TypeOK
<1>2. \A v \in Workers \ {w} : pc'[v] = pc[v] /\ now'[v] = now[v]
  BY <1>1 DEF OthersStay
<1>3. CASE /\ pc'[w] = "sweep" /\ now'[w] = now[w]
           /\ CleanupDue(now[w]) /\ lastCleanup' = now[w]
  <2>1. ASSUME NEW v \in Workers \ {w}, pc[v] = "sweep"
        PROVE  now[v] + CleanupInterval <= now[w]
    <3>1. lastCleanup \in Nat /\ now[v] <= lastCleanup
          /\ lastCleanup + CleanupInterval <= now[w]
      BY <1>1, <1>3, <2>1 DEF SweepInv, CleanupDue
    <3> QED  BY <1>1, <3>1
  <2>2. SweepsSpaced'
    BY <1>2, <1>3, <2>1 DEF SweepInv, SweepsSpaced
  <2>3. ASSUME NEW v \in Workers, pc'[v] = "sweep"
        PROVE  lastCleanup' # Absent /\ now'[v] <= lastCleanup'
    <3>1. now[v] + CleanupInterval <= now[w] \/ v = w
      BY <1>2, <2>1, <2>3
    <3> QED  BY <1>1, <1>2, <1>3, <3>1
  <2> QED  BY <2>2, <2>3 DEF SweepInv
<1>4. CASE pc'[w] # "sweep" /\ lastCleanup' = lastCleanup
  <2>1. SweepsSpaced'
    BY <1>2, <1>4 DEF SweepInv, SweepsSpaced
  <2> QED  BY <1>2, <1>4, <2>1 DEF SweepInv
<1> QED  BY <1>3, <1>4, SweepChange

(***************************************************************************)
(* SingleUseInv: first for a challenge nobody held before the step, then   *)
(* for one that is redeemed, granted or neither by the step.               *)
(***************************************************************************)
LEMMA NewChallengeUnused ==
    ASSUME Typed, RecordInv, NEW w \in Workers, Call(w) \/ Step(w),
           NEW c \in Challenges, issued[c] = Absent, issued'[c] # Absent
    PROVE  SingleUse(c)'
<1>1. OthersStay(w) /\ granted' = granted /\ pc'[w] = "idle"
  BY StepOthersStay, IssuedChange DEF Typed
<1>2. ASSUME NEW v \in Workers PROVE ~Redeems(v, c)'
  <2>1. v # w /\ pc[v] = "issue" => req[v].chal # c
    BY DEF Typed, CallInv, CallOK
  <2> QED  BY <1>1, <2>1 DEF OthersStay, Redeems
<1>3. ASSUME NEW t \in Tokens PROVE ~GrantedFor(c, t)'
  BY <1>1 DEF GrantedFor, RecordInv
<1> QED  BY <1>2, <1>3 DEF SingleUse

\* As long as the server can enforce the single use of c, it remembers that
\* c is spent.
LEMMA SpentStays ==
    ASSUME Typed, TimeInv, RecordInv, NEW w \in Workers, Call(w) \/ Step(w),
           NEW c \in Challenges, issued[c] # Absent, Enforced(c)'
    PROVE  /\ issued'[c] = issued[c] /\ Enforced(c)
           /\ Spent(c) => Spent(c)'
<1>1. /\ HistoryGrows /\ clock' = clock /\ clock \in Nat
      /\ resets \in Nat /\ resets' \in Nat
      /\ issued[c] \in Issued /\ issued'[c] = issued[c]
  BY StepHistoryGrows DEF Typed, TypeOK, HistoryGrows
<1>2. issued[c].expires \in Nat /\ issued[c].epoch \in Nat
  BY <1>1 DEF Issued
<1>3. CASE issued[c].mode = "stored"
  BY <1>1, <1>3, ChallengesChange DEF Enforced, Spent
<1>4. CASE issued[c].mode # "stored"
  <2>1. Current(c)'
    BY <1>1, <1>4 DEF Enforced
  <2>2. issued[c].epoch <= resets /\ resets <= resets'
    BY <1>1 DEF TimeInv, HistoryGrows
  <2>3. clock < issued[c].expires /\ issued[c].epoch = resets
        /\ resets' = resets
    BY <1>1, <1>2, <2>1, <2>2 DEF Current
  <2>4. Enforced(c)
    BY <2>3 DEF Enforced, Current
  <2>5. nonces[c] # Absent => nonces'[c] # Absent
    <3>1. nonces[c] # Absent => nonces[c].expires = issued[c].expires
      BY DEF RecordInv
    <3>2. [expires |-> issued[c].expires] # Absent
      BY <1>2, AbsentAssumption DEF Nonce
    <3>3. ~(nonces[c] # Absent /\ nonces[c].expires <= clock)
      BY <1>1, <1>2, <2>3, <3>1
    <3>4. resets' # resets + 1
      BY <1>1, <2>3
    <3>5. nonces'[c] \in {nonces[c], [expires |-> issued[c].expires]}
      BY <3>3, <3>4, NoncesChange
    <3> QED  BY <3>2, <3>5
  <2> QED  BY <1>1, <1>4, <2>4, <2>5 DEF Spent
<1> QED  BY <1>3, <1>4

\* A worker that comes to redeem c finds it unspent, and spends it.
LEMMA RedeemSpends ==
    ASSUME Typed, TimeInv, RecordInv, NEW w \in Workers, Call(w) \/ Step(w),
           NEW c \in Challenges, issued[c] # Absent, Enforced(c),
           Redeems(w, c)'
    PROVE  ~Spent(c) /\ Spent(c)' /\ issued' = issued /\ granted' = granted
<1>1. pc'[w] = "issue" /\ req'[w].chal = c
  BY DEF Redeems
<1>2. req'[w] = req[w] /\ req[w].chal = c /\ UNCHANGED <<issued, granted>>
  BY <1>1, ArriveAtIssue DEF history
<1>3. /\ CallOK(w) /\ now[w] \in Nat /\ clock \in Nat /\ now[w] <= clock
      /\ issued[c] \in Issued
  BY DEF Typed, CallInv, TypeOK, TimeInv
<1>4. CASE /\ pc[w] = "take" /\ TakeChallengeOk(c, now[w])
           /\ challenges'[c] = Absent
  BY <1>2, <1>3, <1>4 DEF CallOK, TakeChallengeOk, Spent
<1>5. CASE /\ pc[w] = "claim" /\ ClaimNonceOk(c, now[w])
           /\ nonces'[c] = [expires |-> issued[c].expires]
  <2>1. issued[c].mode # "stored" /\ issued[c].expires \in Nat
    BY <1>2, <1>3, <1>5 DEF CallOK, Issued
  <2>2. clock < issued[c].expires
    BY <2>1 DEF Enforced, Current
  <2>3. nonces[c] = Absent
    BY <1>3, <1>5, <2>1, <2>2 DEF ClaimNonceOk, RecordInv
  <2>4. nonces'[c] # Absent
    BY <1>5, <2>1, AbsentAssumption DEF Nonce
  <2> QED  BY <1>2, <2>1, <2>3, <2>4 DEF Spent
<1>6. ~(issued[c].mode = "signed" /\ req[w].skipNonce)
  BY <1>2 DEF Redeems
<1> QED  BY <1>1, <1>2, <1>4, <1>5, <1>6, ArriveAtIssue

LEMMA SingleUseInvStep ==
    ASSUME Typed, TimeInv, RecordInv, SingleUseInv,
           NEW w \in Workers, Call(w) \/ Step(w)
    PROVE  SingleUseInv'
<1> SUFFICES ASSUME NEW c \in Challenges, issued'[c] # Absent, Enforced(c)'
             PROVE  SingleUse(c)'
  BY DEF SingleUseInv
<1>1. CASE issued[c] = Absent
  BY <1>1, NewChallengeUnused
<1>2. CASE issued[c] # Absent
  <2>1. /\ issued'[c] = issued[c] /\ Enforced(c)
        /\ Spent(c) => Spent(c)'
    BY <1>2, SpentStays
  <2>2. SingleUse(c)
    BY <1>2, <2>1 DEF SingleUseInv
  <2>3. /\ TypeOK /\ OthersStay(w) /\ HistoryGrows
    BY StepOthersStay, StepHistoryGrows DEF Typed
  <2>4. \A v \in Workers \ {w} : Redeems(v, c)' => Redeems(v, c)
    BY <2>1, <2>3 DEF OthersStay, Redeems
  <2>5. \A t \in Tokens : granted[t] # Absent =>
           (GrantedFor(c, t)' => GrantedFor(c, t))
    BY <2>3 DEF HistoryGrows, GrantedFor
  <2>6. CASE Redeems(w, c)'
    <3>1. ~Spent(c) /\ Spent(c)' /\ granted' = granted
      BY <1>2, <2>1, <2>6, RedeemSpends
    <3>2. \A v \in Workers \ {w} : ~Redeems(v, c)'
      BY <2>2, <2>4, <3>1 DEF SingleUse
    <3>3. \A t \in Tokens : ~GrantedFor(c, t)'
      BY <2>2, <3>1 DEF SingleUse, GrantedFor
    <3> QED  BY <3>1, <3>2, <3>3 DEF SingleUse
  <2>7. ASSUME NEW t \in Tokens, granted[t] = Absent, GrantedFor(c, t)'
        PROVE  SingleUse(c)'
    <3>1. granted'[t] # Absent /\ granted'[t].chal = c
          /\ ~granted'[t].skipNonce
      BY <2>7 DEF GrantedFor
    <3>2. Redeems(w, c) /\ pc'[w] = "idle"
      BY <2>7, <3>1, GrantedChange DEF Redeems
    <3>3. Spent(c)'
      BY <2>1, <2>2, <3>2 DEF SingleUse
    <3>4. \A v \in Workers : ~Redeems(v, c)'
      BY <2>2, <2>4, <3>2 DEF SingleUse, Redeems
    <3>5. \A s \in Tokens \ {t} : ~GrantedFor(c, s)'
      <4>1. \A s \in Tokens \ {t} : granted'[s] = granted[s]
        BY <2>7, <3>1, GrantedChange
      <4> QED  BY <2>2, <3>2, <4>1 DEF SingleUse, GrantedFor
    <3> QED  BY <3>3, <3>4, <3>5 DEF SingleUse
  <2>8. CASE /\ ~Redeems(w, c)'
             /\ \A t \in Tokens : granted[t] = Absent => ~GrantedFor(c, t)'
    <3>1. /\ \A v \in Workers : Redeems(v, c)' => Redeems(v, c)
          /\ \A t \in Tokens : GrantedFor(c, t)' => GrantedFor(c, t)
      BY <2>4, <2>5, <2>8
    <3> QED  BY <2>1, <2>2, <3>1 DEF SingleUse
  <2> QED  BY <2>6, <2>7, <2>8
<1> QED  BY <1>1, <1>2

(***************************************************************************)
(* IInv is an invariant.                                                   *)
(***************************************************************************)
Inductive == Typed /\ IInv

LEMMA InitInductive == Init => Inductive
<1> SUFFICES ASSUME Init PROVE Inductive
  OBVIOUS
<1>1. Typed
  BY InitTyped DEF Typed
<1>2. TimeInv /\ RecordInv /\ InTimeInv
  BY DEF Init, StoreInit, TimeInv, RecordInv, InTimeInv
<1>3. SingleUseInv /\ ConsumedInv /\ AcceptedInv /\ SweepInv
  BY DEF Init, SingleUseInv, ConsumedInv, AcceptedInv, SweepInv, SweepsSpaced
<1> QED  BY <1>1, <1>2, <1>3 DEF Inductive, IInv, Typed

\* Time passing disturbs only what speaks of the clock.
LEMMA TickInductive == Inductive /\ Tick => Inductive'
<1> SUFFICES ASSUME Inductive, Tick PROVE Inductive'
  OBVIOUS
<1>1. Typed'
  BY NextTyped DEF Inductive, Typed, Next
<1>2. /\ UNCHANGED <<challenges, nonces, tokens, lastCleanup, pc, req, now,
                     issued, granted, used, resets>>
      /\ clock \in Nat /\ clock' = clock + 1 /\ now \in [Workers -> Nat]
      /\ lastCleanup \in Nat \cup {Absent}
      /\ issued \in [Challenges -> Issued \cup {Absent}]
  BY DEF Inductive, Typed, TypeOK, Tick, storeVars, serverVars, history
<1>3. TimeInv'
  BY <1>2 DEF Inductive, IInv, TimeInv
<1>4. RecordInv' /\ InTimeInv'
  BY <1>2 DEF Inductive, IInv, RecordInv, InTimeInv
<1>5. SingleUseInv'
  <2>1. ASSUME NEW c \in Challenges, issued[c] # Absent, Enforced(c)'
        PROVE  SingleUse(c)'
    <3>1. Enforced(c)
      BY <1>2, <2>1 DEF Enforced, Current, Issued
    <3>2. SingleUse(c)
      BY <2>1, <3>1 DEF Inductive, IInv, SingleUseInv
    <3> QED  BY <1>2, <3>2 DEF SingleUse, Redeems, GrantedFor, Spent
  <2> QED  BY <1>2, <2>1 DEF SingleUseInv
<1>6. ConsumedInv' /\ AcceptedInv' /\ SweepInv'
  BY <1>2 DEF Inductive, IInv, ConsumedInv, AcceptedInv, ScopeFits, SweepInv,
     SweepsSpaced
<1> QED
  BY <1>1, <1>3, <1>4, <1>5, <1>6 DEF Inductive, IInv, Typed

LEMMA StepInductive ==
    ASSUME Inductive, NEW w \in Workers, Call(w) \/ Step(w)
    PROVE  Inductive'
<1>1. Typed'
  <2>1. Next
    BY DEF Next
  <2> QED  BY <2>1, NextTyped DEF Inductive, Typed
<1>2. /\ TimeInv' /\ RecordInv' /\ InTimeInv' /\ SingleUseInv'
      /\ ConsumedInv' /\ AcceptedInv' /\ SweepInv'
  BY TimeInvStep, RecordInvStep, InTimeInvStep, SingleUseInvStep,
     ConsumedInvStep, AcceptedInvStep, SweepInvStep DEF Inductive, IInv
<1> QED  BY <1>1, <1>2 DEF Inductive, IInv, Typed

LEMMA NextInductive == Inductive /\ [Next]_vars => Inductive'
<1> SUFFICES ASSUME Inductive, [Next]_vars PROVE Inductive'
  OBVIOUS
<1>1. CASE Next
  BY <1>1, TickInductive, StepInductive DEF Next
<1>2. CASE UNCHANGED vars
  BY <1>2 DEF vars, storeVars, serverVars, history, Inductive, Typed, IInv,
     TypeOK, StoreTypeOK, CallInv, CallOK, TimeInv, RecordInv, InTimeInv,
     SingleUseInv, SingleUse, Enforced, Current, Redeems, GrantedFor, Spent,
     ConsumedInv, AcceptedInv, ScopeFits, SweepInv, SweepsSpaced
<1> QED  BY <1>1, <1>2

\* The inductive invariant holds of every reachable state.
THEOREM InductiveInvariant == Spec => []Inductive
BY InitInductive, NextInductive, PTL DEF Spec

\* In particular its part about times, records, sweeps and single use, which
\* relates the store's maps to what calls in progress and clients hold.
THEOREM InvariantHolds == Spec => []IInv
<1>1. Inductive => IInv
  BY DEF Inductive
<1> QED  BY <1>1, InductiveInvariant, PTL

\* Every variable has its type, whatever the interleaving.
THEOREM TypeInvariant == Spec => []TypeOK
<1>1. Inductive => TypeOK
  BY DEF Inductive, Typed
<1> QED  BY <1>1, InductiveInvariant, PTL

\* A challenge yields at most one token as long as the server can enforce it:
\* TakeChallenge and ClaimNonce do their part under any number of concurrent
\* redemptions, cleanups with old times, resets and store failures.
THEOREM ChallengeSingleUse == Spec => []OneTokenPerChallenge
<1>1. Inductive => OneTokenPerChallenge
  BY DEF Inductive, IInv, SingleUseInv, SingleUse, OneTokenPerChallenge
<1> QED  BY <1>1, InductiveInvariant, PTL

\* A token is accepted for its challenge's scope only.
THEOREM ScopeRespected == Spec => []AcceptedInScope
<1>1. Inductive => AcceptedInScope
  BY DEF Inductive, IInv, AcceptedInv, AcceptedInScope
<1> QED  BY <1>1, InductiveInvariant, PTL

\* A token is accepted less than TokenTTL after its challenge's expiry.
THEOREM ExpiryRespected == Spec => []AcceptedInTime
<1>1. ASSUME Inductive, NEW w \in Workers, pc[w] = "accepted"
      PROVE  now[w] < issued[granted[req[w].tok].chal].expires + TokenTTL
  <2> DEFINE g == granted[req[w].tok]
  <2>1. TypeOK /\ CallOK(w)
    BY <1>1 DEF Inductive, Typed, CallInv
  <2>2. req[w].tok \in Tokens /\ g \in Granted /\ g # Absent
    BY <1>1, <2>1, Arguments DEF CallOK
  <2>3. now[w] < g.at + TokenTTL /\ g.at <= issued[g.chal].expires
    BY <1>1, <2>2 DEF Inductive, IInv, AcceptedInv, InTimeInv
  <2>4. issued[g.chal] \in Issued
    BY <1>1, <2>1, <2>2 DEF Inductive, IInv, RecordInv, TypeOK, Granted
  <2>5. /\ now[w] \in Nat /\ g.at \in Nat /\ TokenTTL \in Nat
        /\ issued[g.chal].expires \in Nat
    BY <2>1, <2>2, <2>4, CapServerAssumption DEF TypeOK, Granted, Issued
  <2> QED  BY <2>3, <2>5
<1>2. Inductive => AcceptedInTime
  BY <1>1 DEF AcceptedInTime
<1> QED  BY <1>2, InductiveInvariant, PTL

\* No two lazy cleanups of one interval run at the same time.
THEOREM SweepsKeepApart == Spec => []SweepsSpaced
<1>1. Inductive => SweepsSpaced
  BY DEF Inductive, IInv, SweepInv
<1> QED  BY <1>1, InductiveInvariant, PTL

\* A token that was consumed is never accepted again, whichever validations,
\* cleanups and resets overlap.
THEOREM TokenSingleUse == Spec => AcceptedOnce
<1> DEFINE Once == \A w \in Workers :
              pc[w] = "consume" /\ pc'[w] = "accepted" => req[w].tok \notin used
<1>1. ASSUME Inductive, [Next]_vars, NEW w \in Workers,
             pc[w] = "consume", pc'[w] = "accepted"
      PROVE  req[w].tok \notin used
  <2>1. ~UNCHANGED pc
    BY <1>1
  <2>2. PICK v \in Workers : Call(v) \/ Step(v)
    BY <1>1, <2>1 DEF Next, Tick, vars, serverVars
  <2>3. v = w
    BY <1>1, <2>1, <2>2, StepOthersStay DEF Inductive, Typed, OthersStay
  <2>4. ConsumeTokenOk(req[w].tok, req[w].scope, now[w])
    BY <1>1, <2>2, <2>3, ArriveAtAccepted DEF Inductive
  <2>5. tokens[req[w].tok] # Absent
    BY <2>4 DEF ConsumeTokenOk
  <2> QED
    BY <1>1, <2>5 DEF Inductive, IInv, ConsumedInv
<1>2. Inductive /\ [Next]_vars => [Once]_vars
  BY <1>1
<1> QED  BY <1>2, InductiveInvariant, PTL DEF Spec, AcceptedOnce

(***************************************************************************)
(* What leaves the store, and why.                                         *)
(***************************************************************************)
LEMMA CleanupLeaves ==
    ASSUME NEW K, NEW map \in [K -> Record \cup Nonce \cup {Absent}],
           NEW k \in K, NEW at \in Nat, clock \in Nat, at <= clock,
           map[k] # Absent, LiveEntries(map, at)[k] = Absent
    PROVE  map[k].expires <= clock
<1>1. map[k].expires <= at
  BY DEF LiveEntries
<1>2. map[k].expires \in Nat
  BY DEF Record, Nonce
<1> QED  BY <1>1, <1>2

LEMMA ChallengeLeaves ==
    ASSUME Typed, TimeInv, NEW w \in Workers, Call(w) \/ Step(w),
           resets' = resets, NEW c \in Challenges,
           challenges[c] # Absent, challenges'[c] = Absent
    PROVE  \/ challenges[c].expires <= clock
           \/ pc[w] = "take" /\ pc'[w] # "take" /\ req[w].chal = c
<1>1. /\ TypeOK /\ CallOK(w)
      /\ now[w] \in Nat /\ clock \in Nat /\ now[w] <= clock /\ resets \in Nat
      /\ challenges \in [Challenges -> Record \cup {Absent}]
      /\ pc \in [Workers -> Locations]
  BY DEF Typed, CallInv, TypeOK, StoreTypeOK, TimeInv
<1>2. CASE StoreCleanup(now[w])
  BY <1>1, <1>2, CleanupLeaves DEF StoreCleanup
<1>3. CASE /\ pc[w] = "take" /\ TakeChallenge(req[w].chal)
           /\ Return(w) \/ Goto(w, "issue")
  BY <1>1, <1>3 DEF TakeChallenge, Return, Goto
<1>4. ASSUME NEW d, NEW r, FreshChallenge(d), PutChallenge(d, r)
      PROVE  challenges'[c] = challenges[c]
  BY <1>1, <1>4 DEF FreshChallenge, PutChallenge
<1>5. Call(w) => challenges' = challenges
  BY DEF Call, BeginChallenge, BeginRedeem, BeginValidate, BeginCleanup,
     BeginReset, Begin, storeVars
<1>6. ~Reset(w)
  BY <1>1 DEF Reset
<1>7. Step(w) => \/ challenges' = challenges
                 \/ Reset(w)
                 \/ StoreCleanup(now[w])
                 \/ /\ pc[w] = "take" /\ TakeChallenge(req[w].chal)
                    /\ Return(w) \/ Goto(w, "issue")
                 \/ \E d, r : FreshChallenge(d) /\ PutChallenge(d, r)
  BY DEF Step, LazyCleanup, Sweep, Cleanup, ChallengeStored, PutStored,
     ChallengeSigned, RedeemStored, Take, RedeemSigned, Claim, ClaimNonce,
     IssueToken, PutToken, Validate, Consume, ConsumeToken, Accept, Abandon,
     StoreFails, StoreReplyLost, storeVars
<1> QED  BY <1>2, <1>3, <1>4, <1>5, <1>6, <1>7

LEMMA TokenLeaves ==
    ASSUME Typed, TimeInv, NEW w \in Workers, Call(w) \/ Step(w),
           resets' = resets, NEW t \in Tokens,
           tokens[t] # Absent, tokens'[t] = Absent
    PROVE  \/ tokens[t].expires <= clock
           \/ /\ pc[w] = "consume" /\ pc'[w] # "consume"
              /\ req[w].tok = t /\ ~req[w].keep
              /\ ScopeFits(tokens[t].scope, req[w].scope)
              /\ t \in used' \/ Faults
<1>1. /\ TypeOK /\ CallOK(w)
      /\ now[w] \in Nat /\ clock \in Nat /\ now[w] <= clock /\ resets \in Nat
      /\ tokens \in [Tokens -> Record \cup {Absent}]
      /\ pc \in [Workers -> Locations]
  BY DEF Typed, CallInv, TypeOK, StoreTypeOK, TimeInv
<1>2. CASE StoreCleanup(now[w])
  BY <1>1, <1>2, CleanupLeaves DEF StoreCleanup
<1>3. CASE /\ pc[w] = "consume"
           /\ ConsumeToken(req[w].tok, req[w].scope, now[w], req[w].keep)
           /\ Return(w) \/ Goto(w, "accepted")
           /\ \/ Faults
              \/ ConsumeTokenOk(req[w].tok, req[w].scope, now[w])
                 /\ ~req[w].keep => req[w].tok \in used'
  <2>1. req[w].tok = t
    BY <1>1, <1>3 DEF ConsumeToken
  <2>2. pc'[w] # "consume"
    BY <1>1, <1>3 DEF Return, Goto
  <2>3. CASE tokens[t].expires <= now[w]
    <3>1. tokens[t].expires \in Nat
      BY <1>1 DEF Record
    <3> QED  BY <1>1, <2>3, <3>1
  <2>4. CASE ConsumeTokenOk(t, req[w].scope, now[w]) /\ ~req[w].keep
    BY <1>3, <2>1, <2>2, <2>4 DEF ConsumeTokenOk
  <2> QED
    BY <1>1, <1>3, <2>1, <2>3, <2>4 DEF ConsumeToken
<1>4. ASSUME NEW u, NEW r, FreshToken(u), PutToken(u, r)
      PROVE  tokens'[t] = tokens[t]
  BY <1>1, <1>4 DEF FreshToken, PutToken
<1>5. Call(w) => tokens' = tokens
  BY DEF Call, BeginChallenge, BeginRedeem, BeginValidate, BeginCleanup,
     BeginReset, Begin, storeVars
<1>6. ~Reset(w)
  BY <1>1 DEF Reset
<1>7. Consume(w) \/ (pc[w] = "consume" /\ StoreReplyLost(w)) =>
         /\ pc[w] = "consume"
         /\ ConsumeToken(req[w].tok, req[w].scope, now[w], req[w].keep)
         /\ Return(w) \/ Goto(w, "accepted")
         /\ \/ Faults
            \/ ConsumeTokenOk(req[w].tok, req[w].scope, now[w])
               /\ ~req[w].keep => req[w].tok \in used'
  BY DEF Consume, StoreReplyLost
<1>8. Step(w) => \/ tokens' = tokens
                 \/ Reset(w)
                 \/ StoreCleanup(now[w])
                 \/ Consume(w) \/ (pc[w] = "consume" /\ StoreReplyLost(w))
                 \/ \E u, r : FreshToken(u) /\ PutToken(u, r)
  BY DEF Step, LazyCleanup, Sweep, Cleanup, ChallengeStored, PutStored,
     PutChallenge, ChallengeSigned, RedeemStored, Take, TakeChallenge,
     RedeemSigned, Claim, ClaimNonce, IssueToken, Validate, Accept, Abandon,
     StoreFails, StoreReplyLost, storeVars
<1> QED  BY <1>2, <1>3, <1>4, <1>5, <1>6, <1>7, <1>8

\* Every step is a step of one worker, or leaves all but the clock alone.
LEMMA WhoSteps ==
    [Next]_vars => \/ \E w \in Workers : Call(w) \/ Step(w)
                   \/ UNCHANGED <<storeVars, serverVars, history>>
BY DEF Next, Tick, vars

\* Nothing live leaves the store but by Take, Consume and Reset, whatever
\* times the cleanups run with and however the store fails.
THEOREM LiveEntriesStay == Spec => DropsOnlyExpired
<1> DEFINE Challenge(c) == challenges[c] # Absent /\ challenges'[c] = Absent =>
              \/ challenges[c].expires <= clock
              \/ \E w \in Workers :
                    pc[w] = "take" /\ pc'[w] # "take" /\ req[w].chal = c
           Kept(c) == nonces[c] # Absent /\ nonces'[c] = Absent =>
              nonces[c].expires <= clock
           Token(t) == tokens[t] # Absent /\ tokens'[t] = Absent =>
              \/ tokens[t].expires <= clock
              \/ \E w \in Workers :
                    /\ pc[w] = "consume" /\ pc'[w] # "consume"
                    /\ req[w].tok = t /\ ~req[w].keep
                    /\ ScopeFits(tokens[t].scope, req[w].scope)
<1>1. ASSUME Inductive, NEW w \in Workers, Call(w) \/ Step(w), resets' = resets
      PROVE  /\ \A c \in Challenges : Challenge(c) /\ Kept(c)
             /\ \A t \in Tokens : Token(t)
  <2>1. Typed /\ TimeInv /\ RecordInv /\ resets \in Nat
    BY <1>1 DEF Inductive, Typed, IInv, TypeOK
  <2>2. ASSUME NEW c \in Challenges PROVE Challenge(c)
    BY <1>1, <2>1, ChallengeLeaves
  <2>3. ASSUME NEW c \in Challenges, nonces[c] # Absent, nonces'[c] = Absent
        PROVE  nonces[c].expires <= clock
    <3>1. issued[c] # Absent /\ issued[c] \in Issued
      BY <2>1, <2>3 DEF RecordInv, Typed, TypeOK
    <3>2. [expires |-> issued[c].expires] # Absent
      BY <3>1, AbsentAssumption DEF Nonce, Issued
    <3>3. resets' # resets + 1
      BY <1>1, <2>1
    <3> QED  BY <1>1, <2>1, <2>3, <3>2, <3>3, NoncesChange
  <2>4. ASSUME NEW t \in Tokens PROVE Token(t)
    BY <1>1, <2>1, TokenLeaves
  <2> QED  BY <2>2, <2>3, <2>4
<1>2. Inductive /\ [Next]_vars =>
         [resets' = resets => /\ \A c \in Challenges : Challenge(c)
                              /\ \A c \in Challenges : Kept(c)
                              /\ \A t \in Tokens : Token(t)]_vars
  <2> SUFFICES ASSUME Inductive, [Next]_vars, resets' = resets
               PROVE  /\ \A c \in Challenges : Challenge(c) /\ Kept(c)
                      /\ \A t \in Tokens : Token(t)
    OBVIOUS
  <2>1. CASE UNCHANGED <<storeVars, serverVars, history>>
    BY <2>1 DEF storeVars
  <2> QED  BY <1>1, <2>1, WhoSteps
<1> QED  BY <1>2, InductiveInvariant, PTL DEF Spec, DropsOnlyExpired

(***************************************************************************)
(* What stays in the store is honoured, if the store does not fail.        *)
(***************************************************************************)
LEMMA HonoursInvStep ==
    ASSUME Inductive, HonoursInv, ~Faults,
           NEW w \in Workers, Call(w) \/ Step(w)
    PROVE  HonoursInv'
<1>1. /\ Typed /\ TypeOK /\ CallOK(w) /\ TimeInv /\ RecordInv
      /\ HistoryGrows /\ clock' = clock /\ resets' \in Nat /\ resets \in Nat
  BY StepHistoryGrows DEF Inductive, Typed, IInv, CallInv, TypeOK
<1>2. TypeOK'
  BY StepInductive DEF Inductive, Typed
<1> SUFFICES ASSUME NEW t \in Tokens, granted'[t] # Absent, t \notin used',
                    granted'[t].epoch = resets',
                    clock' < granted'[t].at + TokenTTL
             PROVE  tokens'[t] # Absent
  BY DEF HonoursInv
<1>3. CASE granted[t] = Absent
  <2>1. /\ pc[w] = "issue"
        /\ tokens'[t] = TokenRecord(req[w].chal, now[w])
    BY <1>1, <1>3, GrantedChange
  <2>2. TokenRecord(req[w].chal, now[w]) \in Record
    BY <1>1, <2>1, Arguments, CapServerAssumption
       DEF TokenRecord, Record, Issued, TypeOK
  <2> QED  BY <2>1, <2>2, AbsentAssumption
<1>4. CASE granted[t] # Absent
  <2>1. granted'[t] = granted[t] /\ granted[t] \in Granted
    BY <1>1, <1>4 DEF HistoryGrows, TypeOK
  <2>2. resets' = resets
    BY <1>1, <1>4, <2>1 DEF TimeInv, HistoryGrows, Granted
  <2>3. t \notin used
    BY <1>1, UsedChange
  <2>4. tokens[t] # Absent
    BY <1>1, <1>4, <2>1, <2>2, <2>3 DEF HonoursInv
  <2>5. ~(tokens[t].expires <= clock)
    <3>1. tokens[t].expires = granted[t].at + TokenTTL
      BY <1>1, <1>4, <2>4 DEF RecordInv
    <3>2. granted[t].at + TokenTTL \in Nat /\ clock \in Nat
      BY <1>1, <2>1, CapServerAssumption DEF Granted, TypeOK
    <3> QED  BY <1>1, <2>1, <3>1, <3>2
  <2> QED  BY <1>1, <2>2, <2>4, <2>5, TokenLeaves
<1> QED  BY <1>3, <1>4

LEMMA HonoursInvNext ==
    ~Faults => (Inductive /\ HonoursInv /\ [Next]_vars => HonoursInv')
<1> SUFFICES ASSUME ~Faults, Inductive, HonoursInv, [Next]_vars
             PROVE  HonoursInv'
  OBVIOUS
<1>1. ASSUME NEW w \in Workers, Call(w) \/ Step(w) PROVE HonoursInv'
  BY <1>1, HonoursInvStep
<1>2. CASE Tick
  <2>1. /\ UNCHANGED <<tokens, granted, used, resets>>
        /\ clock \in Nat /\ clock' = clock + 1
        /\ granted \in [Tokens -> Granted \cup {Absent}]
    BY <1>2 DEF Tick, storeVars, history, Inductive, Typed, TypeOK
  <2> QED  BY <2>1, CapServerAssumption DEF HonoursInv, Granted
<1>3. CASE UNCHANGED vars
  BY <1>3 DEF vars, storeVars, history, HonoursInv
<1> QED  BY <1>1, <1>2, <1>3 DEF Next

\* A validation whose token is in the store and fits is answered "accepted".
LEMMA ConsumeAccepts ==
    ASSUME Typed, ~Faults, NEW w \in Workers, Call(w) \/ Step(w),
           pc[w] = "consume", pc'[w] # "consume",
           ConsumeTokenOk(req[w].tok, req[w].scope, now[w])
    PROVE  pc'[w] = "accepted"
<1>1. pc \in [Workers -> Locations]
  BY DEF Typed, TypeOK
<1>2. Consume(w)
  BY DEF Call, BeginChallenge, BeginRedeem, BeginValidate, BeginCleanup,
     BeginReset, Begin, Step, LazyCleanup, Sweep, Cleanup, Reset,
     ChallengeStored, PutStored, ChallengeSigned, RedeemStored, Take,
     Redeeming, RedeemSigned, Claim, IssueToken, Validate, Accept, Abandon,
     StoreFails, StoreReplyLost
<1> QED  BY <1>1, <1>2 DEF Consume, Goto

\* Without store errors, Validate accepts every token that is live, unused,
\* granted since the latest Reset and of a fitting scope: no cleanup, failed
\* validation or validation with Keep takes it away.
THEOREM LiveTokensHonoured == ~Faults => (Spec => ValidTokenAccepted)
<1> SUFFICES ASSUME ~Faults PROVE Spec => ValidTokenAccepted
  OBVIOUS
<1> DEFINE Honoured(w) ==
              LET t == req[w].tok IN
              /\ pc[w] = "consume" /\ pc'[w] # "consume"
              /\ t \notin used
              /\ granted[t].epoch = resets
              /\ clock < granted[t].at + TokenTTL
              /\ ScopeFits(issued[granted[t].chal].scope, req[w].scope)
              => pc'[w] = "accepted"
           Honour == \A w \in Workers : Honoured(w)
<1>1. ASSUME Inductive, HonoursInv, [Next]_vars, NEW w \in Workers
      PROVE  Honoured(w)
  <2> DEFINE t == req[w].tok
  <2> SUFFICES ASSUME pc[w] = "consume", pc'[w] # "consume", t \notin used,
                      granted[t].epoch = resets,
                      clock < granted[t].at + TokenTTL,
                      ScopeFits(issued[granted[t].chal].scope, req[w].scope)
               PROVE  pc'[w] = "accepted"
    OBVIOUS
  <2>1. /\ Typed /\ TypeOK /\ CallOK(w) /\ RecordInv /\ now[w] <= clock
        /\ clock \in Nat /\ now[w] \in Nat
    BY <1>1 DEF Inductive, Typed, IInv, CallInv, TypeOK, TimeInv
  <2>2. t \in Tokens /\ granted[t] \in Granted /\ granted[t] # Absent
    BY <2>1, Arguments DEF CallOK
  <2>3. tokens[t] # Absent
    BY <1>1, <2>2 DEF HonoursInv
  <2>4. /\ tokens[t].scope = issued[granted[t].chal].scope
        /\ tokens[t].expires = granted[t].at + TokenTTL
    BY <2>1, <2>2, <2>3 DEF RecordInv
  <2>5. now[w] < tokens[t].expires
    BY <2>1, <2>2, <2>4, CapServerAssumption DEF Granted
  <2>6. ConsumeTokenOk(t, req[w].scope, now[w])
    BY <2>3, <2>4, <2>5 DEF ConsumeTokenOk
  <2>7. PICK v \in Workers : Call(v) \/ Step(v)
    BY <1>1, WhoSteps DEF serverVars
  <2>8. v = w
    BY <2>1, <2>7, StepOthersStay DEF OthersStay
  <2> QED  BY <2>1, <2>6, <2>7, <2>8, ConsumeAccepts
<1>2. Init => HonoursInv
  BY DEF Init, HonoursInv
<1>3. Inductive /\ HonoursInv /\ [Next]_vars => HonoursInv'
  BY HonoursInvNext
<1>4. Inductive /\ HonoursInv /\ [Next]_vars => [Honour]_vars
  BY <1>1
<1> QED  BY <1>2, <1>3, <1>4, InductiveInvariant, PTL DEF Spec, ValidTokenAccepted
=============================================================================
