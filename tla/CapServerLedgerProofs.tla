------------------------ MODULE CapServerLedgerProofs ----------------------
(***************************************************************************)
(* CapServer implements Ledger: for any workers, challenges, tokens, times *)
(* and store faults, every step is a step of the ledger or leaves it alone.*)
(***************************************************************************)
EXTENDS CapServerLedger, CapServerProofs

\* What a step that is not a use of anything does to the ledger's view.
StatusFades == \A c \in Challenges :
    /\ StatusOf(c)' \in {"new", "open", "spent", "lapsed"}
    /\ L!MayFade(StatusOf(c), StatusOf(c)')
TokensGo == \A t \in Tokens :
    /\ TokOf(t)' \in {"new", "good", "used", "gone"}
    /\ L!MayGo(TokOf(t), TokOf(t)')
SameStatus  == \A c \in Challenges : StatusOf(c)' = StatusOf(c)
SameToks    == \A t \in Tokens : TokOf(t)' = TokOf(t)
SameOrigins == \A t \in Tokens : OriginOf(t)' = OriginOf(t)
OthersSame(w) == \A v \in Workers \ {w} :
    RightOf(v)' = RightOf(v) /\ VerdictOf(v)' = VerdictOf(v)

\* The other workers keep their rights and verdicts.
LEMMA OthersViewSame ==
    ASSUME Typed, NEW w \in Workers, Call(w) \/ Step(w)
    PROVE  OthersSame(w)
<1>1. OthersStay(w) /\ HistoryGrows /\ TypeOK
  BY StepOthersStay, StepHistoryGrows DEF Typed
<1> SUFFICES ASSUME NEW v \in Workers \ {w}
             PROVE  RightOf(v)' = RightOf(v) /\ VerdictOf(v)' = VerdictOf(v)
  BY DEF OthersSame
<1>2. pc'[v] = pc[v] /\ req'[v] = req[v]
  BY <1>1 DEF OthersStay
<1>3. pc[v] = "issue" =>
         req[v].chal \in Challenges /\ issued[req[v].chal] # Absent
  BY <1>1, Arguments DEF Typed, CallInv, CallOK
<1>4. pc[v] = "issue" => issued'[req[v].chal] = issued[req[v].chal]
  BY <1>1, <1>3 DEF HistoryGrows
<1> QED  BY <1>2, <1>4 DEF RightOf, VerdictOf, Redeems

\* A challenge is forgotten, at most.
LEMMA StatusFade ==
    ASSUME Typed, TimeInv, RecordInv, NEW w \in Workers, Call(w) \/ Step(w),
           issued' = issued
    PROVE  StatusFades
<1> SUFFICES ASSUME NEW c \in Challenges, issued[c] # Absent
             PROVE  L!MayFade(StatusOf(c), StatusOf(c)')
  BY DEF StatusFades, StatusOf, L!MayFade
<1>1. Enforced(c)' => Enforced(c) /\ (Spent(c) => Spent(c)')
  BY SpentStays
<1> QED  BY <1>1 DEF StatusOf, L!MayFade

\* A token goes, at most.
LEMMA TokenFade ==
    ASSUME Typed, NEW w \in Workers, Call(w) \/ Step(w),
           UNCHANGED <<granted, used>>
    PROVE  TokensGo /\ SameOrigins
<1>1. ASSUME NEW t \in Tokens, granted[t] # Absent
      PROVE  tokens'[t] \in {tokens[t], Absent}
  BY <1>1, TokensChange DEF FreshToken
<1>2. TokensGo
  BY <1>1 DEF TokensGo, TokOf, L!MayGo
<1> QED  BY <1>2 DEF SameOrigins, OriginOf

-----------------------------------------------------------------------------
(* From the views to steps of the ledger *)

LEMMA LedgerForgets ==
    ASSUME StatusFades, TokensGo, SameOrigins, NEW w \in Workers,
           OthersSame(w), RightOf(w)' = RightOf(w), VerdictOf(w)' = VerdictOf(w)
    PROVE  L!Next
<1>1. L!Forget
  BY DEF L!Forget, StatusFades, TokensGo, SameOrigins, OthersSame
<1> QED  BY <1>1 DEF L!Next

LEMMA LedgerForfeits ==
    ASSUME SameStatus, SameToks, SameOrigins, NEW w \in Workers,
           OthersSame(w), RightOf(w)' = Absent, VerdictOf(w)' = VerdictOf(w)
    PROVE  L!Next
<1>1. L!Forfeit(w)
  BY DEF L!Forfeit, SameStatus, SameToks, SameOrigins, OthersSame
<1> QED  BY <1>1 DEF L!Next

LEMMA LedgerAnswers ==
    ASSUME SameStatus, SameToks, SameOrigins, NEW w \in Workers,
           OthersSame(w), RightOf(w)' = RightOf(w), VerdictOf(w)' = Absent
    PROVE  L!Next
<1>1. L!Answer(w)
  BY DEF L!Answer, SameStatus, SameToks, SameOrigins, OthersSame
<1> QED  BY <1>1 DEF L!Next

LEMMA LedgerIssues ==
    ASSUME NEW c \in Challenges, StatusOf(c) = "new",
           StatusOf(c)' \in {"open", "lapsed"},
           \A d \in Challenges \ {c} : StatusOf(d)' = StatusOf(d),
           SameToks, SameOrigins, NEW w \in Workers,
           OthersSame(w), RightOf(w)' = RightOf(w), VerdictOf(w)' = VerdictOf(w)
    PROVE  L!Next
<1>1. L!Issue(c)
  BY DEF L!Issue, SameToks, SameOrigins, OthersSame
<1> QED  BY <1>1 DEF L!Next

LEMMA LedgerRedeems ==
    ASSUME NEW c \in Challenges,
           \/ StatusOf(c) = "open" /\ StatusOf(c)' = "spent"
           \/ StatusOf(c) = "lapsed" /\ StatusOf(c)' = "lapsed",
           \A d \in Challenges \ {c} : StatusOf(d)' = StatusOf(d),
           SameToks, SameOrigins, NEW w \in Workers,
           OthersSame(w), RightOf(w)' = c, VerdictOf(w)' = VerdictOf(w)
    PROVE  L!Next
<1>1. L!Redeem(w, c)
  BY DEF L!Redeem, SameToks, SameOrigins, OthersSame
<1> QED  BY <1>1 DEF L!Next

LEMMA LedgerGrants ==
    ASSUME NEW t \in Tokens, TokOf(t) = "new", TokOf(t)' = "good",
           \A u \in Tokens \ {t} :
               TokOf(u)' = TokOf(u) /\ OriginOf(u)' = OriginOf(u),
           SameStatus, NEW w \in Workers,
           \/ RightOf(w) # Absent /\ OriginOf(t)' = RightOf(w)
           \/ RightOf(w) = Absent /\ OriginOf(t)' = OriginOf(t),
           OthersSame(w), RightOf(w)' = Absent, VerdictOf(w)' = VerdictOf(w)
    PROVE  L!Next
<1>1. CASE RightOf(w) # Absent
  <2>1. L!Grant(w, t)
    BY <1>1 DEF L!Grant, SameStatus, OthersSame
  <2> QED  BY <2>1 DEF L!Next
<1>2. CASE RightOf(w) = Absent
  <2>1. L!GrantFree(t)
    BY <1>2 DEF L!GrantFree, SameStatus, OthersSame
  <2> QED  BY <2>1 DEF L!Next
<1> QED  BY <1>1, <1>2

LEMMA LedgerAccepts ==
    ASSUME NEW t \in Tokens, TokOf(t) = "good", TokOf(t)' \in {"good", "used"},
           \A u \in Tokens \ {t} : TokOf(u)' = TokOf(u),
           SameStatus, SameOrigins, NEW w \in Workers,
           OthersSame(w), RightOf(w)' = RightOf(w), VerdictOf(w)' = t
    PROVE  L!Next
<1>1. CASE TokOf(t)' = "good"
  <2>1. L!Accept(w, t)
    BY <1>1 DEF L!Accept, SameStatus, SameOrigins, OthersSame
  <2> QED  BY <2>1 DEF L!Next
<1>2. CASE TokOf(t)' = "used"
  <2>1. L!Accept(w, t)
    BY <1>2 DEF L!Accept, SameStatus, SameOrigins, OthersSame
  <2> QED  BY <2>1 DEF L!Next
<1> QED  BY <1>1, <1>2

-----------------------------------------------------------------------------
(* The steps of a call *)

\* Where a call arrives at neither a right nor a verdict.
LEMMA Arrivals ==
    ASSUME Typed, NEW w \in Workers, Call(w) \/ Step(w)
    PROVE  /\ \/ RightOf(w)' = Absent
              \/ Take(w) /\ Goto(w, "issue")
              \/ Claim(w) /\ Goto(w, "issue")
           /\ \/ VerdictOf(w)' = Absent
              \/ Consume(w) /\ Goto(w, "accepted")
<1>1. /\ TypeOK /\ CallOK(w)
      /\ pc \in [Workers -> Locations] /\ req \in [Workers -> Requests]
  BY DEF Typed, CallInv, TypeOK
<1>2. ASSUME NEW p \in {"sweep", "body", "put", "take", "claim", "consume"},
             Goto(w, p) \/ ReadClockGoto(w, p)
      PROVE  RightOf(w)' = Absent /\ VerdictOf(w)' = Absent
  BY <1>1, <1>2 DEF Goto, ReadClockGoto, RightOf, VerdictOf, Redeems
<1>3. Return(w) => RightOf(w)' = Absent /\ VerdictOf(w)' = Absent
  BY <1>1 DEF Return, RightOf, VerdictOf, Redeems
<1>4. ASSUME NEW call, NEW p \in {"lazy", "cleanup", "reset"},
             Begin(w, call, p)
      PROVE  RightOf(w)' = Absent /\ VerdictOf(w)' = Absent
  BY <1>1, <1>4 DEF Begin, RightOf, VerdictOf, Redeems
<1>5. ASSUME RedeemSigned(w), ReadClockGoto(w, "issue"), req[w].skipNonce
      PROVE  RightOf(w)' = Absent /\ VerdictOf(w)' = Absent
  <2>1. /\ pc'[w] = "issue" /\ req'[w] = req[w] /\ issued' = issued
        /\ issued[req[w].chal].mode = "signed"
    BY <1>1, <1>5 DEF RedeemSigned, Redeeming, ReadClockGoto, history
  <2>2. ~Redeems(w, req[w].chal)'
    BY <1>5, <2>1 DEF Redeems
  <2> QED  BY <2>1, <2>2 DEF RightOf, VerdictOf
<1>6. ASSUME Goto(w, "issue")
      PROVE  VerdictOf(w)' = Absent
  BY <1>1, <1>6 DEF Goto, VerdictOf
<1>7. ASSUME Goto(w, "accepted")
      PROVE  RightOf(w)' = Absent
  BY <1>1, <1>7 DEF Goto, RightOf, Redeems
<1>8. Call(w) => \E call : \E p \in {"lazy", "cleanup", "reset"} :
                    Begin(w, call, p)
  BY DEF Call, BeginChallenge, BeginRedeem, BeginValidate, BeginCleanup,
     BeginReset
<1>9. Step(w) => \/ Return(w)
                 \/ \E p \in {"sweep", "body", "put", "take", "claim", "consume"} :
                       Goto(w, p) \/ ReadClockGoto(w, p)
                 \/ Take(w) /\ Goto(w, "issue")
                 \/ Claim(w) /\ Goto(w, "issue")
                 \/ Consume(w) /\ Goto(w, "accepted")
                 \/ /\ RedeemSigned(w) /\ ReadClockGoto(w, "issue")
                    /\ req[w].skipNonce
  BY DEF Step, LazyCleanup, Sweep, Cleanup, Reset, ChallengeStored, PutStored,
     ChallengeSigned, RedeemStored, Take, RedeemSigned, Claim, IssueToken,
     Validate, Consume, Accept, Abandon, StoreFails, StoreReplyLost
<1>10. CASE Call(w)
  BY <1>4, <1>8, <1>10
<1>11. CASE Step(w)
  BY <1>2, <1>3, <1>5, <1>6, <1>7, <1>9, <1>11
<1> QED  BY <1>10, <1>11

\* A call that has a right or a verdict gives it up without touching the
\* ledger otherwise, unless it grants its token.
LEMMA Departures ==
    ASSUME Typed, NEW w \in Workers, Call(w) \/ Step(w),
           pc[w] \in {"issue", "accepted"}, granted' = granted
    PROVE  SameStatus /\ SameToks /\ SameOrigins
<1>1. TypeOK /\ tokens \in [Tokens -> Record \cup {Absent}]
  BY DEF Typed, TypeOK, StoreTypeOK
<1>2. ~Call(w)
  BY DEF Call, BeginChallenge, BeginRedeem, BeginValidate, BeginCleanup,
     BeginReset, Begin
<1>3. \/ Accept(w) \/ Abandon(w) \/ StoreFails(w)
      \/ StoreReplyLost(w) /\ pc[w] = "issue"
      \/ IssueToken(w)
  BY <1>2 DEF Step, LazyCleanup, Sweep, Cleanup, Reset, ChallengeStored,
     PutStored, ChallengeSigned, RedeemStored, Take, RedeemSigned, Redeeming,
     Claim, Validate, Consume, StoreReplyLost
<1>4. UNCHANGED <<issued, used, resets, clock, challenges, nonces>>
  BY <1>3 DEF Accept, Abandon, StoreFails, StoreReplyLost, IssueToken,
     PutToken, storeVars, history
<1>5. SameStatus /\ SameOrigins
  BY <1>4 DEF SameStatus, StatusOf, Enforced, Current, Spent, SameOrigins,
     OriginOf
<1>6. \A t \in Tokens : granted[t] # Absent => tokens'[t] = tokens[t]
  <2>1. ASSUME NEW u, NEW r, FreshToken(u), PutToken(u, r)
        PROVE  \A t \in Tokens : granted[t] # Absent => tokens'[t] = tokens[t]
    BY <1>1, <2>1 DEF FreshToken, PutToken
  <2> QED  BY <1>3, <2>1 DEF Accept, Abandon, StoreFails, StoreReplyLost,
              IssueToken, storeVars
<1>7. SameToks
  BY <1>4, <1>6 DEF SameToks, TokOf
<1> QED  BY <1>5, <1>7

\* A redemption gives its call a right when the store lets it.
LEMMA RedeemStep ==
    ASSUME Typed, TimeInv, RecordInv, NEW w \in Workers, Step(w),
           Take(w) \/ Claim(w), Goto(w, "issue")
    PROVE  L!Next
<1> DEFINE c == req[w].chal
<1>1. /\ TypeOK /\ CallOK(w) /\ CallOK(w)'
      /\ pc \in [Workers -> Locations]
      /\ challenges \in [Challenges -> Record \cup {Absent}]
      /\ nonces \in [Challenges -> Nonce \cup {Absent}]
  BY StepCallOK, CallCallOK DEF Typed, CallInv, TypeOK, StoreTypeOK
<1>2. /\ c \in Challenges /\ issued[c] # Absent
      /\ pc[w] \in {"take", "claim"} /\ pc'[w] = "issue" /\ req'[w] = req[w]
      /\ UNCHANGED <<issued, granted, used, resets, clock, tokens>>
  BY <1>1, Arguments DEF Take, Claim, CallOK, Goto, history, TakeChallenge,
     ClaimNonce
<1>3. Redeems(w, c)'
  BY <1>1, <1>2 DEF Redeems, CallOK
<1>4. RightOf(w)' = c /\ VerdictOf(w)' = Absent /\ VerdictOf(w) = Absent
  BY <1>2, <1>3 DEF RightOf, VerdictOf
<1>5. \A d \in Challenges \ {c} : StatusOf(d)' = StatusOf(d)
  <2>1. \A d \in Challenges \ {c} :
           challenges'[d] = challenges[d] /\ nonces'[d] = nonces[d]
    BY <1>1 DEF Take, Claim, TakeChallenge, ClaimNonce
  <2> QED  BY <1>2, <2>1 DEF StatusOf, Enforced, Current, Spent
<1>6. Enforced(c)' <=> Enforced(c)
  BY <1>2 DEF Enforced, Current
<1>7. Enforced(c) => ~Spent(c) /\ Spent(c)'
  BY <1>2, <1>3, RedeemSpends
<1>8. \/ StatusOf(c) = "open" /\ StatusOf(c)' = "spent"
      \/ StatusOf(c) = "lapsed" /\ StatusOf(c)' = "lapsed"
  BY <1>2, <1>6, <1>7 DEF StatusOf
<1>9. SameToks /\ SameOrigins
  BY <1>2 DEF SameToks, TokOf, SameOrigins, OriginOf
<1> QED
  BY <1>2, <1>4, <1>5, <1>8, <1>9, OthersViewSame, LedgerRedeems

\* issueToken turns the right of its call into a token. A redemption that
\* asked for SkipNonce has no right, and its token counts for no challenge.
LEMMA GrantStep ==
    ASSUME Typed, ConsumedInv, NEW w \in Workers, Step(w), NEW t \in Tokens,
           granted[t] = Absent, granted'[t] # Absent
    PROVE  L!Next
<1> DEFINE c == req[w].chal
<1>1. /\ pc[w] = "issue" /\ pc'[w] = "idle"
      /\ granted'[t].chal = c
      /\ tokens'[t] = TokenRecord(c, now[w])
      /\ \A s \in Tokens \ {t} : granted'[s] = granted[s]
      /\ UNCHANGED <<issued, challenges, nonces, used, resets>>
  BY GrantedChange
<1>2. /\ TypeOK /\ CallOK(w) /\ clock' = clock
      /\ tokens \in [Tokens -> Record \cup {Absent}]
      /\ granted \in [Tokens -> Granted \cup {Absent}]
  BY StepHistoryGrows DEF Typed, CallInv, TypeOK, StoreTypeOK
<1>3. c \in Challenges /\ issued[c] \in Issued /\ now[w] \in Nat
  BY <1>1, <1>2, Arguments
<1>4. IssueToken(w)
  BY <1>1 DEF Step, LazyCleanup, Sweep, Cleanup, Reset, ChallengeStored,
     PutStored, ChallengeSigned, RedeemStored, Take, RedeemSigned, Redeeming,
     Claim, Validate, Consume, Accept, Abandon, StoreFails, StoreReplyLost,
     history
<1>5. PICK u \in Tokens :
        /\ FreshToken(u) /\ PutToken(u, TokenRecord(c, now[w]))
        /\ granted' = [granted EXCEPT ![u] =
              [chal |-> c, at |-> now[w], epoch |-> resets,
               skipNonce |-> req[w].skipNonce /\ issued[c].mode = "signed"]]
  BY <1>4 DEF IssueToken
<1>6. u = t
  BY <1>2, <1>5
<1>7. granted'[t].skipNonce <=> req[w].skipNonce /\ issued[c].mode = "signed"
  BY <1>2, <1>5, <1>6
<1>8. \A s \in Tokens \ {t} : TokOf(s)' = TokOf(s) /\ OriginOf(s)' = OriginOf(s)
  <2>1. \A s \in Tokens \ {t} : tokens'[s] = tokens[s]
    BY <1>2, <1>5, <1>6 DEF PutToken
  <2> QED  BY <1>1, <2>1 DEF TokOf, OriginOf
<1>9. TokOf(t) = "new" /\ TokOf(t)' = "good"
  <2>1. t \notin used
    BY DEF ConsumedInv
  <2>2. TokenRecord(c, now[w]) # Absent
    BY <1>2, <1>3, TokenTyped, AbsentAssumption
  <2> QED  BY <1>1, <2>1, <2>2 DEF TokOf
<1>10. \/ RightOf(w) # Absent /\ OriginOf(t)' = RightOf(w)
       \/ RightOf(w) = Absent /\ OriginOf(t)' = OriginOf(t)
  <2>1. Redeems(w, c) <=> ~granted'[t].skipNonce
    BY <1>1, <1>7 DEF Redeems
  <2>2. CASE Redeems(w, c)
    BY <1>1, <2>1, <2>2 DEF RightOf, OriginOf
  <2>3. CASE ~Redeems(w, c)
    BY <1>1, <2>1, <2>3 DEF RightOf, OriginOf
  <2> QED  BY <2>2, <2>3
<1>11. RightOf(w)' = Absent /\ VerdictOf(w)' = VerdictOf(w)
  BY <1>1 DEF RightOf, VerdictOf, Redeems
<1>12. SameStatus
  BY <1>1, <1>2 DEF SameStatus, StatusOf, Enforced, Current, Spent
<1> QED
  BY <1>8, <1>9, <1>10, <1>11, <1>12, OthersViewSame, LedgerGrants

\* Validate accepts a token that the store still has.
LEMMA AcceptStep ==
    ASSUME Typed, ConsumedInv, NEW w \in Workers, Step(w),
           Consume(w), Goto(w, "accepted")
    PROVE  L!Next
<1> DEFINE t == req[w].tok
<1>1. /\ TypeOK /\ CallOK(w) /\ pc \in [Workers -> Locations]
      /\ tokens \in [Tokens -> Record \cup {Absent}]
  BY DEF Typed, CallInv, TypeOK, StoreTypeOK
<1>2. /\ t \in Tokens /\ granted[t] # Absent
      /\ pc[w] = "consume" /\ pc'[w] = "accepted" /\ req'[w] = req[w]
      /\ UNCHANGED <<issued, granted, resets, clock, challenges, nonces>>
  BY <1>1, Arguments DEF Consume, CallOK, Goto, ConsumeToken
<1>3. ConsumeTokenOk(t, req[w].scope, now[w])
  BY <1>2, ArriveAtAccepted
<1>4. tokens[t] # Absent /\ t \notin used
  BY <1>3 DEF ConsumeTokenOk, ConsumedInv
<1>5. /\ \/ t \in used'
         \/ t \notin used' /\ tokens'[t] = tokens[t]
      /\ \A u \in Tokens \ {t} :
            tokens'[u] = tokens[u] /\ (u \in used' <=> u \in used)
  <2>1. CASE req[w].keep
    <3>1. used' = used
      BY <2>1 DEF Consume
    <3>2. tokens[t].expires \in Nat /\ now[w] \in Nat
      BY <1>1, <1>2, <1>4, Arguments DEF Record
    <3>3. ~(tokens[t].expires <= now[w])
      BY <1>3, <3>2 DEF ConsumeTokenOk
    <3>4. tokens' = tokens
      BY <2>1, <3>3 DEF Consume, ConsumeToken
    <3> QED  BY <1>4, <3>1, <3>4
  <2>2. CASE ~req[w].keep
    BY <1>1, <1>3, <2>2 DEF Consume, ConsumeToken
  <2> QED  BY <2>1, <2>2
<1>6. TokOf(t) = "good" /\ TokOf(t)' \in {"good", "used"}
  BY <1>2, <1>4, <1>5 DEF TokOf
<1>7. \A u \in Tokens \ {t} : TokOf(u)' = TokOf(u)
  BY <1>2, <1>5 DEF TokOf
<1>8. /\ RightOf(w)' = RightOf(w) /\ VerdictOf(w)' = t
  BY <1>2 DEF RightOf, VerdictOf, Redeems
<1>9. SameStatus /\ SameOrigins
  BY <1>2 DEF SameStatus, StatusOf, Enforced, Current, Spent, SameOrigins,
     OriginOf
<1> QED
  BY <1>2, <1>6, <1>7, <1>8, <1>9, OthersViewSame, LedgerAccepts

\* Challenge hands out a challenge that is new to the ledger.
LEMMA IssueStep ==
    ASSUME Typed, RecordInv, NEW w \in Workers, Step(w),
           NEW c \in Challenges, issued[c] = Absent, issued'[c] # Absent
    PROVE  L!Next
<1>1. TypeOK /\ issued \in [Challenges -> Issued \cup {Absent}]
      /\ challenges \in [Challenges -> Record \cup {Absent}]
      /\ pc \in [Workers -> Locations]
  BY DEF Typed, TypeOK, StoreTypeOK
<1>2. PutStored(w) \/ ChallengeSigned(w)
  BY DEF Step, LazyCleanup, Sweep, Cleanup, Reset, ChallengeStored,
     RedeemStored, Take, RedeemSigned, Claim, IssueToken, Validate, Consume,
     Accept, Abandon, StoreFails, StoreReplyLost, history
<1>3. /\ UNCHANGED <<granted, used, resets, clock, nonces, tokens>>
      /\ pc[w] \in {"put", "body"} /\ pc'[w] = "idle"
  BY <1>1, <1>2 DEF PutStored, ChallengeSigned, PutChallenge, Return, storeVars
<1>4. /\ \A d \in Challenges \ {c} :
            issued'[d] = issued[d] /\ challenges'[d] = challenges[d]
  <2>1. CASE PutStored(w)
    <3>1. PICK d \in Challenges :
            /\ PutChallenge(d, [scope |-> req[w].scope,
                                expires |-> now[w] + req[w].ttl])
            /\ IssueChallenge(w, d, now[w] + req[w].ttl)
      BY <2>1 DEF PutStored
    <3>2. d = c
      BY <1>1, <3>1 DEF IssueChallenge
    <3> QED  BY <1>1, <3>1, <3>2 DEF PutChallenge, IssueChallenge
  <2>2. CASE ChallengeSigned(w)
    <3>1. PICK d \in Challenges : IssueChallenge(w, d, clock + req[w].ttl)
      BY <2>2 DEF ChallengeSigned
    <3>2. d = c
      BY <1>1, <3>1 DEF IssueChallenge
    <3> QED  BY <1>1, <2>2, <3>1, <3>2
                DEF ChallengeSigned, IssueChallenge, storeVars
  <2> QED  BY <1>2, <2>1, <2>2
<1>5. StatusOf(c) = "new"
  BY DEF StatusOf
<1>6. ~Spent(c)'
  <2>1. nonces'[c] = Absent
    BY <1>3 DEF RecordInv
  <2>2. CASE PutStored(w)
    <3>1. PICK d \in Challenges :
            /\ PutChallenge(d, [scope |-> req[w].scope,
                                expires |-> now[w] + req[w].ttl])
            /\ IssueChallenge(w, d, now[w] + req[w].ttl)
      BY <2>2 DEF PutStored
    <3>2. d = c
      BY <1>1, <3>1 DEF IssueChallenge
    <3>3. /\ pc[w] = "put" /\ CallOK(w)
          /\ req[w].scope \in Scopes /\ req[w].ttl \in Nat /\ now[w] \in Nat
      BY <1>1, <2>2, Arguments, CapServerAssumption
         DEF PutStored, Typed, CallInv, ChallengeCalls
    <3>4. [scope |-> req[w].scope, expires |-> now[w] + req[w].ttl] \in Record
      BY <3>3 DEF Record
    <3>5. challenges'[c] # Absent
      BY <1>1, <3>1, <3>2, <3>4, AbsentAssumption DEF PutChallenge
    <3> QED  BY <2>1, <3>5 DEF Spent
  <2>3. CASE ChallengeSigned(w)
    <3>1. PICK d \in Challenges : IssueChallenge(w, d, clock + req[w].ttl)
      BY <2>3 DEF ChallengeSigned
    <3>2. d = c
      BY <1>1, <3>1 DEF IssueChallenge
    <3>3. issued'[c].mode = "signed"
      BY <1>1, <2>3, <3>1, <3>2 DEF IssueChallenge, ChallengeSigned
    <3> QED  BY <2>1, <3>3 DEF Spent
  <2> QED  BY <1>2, <2>2, <2>3
<1>7. StatusOf(c)' \in {"open", "lapsed"}
  BY <1>6 DEF StatusOf
<1>8. \A d \in Challenges \ {c} : StatusOf(d)' = StatusOf(d)
  BY <1>3, <1>4 DEF StatusOf, Enforced, Current, Spent
<1>9. SameToks /\ SameOrigins
  BY <1>3 DEF SameToks, TokOf, SameOrigins, OriginOf
<1>10. RightOf(w)' = RightOf(w) /\ VerdictOf(w)' = VerdictOf(w)
  BY <1>3 DEF RightOf, VerdictOf, Redeems
<1> QED
  BY <1>5, <1>7, <1>8, <1>9, <1>10, OthersViewSame, LedgerIssues

\* Every step of a call is a step of the ledger.
LEMMA CallOrStep ==
    ASSUME Inductive, NEW w \in Workers, Call(w) \/ Step(w)
    PROVE  L!Next
<1>1. /\ Typed /\ TimeInv /\ RecordInv /\ ConsumedInv /\ TypeOK
      /\ issued \in [Challenges -> Issued \cup {Absent}]
      /\ granted \in [Tokens -> Granted \cup {Absent}]
  BY DEF Inductive, IInv, Typed, TypeOK
<1>2. Call(w) => UNCHANGED <<issued, granted, used>>
  BY DEF Call, BeginChallenge, BeginRedeem, BeginValidate, BeginCleanup,
     BeginReset, Begin, history
<1>3. Step(w) => /\ issued' = issued \/ PutStored(w) \/ ChallengeSigned(w)
                 /\ granted' = granted \/ IssueToken(w)
                 /\ used' = used \/ (Consume(w) /\ Goto(w, "accepted"))
  BY DEF Step, LazyCleanup, Sweep, Cleanup, Reset, ChallengeStored,
     RedeemStored, Take, RedeemSigned, Claim, Validate, Consume, Accept,
     Abandon, StoreFails, StoreReplyLost, PutStored, ChallengeSigned,
     IssueToken, history
<1>4. CASE \E c \in Challenges : issued[c] = Absent /\ issued'[c] # Absent
  BY <1>1, <1>2, <1>4, IssueStep
<1>5. CASE \E t \in Tokens : granted[t] = Absent /\ granted'[t] # Absent
  BY <1>1, <1>2, <1>5, GrantStep
<1>6. CASE Consume(w) /\ Goto(w, "accepted")
  BY <1>1, <1>6, AcceptStep DEF Step
<1>7. CASE (Take(w) \/ Claim(w)) /\ Goto(w, "issue")
  BY <1>1, <1>7, RedeemStep DEF Step
<1>8. ASSUME ~\E c \in Challenges : issued[c] = Absent /\ issued'[c] # Absent,
             ~\E t \in Tokens : granted[t] = Absent /\ granted'[t] # Absent,
             ~(Consume(w) /\ Goto(w, "accepted")),
             ~((Take(w) \/ Claim(w)) /\ Goto(w, "issue"))
      PROVE  L!Next
  <2>1. issued' = issued /\ granted' = granted
    <3>1. /\ issued' \in [Challenges -> Issued \cup {Absent}]
          /\ granted' \in [Tokens -> Granted \cup {Absent}]
          /\ HistoryGrows
      BY <1>1, StepTyped, CallTyped, StepHistoryGrows
         DEF Typed, TypeOK, CallInv
    <3>2. \A c \in Challenges : issued'[c] = issued[c]
      BY <1>8, <3>1 DEF HistoryGrows
    <3>3. \A t \in Tokens : granted'[t] = granted[t]
      BY <1>8, <3>1 DEF HistoryGrows
    <3> QED  BY <1>1, <3>1, <3>2, <3>3
  <2>2. used' = used
    BY <1>2, <1>3, <1>8
  <2>3. RightOf(w)' = Absent /\ VerdictOf(w)' = Absent
    BY <1>1, <1>8, Arrivals
  <2>4. StatusFades /\ TokensGo /\ SameOrigins /\ OthersSame(w)
    BY <1>1, <2>1, <2>2, StatusFade, TokenFade, OthersViewSame
  <2>5. CASE pc[w] = "issue"
    <3>1. VerdictOf(w) = Absent
      BY <2>5 DEF VerdictOf
    <3> QED  BY <1>1, <2>1, <2>3, <2>4, <2>5, <3>1, Departures, LedgerForfeits
  <2>6. CASE pc[w] = "accepted"
    <3>1. RightOf(w) = Absent
      BY <2>6 DEF RightOf, Redeems
    <3> QED  BY <1>1, <2>1, <2>3, <2>4, <2>6, <3>1, Departures, LedgerAnswers
  <2>7. CASE pc[w] \notin {"issue", "accepted"}
    <3>1. RightOf(w) = Absent /\ VerdictOf(w) = Absent
      BY <2>7 DEF RightOf, Redeems, VerdictOf
    <3> QED  BY <2>3, <2>4, <3>1, LedgerForgets
  <2> QED  BY <2>5, <2>6, <2>7
<1> QED  BY <1>4, <1>5, <1>6, <1>7, <1>8

\* When time passes, signed challenges lapse.
LEMMA TickStep ==
    ASSUME Inductive, Tick
    PROVE  L!Next
<1>1. /\ clock \in Nat /\ clock' = clock + 1
      /\ issued \in [Challenges -> Issued \cup {Absent}]
      /\ UNCHANGED <<storeVars, serverVars, history>>
  BY DEF Inductive, Typed, TypeOK, Tick
<1>2. ASSUME NEW c \in Challenges, issued[c] # Absent
      PROVE  Enforced(c)' => Enforced(c)
  <2>1. issued[c].expires \in Nat
    BY <1>1, <1>2 DEF Issued
  <2> QED  BY <1>1, <2>1 DEF Enforced, Current, history
<1>3. StatusFades
  BY <1>1, <1>2 DEF StatusFades, StatusOf, Spent, L!MayFade, history, storeVars
<1>4. /\ \A t \in Tokens : TokOf(t)' = TokOf(t) /\ OriginOf(t)' = OriginOf(t)
      /\ \A w \in Workers : RightOf(w)' = RightOf(w) /\ VerdictOf(w)' = VerdictOf(w)
  BY <1>1 DEF TokOf, OriginOf, RightOf, VerdictOf, Redeems, history, storeVars,
     serverVars
<1>5. TokensGo
  BY <1>4 DEF TokensGo, TokOf, L!MayGo
<1>6. L!Forget
  BY <1>3, <1>4, <1>5 DEF L!Forget, StatusFades, TokensGo
<1> QED  BY <1>6 DEF L!Next

LEMMA LedgerInit == Init => L!Init
BY DEF Init, StoreInit, L!Init, StatusOf, TokOf, OriginOf, RightOf, VerdictOf,
   Redeems

\* The calls on a Cap implement the ledger, whatever the store, the clock and
\* the goroutines do: in particular a challenge that has not lapsed is never
\* redeemed twice, and no token is accepted after it was consumed.
THEOREM ServerImplementsLedger == Spec => ImplementsLedger
<1>1. Inductive /\ [Next]_vars => [L!Next]_(L!ledger)
  <2> SUFFICES ASSUME Inductive, [Next]_vars PROVE L!Next \/ UNCHANGED L!ledger
    OBVIOUS
  <2>1. CASE UNCHANGED vars
    BY <2>1 DEF vars, L!ledger, StatusOf, Enforced, Current, Spent, TokOf,
       OriginOf, RightOf, VerdictOf, Redeems, history, storeVars, serverVars
  <2> QED  BY <2>1, CallOrStep, TickStep DEF Next
<1> QED
  BY <1>1, LedgerInit, InductiveInvariant, PTL
     DEF Spec, ImplementsLedger, L!Spec
=============================================================================
