------------------------ MODULE CapServerTypeProofs ------------------------
(***************************************************************************)
(* The type invariant of CapServer, proved for every number of workers,    *)
(* challenges and tokens and every lifetime, with the lemmas about its     *)
(* steps that the proofs of the safety properties start from.              *)
(***************************************************************************)
EXTENDS CapServerInv, TLAPS

(***************************************************************************)
(* A request is what its method says.                                      *)
(***************************************************************************)
LEMMA RequestKinds ==
    ASSUME NEW r \in Requests
    PROVE  /\ r.op = "challenge" => r \in ChallengeCalls
           /\ r.op = "redeem" => r \in RedeemCalls
           /\ r.op = "validate" => r \in ValidateCalls
BY DEF Requests, ChallengeCalls, RedeemCalls, ValidateCalls, PlainCalls

LEMMA NoCallRequest == NoCall \in Requests /\ NoCall.op = "none"
BY DEF NoCall, Requests, PlainCalls

(***************************************************************************)
(* The store operations keep the maps well typed.                          *)
(***************************************************************************)
LEMMA PutChallengeType ==
    ASSUME StoreTypeOK, NEW c \in Challenges, NEW r \in Record,
           PutChallenge(c, r)
    PROVE  StoreTypeOK'
BY DEF StoreTypeOK, PutChallenge

LEMMA TakeChallengeType ==
    ASSUME StoreTypeOK, NEW c \in Challenges, TakeChallenge(c)
    PROVE  StoreTypeOK'
BY DEF StoreTypeOK, TakeChallenge

LEMMA ClaimNonceType ==
    ASSUME StoreTypeOK, NEW c \in Challenges, NEW e \in Nat, NEW at \in Nat,
           ClaimNonce(c, e, at)
    PROVE  StoreTypeOK'
BY DEF StoreTypeOK, ClaimNonce, Nonce

LEMMA PutTokenType ==
    ASSUME StoreTypeOK, NEW t \in Tokens, NEW r \in Record, PutToken(t, r)
    PROVE  StoreTypeOK'
BY DEF StoreTypeOK, PutToken

LEMMA ConsumeTokenType ==
    ASSUME StoreTypeOK, NEW t \in Tokens, NEW s, NEW at \in Nat, NEW k,
           ConsumeToken(t, s, at, k)
    PROVE  StoreTypeOK'
BY DEF StoreTypeOK, ConsumeToken

LEMMA CleanupType ==
    ASSUME StoreTypeOK, NEW at \in Nat, StoreCleanup(at)
    PROVE  StoreTypeOK'
BY DEF StoreTypeOK, StoreCleanup, LiveEntries

LEMMA ResetType == StoreReset => StoreTypeOK'
BY DEF StoreTypeOK, StoreReset

LEMMA SameStoreType == StoreTypeOK /\ UNCHANGED storeVars => StoreTypeOK'
BY DEF StoreTypeOK, storeVars

(***************************************************************************)
(* Control steps keep pc, req and now well typed.                          *)
(***************************************************************************)
ControlType == /\ pc \in [Workers -> Locations]
               /\ req \in [Workers -> Requests]
               /\ now \in [Workers -> Nat]

LEMMA ReturnType ==
    ASSUME ControlType, NEW w \in Workers, Return(w) PROVE ControlType'
BY NoCallRequest DEF ControlType, Return, Locations

LEMMA GotoType ==
    ASSUME ControlType, NEW w \in Workers, NEW p \in Locations, Goto(w, p)
    PROVE  ControlType'
BY DEF ControlType, Goto

LEMMA ReadClockGotoType ==
    ASSUME ControlType, NEW w \in Workers, NEW p \in Locations, clock \in Nat,
           ReadClockGoto(w, p)
    PROVE  ControlType'
BY DEF ControlType, ReadClockGoto

(***************************************************************************)
(* The type invariant. It needs CallInv, which says that a call has the    *)
(* arguments its place in the code reads.                                  *)
(***************************************************************************)
HistoryType == /\ clock \in Nat
               /\ lastCleanup \in Nat \cup {Absent}
               /\ issued \in [Challenges -> Issued \cup {Absent}]
               /\ granted \in [Tokens -> Granted \cup {Absent}]
               /\ used \in SUBSET Tokens
               /\ resets \in Nat

LEMMA TypeParts == TypeOK <=> StoreTypeOK /\ ControlType /\ HistoryType
BY DEF TypeOK, ControlType, HistoryType

LEMMA TypePartsNext ==
    TypeOK' <=> StoreTypeOK' /\ ControlType' /\ HistoryType'
BY DEF TypeOK, ControlType, HistoryType

LEMMA SameHistoryType ==
    HistoryType /\ UNCHANGED <<history, clock, lastCleanup>> => HistoryType'
BY DEF HistoryType, history

\* The arguments of a call, by the place it is at.
LEMMA Arguments ==
    ASSUME TypeOK, NEW w \in Workers, CallOK(w)
    PROVE  /\ pc[w] \in Locations /\ now[w] \in Nat /\ req[w] \in Requests
           /\ req[w].op = "challenge" \/ pc[w] = "put" =>
                 req[w] \in ChallengeCalls
           /\ req[w].op = "redeem" \/ pc[w] \in {"take", "claim", "issue"} =>
                 /\ req[w] \in RedeemCalls
                 /\ req[w].chal \in Challenges
                 /\ issued[req[w].chal] \in Issued
           /\ req[w].op = "validate" \/ pc[w] \in {"consume", "accepted"} =>
                 /\ req[w] \in ValidateCalls
                 /\ req[w].tok \in Tokens
                 /\ granted[req[w].tok] \in Granted
<1>1. /\ pc[w] \in Locations /\ now[w] \in Nat /\ req[w] \in Requests
      /\ issued \in [Challenges -> Issued \cup {Absent}]
      /\ granted \in [Tokens -> Granted \cup {Absent}]
  BY DEF TypeOK
<1>2. /\ req[w] \in RedeemCalls => req[w].chal \in Challenges
      /\ req[w] \in ValidateCalls => req[w].tok \in Tokens
  BY DEF RedeemCalls, ValidateCalls
<1> QED
  BY <1>1, <1>2, RequestKinds DEF CallOK

LEMMA BeginTyped ==
    ASSUME TypeOK, NEW w \in Workers, NEW call \in Requests,
           NEW place \in Locations, Begin(w, call, place)
    PROVE  TypeOK'
<1>1. StoreTypeOK' /\ HistoryType'
  BY TypeParts, SameStoreType, SameHistoryType DEF Begin, history
<1>2. ControlType'
  BY DEF TypeOK, ControlType, Begin
<1> QED
  BY <1>1, <1>2, TypePartsNext

LEMMA CallTyped ==
    ASSUME TypeOK, NEW w \in Workers, Call(w)
    PROVE  TypeOK'
<1>1. CASE BeginChallenge(w)
  BY <1>1, BeginTyped DEF BeginChallenge, Requests, Locations
<1>2. CASE BeginRedeem(w)
  BY <1>2, BeginTyped DEF BeginRedeem, Requests, Locations
<1>3. CASE BeginValidate(w)
  BY <1>3, BeginTyped DEF BeginValidate, Requests, Locations
<1>4. CASE BeginCleanup(w)
  BY <1>4, BeginTyped DEF BeginCleanup, Requests, PlainCalls, Locations
<1>5. CASE BeginReset(w)
  BY <1>5, BeginTyped DEF BeginReset, Requests, PlainCalls, Locations
<1> QED
  BY <1>1, <1>2, <1>3, <1>4, <1>5 DEF Call

\* What the steps of Challenge and Redeem write is well typed.
LEMMA ChallengeTyped ==
    ASSUME TypeOK, NEW w \in Workers, req[w] \in ChallengeCalls,
           NEW at \in Nat
    PROVE  /\ at + req[w].ttl \in Nat
           /\ [scope |-> req[w].scope, expires |-> at + req[w].ttl] \in Record
           /\ [mode |-> req[w].mode, scope |-> req[w].scope,
               expires |-> at + req[w].ttl, epoch |-> resets] \in Issued
<1>1. ChallengeTTLs \subseteq Nat
  BY CapServerAssumption
<1>2. req[w].ttl \in Nat /\ req[w].mode \in Modes /\ req[w].scope \in Scopes
  BY <1>1 DEF ChallengeCalls
<1>3. resets \in Nat
  BY DEF TypeOK
<1>4. at + req[w].ttl \in Nat
  BY <1>2
<1> QED
  BY <1>2, <1>3, <1>4 DEF Record, Issued

LEMMA TokenTyped ==
    ASSUME NEW c \in Challenges, issued[c] \in Issued, NEW at \in Nat
    PROVE  TokenRecord(c, at) \in Record
BY CapServerAssumption DEF TokenRecord, Record, Issued

LEMMA IssueChallengeTyped ==
    ASSUME TypeOK, NEW w \in Workers, req[w] \in ChallengeCalls,
           NEW c \in Challenges, NEW at \in Nat,
           IssueChallenge(w, c, at + req[w].ttl),
           UNCHANGED <<lastCleanup, granted, used, resets, clock>>
    PROVE  HistoryType'
<1>1. [mode |-> req[w].mode, scope |-> req[w].scope,
       expires |-> at + req[w].ttl, epoch |-> resets] \in Issued
  BY ChallengeTyped
<1> QED
  BY <1>1 DEF TypeOK, HistoryType, IssueChallenge

LEMMA StepTyped ==
    ASSUME TypeOK, NEW w \in Workers, CallOK(w), Step(w)
    PROVE  TypeOK'
<1>1. /\ StoreTypeOK /\ ControlType /\ HistoryType
      /\ clock \in Nat /\ now[w] \in Nat
  BY TypeParts, Arguments DEF HistoryType
<1>2. {"idle", "sweep", "body", "put", "take", "claim", "issue", "consume",
       "accepted"} \subseteq Locations
  BY DEF Locations
<1>3. CASE LazyCleanup(w)
  <2>1. ControlType' /\ StoreTypeOK'
    BY <1>1, <1>2, <1>3, GotoType, SameStoreType DEF LazyCleanup
  <2>2. HistoryType'
    BY <1>1, <1>3 DEF LazyCleanup, HistoryType, history
  <2> QED  BY <2>1, <2>2, TypePartsNext
<1>4. CASE Sweep(w)
  BY <1>1, <1>2, <1>4, GotoType, CleanupType, SameHistoryType, TypePartsNext
     DEF Sweep
<1>5. CASE Cleanup(w)
  BY <1>1, <1>5, ReturnType, CleanupType, SameHistoryType, TypePartsNext
     DEF Cleanup
<1>6. CASE Reset(w)
  <2>1. ControlType' /\ StoreTypeOK'
    BY <1>1, <1>6, ReturnType, ResetType DEF Reset
  <2>2. HistoryType'
    BY <1>1, <1>6 DEF Reset, HistoryType
  <2> QED  BY <2>1, <2>2, TypePartsNext
<1>7. CASE ChallengeStored(w)
  BY <1>1, <1>2, <1>7, ReadClockGotoType, SameStoreType, SameHistoryType,
     TypePartsNext DEF ChallengeStored
<1>8. CASE PutStored(w)
  <2>1. req[w] \in ChallengeCalls
    BY <1>8, Arguments DEF PutStored
  <2>2. PICK c \in Challenges :
          /\ PutChallenge(c, [scope |-> req[w].scope,
                              expires |-> now[w] + req[w].ttl])
          /\ IssueChallenge(w, c, now[w] + req[w].ttl)
    BY <1>8 DEF PutStored
  <2>3. StoreTypeOK'
    BY <1>1, <2>1, <2>2, ChallengeTyped, PutChallengeType
  <2>4. HistoryType'
    BY <1>1, <1>8, <2>1, <2>2, IssueChallengeTyped DEF PutStored
  <2>5. ControlType'
    BY <1>1, <1>8, ReturnType DEF PutStored
  <2> QED  BY <2>3, <2>4, <2>5, TypePartsNext
<1>9. CASE ChallengeSigned(w)
  <2>1. req[w] \in ChallengeCalls
    BY <1>9, Arguments DEF ChallengeSigned
  <2>2. PICK c \in Challenges : IssueChallenge(w, c, clock + req[w].ttl)
    BY <1>9 DEF ChallengeSigned
  <2>3. HistoryType'
    BY <1>1, <1>9, <2>1, <2>2, IssueChallengeTyped DEF ChallengeSigned
  <2>4. ControlType' /\ StoreTypeOK'
    BY <1>1, <1>9, ReturnType, SameStoreType DEF ChallengeSigned
  <2> QED  BY <2>3, <2>4, TypePartsNext
<1>10. CASE RedeemStored(w)
  BY <1>1, <1>2, <1>10, ReturnType, ReadClockGotoType, SameStoreType,
     SameHistoryType, TypePartsNext DEF RedeemStored
<1>11. CASE Take(w)
  <2>1. req[w].chal \in Challenges
    BY <1>11, Arguments DEF Take
  <2>2. ControlType'
    BY <1>1, <1>2, <1>11, ReturnType, GotoType DEF Take
  <2> QED
    BY <1>1, <1>11, <2>1, <2>2, TakeChallengeType, SameHistoryType,
       TypePartsNext DEF Take
<1>12. CASE RedeemSigned(w)
  <2>1. ControlType'
    BY <1>1, <1>2, <1>12, ReturnType, ReadClockGotoType DEF RedeemSigned
  <2> QED
    BY <1>1, <1>12, <2>1, SameStoreType, SameHistoryType, TypePartsNext
       DEF RedeemSigned
<1>13. CASE Claim(w)
  <2>1. req[w].chal \in Challenges /\ issued[req[w].chal].expires \in Nat
    BY <1>13, Arguments DEF Claim, Issued
  <2>2. ControlType'
    BY <1>1, <1>2, <1>13, ReturnType, GotoType DEF Claim
  <2>3. StoreTypeOK'
    BY <1>1, <1>13, <2>1, ClaimNonceType DEF Claim
  <2> QED
    BY <1>1, <1>13, <2>2, <2>3, SameHistoryType, TypePartsNext DEF Claim
<1>14. CASE IssueToken(w)
  <2> DEFINE c == req[w].chal
             g == [chal |-> c, at |-> now[w], epoch |-> resets,
                   skipNonce |-> req[w].skipNonce /\ issued[c].mode = "signed"]
  <2>1. c \in Challenges /\ issued[c] \in Issued
    BY <1>14, Arguments DEF IssueToken
  <2>2. PICK t \in Tokens :
          /\ PutToken(t, TokenRecord(c, now[w]))
          /\ granted' = [granted EXCEPT ![t] = g]
    BY <1>14 DEF IssueToken
  <2>3. StoreTypeOK'
    BY <1>1, <2>1, <2>2, PutTokenType, TokenTyped
  <2>4. g \in Granted
    <3>1. (req[w].skipNonce /\ issued[c].mode = "signed") \in BOOLEAN
      OBVIOUS
    <3> QED  BY <1>1, <2>1, <3>1 DEF Granted, HistoryType
  <2>5. HistoryType'
    BY <1>1, <1>14, <2>2, <2>4 DEF IssueToken, HistoryType
  <2>6. ControlType'
    BY <1>1, <1>14, ReturnType DEF IssueToken
  <2> QED  BY <2>3, <2>5, <2>6, TypePartsNext
<1>15. CASE Validate(w)
  BY <1>1, <1>2, <1>15, ReadClockGotoType, SameStoreType, SameHistoryType,
     TypePartsNext DEF Validate
<1>16. CASE Consume(w)
  <2>1. req[w].tok \in Tokens
    BY <1>16, Arguments DEF Consume
  <2>2. ControlType'
    BY <1>1, <1>2, <1>16, ReturnType, GotoType DEF Consume
  <2>3. StoreTypeOK'
    BY <1>1, <1>16, <2>1, ConsumeTokenType DEF Consume
  <2>4. HistoryType'
    BY <1>1, <1>16, <2>1 DEF Consume, HistoryType
  <2> QED  BY <2>2, <2>3, <2>4, TypePartsNext
<1>17. CASE Accept(w)
  BY <1>1, <1>17, ReturnType, SameStoreType, SameHistoryType, TypePartsNext
     DEF Accept
<1>18. CASE Abandon(w)
  BY <1>1, <1>18, ReturnType, SameStoreType, SameHistoryType, TypePartsNext
     DEF Abandon
<1>19. CASE StoreFails(w)
  <2>1. ControlType'
    BY <1>1, <1>2, <1>19, ReturnType, GotoType DEF StoreFails
  <2> QED
    BY <1>1, <1>19, <2>1, SameStoreType, SameHistoryType, TypePartsNext
       DEF StoreFails
<1>20. CASE StoreReplyLost(w)
  <2>1. ControlType' /\ HistoryType'
    BY <1>1, <1>20, ReturnType, SameHistoryType DEF StoreReplyLost
  <2>2. StoreTypeOK'
    <3>1. CASE pc[w] = "put"
      BY <1>1, <1>20, <3>1, Arguments, ChallengeTyped, PutChallengeType
         DEF StoreReplyLost
    <3>2. CASE pc[w] = "take"
      BY <1>1, <1>20, <3>2, Arguments, TakeChallengeType DEF StoreReplyLost
    <3>3. CASE pc[w] = "claim"
      <4>1. req[w].chal \in Challenges /\ issued[req[w].chal].expires \in Nat
        BY <3>3, Arguments DEF Issued
      <4> QED
        BY <1>1, <1>20, <3>3, <4>1, ClaimNonceType DEF StoreReplyLost
    <3>4. CASE pc[w] = "issue"
      BY <1>1, <1>20, <3>4, Arguments, TokenTyped, PutTokenType
         DEF StoreReplyLost
    <3>5. CASE pc[w] = "consume"
      BY <1>1, <1>20, <3>5, Arguments, ConsumeTokenType DEF StoreReplyLost
    <3> QED
      BY <1>20, <3>1, <3>2, <3>3, <3>4, <3>5 DEF StoreReplyLost
  <2> QED  BY <2>1, <2>2, TypePartsNext
<1> QED
  BY <1>3, <1>4, <1>5, <1>6, <1>7, <1>8, <1>9, <1>10, <1>11, <1>12, <1>13,
     <1>14, <1>15, <1>16, <1>17, <1>18, <1>19, <1>20 DEF Step

(***************************************************************************)
(* What every step leaves alone: the other workers, and what clients hold. *)
(***************************************************************************)
OthersStay(w) == \A v \in Workers \ {w} :
    pc'[v] = pc[v] /\ req'[v] = req[v] /\ now'[v] = now[v]

HistoryGrows ==
    /\ \A c \in Challenges : issued[c] # Absent => issued'[c] = issued[c]
    /\ \A t \in Tokens : granted[t] # Absent => granted'[t] = granted[t]
    /\ resets <= resets'
    /\ clock <= clock'

LEMMA MoveOthersStay ==
    ASSUME TypeOK, NEW w \in Workers,
           \/ Return(w)
           \/ \E p \in Locations : Goto(w, p) \/ ReadClockGoto(w, p)
    PROVE  OthersStay(w)
BY DEF TypeOK, OthersStay, Return, Goto, ReadClockGoto

LEMMA StepOthersStay ==
    ASSUME TypeOK, NEW w \in Workers, Call(w) \/ Step(w)
    PROVE  OthersStay(w)
<1>1. ASSUME NEW call, NEW p, Begin(w, call, p) PROVE OthersStay(w)
  BY <1>1 DEF TypeOK, OthersStay, Begin
<1>2. CASE Call(w)
  BY <1>1, <1>2 DEF Call, BeginChallenge, BeginRedeem, BeginValidate,
     BeginCleanup, BeginReset
<1>3. CASE Step(w)
  <2>1. {"idle", "sweep", "body", "put", "take", "claim", "issue", "consume",
         "accepted"} \subseteq Locations
    BY DEF Locations
  <2>2. \/ Return(w)
        \/ \E p \in Locations : Goto(w, p) \/ ReadClockGoto(w, p)
    BY <1>3, <2>1 DEF Step, LazyCleanup, Sweep, Cleanup, Reset,
       ChallengeStored, PutStored, ChallengeSigned, RedeemStored, Take,
       RedeemSigned, Claim, IssueToken, Validate, Consume, Accept, Abandon,
       StoreFails, StoreReplyLost
  <2> QED  BY <2>2, MoveOthersStay
<1> QED  BY <1>2, <1>3

LEMMA IssueChallengeGrows ==
    ASSUME TypeOK, NEW w \in Workers, NEW c \in Challenges, NEW e,
           FreshChallenge(c), IssueChallenge(w, c, e),
           UNCHANGED <<granted, resets, clock>>
    PROVE  HistoryGrows
BY DEF TypeOK, HistoryGrows, FreshChallenge, IssueChallenge

LEMMA SameHistoryGrows ==
    TypeOK /\ UNCHANGED <<issued, granted, resets, clock>> => HistoryGrows
BY DEF TypeOK, HistoryGrows

LEMMA StepHistoryGrows ==
    ASSUME TypeOK, NEW w \in Workers, Call(w) \/ Step(w)
    PROVE  HistoryGrows /\ clock' = clock /\ resets' \in Nat
<1>1. ASSUME NEW call, NEW p, Begin(w, call, p)
      PROVE  HistoryGrows /\ clock' = clock /\ resets' \in Nat
  BY <1>1, SameHistoryGrows DEF TypeOK, Begin, history
<1>2. CASE Call(w)
  BY <1>1, <1>2 DEF Call, BeginChallenge, BeginRedeem, BeginValidate,
     BeginCleanup, BeginReset
<1>3. CASE PutStored(w)
  BY <1>3, IssueChallengeGrows DEF PutStored, TypeOK
<1>4. CASE ChallengeSigned(w)
  BY <1>4, IssueChallengeGrows DEF ChallengeSigned, TypeOK
<1>5. CASE IssueToken(w)
  BY <1>5 DEF TypeOK, HistoryGrows, IssueToken, FreshToken
<1>6. CASE Reset(w)
  BY <1>6 DEF TypeOK, HistoryGrows, Reset
<1>7. CASE Step(w) /\ UNCHANGED <<issued, granted, resets, clock>>
  BY <1>7, SameHistoryGrows DEF TypeOK
<1>8. Step(w) => \/ PutStored(w) \/ ChallengeSigned(w) \/ IssueToken(w)
                 \/ Reset(w) \/ UNCHANGED <<issued, granted, resets, clock>>
  BY DEF Step, LazyCleanup, Sweep, Cleanup, ChallengeStored, RedeemStored,
     Take, RedeemSigned, Claim, Validate, Consume, Accept, Abandon,
     StoreFails, StoreReplyLost, history
<1> QED  BY <1>2, <1>3, <1>4, <1>5, <1>6, <1>7, <1>8

(***************************************************************************)
(* CallInv.                                                                *)
(***************************************************************************)
LEMMA OthersCallOK ==
    ASSUME TypeOK, NEW w \in Workers, CallInv, OthersStay(w), HistoryGrows
    PROVE  \A v \in Workers \ {w} : CallOK(v)'
<1> SUFFICES ASSUME NEW v \in Workers \ {w} PROVE CallOK(v)'
  OBVIOUS
<1>1. CallOK(v) /\ pc'[v] = pc[v] /\ req'[v] = req[v]
  BY DEF CallInv, OthersStay
<1>2. req[v].op = "redeem" =>
         issued[req[v].chal] # Absent
         /\ issued'[req[v].chal] = issued[req[v].chal]
  BY <1>1, Arguments DEF HistoryGrows, CallOK
<1>3. req[v].op = "validate" =>
         granted[req[v].tok] # Absent
         /\ granted'[req[v].tok] = granted[req[v].tok]
  BY <1>1, Arguments DEF HistoryGrows, CallOK
<1> QED
  BY <1>1, <1>2, <1>3 DEF CallOK

LEMMA ReturnCallOK ==
    ASSUME TypeOK, NEW w \in Workers, Return(w)
    PROVE  CallOK(w)'
<1>1. pc'[w] = "idle" /\ req'[w].op = "none"
  BY NoCallRequest DEF TypeOK, Return
<1> QED  BY <1>1 DEF CallOK

LEMMA BeginCallOK ==
    ASSUME TypeOK, NEW w \in Workers, NEW call \in Requests, NEW place,
           place \in {"lazy", "cleanup", "reset"},
           call.op = "redeem" => issued[call.chal] # Absent,
           call.op = "validate" => granted[call.tok] # Absent,
           Begin(w, call, place)
    PROVE  CallOK(w)'
<1>1. pc'[w] = place /\ req'[w] = call /\ UNCHANGED <<issued, granted>>
  BY DEF TypeOK, Begin, history
<1> QED  BY <1>1 DEF CallOK

LEMMA CallCallOK ==
    ASSUME TypeOK, NEW w \in Workers, Call(w)
    PROVE  CallOK(w)'
<1>1. CASE BeginChallenge(w)
  <2>1. PICK call \in ChallengeCalls : Begin(w, call, "lazy")
    BY <1>1 DEF BeginChallenge
  <2>2. call \in Requests /\ call.op = "challenge"
    BY DEF Requests, ChallengeCalls
  <2> QED  BY <2>1, <2>2, BeginCallOK
<1>2. CASE BeginRedeem(w)
  <2>1. PICK call \in RedeemCalls :
           issued[call.chal] # Absent /\ Begin(w, call, "lazy")
    BY <1>2 DEF BeginRedeem
  <2>2. call \in Requests /\ call.op = "redeem"
    BY DEF Requests, RedeemCalls
  <2> QED  BY <2>1, <2>2, BeginCallOK
<1>3. CASE BeginValidate(w)
  <2>1. PICK call \in ValidateCalls :
           granted[call.tok] # Absent /\ Begin(w, call, "lazy")
    BY <1>3 DEF BeginValidate
  <2>2. call \in Requests /\ call.op = "validate"
    BY DEF Requests, ValidateCalls
  <2> QED  BY <2>1, <2>2, BeginCallOK
<1>4. CASE BeginCleanup(w)
  <2>1. [op |-> "cleanup"] \in Requests
    BY DEF Requests, PlainCalls
  <2> QED  BY <1>4, <2>1, BeginCallOK DEF BeginCleanup
<1>5. CASE BeginReset(w)
  <2>1. [op |-> "reset"] \in Requests
    BY DEF Requests, PlainCalls
  <2> QED  BY <1>5, <2>1, BeginCallOK DEF BeginReset
<1> QED  BY <1>1, <1>2, <1>3, <1>4, <1>5 DEF Call

LEMMA StepCallOK ==
    ASSUME TypeOK, NEW w \in Workers, CallOK(w), Step(w)
    PROVE  CallOK(w)'
<1> DEFINE Same == UNCHANGED <<issued, granted>>
<1>1. ASSUME NEW p \in {"body", "sweep"}, Goto(w, p), Same
      PROVE  CallOK(w)'
  BY <1>1 DEF TypeOK, CallOK, Goto
<1>2. CASE LazyCleanup(w) \/ Sweep(w)
  BY <1>1, <1>2 DEF LazyCleanup, Sweep, history
<1>3. CASE Return(w)
  BY <1>3, ReturnCallOK
<1>4. CASE ChallengeStored(w)
  BY <1>4 DEF TypeOK, CallOK, ChallengeStored, ReadClockGoto
<1>5. CASE RedeemStored(w) /\ ~Return(w)
  BY <1>5 DEF TypeOK, CallOK, RedeemStored, Redeeming, ReadClockGoto, history
<1>6. CASE RedeemSigned(w) /\ ~Return(w)
  BY <1>6 DEF TypeOK, CallOK, RedeemSigned, Redeeming, ReadClockGoto, history
<1>7. CASE Take(w) /\ ~Return(w)
  BY <1>7 DEF TypeOK, CallOK, Take, Goto, history
<1>8. CASE Claim(w) /\ ~Return(w)
  BY <1>8 DEF TypeOK, CallOK, Claim, Goto, history
<1>9. CASE Validate(w)
  BY <1>9 DEF TypeOK, CallOK, Validate, ReadClockGoto, history
<1>10. CASE Consume(w) /\ ~Return(w)
  BY <1>10 DEF TypeOK, CallOK, Consume, Goto
<1>11. CASE StoreFails(w) /\ ~Return(w)
  BY <1>1, <1>11 DEF StoreFails, history
<1>12. Step(w) => \/ Return(w)
                  \/ LazyCleanup(w) \/ Sweep(w) \/ ChallengeStored(w)
                  \/ RedeemStored(w) \/ RedeemSigned(w) \/ Take(w)
                  \/ Claim(w) \/ Validate(w) \/ Consume(w) \/ StoreFails(w)
  BY DEF Step, Cleanup, Reset, PutStored, ChallengeSigned, IssueToken,
     Accept, Abandon, StoreReplyLost
<1> QED
  BY <1>2, <1>3, <1>4, <1>5, <1>6, <1>7, <1>8, <1>9, <1>10, <1>11, <1>12

(***************************************************************************)
(* Every state of the specification is well typed, and every call has the  *)
(* arguments of its place.                                                 *)
(***************************************************************************)
LEMMA InitTyped == Init => TypeOK /\ CallInv
<1> SUFFICES ASSUME Init PROVE TypeOK /\ CallInv
  OBVIOUS
<1>1. TypeOK
  BY NoCallRequest DEF Init, StoreInit, TypeOK, StoreTypeOK, Locations
<1>2. CallInv
  BY NoCallRequest DEF Init, CallInv, CallOK
<1> QED  BY <1>1, <1>2

LEMMA NextTyped == TypeOK /\ CallInv /\ [Next]_vars => TypeOK' /\ CallInv'
<1> SUFFICES ASSUME TypeOK, CallInv, [Next]_vars PROVE TypeOK' /\ CallInv'
  OBVIOUS
<1>1. CASE Tick
  <2>1. clock' \in Nat /\ UNCHANGED <<storeVars, serverVars, history>>
    BY <1>1 DEF Tick, TypeOK
  <2>2. TypeOK'
    BY <2>1, SameStoreType DEF serverVars, history, TypeOK
  <2>3. CallInv'
    BY <2>1 DEF serverVars, history, CallInv, CallOK
  <2> QED  BY <2>2, <2>3
<1>2. ASSUME NEW w \in Workers, Call(w) \/ Step(w)
      PROVE  TypeOK' /\ CallInv'
  <2>1. CallOK(w)
    BY DEF CallInv
  <2>2. TypeOK' /\ CallOK(w)'
    BY <1>2, <2>1, CallTyped, StepTyped, CallCallOK, StepCallOK
  <2>3. \A v \in Workers \ {w} : CallOK(v)'
    BY <1>2, OthersCallOK, StepOthersStay, StepHistoryGrows
  <2> QED  BY <2>2, <2>3 DEF CallInv
<1>3. CASE UNCHANGED vars
  <2>1. TypeOK'
    BY <1>3, SameStoreType
       DEF vars, serverVars, history, TypeOK
  <2>2. CallInv'
    BY <1>3 DEF vars, serverVars, history, CallInv, CallOK
  <2> QED  BY <2>1, <2>2
<1> QED  BY <1>1, <1>2, <1>3 DEF Next

\* The state is well typed and every call has the arguments of its place.
THEOREM TypeCorrect == Spec => [](TypeOK /\ CallInv)
<1>1. Init => TypeOK /\ CallInv
  BY InitTyped
<1>2. (TypeOK /\ CallInv) /\ [Next]_vars => (TypeOK /\ CallInv)'
  BY NextTyped
<1> QED  BY <1>1, <1>2, PTL DEF Spec
=============================================================================
