--------------------------- MODULE CapRedisProofs ---------------------------
(***************************************************************************)
(* The safety properties of CapRedis, and its refinement of the ledger,    *)
(* for any number of replicas, any clock skew, any identifiers and any     *)
(* lifetimes.                                                              *)
(***************************************************************************)
EXTENDS CapRedisInv, TLAPS

-----------------------------------------------------------------------------
(* Calls and keys *)

\* A request is what its method says.
LEMMA RequestKinds ==
    ASSUME NEW r \in Requests
    PROVE  /\ r.op = "challenge" => r \in ChallengeCalls
           /\ r.op = "redeem" => r \in RedeemCalls
           /\ r.op = "validate" => r \in ValidateCalls
           /\ r.op = "reset" => r \in ResetCalls
BY DEF Requests, ChallengeCalls, RedeemCalls, ValidateCalls, ResetCalls, NoCall

LEMMA NoCallRequest == NoCall \in Requests /\ NoCall.op = "none"
BY DEF NoCall, Requests

\* The arguments of a call, by the place it is at.
LEMMA Arguments ==
    ASSUME TypeOK, NEW w \in Workers, CallOK(w)
    PROVE  /\ pc[w] \in Locations /\ now[w] \in Nat /\ req[w] \in Requests
           /\ left[w] \in SUBSET Keys
           /\ req[w].op = "challenge" \/ pc[w] = "put" =>
                 req[w] \in ChallengeCalls /\ req[w].chal \in Challenges
                 /\ req[w].scope \in Scopes
           /\ req[w].op = "redeem" \/ pc[w] \in {"take", "check", "claim", "issue"} =>
                 /\ req[w] \in RedeemCalls
                 /\ req[w].chal \in Challenges /\ req[w].tok \in Tokens
                 /\ issued[req[w].chal] \in Issued
                 /\ issued[req[w].chal].expires \in Nat
                 /\ issued[req[w].chal].scope \in Scopes
           /\ req[w].op = "validate" \/ pc[w] \in {"consume", "accepted"} =>
                 /\ req[w] \in ValidateCalls /\ req[w].tok \in Tokens
           /\ req[w].op = "reset" \/ pc[w] = "reset" =>
                 /\ req[w] \in ResetCalls /\ req[w].held \in SUBSET Keys
<1>1. /\ pc[w] \in Locations /\ now[w] \in Nat /\ req[w] \in Requests
      /\ left[w] \in SUBSET Keys
  BY DEF TypeOK
<1>2. req[w].op = "challenge" \/ pc[w] = "put" =>
                 req[w] \in ChallengeCalls /\ req[w].chal \in Challenges
                 /\ req[w].scope \in Scopes
  BY <1>1, RequestKinds DEF CallOK, ChallengeCalls
<1>3. req[w].op = "redeem" \/ pc[w] \in {"take", "check", "claim", "issue"} =>
                 /\ req[w] \in RedeemCalls
                 /\ req[w].chal \in Challenges /\ req[w].tok \in Tokens
                 /\ issued[req[w].chal] # Absent
  BY <1>1, RequestKinds DEF CallOK, RedeemCalls
<1>4. req[w].op = "validate" \/ pc[w] \in {"consume", "accepted"} =>
                 /\ req[w] \in ValidateCalls /\ req[w].tok \in Tokens
  BY <1>1, RequestKinds DEF CallOK, ValidateCalls
<1>5. req[w].op = "reset" \/ pc[w] = "reset" =>
                 /\ req[w] \in ResetCalls /\ req[w].held \in SUBSET Keys
  BY <1>1, RequestKinds DEF CallOK, ResetCalls
<1>6. \A c \in Challenges : issued[c] # Absent =>
         issued[c] \in Issued /\ issued[c].expires \in Nat
         /\ issued[c].scope \in Scopes
  BY DEF TypeOK, Issued
<1> QED  BY <1>1, <1>2, <1>3, <1>4, <1>5, <1>6

LEMMA LocalTime ==
    ASSUME TypeOK, NEW w \in Workers
    PROVE  /\ clock \in Nat /\ Skew[w] \in Nat /\ Local(w) \in Nat
           /\ MaxSkew \in Nat /\ Local(w) <= clock + MaxSkew
BY CapRedisAssumption DEF TypeOK, Local

\* ttlFor never returns less than a millisecond, and a key lives at most the
\* clock's lead less than its expiry says.
LEMMA TTLBounds ==
    ASSUME NEW expires \in Nat, NEW at \in Nat
    PROVE  /\ TTLFor(expires, at) \in Nat
           /\ expires <= at + TTLFor(expires, at)
BY DEF TTLFor

LEMMA ExpiryTypes ==
    ASSUME NEW w \in Workers, now[w] \in Nat
    PROVE  ChallengeExpiry(w) \in Nat /\ TokenExpiry(w) \in Nat
BY CapRedisAssumption DEF ChallengeExpiry, TokenExpiry

LEMMA UntilBounds ==
    ASSUME TypeOK, NEW w \in Workers, NEW expires \in Nat,
           NEW until \in Until(w, expires)
    PROVE  until \in Nat /\ expires <= until + MaxSkew
<1>1. PICK at \in now[w]..Local(w) : until = clock + TTLFor(expires, at)
  BY DEF Until
<1>2. now[w] \in Nat /\ Local(w) \in Nat /\ clock \in Nat /\ MaxSkew \in Nat
      /\ Local(w) <= clock + MaxSkew
  BY LocalTime DEF TypeOK
<1>3. at \in Nat /\ at <= Local(w)
  BY <1>1, <1>2
<1>4. TTLFor(expires, at) \in Nat /\ expires <= at + TTLFor(expires, at)
  BY <1>3, TTLBounds
<1> QED  BY <1>1, <1>2, <1>3, <1>4

-----------------------------------------------------------------------------
(* The type invariant. It needs CallInv, which says that a call has the      *)
(* arguments that its place in the code reads.                               *)

Typed == TypeOK /\ CallInv

ControlType == /\ pc \in [Workers -> Locations]
               /\ req \in [Workers -> Requests]
               /\ now \in [Workers -> Nat]
               /\ left \in [Workers -> SUBSET Keys]
HistoryType == /\ clock \in Nat
               /\ issued \in [Challenges -> Issued \cup {Absent}]
               /\ granted \in [Tokens -> Granted \cup {Absent}]
               /\ used \subseteq Tokens
               /\ dropped \subseteq Challenges
               /\ wiped \subseteq Keys

LEMMA TypeParts == TypeOK <=> StoreTypeOK /\ ControlType /\ HistoryType
BY DEF TypeOK, ControlType, HistoryType

LEMMA TypePartsNext ==
    TypeOK' <=> StoreTypeOK' /\ ControlType' /\ HistoryType'
BY DEF TypeOK, ControlType, HistoryType

LEMMA SameStoreType == StoreTypeOK /\ UNCHANGED storeVars => StoreTypeOK'
BY DEF StoreTypeOK, storeVars

LEMMA SameHistoryType ==
    HistoryType /\ UNCHANGED <<history, clock>> => HistoryType'
BY DEF HistoryType, history

LEMMA PresentKeys == Present \subseteq Keys
BY DEF Present

\* DEL and expiry only take keys away.
LEMMA DeleteType ==
    ASSUME StoreTypeOK, NEW K, Delete(K)
    PROVE  StoreTypeOK'
BY DEF StoreTypeOK, Delete, Without

LEMMA ReturnType ==
    ASSUME ControlType, NEW w \in Workers, Return(w) PROVE ControlType'
BY NoCallRequest DEF ControlType, Return, Locations

LEMMA GotoType ==
    ASSUME ControlType, NEW w \in Workers, NEW p \in Locations, Goto(w, p)
    PROVE  ControlType'
BY DEF ControlType, Goto

LEMMA BeginType ==
    ASSUME TypeOK, NEW w \in Workers, NEW call \in Requests,
           NEW p \in Locations, NEW K \in SUBSET Keys, Begin(w, call, p, K)
    PROVE  TypeOK'
<1>1. ControlType /\ Local(w) \in Nat
  BY LocalTime, TypeParts
<1>2. ControlType'
  BY <1>1 DEF ControlType, Begin
<1> QED
  BY <1>2, TypeParts, TypePartsNext, SameStoreType, SameHistoryType
     DEF Begin

\* The commands of a call keep the keys well typed.
LEMMA CommandTypes ==
    ASSUME TypeOK, NEW w \in Workers, CallOK(w)
    PROVE  /\ pc[w] = "put" /\ DoPut(w) => StoreTypeOK'
           /\ pc[w] = "take" /\ DoTake(w) => StoreTypeOK'
           /\ pc[w] = "claim" /\ DoClaim(w) => StoreTypeOK'
           /\ pc[w] = "issue" /\ DoIssue(w) => StoreTypeOK'
           /\ pc[w] = "consume" /\ DoConsume(w) => StoreTypeOK'
<1>1. /\ StoreTypeOK
      /\ now[w] \in Nat /\ clock \in Nat
      /\ ChallengeExpiry(w) \in Nat /\ TokenExpiry(w) \in Nat
  BY LocalTime, ExpiryTypes DEF TypeOK
<1>2. ASSUME pc[w] = "put", DoPut(w) PROVE StoreTypeOK'
  <2>1. PICK until \in Until(w, ChallengeExpiry(w)) :
          PutChallenge(req[w].chal, req[w].scope, ChallengeExpiry(w), until)
    BY <1>2 DEF DoPut
  <2>2. until \in Nat /\ req[w].scope \in Scopes
    BY <1>1, <1>2, UntilBounds, Arguments
  <2> QED  BY <1>1, <2>1, <2>2 DEF StoreTypeOK, PutChallenge, Record
<1>3. ASSUME DoTake(w) PROVE StoreTypeOK'
  BY <1>1, <1>3 DEF DoTake, TakeChallenge, StoreTypeOK
<1>4. ASSUME pc[w] = "claim", DoClaim(w) PROVE StoreTypeOK'
  <2>1. TTLFor(issued[req[w].chal].expires, now[w]) \in Nat
    BY <1>1, <1>4, Arguments, TTLBounds
  <2>2. clock + TTLFor(issued[req[w].chal].expires, now[w]) \in Nat
    BY <1>1, <2>1
  <2> QED  BY <1>1, <1>4, <2>2 DEF DoClaim, ClaimNonce, StoreTypeOK, Nonce
<1>5. ASSUME pc[w] = "issue", DoIssue(w) PROVE StoreTypeOK'
  <2>1. PICK until \in Until(w, TokenExpiry(w)) :
          PutToken(req[w].tok, issued[req[w].chal].scope, TokenExpiry(w), until)
    BY <1>5 DEF DoIssue
  <2>2. until \in Nat /\ issued[req[w].chal].scope \in Scopes
    BY <1>1, <1>5, UntilBounds, Arguments
  <2> QED  BY <1>1, <2>1, <2>2 DEF StoreTypeOK, PutToken, Record
<1>6. ASSUME DoConsume(w) PROVE StoreTypeOK'
  BY <1>1, <1>6 DEF DoConsume, ConsumeToken, StoreTypeOK
<1> QED  BY <1>2, <1>3, <1>4, <1>5, <1>6

LEMMA CallTyped ==
    ASSUME TypeOK, NEW w \in Workers, CallOK(w), Call(w)
    PROVE  TypeOK'
<1>1. CASE IssueSigned(w)
  <2>1. PICK c \in Challenges, scope \in Scopes :
          issued' = [issued EXCEPT ![c] =
                [mode |-> "signed", scope |-> scope,
                 expires |-> Local(w) + ChallengeTTL]]
    BY <1>1 DEF IssueSigned
  <2>2. "signed" \in Modes /\ Local(w) + ChallengeTTL \in Nat
    BY <1>1, LocalTime, CapRedisAssumption DEF IssueSigned
  <2>3. [mode |-> "signed", scope |-> scope,
         expires |-> Local(w) + ChallengeTTL] \in Issued
    BY <2>2 DEF Issued
  <2>4. HistoryType'
    BY <1>1, <2>1, <2>3, TypeParts DEF HistoryType, IssueSigned
  <2>5. ControlType'
    BY <1>1, TypeParts DEF ControlType, IssueSigned, control
  <2> QED
    BY <1>1, <2>4, <2>5, TypeParts, TypePartsNext, SameStoreType DEF IssueSigned
<1>2. CASE BeginReset(w)
  <2>1. [op |-> "reset", held |-> {k \in Present : Held(k)}] \in Requests
    BY PresentKeys DEF Requests, ResetCalls
  <2> QED  BY <1>2, <2>1, BeginType, PresentKeys DEF BeginReset, Locations
<1>3. ASSUME NEW call \in Requests, NEW p \in Locations, Begin(w, call, p, {})
      PROVE  TypeOK'
  BY <1>3, BeginType
<1>4. BeginStored(w) \/ BeginRedeemStored(w) \/ BeginRedeemSigned(w)
         \/ BeginValidate(w) =>
         \E call \in Requests : \E p \in Locations : Begin(w, call, p, {})
  BY DEF BeginStored, BeginRedeemStored, BeginRedeemSigned, BeginValidate,
     Requests, Locations
<1> QED  BY <1>1, <1>2, <1>3, <1>4 DEF Call

LEMMA StepTyped ==
    ASSUME TypeOK, NEW w \in Workers, CallOK(w), Step(w)
    PROVE  TypeOK'
<1> USE TypeParts, TypePartsNext
<1>1. StoreTypeOK /\ ControlType /\ HistoryType
  OBVIOUS
<1>2. ASSUME NEW p \in Locations, Goto(w, p) \/ Return(w)
      PROVE  ControlType'
  BY <1>1, <1>2, ReturnType, GotoType
<1>3. CASE Put(w)
  <2>1. /\ req[w].chal \in Challenges /\ req[w].scope \in Scopes
        /\ ChallengeExpiry(w) \in Nat
    BY <1>3, Arguments, ExpiryTypes DEF Put
  <2>2. "stored" \in Modes
    BY <1>3, Arguments DEF Put, CallOK, ChallengeCalls
  <2>3. [mode |-> "stored", scope |-> req[w].scope,
         expires |-> ChallengeExpiry(w)] \in Issued
    BY <2>1, <2>2 DEF Issued
  <2>4. HistoryType'
    BY <1>1, <1>3, <2>3 DEF Put, HistoryType
  <2> QED  BY <1>1, <1>2, <1>3, <2>4, CommandTypes DEF Put, Locations
<1>4. CASE Take(w)
  BY <1>1, <1>2, <1>4, CommandTypes, SameHistoryType DEF Take, Locations
<1>5. CASE Check(w)
  BY <1>1, <1>2, <1>5, SameStoreType, SameHistoryType DEF Check, Locations
<1>6. CASE Claim(w)
  BY <1>1, <1>2, <1>6, CommandTypes, SameHistoryType DEF Claim, Locations
<1>7. CASE IssueToken(w)
  <2>1. /\ req[w].chal \in Challenges /\ TokenExpiry(w) \in Nat
    BY <1>7, Arguments, ExpiryTypes DEF IssueToken
  <2>2. [chal |-> req[w].chal, expires |-> TokenExpiry(w)] \in Granted
    BY <2>1 DEF Granted
  <2>3. HistoryType'
    BY <1>1, <1>7, <2>2 DEF IssueToken, HistoryType
  <2> QED
    BY <1>1, <1>2, <1>7, <2>3, CommandTypes DEF IssueToken, Locations
<1>8. CASE Consume(w)
  <2>1. req[w].tok \in Tokens
    BY <1>8, Arguments DEF Consume
  <2>2. HistoryType'
    BY <1>1, <1>8, <2>1 DEF Consume, HistoryType
  <2> QED  BY <1>1, <1>2, <1>8, <2>2, CommandTypes DEF Consume, Locations
<1>9. CASE Accept(w) \/ Fail(w)
  BY <1>1, <1>9, ReturnType, SameStoreType, SameHistoryType DEF Accept, Fail
<1>10. CASE ResetDel(w)
  <2>1. PICK k \in Present :
          /\ Delete({k})
          /\ left' = [v \in Workers |-> left[v] \ {k}]
          /\ dropped' = IF k[1] = "nonce" THEN dropped \cup {k[2]} ELSE dropped
    BY <1>10 DEF ResetDel
  <2>2. k[1] = "nonce" => k[2] \in Challenges
    BY DEF Present, Keys
  <2>3. HistoryType'
    BY <1>1, <1>10, <2>1, <2>2 DEF HistoryType, ResetDel
  <2>4. ControlType'
    BY <1>1, <1>10, <2>1 DEF ControlType, ResetDel
  <2> QED  BY <1>1, <2>1, <2>3, <2>4, DeleteType
<1>11. CASE ResetDone(w)
  <2>1. req[w].held \in SUBSET Keys
    BY <1>11, Arguments DEF ResetDone
  <2>2. HistoryType'
    BY <1>1, <1>11, <2>1 DEF HistoryType, ResetDone
  <2> QED  BY <1>1, <1>11, <2>2, ReturnType, SameStoreType DEF ResetDone
<1>12. CASE Resend(w)
  <2>1. ControlType'
    BY <1>1, <1>12 DEF ControlType, Resend, control
  <2> QED  BY <1>1, <1>12, <2>1, CommandTypes, SameHistoryType DEF Resend
<1> QED  BY <1>3, <1>4, <1>5, <1>6, <1>7, <1>8, <1>9, <1>10, <1>11, <1>12 DEF Step

-----------------------------------------------------------------------------
(* What a step of one worker does to the others, to what clients hold and to *)
(* each key.                                                                 *)

\* The other workers stay where they are.
OthersStay(w) == \A v \in Workers \ {w} :
    pc'[v] = pc[v] /\ req'[v] = req[v] /\ now'[v] = now[v]

LEMMA StepOthersStay ==
    ASSUME TypeOK, NEW w \in Workers, Call(w) \/ Step(w)
    PROVE  OthersStay(w) /\ clock' = clock
<1>1. /\ pc \in [Workers -> Locations] /\ req \in [Workers -> Requests]
      /\ now \in [Workers -> Nat]
  BY DEF TypeOK
<1>2. ASSUME NEW call, NEW p, NEW K, Begin(w, call, p, K)
      PROVE  OthersStay(w) /\ clock' = clock
  BY <1>1, <1>2 DEF Begin, OthersStay
<1>3. CASE Call(w)
  BY <1>2, <1>3 DEF Call, BeginStored, IssueSigned, BeginRedeemStored,
     BeginRedeemSigned, BeginValidate, BeginReset, OthersStay, control
<1>4. ASSUME NEW p, Goto(w, p) \/ Return(w) \/ UNCHANGED <<pc, req, now>>
      PROVE  OthersStay(w)
  BY <1>1, <1>4 DEF Goto, Return, OthersStay
<1>5. Step(w) => /\ clock' = clock
                 /\ \E p : Goto(w, p) \/ Return(w) \/ UNCHANGED <<pc, req, now>>
  BY DEF Step, Put, Take, Check, Claim, IssueToken, Consume, Accept, ResetDel,
     ResetDone, Resend, Fail, control
<1> QED  BY <1>3, <1>4, <1>5

\* A call ends, or keeps its arguments and its time.
LEMMA StepMoves ==
    ASSUME TypeOK, NEW w \in Workers, Step(w)
    PROVE  \/ /\ pc'[w] = "idle" /\ req'[w] = NoCall /\ now'[w] = 0
              /\ left'[w] = {}
           \/ req'[w] = req[w] /\ now'[w] = now[w]
<1>1. /\ pc \in [Workers -> Locations] /\ req \in [Workers -> Requests]
      /\ now \in [Workers -> Nat] /\ left \in [Workers -> SUBSET Keys]
  BY DEF TypeOK
<1>2. Return(w) => /\ pc'[w] = "idle" /\ req'[w] = NoCall /\ now'[w] = 0
                   /\ left'[w] = {}
  BY <1>1 DEF Return
<1>3. ASSUME NEW p, Goto(w, p) \/ UNCHANGED <<req, now>>
      PROVE  req'[w] = req[w] /\ now'[w] = now[w]
  BY <1>1, <1>3 DEF Goto
<1>4. \E p : Goto(w, p) \/ Return(w) \/ UNCHANGED <<req, now>>
  BY DEF Step, Put, Take, Check, Claim, IssueToken, Consume, Accept, ResetDel,
     ResetDone, Resend, Fail, control
<1> QED  BY <1>2, <1>3, <1>4

\* A challenge is handed out under an identifier that nobody else will use.
LEMMA IssuedChange ==
    ASSUME Typed, FreshInv, NEW w \in Workers, Call(w) \/ Step(w),
           NEW c \in Challenges, issued'[c] # issued[c]
    PROVE  /\ issued[c] = Absent /\ issued'[c] # Absent
           /\ \A v \in Workers : req'[v].op = "challenge" => req'[v].chal # c
           /\ (Put(w) /\ req[w].chal = c) \/ IssueSigned(w)
<1>1. /\ TypeOK /\ CallOK(w) /\ issued \in [Challenges -> Issued \cup {Absent}]
      /\ req \in [Workers -> Requests]
  BY DEF Typed, CallInv, TypeOK
<1>2. TypeOK' /\ OthersStay(w)
  BY <1>1, CallTyped, StepTyped, StepOthersStay
<1>3. Put(w) \/ IssueSigned(w)
  BY DEF Call, BeginStored, BeginRedeemStored, BeginRedeemSigned, BeginValidate,
     BeginReset, Begin, Step, Take, Check, Claim, IssueToken, Consume, Accept,
     ResetDel, ResetDone, Resend, Fail, history
<1>4. CASE Put(w)
  <2>1. req[w].chal = c /\ req[w].op = "challenge"
    BY <1>1, <1>4 DEF Put, CallOK
  <2>2. req'[w] = NoCall
    BY <1>1, <1>4 DEF Put, Return
  <2>3. issued[c] = Absent
    BY <2>1 DEF FreshInv
  <2>4. \A v \in Workers \ {w} : req'[v] = req[v]
    BY <1>2 DEF OthersStay
  <2>5. \A v \in Workers \ {w} : req[v].op = "challenge" => req[v].chal # c
    BY <2>1 DEF FreshInv
  <2> QED  BY <1>4, <2>1, <2>2, <2>3, <2>4, <2>5, NoCallRequest
<1>5. CASE IssueSigned(w)
  <2>1. PICK d \in Challenges, scope \in Scopes :
          /\ FreshChallenge(d)
          /\ issued' = [issued EXCEPT ![d] =
                [mode |-> "signed", scope |-> scope,
                 expires |-> Local(w) + ChallengeTTL]]
    BY <1>5 DEF IssueSigned
  <2>2. d = c
    BY <1>1, <2>1
  <2> QED  BY <1>5, <2>1, <2>2 DEF FreshChallenge, IssueSigned, control
<1> QED  BY <1>3, <1>4, <1>5

\* So is a token.
LEMMA GrantedChange ==
    ASSUME Typed, FreshInv, NEW w \in Workers, Call(w) \/ Step(w),
           NEW t \in Tokens, granted'[t] # granted[t]
    PROVE  /\ granted[t] = Absent /\ granted'[t] # Absent
           /\ \A v \in Workers : req'[v].op = "redeem" => req'[v].tok # t
           /\ IssueToken(w) /\ req[w].tok = t
<1>1. /\ TypeOK /\ CallOK(w) /\ granted \in [Tokens -> Granted \cup {Absent}]
      /\ req \in [Workers -> Requests]
  BY DEF Typed, CallInv, TypeOK
<1>2. OthersStay(w)
  BY <1>1, StepOthersStay
<1>3. IssueToken(w)
  BY DEF Call, BeginStored, BeginRedeemStored, BeginRedeemSigned, BeginValidate,
     BeginReset, Begin, IssueSigned, Step, Put, Take, Check, Claim, Consume,
     Accept, ResetDel, ResetDone, Resend, Fail, history
<1>4. req[w].tok = t /\ req[w].op = "redeem"
  BY <1>1, <1>3 DEF IssueToken, CallOK
<1>5. req'[w] = NoCall
  BY <1>1, <1>3 DEF IssueToken, Return
<1>6. granted[t] = Absent
  BY <1>4 DEF FreshInv
<1>7. \A v \in Workers \ {w} : req'[v] = req[v]
  BY <1>2 DEF OthersStay
<1>8. \A v \in Workers \ {w} : req[v].op = "redeem" => req[v].tok # t
  BY <1>4 DEF FreshInv
<1> QED  BY <1>3, <1>4, <1>5, <1>6, <1>7, <1>8, NoCallRequest

\* What a client holds stays as it is.
HistoryGrows ==
    /\ \A c \in Challenges : issued[c] # Absent => issued'[c] = issued[c]
    /\ \A t \in Tokens : granted[t] # Absent => granted'[t] = granted[t]

LEMMA StepHistoryGrows ==
    ASSUME Typed, FreshInv, NEW w \in Workers, Call(w) \/ Step(w)
    PROVE  HistoryGrows
BY IssuedChange, GrantedChange DEF HistoryGrows

\* A challenge leaves Redis, or the call that drew it puts it.
LEMMA ChallengesChange ==
    ASSUME Typed, NEW w \in Workers, Call(w) \/ Step(w), NEW c \in Challenges
    PROVE  \/ challenges'[c] = challenges[c]
           \/ challenges'[c] = Absent
           \/ /\ pc[w] = "put" /\ req[w].chal = c
              /\ \E until \in Until(w, ChallengeExpiry(w)) :
                    challenges'[c] = [scope |-> req[w].scope,
                       expires |-> ChallengeExpiry(w), until |-> until]
<1>1. challenges \in [Challenges -> Record \cup {Absent}]
  BY DEF Typed, TypeOK, StoreTypeOK
<1>2. ASSUME NEW K, Delete(K) PROVE challenges'[c] \in {challenges[c], Absent}
  BY <1>1, <1>2 DEF Delete, Without
<1>3. ASSUME DoTake(w) PROVE challenges'[c] \in {challenges[c], Absent}
  BY <1>1, <1>3 DEF DoTake, TakeChallenge
<1>4. ASSUME DoPut(w), challenges'[c] # challenges[c]
      PROVE  /\ req[w].chal = c
             /\ \E until \in Until(w, ChallengeExpiry(w)) :
                   challenges'[c] = [scope |-> req[w].scope,
                      expires |-> ChallengeExpiry(w), until |-> until]
  <2>1. PICK until \in Until(w, ChallengeExpiry(w)) :
          PutChallenge(req[w].chal, req[w].scope, ChallengeExpiry(w), until)
    BY <1>4 DEF DoPut
  <2> QED  BY <1>1, <1>4, <2>1 DEF PutChallenge
<1>5. Call(w) => challenges' = challenges
  BY DEF Call, BeginStored, IssueSigned, BeginRedeemStored, BeginRedeemSigned,
     BeginValidate, BeginReset, Begin, storeVars
<1>6. Step(w) => \/ challenges' = challenges
                 \/ DoTake(w)
                 \/ \E K : Delete(K)
                 \/ pc[w] = "put" /\ DoPut(w)
  BY DEF Step, Put, Take, Check, Claim, IssueToken, Consume, Accept, ResetDel,
     ResetDone, Resend, Fail, storeVars, DoClaim, ClaimNonce, DoIssue, PutToken,
     DoConsume, ConsumeToken
<1> QED  BY <1>2, <1>3, <1>4, <1>5, <1>6

\* A nonce is claimed, or a Reset drops it.
LEMMA NoncesChange ==
    ASSUME Typed, NEW w \in Workers, Call(w) \/ Step(w), NEW c \in Challenges
    PROVE  \/ nonces'[c] = nonces[c]
           \/ nonces'[c] = Absent /\ c \in dropped'
           \/ /\ pc[w] = "claim" /\ req[w].chal = c /\ nonces[c] = Absent
              /\ nonces'[c] =
                   [until |-> clock + TTLFor(issued[c].expires, now[w])]
<1>1. nonces \in [Challenges -> Nonce \cup {Absent}]
  BY DEF Typed, TypeOK, StoreTypeOK
<1>2. ASSUME ResetDel(w), nonces'[c] # nonces[c]
      PROVE  nonces'[c] = Absent /\ c \in dropped'
  <2>1. PICK k \in Present :
          /\ Delete({k})
          /\ dropped' = IF k[1] = "nonce" THEN dropped \cup {k[2]} ELSE dropped
    BY <1>2 DEF ResetDel
  <2>2. k = <<"nonce", c>> /\ nonces'[c] = Absent
    BY <1>1, <1>2, <2>1 DEF Delete, Without
  <2> QED  BY <2>1, <2>2
<1>3. ASSUME DoClaim(w), nonces'[c] # nonces[c]
      PROVE  /\ req[w].chal = c /\ nonces[c] = Absent
             /\ nonces'[c] =
                   [until |-> clock + TTLFor(issued[c].expires, now[w])]
  BY <1>1, <1>3 DEF DoClaim, ClaimNonce, ClaimNonceOk
<1>4. Call(w) => nonces' = nonces
  BY DEF Call, BeginStored, IssueSigned, BeginRedeemStored, BeginRedeemSigned,
     BeginValidate, BeginReset, Begin, storeVars
<1>5. Step(w) => \/ nonces' = nonces
                 \/ ResetDel(w)
                 \/ pc[w] = "claim" /\ DoClaim(w)
  BY DEF Step, Put, Take, Check, Claim, IssueToken, Consume, Accept,
     ResetDone, Resend, Fail, storeVars, DoPut, PutChallenge, DoTake,
     TakeChallenge, DoIssue, PutToken, DoConsume, ConsumeToken
<1> QED  BY <1>2, <1>3, <1>4, <1>5

\* A token leaves Redis, or the redemption that drew it puts it.
LEMMA TokensChange ==
    ASSUME Typed, NEW w \in Workers, Call(w) \/ Step(w), NEW t \in Tokens
    PROVE  \/ tokens'[t] = tokens[t]
           \/ tokens'[t] = Absent
           \/ /\ pc[w] = "issue" /\ req[w].tok = t
              /\ \E until \in Until(w, TokenExpiry(w)) :
                    tokens'[t] = [scope |-> issued[req[w].chal].scope,
                       expires |-> TokenExpiry(w), until |-> until]
<1>1. tokens \in [Tokens -> Record \cup {Absent}]
  BY DEF Typed, TypeOK, StoreTypeOK
<1>2. ASSUME NEW K, Delete(K) PROVE tokens'[t] \in {tokens[t], Absent}
  BY <1>1, <1>2 DEF Delete, Without
<1>3. ASSUME DoConsume(w) PROVE tokens'[t] \in {tokens[t], Absent}
  BY <1>1, <1>3 DEF DoConsume, ConsumeToken
<1>4. ASSUME DoIssue(w), tokens'[t] # tokens[t]
      PROVE  /\ req[w].tok = t
             /\ \E until \in Until(w, TokenExpiry(w)) :
                   tokens'[t] = [scope |-> issued[req[w].chal].scope,
                      expires |-> TokenExpiry(w), until |-> until]
  <2>1. PICK until \in Until(w, TokenExpiry(w)) :
          PutToken(req[w].tok, issued[req[w].chal].scope, TokenExpiry(w), until)
    BY <1>4 DEF DoIssue
  <2> QED  BY <1>1, <1>4, <2>1 DEF PutToken
<1>5. Call(w) => tokens' = tokens
  BY DEF Call, BeginStored, IssueSigned, BeginRedeemStored, BeginRedeemSigned,
     BeginValidate, BeginReset, Begin, storeVars
<1>6. Step(w) => \/ tokens' = tokens
                 \/ DoConsume(w)
                 \/ \E K : Delete(K)
                 \/ pc[w] = "issue" /\ DoIssue(w)
  BY DEF Step, Put, Take, Check, Claim, IssueToken, Consume, Accept, ResetDel,
     ResetDone, Resend, Fail, storeVars, DoPut, PutChallenge, DoTake,
     TakeChallenge, DoClaim, ClaimNonce
<1> QED  BY <1>2, <1>3, <1>4, <1>5, <1>6

-----------------------------------------------------------------------------
(* The inductive invariant, part by part *)

\* A call begins with the arguments it needs.
LEMMA CallCallOK ==
    ASSUME TypeOK, NEW w \in Workers, CallOK(w), Call(w)
    PROVE  CallOK(w)'
<1>1. /\ pc \in [Workers -> Locations] /\ req \in [Workers -> Requests]
  BY DEF TypeOK
<1>2. ASSUME NEW call, NEW p, NEW K, Begin(w, call, p, K)
      PROVE  /\ pc'[w] = p /\ req'[w] = call
             /\ issued' = issued /\ granted' = granted
  BY <1>1, <1>2 DEF Begin, history
<1>3. CASE BeginStored(w)
  BY <1>2, <1>3 DEF BeginStored, CallOK, ChallengeCalls
<1>4. CASE BeginRedeemStored(w)
  BY <1>2, <1>4 DEF BeginRedeemStored, CallOK, RedeemCalls
<1>5. CASE BeginRedeemSigned(w)
  BY <1>2, <1>5 DEF BeginRedeemSigned, CallOK, RedeemCalls
<1>6. CASE BeginValidate(w)
  BY <1>2, <1>6 DEF BeginValidate, CallOK, ValidateCalls
<1>7. CASE BeginReset(w)
  BY <1>2, <1>7 DEF BeginReset, CallOK
<1>8. CASE IssueSigned(w)
  <2>1. \A c \in Challenges : issued[c] # Absent => issued'[c] = issued[c]
    BY <1>8 DEF IssueSigned, FreshChallenge, TypeOK
  <2>2. req[w].op = "redeem" => req[w].chal \in Challenges
    BY Arguments
  <2> QED  BY <1>8, <2>1, <2>2 DEF IssueSigned, CallOK, control
<1> QED  BY <1>3, <1>4, <1>5, <1>6, <1>7, <1>8 DEF Call

\* and keeps them.
LEMMA StepCallOK ==
    ASSUME Typed, FreshInv, NEW w \in Workers, Step(w)
    PROVE  CallOK(w)'
<1>1. /\ TypeOK /\ CallOK(w) /\ pc \in [Workers -> Locations]
      /\ req \in [Workers -> Requests]
  BY DEF Typed, CallInv, TypeOK
<1>2. HistoryGrows
  BY StepHistoryGrows
<1>3. /\ req[w].op = "redeem" => req[w].chal \in Challenges
      /\ req[w].op = "validate" => req[w].tok \in Tokens
  BY <1>1, Arguments
<1>4. CASE Return(w)
  <2>1. pc'[w] = "idle" /\ req'[w].op = "none"
    BY <1>1, <1>4, NoCallRequest DEF Return
  <2> QED  BY <2>1 DEF CallOK
<1>5. CASE UNCHANGED <<pc, req>>
  BY <1>1, <1>2, <1>3, <1>5 DEF CallOK, HistoryGrows
<1>6. ASSUME NEW p, Goto(w, p),
             \/ p = "issue" /\ pc[w] \in {"take", "claim"}
             \/ p = "claim" /\ pc[w] = "check"
             \/ p = "accepted" /\ pc[w] = "consume"
      PROVE  CallOK(w)'
  <2>1. pc'[w] = p /\ req'[w] = req[w]
    BY <1>1, <1>6 DEF Goto
  <2> QED  BY <1>1, <1>2, <1>3, <1>6, <2>1 DEF CallOK, HistoryGrows
<1>7. \/ Return(w)
      \/ UNCHANGED <<pc, req>>
      \/ Goto(w, "issue") /\ pc[w] \in {"take", "claim"}
      \/ Goto(w, "claim") /\ pc[w] = "check"
      \/ Goto(w, "accepted") /\ pc[w] = "consume"
  BY DEF Step, Put, Take, Check, Claim, IssueToken, Consume, Accept, ResetDel,
     ResetDone, Resend, Fail, control
<1> QED  BY <1>4, <1>5, <1>6, <1>7

LEMMA CallInvStep ==
    ASSUME Typed, FreshInv, NEW w \in Workers, Call(w) \/ Step(w)
    PROVE  CallInv'
<1>1. /\ TypeOK /\ CallInv /\ OthersStay(w) /\ HistoryGrows
  BY StepOthersStay, StepHistoryGrows DEF Typed
<1>2. CallOK(w)'
  BY <1>1, CallCallOK, StepCallOK DEF CallInv
<1>3. ASSUME NEW v \in Workers \ {w} PROVE CallOK(v)'
  <2>1. pc'[v] = pc[v] /\ req'[v] = req[v] /\ CallOK(v)
    BY <1>1 DEF OthersStay, CallInv
  <2>2. /\ req[v].op = "redeem" => req[v].chal \in Challenges
        /\ req[v].op = "validate" => req[v].tok \in Tokens
    BY <1>1, <2>1, Arguments
  <2> QED  BY <1>1, <2>1, <2>2 DEF CallOK, HistoryGrows
<1> QED  BY <1>2, <1>3 DEF CallInv

\* A call draws what nobody has drawn before.
LEMMA BeginFresh ==
    ASSUME TypeOK, NEW w \in Workers, Call(w)
    PROVE  \/ req'[w] = req[w] \/ req'[w].op \in {"validate", "reset"}
           \/ req'[w].op = "challenge" /\ FreshChallenge(req'[w].chal)
           \/ req'[w].op = "redeem" /\ FreshToken(req'[w].tok)
<1>1. req \in [Workers -> Requests]
  BY DEF TypeOK
<1>2. ASSUME NEW call, NEW p, NEW K, Begin(w, call, p, K)
      PROVE  req'[w] = call
  BY <1>1, <1>2 DEF Begin
<1>3. CASE BeginStored(w)
  BY <1>2, <1>3 DEF BeginStored, ChallengeCalls, FreshChallenge
<1>4. CASE BeginRedeemStored(w)
  BY <1>2, <1>4 DEF BeginRedeemStored, RedeemCalls, FreshToken
<1>5. CASE BeginRedeemSigned(w)
  BY <1>2, <1>5 DEF BeginRedeemSigned, RedeemCalls, FreshToken
<1>6. CASE BeginValidate(w)
  BY <1>2, <1>6 DEF BeginValidate, ValidateCalls
<1>7. CASE BeginReset(w)
  BY <1>2, <1>7 DEF BeginReset
<1>8. CASE IssueSigned(w)
  BY <1>8 DEF IssueSigned, control
<1> QED  BY <1>3, <1>4, <1>5, <1>6, <1>7, <1>8 DEF Call

LEMMA FreshInvStep ==
    ASSUME Typed, FreshInv, NEW w \in Workers, Call(w) \/ Step(w)
    PROVE  FreshInv'
<1>1. TypeOK /\ OthersStay(w) /\ CallInv /\ CallInv' /\ TypeOK'
  BY StepOthersStay, CallInvStep, CallTyped, StepTyped DEF Typed, CallInv
<1>2. \A v \in Workers :
         /\ req'[v].op = "challenge" => req'[v].chal \in Challenges
         /\ req'[v].op = "redeem" => req'[v].tok \in Tokens
  <2>1. \A v \in Workers : req'[v] \in Requests
    BY <1>1 DEF TypeOK
  <2> QED  BY <2>1, RequestKinds DEF ChallengeCalls, RedeemCalls
<1>3. \/ req'[w] = req[w] \/ req'[w].op \in {"none", "validate", "reset"}
      \/ req'[w].op = "challenge" /\ FreshChallenge(req'[w].chal)
      \/ req'[w].op = "redeem" /\ FreshToken(req'[w].tok)
  BY <1>1, BeginFresh, StepMoves, NoCallRequest
<1>4. \A v \in Workers \ {w} : req'[v] = req[v]
  BY <1>1 DEF OthersStay
<1>5. ASSUME NEW v \in Workers, req'[v].op = "challenge"
      PROVE  issued'[req'[v].chal] = Absent
  <2>1. issued[req'[v].chal] = Absent
    BY <1>3, <1>4, <1>5 DEF FreshInv, FreshChallenge
  <2> QED  BY <1>2, <1>5, <2>1, IssuedChange
<1>6. ASSUME NEW v \in Workers, req'[v].op = "redeem"
      PROVE  granted'[req'[v].tok] = Absent
  <2>1. granted[req'[v].tok] = Absent
    BY <1>3, <1>4, <1>6 DEF FreshInv, FreshToken
  <2> QED  BY <1>2, <1>6, <2>1, GrantedChange
<1>7. ASSUME NEW u \in Workers, NEW v \in Workers, u # v,
             req'[u].op = req'[v].op
      PROVE  /\ req'[u].op = "challenge" => req'[u].chal # req'[v].chal
             /\ req'[u].op = "redeem" => req'[u].tok # req'[v].tok
  <2>1. CASE req'[w] = req[w]
    BY <1>4, <1>7, <2>1 DEF FreshInv
  <2>2. CASE req'[w] # req[w]
    BY <1>3, <1>4, <1>7, <2>2 DEF FreshInv, FreshChallenge, FreshToken
  <2> QED  BY <2>1, <2>2
<1> QED  BY <1>5, <1>6, <1>7 DEF FreshInv

LEMMA ClockInvStep ==
    ASSUME Typed, ClockInv, NEW w \in Workers, Call(w) \/ Step(w)
    PROVE  ClockInv'
<1>1. TypeOK /\ OthersStay(w) /\ clock' = clock /\ now \in [Workers -> Nat]
  BY StepOthersStay DEF Typed, TypeOK
<1>2. \A v \in Workers : Local(v)' = Local(v) /\ Local(v) \in Nat
  BY <1>1, LocalTime DEF Local
<1>3. ASSUME NEW call, NEW p, NEW K, Begin(w, call, p, K)
      PROVE  now'[w] = Local(w)
  BY <1>1, <1>3 DEF Begin
<1>4. Call(w) => now'[w] \in {now[w], Local(w)}
  BY <1>3 DEF Call, BeginStored, IssueSigned, BeginRedeemStored,
     BeginRedeemSigned, BeginValidate, BeginReset, control
<1>5. Step(w) => now'[w] \in {now[w], 0}
  BY <1>1, StepMoves
<1>6. now'[w] <= Local(w)
  BY <1>2, <1>4, <1>5 DEF ClockInv
<1> QED  BY <1>1, <1>2, <1>6 DEF ClockInv, OthersStay

\* A key is given a time to live that its expiry asks for.
LEMMA LifeInvStep ==
    ASSUME Typed, FreshInv, ClockInv, LifeInv, NEW w \in Workers,
           Call(w) \/ Step(w)
    PROVE  LifeInv'
<1>1. /\ TypeOK /\ CallOK(w) /\ HistoryGrows /\ now[w] \in Nat /\ clock \in Nat
      /\ MaxSkew \in Nat /\ Local(w) \in Nat /\ Local(w) <= clock + MaxSkew
      /\ now[w] <= Local(w)
      /\ ChallengeExpiry(w) \in Nat /\ TokenExpiry(w) \in Nat
  BY StepHistoryGrows, LocalTime, ExpiryTypes
     DEF Typed, CallInv, TypeOK, ClockInv
<1>2. ASSUME NEW c \in Challenges, challenges'[c] # Absent
      PROVE  challenges'[c].expires <= challenges'[c].until + MaxSkew
  <2>1. CASE challenges'[c] = challenges[c]
    BY <1>2, <2>1 DEF LifeInv
  <2>2. CASE \E until \in Until(w, ChallengeExpiry(w)) :
                challenges'[c] = [scope |-> req[w].scope,
                   expires |-> ChallengeExpiry(w), until |-> until]
    BY <1>1, <2>2, UntilBounds
  <2> QED  BY <1>2, <2>1, <2>2, ChallengesChange
<1>3. ASSUME NEW c \in Challenges, nonces'[c] # Absent
      PROVE  /\ issued'[c] # Absent
             /\ issued'[c].expires <= nonces'[c].until + MaxSkew
  <2>1. CASE nonces'[c] = nonces[c]
    BY <1>1, <1>3, <2>1 DEF LifeInv, HistoryGrows
  <2>2. ASSUME pc[w] = "claim", req[w].chal = c,
               nonces'[c] = [until |-> clock + TTLFor(issued[c].expires, now[w])]
        PROVE  /\ issued'[c] # Absent
               /\ issued'[c].expires <= nonces'[c].until + MaxSkew
    <3>1. issued[c] # Absent /\ issued[c].expires \in Nat
      BY <1>1, <2>2, Arguments DEF CallOK
    <3>2. issued'[c] = issued[c]
      BY <1>1, <3>1 DEF HistoryGrows
    <3>3. /\ TTLFor(issued[c].expires, now[w]) \in Nat
          /\ issued[c].expires <= now[w] + TTLFor(issued[c].expires, now[w])
      BY <1>1, <3>1, TTLBounds
    <3> QED  BY <1>1, <2>2, <3>1, <3>2, <3>3
  <2> QED  BY <1>3, <2>1, <2>2, NoncesChange
<1>4. ASSUME NEW t \in Tokens, tokens'[t] # Absent
      PROVE  tokens'[t].expires <= tokens'[t].until + MaxSkew
  <2>1. CASE tokens'[t] = tokens[t]
    BY <1>4, <2>1 DEF LifeInv
  <2>2. CASE \E until \in Until(w, TokenExpiry(w)) :
                tokens'[t] = [scope |-> issued[req[w].chal].scope,
                   expires |-> TokenExpiry(w), until |-> until]
    BY <1>1, <2>2, UntilBounds
  <2> QED  BY <1>4, <2>1, <2>2, TokensChange
<1> QED  BY <1>2, <1>3, <1>4 DEF LifeInv

\* Consumed tokens are not put again: nobody draws a token that was granted.
LEMMA ConsumedInvStep ==
    ASSUME Typed, FreshInv, ConsumedInv, NEW w \in Workers, Call(w) \/ Step(w)
    PROVE  ConsumedInv'
<1>1. /\ TypeOK /\ CallOK(w) /\ HistoryGrows /\ used \subseteq Tokens
      /\ tokens \in [Tokens -> Record \cup {Absent}]
  BY StepHistoryGrows DEF Typed, CallInv, TypeOK, StoreTypeOK
<1>2. ASSUME NEW t \in used PROVE granted'[t] # Absent /\ tokens'[t] = Absent
  <2>1. t \in Tokens /\ granted[t] # Absent /\ tokens[t] = Absent
    BY <1>1 DEF ConsumedInv
  <2>2. ~(pc[w] = "issue" /\ req[w].tok = t)
    BY <1>1, <2>1 DEF FreshInv, CallOK
  <2> QED  BY <1>1, <2>1, <2>2, TokensChange DEF HistoryGrows
<1>3. ASSUME NEW t \in used' \ used
      PROVE  granted'[t] # Absent /\ tokens'[t] = Absent
  <2>1. Consume(w)
    BY DEF Call, BeginStored, IssueSigned, BeginRedeemStored, BeginRedeemSigned,
       BeginValidate, BeginReset, Begin, Step, Put, Take, Check, Claim,
       IssueToken, Accept, ResetDel, ResetDone, Resend, Fail, history
  <2>2. /\ t = req[w].tok /\ ~req[w].keep
        /\ ConsumeTokenOk(t, req[w].scope, now[w])
    BY <1>3, <2>1 DEF Consume
  <2>3. t \in Tokens /\ granted[t] # Absent
    BY <1>1, <2>1, <2>2, Arguments DEF Consume, CallOK
  <2>4. tokens'[t] = Absent
    BY <1>1, <2>1, <2>2, <2>3 DEF Consume, DoConsume, ConsumeToken,
       ConsumeTokenOk
  <2> QED  BY <1>1, <2>3, <2>4 DEF HistoryGrows
<1> QED  BY <1>2, <1>3 DEF ConsumedInv

\* Presence of a key, map by map, before and after a step.
LEMMA KeyKinds ==
    ASSUME NEW k \in Keys
    PROVE  /\ k[1] \in {"challenge", "nonce", "token"}
           /\ k[1] = "challenge" =>
                /\ k[2] \in Challenges
                /\ k \in Present <=> challenges[k[2]] # Absent
                /\ k \in Present' <=> challenges'[k[2]] # Absent
           /\ k[1] = "nonce" =>
                /\ k[2] \in Challenges
                /\ k \in Present <=> nonces[k[2]] # Absent
                /\ k \in Present' <=> nonces'[k[2]] # Absent
           /\ k[1] = "token" =>
                /\ k[2] \in Tokens
                /\ k \in Present <=> tokens[k[2]] # Absent
                /\ k \in Present' <=> tokens'[k[2]] # Absent
BY DEF Keys, Present, Entry

\* What a client holds is never put again, by a resent command either.
LEMMA HeldGoes ==
    ASSUME Typed, FreshInv, NEW w \in Workers, Call(w) \/ Step(w),
           NEW k \in Keys, Held(k)
    PROVE  /\ Held(k)'
           /\ k \in Present' => k \in Present
<1>1. TypeOK /\ CallOK(w) /\ HistoryGrows
  BY StepHistoryGrows DEF Typed, CallInv
<1>2. CASE k[1] = "challenge"
  <2>1. k[2] \in Challenges /\ issued[k[2]] # Absent
    BY <1>2, KeyKinds DEF Held
  <2>2. ~(pc[w] = "put" /\ req[w].chal = k[2])
    BY <1>1, <2>1 DEF FreshInv, CallOK
  <2>3. challenges'[k[2]] \in {challenges[k[2]], Absent}
    BY <2>1, <2>2, ChallengesChange
  <2> QED  BY <1>1, <1>2, <2>1, <2>3, KeyKinds DEF Held, HistoryGrows
<1>3. CASE k[1] = "token"
  <2>1. k[2] \in Tokens /\ granted[k[2]] # Absent
    BY <1>3, KeyKinds DEF Held
  <2>2. ~(pc[w] = "issue" /\ req[w].tok = k[2])
    BY <1>1, <2>1 DEF FreshInv, CallOK
  <2>3. tokens'[k[2]] \in {tokens[k[2]], Absent}
    BY <2>1, <2>2, TokensChange
  <2> QED  BY <1>1, <1>3, <2>1, <2>3, KeyKinds DEF Held, HistoryGrows
<1> QED  BY <1>2, <1>3 DEF Held

\* A Reset has deleted nothing but the keys that are off its list.
LEMMA LeftStays ==
    ASSUME TypeOK, NEW w \in Workers, Call(w) \/ Step(w),
           NEW v \in Workers, req'[v] = req[v], req[v].op = "reset"
    PROVE  left[v] \cap Present' \subseteq left'[v]
<1>1. /\ left \in [Workers -> SUBSET Keys] /\ pc \in [Workers -> Locations]
      /\ req \in [Workers -> Requests]
      /\ StoreTypeOK
  BY DEF TypeOK
<1>2. CASE left' = left
  BY <1>2
<1>3. CASE v # w /\ ~ResetDel(w)
  <2>1. ASSUME NEW call, NEW p, NEW K, Begin(w, call, p, K)
        PROVE  left'[v] = left[v]
    BY <1>1, <1>3, <2>1 DEF Begin
  <2>2. ASSUME NEW p, Goto(w, p) \/ Return(w) PROVE left'[v] = left[v]
    BY <1>1, <1>3, <2>2 DEF Goto, Return
  <2> QED
    BY <1>2, <1>3, <2>1, <2>2
       DEF Call, BeginStored, IssueSigned, BeginRedeemStored, BeginRedeemSigned,
       BeginValidate, BeginReset, Step, Put, Take, Check, Claim, IssueToken,
       Consume, Accept, ResetDone, Resend, Fail, control
<1>4. CASE ResetDel(w)
  <2>1. PICK k \in Present :
          Delete({k}) /\ left' = [u \in Workers |-> left[u] \ {k}]
    BY <1>4 DEF ResetDel
  <2>2. k \in Keys /\ k \notin Present'
    <3>1. k \in Keys
      BY PresentKeys
    <3>2. Entry(k)' = Absent
      BY <1>1, <2>1, <3>1 DEF Keys, Entry, Delete, Without, StoreTypeOK
    <3> QED  BY <3>1, <3>2 DEF Present
  <2> QED  BY <1>1, <2>1, <2>2
<1>5. CASE v = w /\ ~ResetDel(w)
  <2>1. ~Return(w)
    BY <1>1, <1>5, NoCallRequest DEF Return
  <2>2. ASSUME NEW p, Goto(w, p) PROVE left' = left
    BY <2>2 DEF Goto
  <2>3. Step(w) => left' = left
    BY <1>5, <2>1, <2>2 DEF Step, Put, Take, Check, Claim, IssueToken, Consume,
       Accept, ResetDone, Resend, Fail, control
  <2>4. ASSUME NEW call, NEW p, NEW K, Begin(w, call, p, K), call.op # "reset"
        PROVE  FALSE
    BY <1>1, <1>5, <2>4 DEF Begin
  <2>5. Call(w) => BeginReset(w) \/ left' = left
    BY <2>4 DEF Call, BeginStored, IssueSigned, BeginRedeemStored,
       BeginRedeemSigned, BeginValidate, ChallengeCalls, RedeemCalls,
       ValidateCalls, control
  <2>6. CASE BeginReset(w)
    BY <1>1, <1>5, <2>6 DEF BeginReset, Begin, storeVars, Present, Entry
  <2> QED  BY <1>2, <2>3, <2>5, <2>6
<1> QED  BY <1>3, <1>4, <1>5

LEMMA ResetInvStep ==
    ASSUME Typed, FreshInv, ResetInv, NEW w \in Workers, Call(w) \/ Step(w)
    PROVE  ResetInv'
<1>1. /\ TypeOK /\ CallInv /\ OthersStay(w) /\ wiped \subseteq Keys
      /\ req \in [Workers -> Requests] /\ left \in [Workers -> SUBSET Keys]
      /\ pc \in [Workers -> Locations]
  BY StepOthersStay DEF Typed, TypeOK
<1>2. ASSUME NEW v \in Workers, req'[v] = req[v], req[v].op = "reset"
      PROVE  /\ \A k \in req[v].held : Held(k)'
             /\ req[v].held \cap Present' \subseteq left'[v]
  <2>1. req[v].held \subseteq Keys
    BY <1>1, <1>2, Arguments DEF CallInv
  <2>2. \A k \in req[v].held : Held(k) /\ (k \in Present => k \in left[v])
    BY <1>2 DEF ResetInv
  <2>3. \A k \in req[v].held : Held(k)' /\ (k \in Present' => k \in Present)
    BY <2>1, <2>2, HeldGoes
  <2>4. left[v] \cap Present' \subseteq left'[v]
    BY <1>1, <1>2, LeftStays
  <2> QED  BY <2>2, <2>3, <2>4
<1>3. ASSUME BeginReset(w)
      PROVE  /\ \A k \in req'[w].held : Held(k)'
             /\ req'[w].held \cap Present' \subseteq left'[w]
  <2>1. /\ req'[w] = [op |-> "reset", held |-> {k \in Present : Held(k)}]
        /\ left'[w] = Present
        /\ UNCHANGED <<challenges, nonces, tokens, issued, granted>>
    BY <1>1, <1>3 DEF BeginReset, Begin, storeVars, history
  <2>2. Present' = Present
    BY <2>1 DEF Present, Entry
  <2>3. \A k : Held(k)' <=> Held(k)
    BY <2>1 DEF Held
  <2> QED  BY <2>1, <2>2, <2>3
<1>4. ASSUME NEW v \in Workers, req'[v].op = "reset", ~BeginReset(w)
      PROVE  req'[v] = req[v]
  <2>1. ASSUME NEW call, NEW p, NEW K, Begin(w, call, p, K)
        PROVE  req'[w] = call
    BY <1>1, <2>1 DEF Begin
  <2>2. Call(w) => req'[w] = req[w] \/ req'[w].op # "reset"
    BY <1>4, <2>1 DEF Call, BeginStored, IssueSigned, BeginRedeemStored,
       BeginRedeemSigned, BeginValidate, ChallengeCalls, RedeemCalls,
       ValidateCalls, control
  <2>3. Step(w) => req'[w] = req[w] \/ req'[w].op # "reset"
    BY <1>1, StepMoves, NoCallRequest
  <2> QED  BY <1>1, <1>4, <2>2, <2>3 DEF OthersStay
<1>5. ASSUME NEW v \in Workers, req'[v].op = "reset"
      PROVE  /\ \A k \in req'[v].held : Held(k)'
             /\ req'[v].held \cap Present' \subseteq left'[v]
  <2>1. CASE BeginReset(w) /\ v = w
    BY <1>3, <2>1
  <2>2. CASE ~BeginReset(w)
    BY <1>2, <1>4, <1>5, <2>2
  <2>3. CASE v # w
    BY <1>1, <1>2, <1>5, <2>3 DEF OthersStay
  <2> QED  BY <2>1, <2>2, <2>3
<1>6. ASSUME NEW k \in wiped' PROVE k \in Keys /\ Held(k) /\ k \notin Present
  <2>1. CASE k \in wiped
    BY <1>1, <2>1 DEF ResetInv
  <2>2. CASE k \notin wiped
    <3>1. ResetDone(w)
      BY <1>6, <2>2 DEF Call, BeginStored, IssueSigned, BeginRedeemStored,
         BeginRedeemSigned, BeginValidate, BeginReset, Begin, Step, Put, Take,
         Check, Claim, IssueToken, Consume, Accept, ResetDel, Resend, Fail,
         history
    <3>2. /\ k \in req[w].held /\ req[w].op = "reset" /\ left[w] \cap Present = {}
          /\ req[w].held \subseteq Keys
      BY <1>1, <1>6, <2>2, <3>1, Arguments DEF ResetDone, CallInv, CallOK
    <3> QED  BY <3>2 DEF ResetInv
  <2> QED  BY <2>1, <2>2
<1>7. \A k \in wiped' : Held(k)' /\ k \notin Present'
  BY <1>6, HeldGoes
<1> QED  BY <1>5, <1>7 DEF ResetInv

-----------------------------------------------------------------------------
(* Time *)

\* When time passes, Redis drops what has outlived its time and nothing else.
TickChange(entry, next, at) ==
    \/ next = entry
    \/ next = Absent /\ entry # Absent /\ entry.until < at

LEMMA TickChanges ==
    ASSUME TypeOK, Tick
    PROVE  /\ \A c \in Challenges :
                /\ TickChange(challenges[c], challenges'[c], clock + 1)
                /\ TickChange(nonces[c], nonces'[c], clock + 1)
           /\ \A t \in Tokens : TickChange(tokens[t], tokens'[t], clock + 1)
<1>1. /\ StoreTypeOK /\ Delete(Outlived(clock + 1))
  BY DEF TypeOK, Tick
<1>2. ASSUME NEW c \in Challenges
      PROVE  TickChange(challenges[c], challenges'[c], clock + 1)
  <2>1. <<"challenge", c>> \in Keys /\ Entry(<<"challenge", c>>) = challenges[c]
    BY DEF Keys, Entry
  <2>2. challenges'[c] = IF <<"challenge", c>> \in Outlived(clock + 1)
                         THEN Absent ELSE challenges[c]
    BY <1>1 DEF Delete, Without, StoreTypeOK
  <2> QED  BY <2>1, <2>2 DEF Outlived, Present, TickChange
<1>3. ASSUME NEW c \in Challenges
      PROVE  TickChange(nonces[c], nonces'[c], clock + 1)
  <2>1. <<"nonce", c>> \in Keys /\ Entry(<<"nonce", c>>) = nonces[c]
    BY DEF Keys, Entry
  <2>2. nonces'[c] = IF <<"nonce", c>> \in Outlived(clock + 1)
                     THEN Absent ELSE nonces[c]
    BY <1>1 DEF Delete, Without, StoreTypeOK
  <2> QED  BY <2>1, <2>2 DEF Outlived, Present, TickChange
<1>4. ASSUME NEW t \in Tokens
      PROVE  TickChange(tokens[t], tokens'[t], clock + 1)
  <2>1. <<"token", t>> \in Keys /\ Entry(<<"token", t>>) = tokens[t]
    BY DEF Keys, Entry
  <2>2. tokens'[t] = IF <<"token", t>> \in Outlived(clock + 1)
                     THEN Absent ELSE tokens[t]
    BY <1>1 DEF Delete, Without, StoreTypeOK
  <2> QED  BY <2>1, <2>2 DEF Outlived, Present, TickChange
<1> QED  BY <1>2, <1>3, <1>4

LEMMA TickTyped ==
    ASSUME TypeOK, Tick
    PROVE  TypeOK'
<1>1. StoreTypeOK /\ ControlType /\ HistoryType
  BY TypeParts
<1>2. StoreTypeOK'
  BY <1>1, DeleteType DEF Tick
<1>3. ControlType'
  BY <1>1 DEF ControlType, Tick
<1>4. HistoryType'
  BY <1>1 DEF HistoryType, Tick, history
<1> QED  BY <1>2, <1>3, <1>4, TypePartsNext

LEMMA TickInv ==
    ASSUME TypeOK, IInv, Tick
    PROVE  IInv'
<1>1. /\ UNCHANGED <<pc, req, now, issued, granted, used, dropped, wiped>>
      /\ clock \in Nat /\ clock' = clock + 1
      /\ \A w \in Workers : now[w] \in Nat /\ left[w] \in SUBSET Keys
  BY DEF Tick, history, TypeOK
<1>2. CallInv' /\ FreshInv'
  BY <1>1 DEF IInv, CallInv, CallOK, FreshInv
<1>3. ClockInv'
  <2>1. \A w \in Workers : Skew[w] \in Nat
    BY CapRedisAssumption
  <2> QED  BY <1>1, <2>1 DEF IInv, ClockInv, Local
<1>4. LifeInv' /\ ConsumedInv'
  <2>1. /\ \A c \in Challenges : /\ challenges'[c] \in {challenges[c], Absent}
                                 /\ nonces'[c] \in {nonces[c], Absent}
        /\ \A t \in Tokens : tokens'[t] \in {tokens[t], Absent}
        /\ used \subseteq Tokens
    BY TickChanges DEF TickChange, TypeOK
  <2> QED  BY <1>1, <2>1 DEF IInv, LifeInv, ConsumedInv
<1>5. ResetInv'
  <2>1. \A k \in Keys : k \in Present' => k \in Present
    BY TickChanges, KeyKinds DEF TickChange
  <2>2. \A k : Held(k)' <=> Held(k)
    BY <1>1 DEF Held
  <2>3. \A k \in Outlived(clock + 1) : k \notin Present'
    <3>1. ASSUME NEW k \in Outlived(clock + 1) PROVE k \notin Present'
      <4>1. k \in Keys
        BY DEF Outlived, Present
      <4>2. Entry(k)' = Absent
        BY <1>1, <4>1 DEF Tick, Delete, Without, Keys, Entry, TypeOK, StoreTypeOK
      <4> QED  BY <4>1, <4>2 DEF Present
    <3> QED  BY <3>1
  <2>4. \A w \in Workers : left[w] \cap Present' \subseteq left'[w]
    BY <1>1, <2>3 DEF Tick
  <2>5. \A w \in Workers : req[w].op = "reset" => req[w].held \subseteq Keys
    BY Arguments DEF IInv, CallInv
  <2>6. wiped \subseteq Keys
    BY DEF TypeOK
  <2> QED  BY <1>1, <2>1, <2>2, <2>4, <2>5, <2>6 DEF IInv, ResetInv
<1> QED  BY <1>2, <1>3, <1>4, <1>5 DEF IInv

-----------------------------------------------------------------------------
(* The theorems *)

Inductive == TypeOK /\ IInv

LEMMA InductiveInit == Init => Inductive
<1> SUFFICES ASSUME Init PROVE Inductive
  OBVIOUS
<1>1. TypeOK
  BY NoCallRequest DEF Init, StoreInit, TypeOK, StoreTypeOK, Locations
<1>2. \A w \in Workers : req[w].op = "none" /\ pc[w] = "idle" /\ now[w] = 0
  BY NoCallRequest DEF Init
<1>3. CallInv /\ FreshInv /\ ResetInv
  BY <1>2 DEF CallInv, CallOK, FreshInv, ResetInv, Init
<1>4. ClockInv
  BY <1>1, <1>2, LocalTime DEF ClockInv
<1>5. LifeInv /\ ConsumedInv
  BY DEF Init, StoreInit, LifeInv, ConsumedInv
<1> QED  BY <1>1, <1>3, <1>4, <1>5 DEF Inductive, IInv

LEMMA InductiveNext == Inductive /\ [Next]_vars => Inductive'
<1> SUFFICES ASSUME Inductive, [Next]_vars PROVE Inductive'
  OBVIOUS
<1>1. Typed /\ TypeOK /\ IInv
  BY DEF Inductive, IInv, Typed
<1>2. ASSUME NEW w \in Workers, Call(w) \/ Step(w) PROVE Inductive'
  <2>1. TypeOK'
    BY <1>1, <1>2, CallTyped, StepTyped DEF Typed, CallInv
  <2>2. IInv'
    BY <1>1, <1>2, CallInvStep, FreshInvStep, ClockInvStep, LifeInvStep,
       ConsumedInvStep, ResetInvStep DEF IInv
  <2> QED  BY <2>1, <2>2 DEF Inductive
<1>3. CASE Tick
  BY <1>1, <1>3, TickTyped, TickInv DEF Inductive
<1>4. CASE UNCHANGED vars
  <2>1. /\ UNCHANGED <<challenges, nonces, tokens, pc, req, now, left, issued>>
        /\ UNCHANGED <<granted, used, dropped, wiped, clock>>
    BY <1>4 DEF vars, storeVars, control, history
  <2>2. TypeOK'
    BY <1>1, <2>1 DEF TypeOK, StoreTypeOK
  <2>3. IInv'
    BY <1>1, <2>1 DEF IInv, CallInv, CallOK, FreshInv, ClockInv, Local, LifeInv,
       ConsumedInv, ResetInv, Held, Present, Entry
  <2> QED  BY <2>2, <2>3 DEF Inductive
<1> QED  BY <1>2, <1>3, <1>4 DEF Next

LEMMA InductiveAlways == Spec => []Inductive
BY InductiveInit, InductiveNext, PTL DEF Spec

\* The keys, calls and records of every reachable state are what their types
\* say, whatever replicas, skews and lifetimes there are.
THEOREM RedisTyped == Spec => []TypeOK
<1>1. Inductive => TypeOK
  BY DEF Inductive
<1> QED  BY <1>1, InductiveAlways, PTL

\* IInv, which the other theorems rest on, holds of every reachable state.
THEOREM RedisInvariant == Spec => []IInv
<1>1. Inductive => IInv
  BY DEF Inductive
<1> QED  BY <1>1, InductiveAlways, PTL

\* What clients held when a Reset began is gone for good once it returned.
THEOREM WipedStayWiped == Spec => []WipedStay
<1>1. Inductive => WipedStay
  BY DEF Inductive, IInv, ResetInv, WipedStay
<1> QED  BY <1>1, InductiveAlways, PTL

\* Redis drops a key by itself only once the fastest replica has passed the
\* expiry of what the key stands for.
THEOREM KeysOutliveRecords == Spec => KeysLiveOn
<1> DEFINE Live ==
      clock' # clock =>
        /\ \A c \in Challenges :
              challenges[c] # Absent /\ challenges'[c] = Absent =>
                  challenges[c].expires < clock' + MaxSkew
        /\ \A c \in Challenges :
              nonces[c] # Absent /\ nonces'[c] = Absent =>
                  issued[c].expires < clock' + MaxSkew
        /\ \A t \in Tokens :
              tokens[t] # Absent /\ tokens'[t] = Absent =>
                  tokens[t].expires < clock' + MaxSkew
<1>1. Inductive /\ [Next]_vars => [Live]_vars
  <2> SUFFICES ASSUME Inductive, Next, clock' # clock PROVE Live
    OBVIOUS
  <2>1. Tick
    BY StepOthersStay DEF Inductive, Next
  <2>2. /\ TypeOK /\ LifeInv /\ clock \in Nat /\ clock' = clock + 1
        /\ MaxSkew \in Nat
        /\ challenges \in [Challenges -> Record \cup {Absent}]
        /\ nonces \in [Challenges -> Nonce \cup {Absent}]
        /\ tokens \in [Tokens -> Record \cup {Absent}]
        /\ issued \in [Challenges -> Issued \cup {Absent}]
    BY <2>1, CapRedisAssumption DEF Inductive, IInv, TypeOK, StoreTypeOK, Tick
  <2>3. ASSUME NEW c \in Challenges, challenges[c] # Absent,
               challenges'[c] = Absent
        PROVE  challenges[c].expires < clock' + MaxSkew
    <3>1. challenges[c].until < clock + 1
      BY <2>1, <2>2, <2>3, TickChanges DEF TickChange
    <3>2. challenges[c].until \in Nat /\ challenges[c].expires \in Nat
      BY <2>2, <2>3 DEF Record
    <3> QED  BY <2>2, <2>3, <3>1, <3>2 DEF LifeInv
  <2>4. ASSUME NEW c \in Challenges, nonces[c] # Absent, nonces'[c] = Absent
        PROVE  issued[c].expires < clock' + MaxSkew
    <3>1. nonces[c].until < clock + 1
      BY <2>1, <2>2, <2>4, TickChanges DEF TickChange
    <3>2. issued[c] # Absent /\ issued[c].expires <= nonces[c].until + MaxSkew
      BY <2>2, <2>4 DEF LifeInv
    <3>3. nonces[c].until \in Nat /\ issued[c].expires \in Nat
      BY <2>2, <2>4, <3>2 DEF Nonce, Issued
    <3> QED  BY <2>2, <3>1, <3>2, <3>3
  <2>5. ASSUME NEW t \in Tokens, tokens[t] # Absent, tokens'[t] = Absent
        PROVE  tokens[t].expires < clock' + MaxSkew
    <3>1. tokens[t].until < clock + 1
      BY <2>1, <2>2, <2>5, TickChanges DEF TickChange
    <3>2. tokens[t].until \in Nat /\ tokens[t].expires \in Nat
      BY <2>2, <2>5 DEF Record
    <3> QED  BY <2>2, <2>5, <3>1, <3>2 DEF LifeInv
  <2> QED  BY <2>3, <2>4, <2>5
<1>2. KeysLiveOn <=> [][Live]_vars
  BY DEF KeysLiveOn
<1> QED  BY <1>1, <1>2, InductiveAlways, PTL DEF Spec

-----------------------------------------------------------------------------
(* The ledger. What a step that uses nothing does to the ledger's view.      *)

StatusFades == \A c \in Challenges :
    /\ StatusOf(c)' \in {"new", "open", "spent", "lapsed"}
    /\ L!MayFade(StatusOf(c), StatusOf(c)')
TokensGo == \A t \in Tokens :
    /\ TokOf(t)' \in {"new", "good", "used", "gone"}
    /\ L!MayGo(TokOf(t), TokOf(t)')
SameStatus  == \A c \in Challenges : StatusOf(c)' = StatusOf(c)
SameToks    == \A t \in Tokens : TokOf(t)' = TokOf(t)
SameOrigins == \A t \in Tokens : OriginOf(t)' = OriginOf(t)
OthersSame(w) == \A v \in Workers \ {w} :
    RightOf(v)' = RightOf(v) /\ VerdictOf(v)' = VerdictOf(v)

LEMMA OthersViewSame ==
    ASSUME TypeOK, NEW w \in Workers, Call(w) \/ Step(w)
    PROVE  OthersSame(w)
BY StepOthersStay DEF OthersStay, OthersSame, RightOf, VerdictOf

\* A spent challenge stays spent as long as its use is enforced.
LEMMA SpentStays ==
    ASSUME Typed, FreshInv, NEW w \in Workers, Call(w) \/ Step(w),
           NEW c \in Challenges, issued[c] # Absent
    PROVE  Enforced(c)' =>
              Enforced(c) /\ (SpentInRedis(c) => SpentInRedis(c)')
<1>1. /\ TypeOK /\ CallOK(w) /\ clock' = clock /\ issued'[c] = issued[c]
  BY StepHistoryGrows, StepOthersStay DEF Typed, CallInv, HistoryGrows
<1>2. dropped \subseteq dropped'
  BY DEF Call, BeginStored, IssueSigned, BeginRedeemStored, BeginRedeemSigned,
     BeginValidate, BeginReset, Begin, Step, Put, Take, Check, Claim, IssueToken,
     Consume, Accept, ResetDel, ResetDone, Resend, Fail, history
<1>3. CASE issued[c].mode = "stored"
  <2>1. ~(pc[w] = "put" /\ req[w].chal = c)
    BY <1>1 DEF FreshInv, CallOK
  <2>2. challenges[c] = Absent => challenges'[c] = Absent
    BY <2>1, ChallengesChange
  <2> QED  BY <1>1, <1>3, <2>2 DEF Enforced, SpentInRedis
<1>4. ASSUME issued[c].mode # "stored", Enforced(c)'
      PROVE  Enforced(c) /\ (SpentInRedis(c) => SpentInRedis(c)')
  <2>1. c \notin dropped' /\ clock + MaxSkew <= issued[c].expires
    BY <1>1, <1>4 DEF Enforced
  <2>2. nonces[c] # Absent => nonces'[c] # Absent
    BY <2>1, NoncesChange
  <2> QED  BY <1>1, <1>2, <1>4, <2>1, <2>2 DEF Enforced, SpentInRedis
<1> QED  BY <1>3, <1>4

LEMMA StatusFade ==
    ASSUME Typed, FreshInv, NEW w \in Workers, Call(w) \/ Step(w),
           issued' = issued
    PROVE  StatusFades
<1> SUFFICES ASSUME NEW c \in Challenges, issued[c] # Absent
             PROVE  L!MayFade(StatusOf(c), StatusOf(c)')
  BY DEF StatusFades, StatusOf, L!MayFade
<1>1. Enforced(c)' =>
        Enforced(c) /\ (SpentInRedis(c) => SpentInRedis(c)')
  BY SpentStays
<1> QED  BY <1>1 DEF StatusOf, L!MayFade

LEMMA TokenFade ==
    ASSUME Typed, FreshInv, NEW w \in Workers, Call(w) \/ Step(w),
           UNCHANGED <<granted, used>>
    PROVE  TokensGo /\ SameOrigins
<1>1. ASSUME NEW t \in Tokens, granted[t] # Absent
      PROVE  tokens'[t] \in {tokens[t], Absent}
  <2>1. ~(pc[w] = "issue" /\ req[w].tok = t)
    BY <1>1 DEF FreshInv, Typed, CallInv, CallOK
  <2> QED  BY <2>1, TokensChange
<1>2. TokensGo
  BY <1>1 DEF TokensGo, TokOf, L!MayGo
<1> QED  BY <1>2 DEF SameOrigins, OriginOf

-----------------------------------------------------------------------------
(* From the views to steps of the ledger *)

LEMMA LedgerForgets ==
    ASSUME StatusFades, TokensGo, SameOrigins, NEW w \in Workers,
           OthersSame(w), RightOf(w)' = RightOf(w), VerdictOf(w)' = VerdictOf(w)
    PROVE  L!Next
<1>1. L!Forget
  BY DEF L!Forget, StatusFades, TokensGo, SameOrigins, OthersSame
<1> QED  BY <1>1 DEF L!Next

\* A call that keeps the ledger as it is gives up a right or a verdict.
LEMMA LedgerGivesUp ==
    ASSUME SameStatus, SameToks, SameOrigins, NEW w \in Workers, OthersSame(w),
           \/ RightOf(w)' = Absent /\ VerdictOf(w)' = VerdictOf(w)
           \/ RightOf(w)' = RightOf(w) /\ VerdictOf(w)' = Absent
    PROVE  L!Next
<1>1. L!Forfeit(w) \/ L!Answer(w)
  BY DEF L!Forfeit, L!Answer, SameStatus, SameToks, SameOrigins, OthersSame
<1> QED  BY <1>1 DEF L!Next

LEMMA LedgerRedeems ==
    ASSUME NEW c \in Challenges,
           \/ StatusOf(c) = "open" /\ StatusOf(c)' = "spent"
           \/ StatusOf(c) = "lapsed" /\ StatusOf(c)' = "lapsed",
           \A d \in Challenges \ {c} : StatusOf(d)' = StatusOf(d),
           SameToks, SameOrigins, NEW w \in Workers,
           OthersSame(w), RightOf(w)' = c, VerdictOf(w)' = VerdictOf(w)
    PROVE  L!Next
<1>1. L!Redeem(w, c)
  BY DEF L!Redeem, SameToks, SameOrigins, OthersSame
<1> QED  BY <1>1 DEF L!Next

-----------------------------------------------------------------------------
(* The steps of a call *)

\* Put and challengeSigned hand out a challenge that is new to the ledger.
LEMMA IssueStep ==
    ASSUME Typed, FreshInv, LifeInv, NEW w \in Workers, Call(w) \/ Step(w),
           NEW c \in Challenges, issued[c] = Absent, issued'[c] # Absent
    PROVE  L!Next
<1>1. /\ TypeOK /\ CallOK(w) /\ clock' = clock
      /\ issued \in [Challenges -> Issued \cup {Absent}]
      /\ challenges \in [Challenges -> Record \cup {Absent}]
      /\ pc \in [Workers -> Locations]
  BY StepOthersStay DEF Typed, CallInv, TypeOK, StoreTypeOK
<1>2. (Put(w) /\ req[w].chal = c) \/ IssueSigned(w)
  BY IssuedChange
<1>3. /\ UNCHANGED <<granted, used, dropped, nonces, tokens>>
      /\ pc[w] \in {"put", "idle"} /\ pc'[w] = "idle"
  BY <1>1, <1>2 DEF Put, IssueSigned, DoPut, PutChallenge, Return, storeVars,
     control
<1>4. \A d \in Challenges \ {c} :
         issued'[d] = issued[d] /\ challenges'[d] = challenges[d]
  <2>1. CASE Put(w) /\ req[w].chal = c
    BY <1>1, <2>1 DEF Put, DoPut, PutChallenge
  <2>2. CASE IssueSigned(w)
    <3>1. PICK d \in Challenges, scope \in Scopes :
            issued' = [issued EXCEPT ![d] =
                [mode |-> "signed", scope |-> scope,
                 expires |-> Local(w) + ChallengeTTL]]
      BY <2>2 DEF IssueSigned
    <3>2. d = c
      BY <1>1, <3>1
    <3> QED  BY <1>1, <2>2, <3>1, <3>2 DEF IssueSigned, storeVars
  <2> QED  BY <1>2, <2>1, <2>2
<1>5. ~SpentInRedis(c)'
  <2>1. nonces'[c] = Absent
    BY <1>3 DEF LifeInv
  <2>2. CASE Put(w) /\ req[w].chal = c
    <3>1. PICK until \in Until(w, ChallengeExpiry(w)) :
            PutChallenge(c, req[w].scope, ChallengeExpiry(w), until)
      BY <2>2 DEF Put, DoPut
    <3>2. [scope |-> req[w].scope, expires |-> ChallengeExpiry(w),
           until |-> until] \in Record
      BY <1>1, <2>2, <3>1, Arguments, UntilBounds, ExpiryTypes
         DEF Put, Record
    <3>3. challenges'[c] # Absent
      BY <1>1, <3>1, <3>2, NoKeyAssumption DEF PutChallenge
    <3> QED  BY <2>1, <3>3 DEF SpentInRedis
  <2>3. CASE IssueSigned(w)
    <3>1. issued'[c].mode = "signed"
      BY <1>1, <2>3 DEF IssueSigned
    <3> QED  BY <2>1, <3>1 DEF SpentInRedis
  <2> QED  BY <1>2, <2>2, <2>3
<1>6. StatusOf(c) = "new" /\ StatusOf(c)' \in {"open", "lapsed"}
  BY <1>5 DEF StatusOf
<1>7. \A d \in Challenges \ {c} : StatusOf(d)' = StatusOf(d)
  BY <1>1, <1>3, <1>4 DEF StatusOf, Enforced, SpentInRedis
<1>8. SameToks /\ SameOrigins
  BY <1>3 DEF SameToks, TokOf, SameOrigins, OriginOf
<1>9. RightOf(w)' = RightOf(w) /\ VerdictOf(w)' = VerdictOf(w)
  BY <1>3 DEF RightOf, VerdictOf
<1>10. OthersSame(w)
  BY <1>1, OthersViewSame
<1>11. L!Issue(c)
  BY <1>6, <1>7, <1>8, <1>9, <1>10
     DEF L!Issue, SameToks, SameOrigins, OthersSame
<1> QED  BY <1>11 DEF L!Next

\* TakeChallenge and ClaimNonce give their call a right when Redis lets them.
LEMMA RedeemStep ==
    ASSUME Typed, NEW w \in Workers, Take(w) \/ Claim(w), Goto(w, "issue"),
           pc'[w] # "idle"
    PROVE  L!Next
<1>0. PICK c \in Challenges : c = req[w].chal
  BY Arguments DEF Typed, CallInv, Take, Claim
<1>1. /\ TypeOK /\ CallOK(w) /\ pc \in [Workers -> Locations]
      /\ challenges \in [Challenges -> Record \cup {Absent}]
      /\ nonces \in [Challenges -> Nonce \cup {Absent}]
      /\ c \in Challenges /\ issued[c] # Absent /\ c = req[w].chal
  BY <1>0, Arguments DEF Typed, CallInv, CallOK, TypeOK, StoreTypeOK, Take, Claim
<1>2. /\ pc'[w] = "issue" /\ req'[w] = req[w] /\ pc[w] \in {"take", "claim"}
      /\ UNCHANGED <<clock, issued, granted, used, dropped, tokens>>
  BY <1>1 DEF Take, Claim, Goto, history, DoTake, TakeChallenge, DoClaim,
     ClaimNonce
<1>3. \A d \in Challenges \ {c} :
         challenges'[d] = challenges[d] /\ nonces'[d] = nonces[d]
  BY <1>1 DEF Take, Claim, DoTake, TakeChallenge, DoClaim, ClaimNonce
<1>4. ~SpentInRedis(c) /\ SpentInRedis(c)'
  <2>1. CASE Take(w)
    <3>1. issued[c].mode = "stored" /\ challenges[c] # Absent
      BY <1>1, <1>2, <2>1 DEF Take, CallOK, TakeChallengeOk, Return
    <3> QED  BY <1>1, <1>2, <2>1, <3>1
                DEF Take, DoTake, TakeChallenge, SpentInRedis
  <2>2. CASE Claim(w)
    <3>1. issued[c].mode = "signed" /\ nonces[c] = Absent
      BY <1>1, <1>2, <2>2 DEF Claim, CallOK, ClaimNonceOk, Return
    <3>2. nonces'[c] # Absent
      <4>1. clock + TTLFor(issued[c].expires, now[w]) \in Nat
        <5>1. issued[c].expires \in Nat /\ now[w] \in Nat /\ clock \in Nat
          BY <1>1, <2>2, Arguments, LocalTime DEF Claim
        <5>2. TTLFor(issued[c].expires, now[w]) \in Nat
          BY <5>1, TTLBounds
        <5> QED  BY <5>1, <5>2
      <4>2. [until |-> clock + TTLFor(issued[c].expires, now[w])] \in Nonce
        BY <4>1 DEF Nonce
      <4> QED  BY <1>1, <2>2, <3>1, <4>2, NoKeyAssumption
                  DEF Claim, DoClaim, ClaimNonce, ClaimNonceOk
    <3> QED  BY <1>2, <3>1, <3>2 DEF SpentInRedis
  <2> QED  BY <2>1, <2>2
<1>5. \/ StatusOf(c) = "open" /\ StatusOf(c)' = "spent"
      \/ StatusOf(c) = "lapsed" /\ StatusOf(c)' = "lapsed"
  BY <1>1, <1>2, <1>4 DEF StatusOf, Enforced
<1>6. \A d \in Challenges \ {c} : StatusOf(d)' = StatusOf(d)
  BY <1>2, <1>3 DEF StatusOf, Enforced, SpentInRedis
<1>7. SameToks /\ SameOrigins
  BY <1>2 DEF SameToks, TokOf, SameOrigins, OriginOf
<1>8. RightOf(w)' = c /\ VerdictOf(w)' = VerdictOf(w)
  BY <1>1, <1>2 DEF RightOf, VerdictOf
<1>9. OthersSame(w)
  BY <1>1, OthersViewSame DEF Step
<1> QED  BY <1>1, <1>5, <1>6, <1>7, <1>8, <1>9, LedgerRedeems

\* issueToken turns the right of its call into a token.
LEMMA GrantStep ==
    ASSUME Typed, FreshInv, ConsumedInv, NEW w \in Workers, Call(w) \/ Step(w),
           NEW t \in Tokens, granted[t] = Absent, granted'[t] # Absent
    PROVE  L!Next
<1> DEFINE c == req[w].chal
<1>1. IssueToken(w) /\ req[w].tok = t
  BY GrantedChange
<1>2. /\ TypeOK /\ CallOK(w) /\ clock' = clock
      /\ pc \in [Workers -> Locations]
      /\ tokens \in [Tokens -> Record \cup {Absent}]
      /\ granted \in [Tokens -> Granted \cup {Absent}]
  BY StepOthersStay DEF Typed, CallInv, TypeOK, StoreTypeOK
<1>3. /\ pc[w] = "issue" /\ pc'[w] = "idle"
      /\ granted'[t].chal = c
      /\ \A s \in Tokens \ {t} : granted'[s] = granted[s]
      /\ UNCHANGED <<issued, challenges, nonces, used, dropped>>
  BY <1>1, <1>2 DEF IssueToken, Return, DoIssue, PutToken
<1>4. PICK until \in Until(w, TokenExpiry(w)) :
        PutToken(t, issued[c].scope, TokenExpiry(w), until)
  BY <1>1 DEF IssueToken, DoIssue
<1>5. [scope |-> issued[c].scope, expires |-> TokenExpiry(w),
       until |-> until] \in Record
  BY <1>2, <1>3, <1>4, Arguments, UntilBounds, ExpiryTypes DEF Record
<1>6. /\ tokens'[t] # Absent
      /\ \A s \in Tokens \ {t} : tokens'[s] = tokens[s]
  BY <1>2, <1>4, <1>5, NoKeyAssumption DEF PutToken
<1>7. TokOf(t) = "new" /\ TokOf(t)' = "good" /\ OriginOf(t) = Absent
      /\ OriginOf(t)' = c /\ RightOf(w) = c /\ RightOf(w)' = Absent
      /\ VerdictOf(w)' = VerdictOf(w)
  <2>1. t \notin used
    BY DEF ConsumedInv
  <2> QED  BY <1>3, <1>6, <2>1 DEF TokOf, OriginOf, RightOf, VerdictOf
<1>8. \A s \in Tokens \ {t} : TokOf(s)' = TokOf(s) /\ OriginOf(s)' = OriginOf(s)
  BY <1>3, <1>6 DEF TokOf, OriginOf
<1>9. SameStatus /\ OthersSame(w)
  BY <1>2, <1>3, OthersViewSame DEF SameStatus, StatusOf, Enforced, SpentInRedis
<1> HIDE DEF c
<1>10. CASE c # Absent
  <2>1. L!Grant(w, t)
    BY <1>7, <1>8, <1>9, <1>10 DEF L!Grant, SameStatus, OthersSame
  <2> QED  BY <2>1 DEF L!Next
<1>11. CASE c = Absent
  <2>1. L!GrantFree(t)
    BY <1>7, <1>8, <1>9, <1>11 DEF L!GrantFree, SameStatus, OthersSame
  <2> QED  BY <2>1 DEF L!Next
<1> QED  BY <1>10, <1>11

LEMMA LedgerAccepts ==
    ASSUME NEW t \in Tokens, TokOf(t) = "good", TokOf(t)' \in {"good", "used"},
           \A u \in Tokens \ {t} : TokOf(u)' = TokOf(u),
           SameStatus, SameOrigins, NEW w \in Workers,
           OthersSame(w), RightOf(w)' = RightOf(w), VerdictOf(w)' = t
    PROVE  L!Next
<1>1. CASE TokOf(t)' = "good"
  <2>1. L!Accept(w, t)
    BY <1>1 DEF L!Accept, SameStatus, SameOrigins, OthersSame
  <2> QED  BY <2>1 DEF L!Next
<1>2. CASE TokOf(t)' = "used"
  <2>1. L!Accept(w, t)
    BY <1>2 DEF L!Accept, SameStatus, SameOrigins, OthersSame
  <2> QED  BY <2>1 DEF L!Next
<1> QED  BY <1>1, <1>2

\* ConsumeToken accepts a token that Redis still has.
LEMMA AcceptStep ==
    ASSUME Typed, ConsumedInv, NEW w \in Workers, Consume(w),
           ConsumeTokenOk(req[w].tok, req[w].scope, now[w])
    PROVE  L!Next
<1> DEFINE t == req[w].tok
<1>1. /\ TypeOK /\ CallOK(w) /\ pc \in [Workers -> Locations]
      /\ tokens \in [Tokens -> Record \cup {Absent}]
      /\ pc[w] = "consume"
  BY DEF Typed, CallInv, TypeOK, StoreTypeOK, Consume
<1>2. /\ t \in Tokens /\ granted[t] # Absent /\ now[w] \in Nat
      /\ pc'[w] = "accepted" /\ req'[w] = req[w]
      /\ UNCHANGED <<clock, issued, granted, dropped, challenges, nonces>>
  BY <1>1, Arguments DEF Consume, CallOK, Goto, DoConsume, ConsumeToken
<1>3. tokens[t] # Absent /\ t \notin used
  BY DEF ConsumeTokenOk, ConsumedInv
<1>4. /\ t \in used' \/ (t \notin used' /\ tokens'[t] = tokens[t])
      /\ \A u \in Tokens \ {t} :
            tokens'[u] = tokens[u] /\ (u \in used' <=> u \in used)
  <2>1. CASE req[w].keep
    <3>1. used' = used
      BY <2>1 DEF Consume
    <3>2. tokens[t].expires \in Nat
      BY <1>1, <1>2, <1>3 DEF Record
    <3>3. ~(tokens[t].expires <= now[w])
      BY <1>2, <3>2 DEF ConsumeTokenOk
    <3>4. tokens' = tokens
      BY <2>1, <3>3 DEF Consume, DoConsume, ConsumeToken
    <3> QED  BY <1>3, <3>1, <3>4
  <2>2. CASE ~req[w].keep
    BY <1>1, <2>2 DEF Consume, DoConsume, ConsumeToken
  <2> QED  BY <2>1, <2>2
<1>5. TokOf(t) = "good" /\ TokOf(t)' \in {"good", "used"}
  BY <1>2, <1>3, <1>4 DEF TokOf
<1>6. \A u \in Tokens \ {t} : TokOf(u)' = TokOf(u)
  BY <1>2, <1>4 DEF TokOf
<1>7. RightOf(w)' = RightOf(w) /\ VerdictOf(w)' = t
  BY <1>1, <1>2 DEF RightOf, VerdictOf
<1>8. SameStatus /\ SameOrigins
  BY <1>2 DEF SameStatus, StatusOf, Enforced, SpentInRedis, SameOrigins, OriginOf
<1>9. OthersSame(w)
  BY <1>1, OthersViewSame DEF Step
<1> QED  BY <1>2, <1>5, <1>6, <1>7, <1>8, <1>9, LedgerAccepts

\* Where a call arrives at a right or a verdict, and where it gives one up.
LEMMA Arrivals ==
    ASSUME Typed, NEW w \in Workers, Call(w) \/ Step(w)
    PROVE  \/ (Take(w) \/ Claim(w)) /\ Goto(w, "issue") /\ pc'[w] # "idle"
           \/ Consume(w) /\ ConsumeTokenOk(req[w].tok, req[w].scope, now[w])
           \/ /\ RightOf(w)' = RightOf(w) /\ VerdictOf(w)' = VerdictOf(w)
           \/ /\ RightOf(w)' = Absent /\ VerdictOf(w)' = Absent
<1>1. pc \in [Workers -> Locations] /\ req \in [Workers -> Requests]
  BY DEF Typed, TypeOK
<1>2. Return(w) => RightOf(w)' = Absent /\ VerdictOf(w)' = Absent
  BY <1>1 DEF Return, RightOf, VerdictOf
<1>3. Goto(w, "issue") => pc'[w] # "idle"
  BY <1>1 DEF Goto
<1>4. Goto(w, "claim") => RightOf(w)' = Absent /\ VerdictOf(w)' = Absent
  BY <1>1 DEF Goto, RightOf, VerdictOf
<1>5. ASSUME NEW call, NEW p \in {"put", "take", "check", "consume", "reset"},
             NEW K, Begin(w, call, p, K)
      PROVE  RightOf(w)' = Absent /\ VerdictOf(w)' = Absent
  BY <1>1, <1>5 DEF Begin, RightOf, VerdictOf
<1>6. UNCHANGED <<pc, req>> =>
         RightOf(w)' = RightOf(w) /\ VerdictOf(w)' = VerdictOf(w)
  BY DEF RightOf, VerdictOf
<1>7. Call(w) => \/ UNCHANGED <<pc, req>>
                 \/ \E call, K : \E p \in {"put", "take", "check", "consume", "reset"} :
                       Begin(w, call, p, K)
  BY DEF Call, BeginStored, IssueSigned, BeginRedeemStored, BeginRedeemSigned,
     BeginValidate, BeginReset, control
<1>8. Step(w) => \/ UNCHANGED <<pc, req>> \/ Return(w) \/ Goto(w, "claim")
                 \/ (Take(w) \/ Claim(w)) /\ Goto(w, "issue")
                 \/ Consume(w) /\ ConsumeTokenOk(req[w].tok, req[w].scope, now[w])
  BY DEF Step, Put, Take, Check, Claim, IssueToken, Consume, Accept, ResetDel,
     ResetDone, Resend, Fail, control
<1> QED  BY <1>2, <1>3, <1>4, <1>5, <1>6, <1>7, <1>8

\* A call that gives up a right or a verdict does nothing else.
LEMMA Departures ==
    ASSUME Typed, FreshInv, NEW w \in Workers, Call(w) \/ Step(w),
           pc[w] \in {"issue", "accepted"}, pc'[w] = "idle", granted' = granted
    PROVE  SameStatus /\ SameToks /\ SameOrigins
<1>1. TypeOK /\ CallOK(w) /\ tokens \in [Tokens -> Record \cup {Absent}]
      /\ pc \in [Workers -> Locations]
  BY DEF Typed, CallInv, TypeOK, StoreTypeOK
<1>2. Accept(w) \/ Fail(w) \/ IssueToken(w)
  BY <1>1 DEF Call, BeginStored, IssueSigned, BeginRedeemStored, BeginRedeemSigned,
     BeginValidate, BeginReset, Begin, Step, Put, Take, Check, Claim, Consume,
     ResetDel, ResetDone, Resend, control
<1>3. UNCHANGED <<clock, issued, used, dropped, challenges, nonces>>
  BY <1>2 DEF Accept, Fail, IssueToken, DoIssue, PutToken, storeVars, history
<1>4. \A t \in Tokens : granted[t] # Absent => tokens'[t] = tokens[t]
  <2>1. CASE IssueToken(w)
    <3>1. granted[req[w].tok] = Absent
      BY <1>1, <2>1 DEF IssueToken, FreshInv, CallOK
    <3> QED  BY <1>1, <2>1, <3>1 DEF IssueToken, DoIssue, PutToken
  <2>2. CASE Accept(w) \/ Fail(w)
    BY <2>2 DEF Accept, Fail, storeVars
  <2> QED  BY <1>2, <2>1, <2>2
<1> QED
  BY <1>3, <1>4 DEF SameStatus, StatusOf, Enforced, SpentInRedis, SameToks,
     TokOf, SameOrigins, OriginOf

\* Every step of a call is a step of the ledger.
LEMMA CallOrStep ==
    ASSUME Inductive, NEW w \in Workers, Call(w) \/ Step(w)
    PROVE  L!Next
<1>1. /\ Typed /\ FreshInv /\ LifeInv /\ ConsumedInv /\ TypeOK
      /\ issued \in [Challenges -> Issued \cup {Absent}]
      /\ granted \in [Tokens -> Granted \cup {Absent}]
  BY DEF Inductive, IInv, Typed, TypeOK
<1>2. CASE \E c \in Challenges : issued'[c] # issued[c]
  BY <1>1, <1>2, IssuedChange, IssueStep
<1>3. CASE \E t \in Tokens : granted'[t] # granted[t]
  BY <1>1, <1>3, GrantedChange, GrantStep
<1>4. CASE Consume(w) /\ ConsumeTokenOk(req[w].tok, req[w].scope, now[w])
  BY <1>1, <1>4, AcceptStep
<1>5. CASE (Take(w) \/ Claim(w)) /\ Goto(w, "issue") /\ pc'[w] # "idle"
  BY <1>1, <1>5, RedeemStep
<1>6. ASSUME ~\E c \in Challenges : issued'[c] # issued[c],
             ~\E t \in Tokens : granted'[t] # granted[t],
             ~(Consume(w) /\ ConsumeTokenOk(req[w].tok, req[w].scope, now[w])),
             ~((Take(w) \/ Claim(w)) /\ Goto(w, "issue") /\ pc'[w] # "idle")
      PROVE  L!Next
  <2>1. issued' = issued /\ granted' = granted
    <3>1. /\ issued' \in [Challenges -> Issued \cup {Absent}]
          /\ granted' \in [Tokens -> Granted \cup {Absent}]
      BY <1>1, StepTyped, CallTyped DEF Typed, TypeOK, CallInv
    <3> QED  BY <1>1, <1>6, <3>1
  <2>2. used' = used
    BY <1>6 DEF Call, BeginStored, IssueSigned, BeginRedeemStored,
       BeginRedeemSigned, BeginValidate, BeginReset, Begin, Step, Put, Take,
       Check, Claim, IssueToken, Consume, Accept, ResetDel, ResetDone, Resend,
       Fail, history
  <2>3. StatusFades /\ TokensGo /\ SameOrigins /\ OthersSame(w)
    BY <1>1, <2>1, <2>2, StatusFade, TokenFade, OthersViewSame
  <2>4. CASE RightOf(w)' = RightOf(w) /\ VerdictOf(w)' = VerdictOf(w)
    BY <2>3, <2>4, LedgerForgets
  <2>5. CASE /\ RightOf(w)' = Absent /\ VerdictOf(w)' = Absent
             /\ pc[w] \in {"issue", "accepted"} /\ pc'[w] = "idle"
    <3>1. SameStatus /\ SameToks /\ SameOrigins
      BY <1>1, <2>1, <2>5, Departures
    <3>2. RightOf(w) = Absent \/ VerdictOf(w) = Absent
      BY <2>5 DEF RightOf, VerdictOf
    <3> QED  BY <2>3, <2>5, <3>1, <3>2, LedgerGivesUp
  <2>6. CASE /\ RightOf(w)' = Absent /\ VerdictOf(w)' = Absent
             /\ pc[w] \notin {"issue", "accepted"}
    <3>1. RightOf(w) = Absent /\ VerdictOf(w) = Absent
      BY <2>6 DEF RightOf, VerdictOf
    <3> QED  BY <2>3, <2>6, <3>1, LedgerForgets
  <2>7. ASSUME pc[w] \in {"issue", "accepted"}, pc'[w] # "idle"
        PROVE  RightOf(w)' = RightOf(w) /\ VerdictOf(w)' = VerdictOf(w)
    <3>1. UNCHANGED <<pc, req>>
      <4>1. ~Return(w)
        BY <1>1, <2>7 DEF Return, TypeOK
      <4> QED  BY <2>7, <4>1 DEF Call, BeginStored, IssueSigned,
                  BeginRedeemStored, BeginRedeemSigned, BeginValidate,
                  BeginReset, Begin, Step, Put, Take, Check, Claim, IssueToken,
                  Consume, Accept, ResetDel, ResetDone, Resend, Fail, control
    <3> QED  BY <3>1 DEF RightOf, VerdictOf
  <2> QED  BY <1>1, <1>6, <2>4, <2>5, <2>6, <2>7, Arrivals
<1> QED  BY <1>2, <1>3, <1>4, <1>5, <1>6

\* When time passes, signed challenges lapse, stored ones are lost and tokens
\* go. A nonce outlives the time in which its challenge is enforced.
LEMMA TickStep ==
    ASSUME Inductive, Tick
    PROVE  L!Next
<1>1. /\ clock \in Nat /\ clock' = clock + 1 /\ MaxSkew \in Nat
      /\ issued \in [Challenges -> Issued \cup {Absent}]
      /\ nonces \in [Challenges -> Nonce \cup {Absent}]
      /\ UNCHANGED <<pc, req, issued, granted, used, dropped>>
      /\ TypeOK /\ LifeInv
  BY CapRedisAssumption DEF Inductive, IInv, TypeOK, StoreTypeOK, Tick, history
<1>2. ASSUME NEW c \in Challenges, issued[c] # Absent, Enforced(c)'
      PROVE  Enforced(c) /\ (SpentInRedis(c) => SpentInRedis(c)')
  <2>1. issued[c].expires \in Nat
    BY <1>1, <1>2 DEF Issued
  <2>2. Enforced(c)
    BY <1>1, <1>2, <2>1 DEF Enforced
  <2>3. CASE issued[c].mode = "stored"
    BY <1>1, <2>2, <2>3, TickChanges DEF SpentInRedis, TickChange
  <2>4. ASSUME issued[c].mode # "stored", nonces[c] # Absent
        PROVE  nonces'[c] # Absent
    <3>1. clock + 1 + MaxSkew <= issued[c].expires
      BY <1>1, <1>2, <2>4 DEF Enforced
    <3>2. issued[c].expires <= nonces[c].until + MaxSkew /\ nonces[c].until \in Nat
      BY <1>1, <2>4 DEF LifeInv, Nonce
    <3>3. ~(nonces[c].until < clock + 1)
      BY <1>1, <2>1, <3>1, <3>2
    <3> QED  BY <1>1, <2>4, <3>3, TickChanges DEF TickChange
  <2> QED  BY <1>1, <2>2, <2>3, <2>4 DEF SpentInRedis
<1>3. StatusFades
  BY <1>1, <1>2 DEF StatusFades, StatusOf, L!MayFade
<1>4. TokensGo
  <2>1. \A t \in Tokens : tokens'[t] \in {tokens[t], Absent}
    BY <1>1, TickChanges DEF TickChange
  <2> QED  BY <1>1, <2>1 DEF TokensGo, TokOf, L!MayGo
<1>5. /\ \A t \in Tokens : OriginOf(t)' = OriginOf(t)
      /\ \A w \in Workers : RightOf(w)' = RightOf(w) /\ VerdictOf(w)' = VerdictOf(w)
  BY <1>1 DEF OriginOf, RightOf, VerdictOf
<1>6. L!Forget
  BY <1>3, <1>4, <1>5 DEF L!Forget, StatusFades, TokensGo
<1> QED  BY <1>6 DEF L!Next

LEMMA LedgerInit == Init => L!Init
BY DEF Init, StoreInit, L!Init, StatusOf, TokOf, OriginOf, RightOf, VerdictOf

\* Any number of replicas over one Redis, with clocks up to MaxSkew apart,
\* resent commands, failing calls, key expiry and a Reset that deletes key by
\* key, implement the ledger: a challenge whose use Redis can enforce is never
\* redeemed twice, and no replica accepts a token that another has consumed.
THEOREM RedisImplementsLedger == Spec => ImplementsLedger
<1>1. Inductive /\ [Next]_vars => [L!Next]_(L!ledger)
  <2> SUFFICES ASSUME Inductive, [Next]_vars PROVE L!Next \/ UNCHANGED L!ledger
    OBVIOUS
  <2>1. CASE UNCHANGED vars
    BY <2>1 DEF vars, L!ledger, StatusOf, Enforced, SpentInRedis, TokOf,
       OriginOf, RightOf, VerdictOf, history, storeVars, control
  <2> QED  BY <2>1, CallOrStep, TickStep DEF Next
<1> QED
  BY <1>1, LedgerInit, InductiveAlways, PTL
     DEF Spec, ImplementsLedger, L!Spec

-----------------------------------------------------------------------------
(* What the ledger promises (LedgerProofs) is kept by the replicas.          *)

LP == INSTANCE LedgerProofs WITH
        Agents  <- Workers,
        None    <- Absent,
        status  <- [c \in Challenges |-> StatusOf(c)],
        right   <- [w \in Workers |-> RightOf(w)],
        tok     <- [t \in Tokens |-> TokOf(t)],
        origin  <- [t \in Tokens |-> OriginOf(t)],
        verdict <- [w \in Workers |-> VerdictOf(w)]

LEMMA RedisExclusive == Spec => []LP!Exclusive
<1>1. LP!Spec => []LP!Exclusive
  BY LP!ExclusiveAlways, NoKeyAssumption
<1>2. L!Init => LP!Init
  BY DEF L!Init, LP!Init
<1>3. L!Next => LP!Next
  BY DEF L!Next, LP!Next, L!Forget, LP!Forget, L!Issue, LP!Issue, L!GrantFree,
     LP!GrantFree, L!Forfeit, LP!Forfeit, L!Answer, LP!Answer, L!Redeem,
     LP!Redeem, L!Grant, LP!Grant, L!Accept, LP!Accept, L!MayFade, LP!MayFade,
     L!MayGo, LP!MayGo
<1>4. UNCHANGED L!ledger => UNCHANGED LP!ledger
  BY DEF L!ledger, LP!ledger
<1>5. L!Init /\ [][L!Next]_(L!ledger) => LP!Init /\ [][LP!Next]_(LP!ledger)
  BY <1>2, <1>3, <1>4, PTL
<1> QED
  BY <1>1, <1>5, RedisImplementsLedger, PTL
     DEF ImplementsLedger, L!Spec, LP!Spec

RedeemedFor(t, c) == granted[t] # Absent /\ granted[t].chal = c

RedeemedOnce ==
    \A c \in Challenges : issued[c] # Absent /\ Enforced(c) =>
        /\ \A t1, t2 \in Tokens :
              RedeemedFor(t1, c) /\ RedeemedFor(t2, c) => t1 = t2
        /\ \A t \in Tokens, w \in Workers :
              RedeemedFor(t, c) => ~(pc[w] = "issue" /\ req[w].chal = c)

\* As long as Redis can enforce the single use of a challenge, at most one token
\* was returned for it by all replicas together, and once one was no call on any
\* replica is about to issue another.
THEOREM RedeemedOnceAcrossReplicas == Spec => []RedeemedOnce
<1>1. LP!Exclusive => RedeemedOnce
  <2> SUFFICES ASSUME LP!Exclusive, NEW c \in Challenges, issued[c] # Absent,
                      Enforced(c)
               PROVE  /\ \A t1, t2 \in Tokens :
                            RedeemedFor(t1, c) /\ RedeemedFor(t2, c) => t1 = t2
                      /\ \A t \in Tokens, w \in Workers : RedeemedFor(t, c) =>
                            ~(pc[w] = "issue" /\ req[w].chal = c)
    BY DEF RedeemedOnce
  <2>1. StatusOf(c) # "lapsed"
    BY DEF StatusOf
  <2>2. \A t \in Tokens : RedeemedFor(t, c) => OriginOf(t) = c
    BY DEF RedeemedFor, OriginOf
  <2>3. \A w \in Workers : pc[w] = "issue" /\ req[w].chal = c => RightOf(w) = c
    BY DEF RightOf
  <2> QED  BY <2>1, <2>2, <2>3 DEF LP!Exclusive
<1> QED  BY <1>1, RedisExclusive, PTL
=============================================================================
