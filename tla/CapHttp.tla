------------------------------- MODULE CapHttp -------------------------------
(***************************************************************************)
(* caphttp/handler.go over Cap.Redeem: how a request is routed, which      *)
(* scope it is served for, how the redemption ends, and what is answered.  *)
(* The handler is mounted with Register on a mux, or as an http.Handler    *)
(* with or without StripPrefix.                                            *)
(*                                                                         *)
(* A text is the sequence of its pieces between slashes, the empty text    *)
(* one empty piece. A path is the text after its first slash, once its     *)
(* escapes are undone, and says which of the slashes were escaped (%2F);   *)
(* other characters come unescaped.                                        *)
(*                                                                         *)
(* A call is one step here: CapServer has the interleavings. A client      *)
(* redeems challenges it was given; Reset is left out. The hook            *)
(* ChallengeOptions leaves the scope alone.                                *)
(***************************************************************************)
EXTENDS Integers, Sequences, FiniteSets, SequencesExt

CONSTANTS
    Configs,        \* [scopes, requireScope, mount, prefix] (see MCCapHttp)
    Requests,       \* [post, path, encoded]: a method, a text, escaped slashes
    Behind(_, _),   \* what is left of a piece behind another: a text, or <<>>
    Challenges,     \* challenges, and the tokens they give
    Faults          \* may the Cap fail?

Empty   == ""
NoScope == <<Empty>>

ASSUME CapHttpAssumption ==
    /\ \A r \in Requests : /\ r.post \in BOOLEAN
                          /\ r.path \in Seq(STRING)
                          /\ r.encoded \subseteq 2..Len(r.path)
    /\ \A o \in Configs :
         /\ o.prefix \in Seq(STRING)
         /\ \A i \in DOMAIN o.prefix :
              /\ Behind(o.prefix[i], o.prefix[i]) = <<Empty>>
              /\ \A r \in Requests : \A j \in DOMAIN r.path :
                   LET rest == Behind(o.prefix[i], r.path[j])
                   IN  rest \in Seq(STRING) /\ Len(rest) <= 1
         /\ o.mount \in {"register", "strip", "whole"}

VARIABLES
    config,         \* Handler.opts and how the handler is mounted
    issued,         \* challenges a client holds: [scope, path, signed], or <<>>
    age,            \* "live" before a challenge's expiry, "last" at it, "over"
    spent,          \* challenges whose record was taken or nonce claimed
    tokens,         \* tokens a client holds: [scope, path], or <<>>
    last            \* the last exchange: what was sent and answered

vars == <<config, issued, age, spent, tokens, last>>

Nothing == [status |-> "none"]

Init ==
    /\ config \in Configs
    /\ issued = [c \in Challenges |-> <<>>]
    /\ age = [c \in Challenges |-> "live"]
    /\ spent = {}
    /\ tokens = [c \in Challenges |-> <<>>]
    /\ last = Nothing

-----------------------------------------------------------------------------
(* Routing: what a request is served as, and the scope its path names *)

Actions == {"challenge", "redeem"}

NoRoute == [action |-> "none", scope |-> NoScope]

\* The patterns of Register. A mux matches the escaped path, segment by
\* segment, and a segment is read after that: what {scope} takes may have
\* slashes, if they were escaped. It takes no empty segment (such a path is
\* redirected), and not a lone slash, which is the mux's trailing slash.
RegisterRoute(r) ==
    LET n     == Len(config.prefix)
        scope == SubSeq(r.path, n + 1, Len(r.path) - 1)
    IN  IF /\ r.post
           /\ IsPrefix(config.prefix, r.path)
           /\ Len(r.path) > n
           /\ Last(r.path) \in Actions
           /\ r.encoded = (n + 2)..(Len(r.path) - 1)
           /\ \/ scope = <<>>
              \/ /\ config.scopes # <<>>
                 /\ scope \notin {<<Empty>>, <<Empty, Empty>>}
        THEN [action |-> Last(r.path),
              scope  |-> IF scope = <<>> THEN NoScope ELSE scope]
        ELSE NoRoute

\* The last segment, when slashes at the end are trimmed. Slashes at the
\* front need no trimming here: an empty piece is no action and no scope.
LastSegment(path) == Max({i \in DOMAIN path : path[i] # Empty})

\* A bug: a scope is looked for behind another segment only.
ServeHTTPRouteShort(r, path) ==
    LET a == LastSegment(path)
    IN  IF ~r.post \/ ToSet(path) \subseteq {Empty} \/ path[a] \notin Actions
        THEN NoRoute
        ELSE [action |-> path[a],
              scope  |-> IF a > 3 /\ config.scopes # <<>>
                         THEN <<path[a - 1]>> ELSE NoScope]

\* ServeHTTP splits the path it is given with all its escapes undone. The last
\* segment is the action, and the one before it the scope when scopes are
\* enabled.
ServeHTTPRoute(r, path) ==
    LET a == LastSegment(path)
    IN  IF ~r.post \/ ToSet(path) \subseteq {Empty} \/ path[a] \notin Actions
        THEN NoRoute
        ELSE [action |-> path[a],
              scope  |-> IF a > 1 /\ config.scopes # <<>>
                         THEN <<path[a - 1]>> ELSE NoScope]

\* http.StripPrefix takes the prefix off as a string, so the last piece of
\* it may be the beginning of a longer one, and does so of the escaped path
\* too. It answers "not found" itself when the prefix is missing.
StrippedRoute(r) ==
    LET n == Len(config.prefix)
    IN  IF n = 0 THEN ServeHTTPRoute(r, r.path)
        ELSE IF /\ Len(r.path) >= n
                /\ SubSeq(r.path, 1, n - 1) = SubSeq(config.prefix, 1, n - 1)
                /\ Behind(config.prefix[n], r.path[n]) # <<>>
                /\ r.encoded \cap (2..n) = {}
             THEN ServeHTTPRoute(r, Behind(config.prefix[n], r.path[n])
                                      \o SubSeq(r.path, n + 1, Len(r.path)))
        ELSE NoRoute

Route(r) ==
    CASE config.mount = "register" -> RegisterRoute(r)
      [] config.mount = "strip"    -> StrippedRoute(r)
      [] config.mount = "whole"    -> ServeHTTPRoute(r, r.path)

\* Handler.scope: may this scope be served?
ScopeOk(scope) ==
    IF scope = NoScope THEN ~config.requireScope
    ELSE /\ config.scopes # <<>>
         /\ config.scopes[1] = {} \/ scope \in config.scopes[1]

Serves(route, action) == route.action = action /\ ScopeOk(route.scope)

-----------------------------------------------------------------------------
(* Answers: "ok" (200), "rejected" (200 with a reason why the work is not  *)
(* accepted), "invalid" (a 3xx or 4xx) or "failed" (500).                  *)

Answer(status) == last' = [status |-> status]

\* An error is what errors.As finds in it: an Error with or without a
\* cause, or nothing.
Error(cause) == <<[cause |-> cause]>>
Fail == Error(FALSE)

\* A bug: the store's error is dropped.
StoreErrBare == Error(FALSE)

\* The error of the store goes in as the cause.
StoreErr == Error(TRUE)

\* Errors of a store, of the entropy source and of SignToken are any,
\* possibly an Error of their own.
ForeignErrors == {<<>>, Error(FALSE), Error(TRUE)}

\* Only an Error without a cause is told to the client.
ErrorStatus(err) == IF err # <<>> /\ ~err[1].cause THEN "rejected" ELSE "failed"

ScopeFits(own, scope) == scope = NoScope \/ own = scope

\* A bug: the scope of the route is not passed on.
RedeemOptionsUnscoped(scope) == NoScope

\* The scope in RedeemOptions.
RedeemOptions(scope) == scope

Fits(route, c) == ScopeFits(issued[c][1].scope, RedeemOptions(route.scope))

AnswerRedeem(route, c, work, status) ==
    last' = [status |-> status, chal |-> c, work |-> work,
             fits |-> ScopeFits(issued[c][1].scope, route.scope)]

-----------------------------------------------------------------------------
(* The handlers *)

\* 404 or 405, by the mux or by ServeHTTP; 400 for a scope.
Refuse(route) ==
    /\ route = NoRoute \/ ~ScopeOk(route.scope)
    /\ Answer("invalid")
    /\ UNCHANGED <<config, issued, age, spent, tokens>>

\* The caller's options decide whether the challenge is signed or stored.
Challenge(r, route) ==
    /\ Serves(route, "challenge")
    /\ \/ \E c \in Challenges, signed \in BOOLEAN :
            /\ issued[c] = <<>>
            /\ issued' = [issued EXCEPT ![c] =
                 <<[scope |-> route.scope, path |-> r.path, signed |-> signed]>>]
            /\ Answer("ok")
       \/ /\ Faults
          /\ UNCHANGED issued
          /\ Answer("failed")
    /\ UNCHANGED <<config, age, spent, tokens>>

\* A body that is too long or is not JSON does not reach the Cap.
RedeemBadBody(route) ==
    /\ Serves(route, "redeem")
    /\ Answer("invalid")
    /\ UNCHANGED <<config, issued, age, spent, tokens>>

\* The work that is sent for a challenge: solutions that are right, wrong, or
\* missing and malformed.
Work == {"right", "wrong", "malformed"}

\* Does Redeem come to ask the store? Solutions to a stored challenge are
\* parsed first; a signed one is checked in full, and is good at its expiry.
ReachesStore(route, c, work) ==
    IF issued[c][1].signed
    THEN Fits(route, c) /\ age[c] # "over" /\ work = "right"
    ELSE work # "malformed"

\* Redeem refuses before it asks the store.
RedeemRefused(route, c, work) ==
    /\ Serves(route, "redeem")
    /\ issued[c] # <<>>
    /\ ~ReachesStore(route, c, work)
    /\ AnswerRedeem(route, c, work, ErrorStatus(Fail))
    /\ UNCHANGED <<config, issued, age, spent, tokens>>

\* TakeChallenge or ClaimNonce returns an error, without or with its effect.
RedeemStoreFails(route, c, work) ==
    /\ Faults
    /\ Serves(route, "redeem")
    /\ issued[c] # <<>>
    /\ ReachesStore(route, c, work)
    /\ spent' \in {spent, spent \cup {c}}
    /\ AnswerRedeem(route, c, work, ErrorStatus(StoreErr))
    /\ UNCHANGED <<config, issued, age, tokens>>

\* issueToken: SignToken, the entropy source and PutToken may fail, and their
\* errors are passed on.
IssueToken(r, route, c, work) ==
    \/ /\ tokens' = [tokens EXCEPT ![c] =
            <<[scope |-> issued[c][1].scope, path |-> r.path]>>]
       /\ AnswerRedeem(route, c, work, "ok")
    \/ /\ Faults
       /\ \E err \in ForeignErrors : AnswerRedeem(route, c, work, ErrorStatus(err))
       /\ UNCHANGED tokens

\* redeemStored: the record is gone whatever the checks after it say.
Take(r, route, c, work) ==
    /\ Serves(route, "redeem")
    /\ issued[c] # <<>>
    /\ ~issued[c][1].signed
    /\ ReachesStore(route, c, work)
    /\ spent' = spent \cup {c}
    /\ IF c \notin spent /\ age[c] = "live" /\ Fits(route, c) /\ work = "right"
       THEN IssueToken(r, route, c, work)
       ELSE AnswerRedeem(route, c, work, ErrorStatus(Fail)) /\ UNCHANGED tokens
    /\ UNCHANGED <<config, issued, age>>

\* redeemSigned: a nonce counts until the expiry.
Claim(r, route, c, work) ==
    /\ Serves(route, "redeem")
    /\ issued[c] # <<>>
    /\ issued[c][1].signed
    /\ ReachesStore(route, c, work)
    /\ spent' = spent \cup {c}
    /\ IF c \notin spent \/ age[c] # "live"
       THEN IssueToken(r, route, c, work)
       ELSE AnswerRedeem(route, c, work, ErrorStatus(Fail)) /\ UNCHANGED tokens
    /\ UNCHANGED <<config, issued, age>>

\* Handler.Validate consumes the token, for its scope or for any; if it does
\* not, nothing changes.
Validate(c) ==
    /\ tokens[c] # <<>>
    /\ tokens' = [tokens EXCEPT ![c] = <<>>]
    /\ last' = Nothing
    /\ UNCHANGED <<config, issued, age, spent>>

\* Time passes.
Expire(c) ==
    /\ issued[c] # <<>>
    /\ age[c] # "over"
    /\ age' = [age EXCEPT ![c] = IF @ = "live" THEN "last" ELSE "over"]
    /\ UNCHANGED <<config, issued, spent, tokens, last>>

Next ==
    \/ \E r \in Requests :
         LET route == Route(r)
         IN  \/ Refuse(route)
             \/ Challenge(r, route)
             \/ RedeemBadBody(route)
             \/ \E c \in Challenges, work \in Work :
                  \/ RedeemRefused(route, c, work)
                  \/ RedeemStoreFails(route, c, work)
                  \/ Take(r, route, c, work)
                  \/ Claim(r, route, c, work)
    \/ \E c \in Challenges : Expire(c) \/ Validate(c)

Spec == Init /\ [][Next]_vars

-----------------------------------------------------------------------------
(* Properties *)

\* The path spells the scope in front of its action: in pieces of its own or,
\* where a prefix was stripped, as the rest of the piece the prefix is in.
NamesScope(path, scope) ==
    LET a == LastSegment(path)
        k == Len(scope)
    IN  \/ a > k /\ SubSeq(path, a - k, a - 1) = scope
        \/ \E head \in ToSet(config.prefix) :
              a > 1 /\ Behind(head, path[a - 1]) = scope

\* With RequireScope a token is worth what its routes say: both the request
\* for the challenge and its redemption named the token's scope, which is
\* on the allowlist, however the handler is mounted.
RoutesNameScope ==
    config.requireScope =>
        \A c \in Challenges : tokens[c] # <<>> =>
            LET tok == tokens[c][1]
            IN  /\ tok.scope # NoScope
                /\ config.scopes[1] = {} \/ tok.scope \in config.scopes[1]
                /\ NamesScope(issued[c][1].path, tok.scope)
                /\ NamesScope(tok.path, tok.scope)

\* An allowlist of names, or no scopes at all.
NamesOnly ==
    config.scopes # <<>> =>
        config.scopes[1] # {} /\ \A scope \in config.scopes[1] : Len(scope) = 1

\* The ways to mount the handler agree on what an allowlist lets through: a
\* request that the patterns of Register serve, ServeHTTP behind StripPrefix
\* serves as the same action for the same scope, however its path is escaped;
\* one for a scope it serves so without StripPrefix too.
MountsAgree ==
    NamesOnly =>
        \A r \in Requests :
            LET route == RegisterRoute(r)
            IN  route # NoRoute /\ ScopeOk(route.scope) =>
                    /\ StrippedRoute(r) = route
                    /\ route.scope # NoScope => ServeHTTPRoute(r, r.path) = route

\* A client that did the work and hears that it is rejected has nothing left
\* to redeem: the challenge is gone, its time is up, or it is of another
\* scope. The widget drops a challenge on such an answer, so whatever fails in
\* the store, before or after its effect, must not give one while the challenge
\* can still be redeemed (storeErr, Handler.Redeem).
RejectionIsFinal ==
    last.status = "rejected" /\ last.work = "right" =>
        last.chal \in spent \/ age[last.chal] # "live" \/ ~last.fits
=============================================================================
