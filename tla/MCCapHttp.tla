------------------------------ MODULE MCCapHttp ------------------------------
(* Configurations and paths for model-checking CapHttp. *)
EXTENDS CapHttp

Login == <<"login">>

\* Options.Scopes: nil, empty, or an allowlist; every way to mount, one of
\* them behind a longer prefix.
Config(mounts, prefix) ==
    [scopes: {<<>>, <<{}>>, <<{Login}>>}, requireScope: BOOLEAN,
     mount: mounts, prefix: {prefix}]
AllConfigs ==
    Config({"register", "strip", "whole"}, <<"cap">>)
      \cup {o \in Config({"strip"}, <<"login", "cap">>) : o.scopes = <<{Login}>>}

\* "caplogin" goes on behind "cap".
BehindOf(head, name) ==
    IF name = head THEN <<Empty>>
    ELSE IF head = "cap" /\ name = "caplogin" THEN Login ELSE <<>>

\* What comes before an action: the prefix, a scope, none, two, doubled
\* slashes, or a piece that goes on.
Fronts ==
    {<<>>, <<"cap">>, <<"caplogin">>, <<"cap", "login">>, <<"cap", "", "login">>,
     <<"cap", "login", "login">>, <<"login", "cap", "login">>}
AllPaths ==
    {Append(f, a) : f \in Fronts, a \in Actions}
      \cup {<<"">>, <<"cap", "login">>, <<"cap", "login", "redeem", "">>}
AllRequests ==
    UNION {[post: {TRUE}, path: {p}, encoded: {{}} \cup {{i} : i \in 2..Len(p)}] :
             p \in AllPaths}
      \cup {[post |-> FALSE, path |-> <<"cap", "redeem">>, encoded |-> {}]}
==============================================================================
