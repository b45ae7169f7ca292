-------------------------- MODULE MCAuthentication --------------------------
(***************************************************************************)
(* Names with both characters SCRAM and OAUTHBEARER escape, the value "*"  *)
(* and the empty one; each secret right or wrong.  Every mechanism meets   *)
(* every caller and account over TLS with this library's server; the       *)
(* choice of the mechanism and other servers are varied with one account.  *)
(***************************************************************************)
EXTENDS Authentication

MCAccounts ==
    [user : {<<"a">>, <<",", "=">>}, password : {<<"p">>}, token : {<<"t">>}]
        \union [user : {<<"*">>}, password : {<<"*">>}, token : {<<"t">>}]

MCCallers ==
    [user : {<<"a">>, <<",", "=">>}, password : {<<"p">>}, authz : {<<>>, <<"=", ",">>},
     token : {<<"t">>}, binding : {"B"}]
        \union [user : {<<>>, <<"*">>}, password : {<<"p">>, <<"*">>}, authz : {<<"*">>},
                token : {<<"t">>}, binding : {"B"}]
        \union [user : {<<"a">>}, password : {<<"p">>, <<>>}, authz : {<<>>},
                token : {<<>>, <<"x">>}, binding : {"B", "C"}]

Plain == [user |-> <<"a">>, password |-> <<"p">>, authz |-> <<>>, token |-> <<"t">>, binding |-> "B"]
Account == [user |-> <<"a">>, password |-> <<"p">>, token |-> <<"t">>]

MCCases ==
    [opts : MCCallers, account : MCAccounts, offered : {{m} : m \in Mechanisms},
     link : {"tls"}, style : {"library", "waits"}, peer : {"library"}]
        \union [opts : {Plain}, account : {Account},
                offered : {{}, {"SCRAM-PLUS"}, {"SCRAM-PLUS", "PLAIN"}, {"EXTERNAL"}},
                link : {"tls", "plain", "allowed"}, style : {"library"}, peer : {"library"}]
        \union [opts : {Plain}, account : {Account}, offered : {{m} : m \in Mechanisms},
                link : {"tls"}, style : {"library"}, peer : {"foreign"}]
=============================================================================
