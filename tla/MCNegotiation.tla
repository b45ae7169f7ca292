--------------------------- MODULE MCNegotiation ---------------------------
(***************************************************************************)
(* Three slices of the configurations: TLS and authentication policies     *)
(* against mechanisms and verifiers; extensions, modes and limits with an  *)
(* open policy; other servers.                                             *)
(***************************************************************************)
EXTENDS Negotiation

Plain ==
    [foreign |-> FALSE, lmtp |-> FALSE, clientLMTP |-> FALSE, tls |-> TRUE, implicit |-> FALSE,
     requireTLS |-> FALSE, requireAuth |-> FALSE, before |-> {"PLAIN"}, after |-> {"PLAIN"},
     chunking |-> TRUE, binary |-> TRUE, verifiers |-> {"password"},
     exts |-> {"DSN", "REQUIRETLS"}, limits |-> NoLimits, maxTx |-> 5]

MCPolicies ==
    {[Plain EXCEPT !.tls = t, !.implicit = i, !.requireTLS = rt, !.requireAuth = ra,
                   !.before = b, !.after = a, !.verifiers = v] :
        t, i, rt, ra \in BOOLEAN,
        b \in {{}, {"PLAIN"}, {"SCRAM-PLUS"}},
        a \in {{}, {"EXTERNAL"}, {"PLAIN", "SCRAM-PLUS"}},
        v \in {{}, {"password"}, {"scram", "atrn"}}}

MCExtensions ==
    {[Plain EXCEPT !.lmtp = l, !.clientLMTP = cl, !.chunking = c, !.binary = b, !.exts = e,
                   !.limits = n, !.maxTx = 2] :
        l, cl, c, b \in BOOLEAN,
        e \in {{}, {"MTRK"}, {"MTRK", "DSN", "FUTURERELEASE"}, {"SIZE"}},
        n \in {NoLimits, 0, 1, 3}}

MCForeign ==
    {[Plain EXCEPT !.foreign = TRUE, !.implicit = i, !.clientLMTP = cl, !.lmtp = cl] :
        i, cl \in BOOLEAN}

MCConfigs == MCPolicies \union MCExtensions \union MCForeign
=============================================================================
