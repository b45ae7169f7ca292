-------------------------------- MODULE SASL --------------------------------
(***************************************************************************)
(* The SASL mechanisms of internal/smtpsasl: the initiators the client     *)
(* uses (sasl.go) and the responders of the server (responder.go), as      *)
(* operators on their states and on the octets they exchange.              *)
(*                                                                         *)
(* Octets are symbols; runs of octets no parser looks into ("auth=Bearer ",*)
(* a nonce, an iteration count, a digest, base64 text) are one symbol.     *)
(* Digests are free terms: equal exactly when their inputs are.  The SHA-1 *)
(* and SHA-256 forms of SCRAM differ only in the digest.                   *)
(***************************************************************************)
EXTENDS Text

Mechanisms == {"PLAIN", "LOGIN", "CRAM-MD5", "EXTERNAL", "OAUTHBEARER", "XOAUTH2",
               "SCRAM", "SCRAM-PLUS"}
NUL == "00"
SOH == "01"
Star == <<"*">>

digest(term) == ToString(term)

(***************************************************************************)
(* Escaping.                                                               *)
(***************************************************************************)
\* Mutant: a comma stays as it is.
saslNameComma(v) ==
    FlattenSeq([i \in DOMAIN v |-> IF v[i] = "=" THEN <<"=", "3", "D">> ELSE <<v[i]>>])

saslName(v) ==
    FlattenSeq([i \in DOMAIN v |->
        CASE v[i] = "=" -> <<"=", "3", "D">>
          [] v[i] = "," -> <<"=", "2", "C">>
          [] OTHER      -> <<v[i]>>])

\* The escapes contain no "=", so each "=" begins one.
decodeSASLName(v) ==
    LET escapes == At(v, "=")
        code(i) == SubSeq(v, i + 1, i + 2)
        kept    == SetToSortSeq({i \in DOMAIN v : i - 1 \notin escapes /\ i - 2 \notin escapes}, <)
    IN  [ok    |-> \A i \in escapes : i + 2 <= Len(v) /\ code(i) \in {<<"2", "C">>, <<"3", "D">>},
         value |-> [k \in DOMAIN kept |->
                       IF kept[k] \notin escapes THEN v[kept[k]]
                       ELSE IF code(kept[k]) = <<"2", "C">> THEN "," ELSE "="]]

(***************************************************************************)
(* SCRAM attributes: "name=value" separated by commas.  The client keeps   *)
(* the last value of a name and skips what it cannot read; the server      *)
(* refuses both.                                                           *)
(***************************************************************************)
wellFormed(f) == Len(f) >= 3 /\ f[2] = "="

parseFields(message) ==
    LET parts == Split(message, ",")
        named(n) == {k \in DOMAIN parts : wellFormed(parts[k]) /\ parts[k][1] = n}
    IN  [n \in {"r", "s", "i", "v"} |->
            IF named(n) = {} THEN <<>>
            ELSE From(parts[CHOOSE k \in named(n) : \A j \in named(n) : j <= k], 3)]

parseSCRAMFields(message) ==
    LET parts == Split(message, ",")
        named(n) == {k \in DOMAIN parts : parts[k][1] = n}
    IN  IF /\ \A k \in DOMAIN parts : wellFormed(parts[k])
           /\ \A j, k \in DOMAIN parts : parts[j][1] = parts[k][1] => j = k
        THEN [ok |-> TRUE,
              at |-> [n \in {"n", "r", "m", "c"} |->
                         IF named(n) = {} THEN <<>>
                         ELSE From(parts[CHOOSE k \in named(n) : TRUE], 3)]]
        ELSE [ok |-> FALSE]

base64(octets) == digest(octets)

clientProof(password, salt, iterations, authMessage) ==
    digest(<<"proof", password, salt, iterations, authMessage>>)
serverSignature(password, salt, iterations, authMessage) ==
    digest(<<"signature", password, salt, iterations, authMessage>>)

ValidIterations == {"1", "4096"}
cramDigest(password, challenge) == digest(<<password, challenge>>)

(***************************************************************************)
(* Initiators.  A configuration has user, password, authz, token and       *)
(* binding; an initiator's state has step, the first bare message and the  *)
(* signature it expects.                                                   *)
(***************************************************************************)
gs2Header(m) == IF m = "SCRAM-PLUS" THEN <<"p=tls-exporter", ",", ",">> ELSE <<"n", ",", ",">>
ClientNonce == "N"

firstBare(cfg) == <<"n", "=">> \o saslName(cfg.user) \o <<",", "r", "=", ClientNonce>>

oauthIdentity(cfg) == IF cfg.authz = <<>> THEN cfg.user ELSE cfg.authz

\* Start: none for the mechanisms in which the server speaks first.
Start(m, cfg) ==
    CASE m = "PLAIN"       -> cfg.authz \o <<NUL>> \o cfg.user \o <<NUL>> \o cfg.password
      [] m = "EXTERNAL"    -> cfg.authz
      [] m = "OAUTHBEARER" -> <<"n", ",", "a", "=">> \o saslName(oauthIdentity(cfg))
                                \o <<",", SOH, "auth=Bearer ">> \o cfg.token \o <<SOH, SOH>>
      [] m = "XOAUTH2"     -> <<"user=">> \o cfg.user
                                \o <<SOH, "auth=Bearer ">> \o cfg.token \o <<SOH, SOH>>
      [] OTHER             -> gs2Header(m) \o firstBare(cfg)

ServerFirst(m) == m \in {"LOGIN", "CRAM-MD5"}

Initiator == [step |-> 0, expected |-> ""]

Answer(response, done, st) == [ok |-> TRUE, response |-> response, done |-> done, st |-> st]
Refuse(st) == [ok |-> FALSE, response |-> <<>>, done |-> FALSE, st |-> st]

clientFinal(m, cfg, st, serverFirst) ==
    LET f == parseFields(serverFirst)
        withoutProof == <<"c", "=", base64(gs2Header(m) \o
                              (IF m = "SCRAM-PLUS" THEN <<cfg.binding>> ELSE <<>>)),
                          ",", "r", "=">> \o f["r"]
        auth == firstBare(cfg) \o <<",">> \o serverFirst \o <<",">> \o withoutProof
    IN  IF /\ f["r"] # <<>> /\ f["r"][1] = ClientNonce
           /\ f["s"] # <<>>
           /\ f["i"] # <<>> /\ f["i"][1] \in ValidIterations
        THEN Answer(withoutProof \o
                      <<",", "p", "=", clientProof(cfg.password, f["s"], f["i"], auth)>>, FALSE,
                    [step |-> 1, expected |-> serverSignature(cfg.password, f["s"], f["i"], auth)])
        ELSE Refuse([st EXCEPT !.step = 1])

\* Mutant: LOGIN has an answer to every challenge.
NextResponseEndless(m, cfg, st, challenge) ==
    IF m = "LOGIN"
    THEN Answer(IF st.step = 0 THEN cfg.user ELSE cfg.password, FALSE, [st EXCEPT !.step = 1])
    ELSE Refuse(st)

\* Next, with the challenge decoded.
NextResponse(m, cfg, st, challenge) ==
    LET later == [st EXCEPT !.step = @ + 1]
    IN  CASE m \in {"PLAIN", "EXTERNAL"} -> Refuse(st)
          [] m \in {"OAUTHBEARER", "XOAUTH2"} -> Answer(<<SOH>>, TRUE, st)
          [] m = "CRAM-MD5" -> Answer(cfg.user \o <<" ", cramDigest(cfg.password, challenge)>>, TRUE, st)
          [] m = "LOGIN" /\ st.step = 0 -> Answer(cfg.user, FALSE, later)
          [] m = "LOGIN" /\ st.step = 1 -> Answer(cfg.password, TRUE, later)
          [] m \in {"SCRAM", "SCRAM-PLUS"} /\ st.step = 0 -> clientFinal(m, cfg, st, challenge)
          [] m \in {"SCRAM", "SCRAM-PLUS"} /\ st.step = 1 ->
                 IF parseFields(challenge)["v"] = <<st.expected>> THEN Answer(<<>>, TRUE, later)
                 ELSE Refuse(later)
          [] OTHER -> Refuse(later)

(***************************************************************************)
(* Responders.  Each call gives the next state and a step: a challenge to  *)
(* send, a verification to ask the backend for, the outcome, or an error.  *)
(* A verification is stated with the mechanism's own values.               *)
(***************************************************************************)
NoCredentials == [user |-> <<>>, authz |-> <<>>, password |-> <<>>, token |-> <<>>]

NewResponder(m, binding) ==
    [m |-> m, state |-> "new", username |-> <<>>, binding |-> binding, gs2 |-> <<>>,
     first |-> <<>>, serverFirst |-> <<>>, nonce |-> <<>>]

challengeStep(r, state, octets) ==
    [r |-> [r EXCEPT !.state = state], is |-> "challenge", octets |-> octets]
verify(r, kind, credentials, response) ==
    [r |-> [r EXCEPT !.state = "verify"], is |-> "verify", kind |-> kind,
     credentials |-> credentials, response |-> response]
finish(r, accepted) ==
    [r |-> [r EXCEPT !.state = "done"], is |-> "done", accepted |-> accepted]
failure(r, why) == [r |-> r, is |-> "error", why |-> why]
payloadError(r) == failure(r, "payload")
abort(r) == failure([r EXCEPT !.state = "done"], "aborted")

plain(r, payload) ==
    LET parts == Split(payload, NUL)
    IN  IF Len(parts) = 3 /\ parts[2] # <<>>
        THEN verify(r, "credentials", [NoCredentials EXCEPT !.authz = parts[1],
                                          !.user = parts[2], !.password = parts[3]], <<>>)
        ELSE payloadError(r)

external(r, payload) == verify(r, "credentials", [NoCredentials EXCEPT !.authz = payload], <<>>)

\* The fields between the header and the two SOH at the end; the last wins.
bearer(parts, from) ==
    LET at == {k \in from..(Len(parts) - 2) : parts[k] # <<>> /\ parts[k][1] = "auth=Bearer "}
    IN  IF at = {} THEN <<>> ELSE From(parts[CHOOSE k \in at : \A j \in at : j <= k], 2)
framed(parts) == Len(parts) >= 3 /\ parts[Len(parts)] = <<>> /\ parts[Len(parts) - 1] = <<>>

parseOAuthGS2(header) ==
    LET middle == SubSeq(header, 3, Len(header) - 1)
    IN  IF ~(Len(header) >= 2 /\ header[1] = "n" /\ header[2] = "," /\ header[Len(header)] = ",")
        THEN [ok |-> FALSE, value |-> <<>>]
        ELSE IF middle = <<>> THEN [ok |-> TRUE, value |-> <<>>]
        ELSE IF Len(middle) < 2 \/ SubSeq(middle, 1, 2) # <<"a", "=">>
        THEN [ok |-> FALSE, value |-> <<>>]
        ELSE decodeSASLName(From(middle, 3))

parseOAuthBearer(r, payload) ==
    LET parts == Split(payload, SOH)
        gs2   == parseOAuthGS2(parts[1])
        token == bearer(parts, 2)
    IN  IF framed(parts) /\ gs2.ok /\ token # <<>>
        THEN verify(r, "credentials", [NoCredentials EXCEPT !.authz = gs2.value, !.token = token], <<>>)
        ELSE payloadError(r)

parseXOAuth2(r, payload) ==
    LET parts == Split(payload, SOH)
        users == {k \in 1..(Len(parts) - 2) : parts[k] # <<>> /\ parts[k][1] = "user="}
        user  == From(parts[CHOOSE k \in users : \A j \in users : j <= k], 2)
        token == bearer(parts, 1)
    IN  IF framed(parts) /\ users # {} /\ token # <<>> /\ user # <<>>
        THEN verify(r, "credentials", [NoCredentials EXCEPT !.user = user, !.token = token], <<>>)
        ELSE payloadError(r)

oauth(r, payload) ==
    IF r.m = "OAUTHBEARER" THEN parseOAuthBearer(r, payload) ELSE parseXOAuth2(r, payload)

\* parseSCRAMClientFirst: the header ends at the second comma.
parseSCRAMClientFirst(message, plus) ==
    LET commas == SetToSortSeq(At(message, ","), <)
        flag   == SubSeq(message, 1, commas[1] - 1)
        authz  == SubSeq(message, commas[1] + 1, commas[2] - 1)
        bare   == From(message, commas[2] + 1)
    IN  IF Len(commas) < 2 THEN [ok |-> FALSE]
        ELSE [ok     |-> /\ flag \in (IF plus THEN {<<"p=tls-exporter">>} ELSE {<<"n">>, <<"y">>})
                         /\ \/ authz = <<>>
                            \/ /\ Len(authz) >= 2 /\ SubSeq(authz, 1, 2) = <<"a", "=">>
                               /\ decodeSASLName(From(authz, 3)).ok
                         /\ bare # <<>>,
              header |-> SubSeq(message, 1, commas[2]),
              bare   |-> bare,
              authz  |-> IF authz = <<>> THEN <<>> ELSE decodeSASLName(From(authz, 3)).value]

scramFirst(r, payload) ==
    LET first  == parseSCRAMClientFirst(payload, r.m = "SCRAM-PLUS")
        fields == parseSCRAMFields(first.bare)
        name   == decodeSASLName(fields.at["n"])
    IN  IF first.ok /\ fields.ok /\ fields.at["n"] # <<>> /\ fields.at["r"] # <<>>
              /\ fields.at["m"] = <<>> /\ name.ok
        THEN verify([r EXCEPT !.gs2 = first.header, !.first = first.bare, !.nonce = fields.at["r"]],
                    "scram-keys", [NoCredentials EXCEPT !.user = name.value, !.authz = first.authz], <<>>)
        ELSE payloadError(r)

ServerNonce == "M"

scramServerFirst(r, keys) ==
    LET nonce == Append(r.nonce, ServerNonce)
        text  == <<"r", "=">> \o nonce \o <<",", "s", "=">> \o keys.salt \o <<",", "i", "=">> \o keys.iterations
    IN  IF keys.salt # <<>> /\ keys.iterations[1] \in ValidIterations
        THEN challengeStep([r EXCEPT !.nonce = nonce, !.serverFirst = text], "SCRAMProof", text)
        ELSE failure(r, "other")

scramProof(r, payload, keys) ==
    LET marks   == {i \in 1..(Len(payload) - 2) : SubSeq(payload, i, i + 2) = <<",", "p", "=">>}
        at      == CHOOSE i \in marks : \A j \in marks : j <= i
        proof   == From(payload, at + 3)
        without == SubSeq(payload, 1, at - 1)
        fields  == parseSCRAMFields(without)
        want    == base64(r.gs2 \o (IF r.m = "SCRAM-PLUS" THEN <<r.binding>> ELSE <<>>))
        auth    == r.first \o <<",">> \o r.serverFirst \o <<",">> \o without
    IN  IF marks = {} THEN payloadError(r)
        ELSE IF At(proof, ",") # {} \/ ~fields.ok THEN payloadError(r)
        ELSE IF fields.at["c"] = <<>> \/ fields.at["r"] # r.nonce THEN payloadError(r)
        ELSE IF fields.at["c"] # <<want>> THEN finish(r, FALSE)
        ELSE IF Len(proof) # 1 THEN payloadError(r)
        ELSE IF proof # <<clientProof(keys.password, keys.salt, keys.iterations, auth)>>
        THEN finish(r, FALSE)
        ELSE challengeStep(r, "SCRAMEmpty",
                 <<"v", "=", serverSignature(keys.password, keys.salt, keys.iterations, auth)>>)

\* Start, with an initial response (some) or none.
StartResponder(r, some, initial) ==
    IF some /\ initial = Star THEN abort(r)
    ELSE CASE r.m = "PLAIN" -> IF some THEN plain(r, initial) ELSE challengeStep(r, "plain", <<>>)
           [] r.m = "LOGIN" /\ ~some -> challengeStep(r, "loginUser", <<"Username:">>)
           [] r.m = "LOGIN" /\ some ->
                  IF initial = <<>> THEN payloadError(r)
                  ELSE challengeStep([r EXCEPT !.username = initial], "loginPassword", <<"Password:">>)
           [] r.m = "CRAM-MD5" ->
                  IF some THEN payloadError(r) ELSE challengeStep(r, "CRAM", <<"<nonce@host>">>)
           [] r.m = "EXTERNAL" ->
                  IF some THEN external(r, initial) ELSE challengeStep(r, "external", <<>>)
           [] r.m \in {"OAUTHBEARER", "XOAUTH2"} ->
                  IF some THEN oauth(r, initial) ELSE challengeStep(r, "oauth", <<>>)
           [] OTHER -> IF some THEN scramFirst(r, initial) ELSE challengeStep(r, "SCRAMFirst", <<>>)

\* Next.  keys are what the lookup gave.
NextResponder(r, response, keys) ==
    IF response = Star THEN abort(r)
    ELSE CASE r.state = "plain" -> plain(r, response)
           [] r.state = "loginUser" ->
                  IF response = <<>> THEN payloadError(r)
                  ELSE challengeStep([r EXCEPT !.username = response], "loginPassword", <<"Password:">>)
           [] r.state = "loginPassword" ->
                  verify(r, "credentials",
                         [NoCredentials EXCEPT !.user = r.username, !.password = response], <<>>)
           [] r.state = "CRAM" ->
                  IF response = <<>> THEN payloadError(r)
                  ELSE verify(r, "challenge-response", NoCredentials, response)
           [] r.state = "external" -> external(r, response)
           [] r.state = "oauth" -> oauth(r, response)
           [] r.state = "OAuthDummy" ->
                  IF response = <<SOH>> THEN finish(r, FALSE) ELSE payloadError(r)
           [] r.state = "SCRAMFirst" -> scramFirst(r, response)
           [] r.state = "SCRAMProof" -> scramProof(r, response, keys)
           [] r.state = "SCRAMEmpty" ->
                  IF response = <<>> THEN finish(r, TRUE) ELSE payloadError(r)
           [] OTHER -> failure(r, "other")

\* Mutant: finding the keys is the authentication.
ContinueTrusting(r, kind, accepted, diagnostic, keys) == finish(r, accepted)

\* Continue: the backend's decision; diagnostic is its OAuth failure payload.
Continue(r, kind, accepted, diagnostic, keys) ==
    IF kind = "scram-keys"
    THEN IF accepted THEN scramServerFirst(r, keys) ELSE finish(r, FALSE)
    ELSE IF ~accepted /\ r.m \in {"OAUTHBEARER", "XOAUTH2"} /\ diagnostic
    THEN challengeStep(r, "OAuthDummy", <<"json">>)
    ELSE finish(r, accepted)
=============================================================================
