--------------------------- MODULE Authentication ---------------------------
(***************************************************************************)
(* RFC 4954 AUTH between Client.Auth (smtpclient/auth.go) and the server's *)
(* handleAUTH (smtpserver/cmd_auth.go), with the mechanisms of module SASL *)
(* and a backend that knows one account.  Either end may be another        *)
(* implementation: a client that sends its first message only when asked,  *)
(* a server that answers as it likes.  The context may end, the connection *)
(* may be lost and the backend may fail at any point.                      *)
(***************************************************************************)
EXTENDS SASL, FiniteSets

CONSTANTS
    Cases,      \* the configurations: records of the first six variables
    MaxCalls    \* bound: calls of Auth

VARIABLES
    opts,       \* AuthOptions: user, password, authz, token, binding
    account,    \* the account of the backend: user, password, token
    offered,    \* the mechanisms the server advertises
    link,       \* "tls", "plain", or "allowed": plain with AllowInsecureAuth
    style,      \* "library", or "waits": a client without initial responses
    peer,       \* "library", or "foreign": another server
    cpc,        \* the client: idle, wait, got (a reply in hand), cancel, ehlo
    state,      \* connection.state
    mech, ini,  \* the mechanism of the call and the initiator's state
    last,       \* Next said that this was the final response
    result,     \* of the last call: none, ok, refused (not sent), failed
    calls,
    spc,        \* the server: loop, challenge (a response is awaited), closed
    resp,       \* its responder
    keys,       \* SCRAM verifier of the lookup
    sauth,      \* protocolState.authenticated
    toServer, toClient,
    up,         \* the connection stands
    asked,      \* history: the credentials last given to the backend
    commits,    \* history: calls of CommitAuth
    fault,      \* history: a loss, a failure of the backend
    cancelled   \* history: the context ended during a call

config  == <<opts, account, offered, link, style, peer>>
clientv == <<cpc, state, mech, ini, last, result, calls>>
serverv == <<spc, resp, keys, sauth, asked, commits>>
vars    == <<config, clientv, serverv, toServer, toClient, up, fault, cancelled>>

(***************************************************************************)
(* Lines.                                                                  *)
(***************************************************************************)
line(form, octets) == [form |-> form, octets |-> octets]
encodeSASL(octets) == IF octets = <<>> THEN line("=", <<>>) ELSE line("base64", octets)
encodeChallenge(octets) == IF octets = <<>> THEN line("", <<>>) ELSE line("base64", octets)
decodable(l) == l.form # "bad"

\* decodeSASLResponse and decodeChallenge, for what is decodable.
decodeSASLResponse(l) == IF l.form = "*" THEN Star ELSE l.octets

(***************************************************************************)
(* The client.                                                             *)
(***************************************************************************)
Preference == <<"SCRAM-PLUS", "SCRAM", "CRAM-MD5", "OAUTHBEARER", "XOAUTH2", "EXTERNAL",
                "PLAIN", "LOGIN">>

available == IF link = "tls" THEN offered ELSE offered \ {"SCRAM-PLUS"}

selectMechanism ==
    Preference[CHOOSE i \in DOMAIN Preference :
                  /\ Preference[i] \in available
                  /\ \A j \in 1..(i - 1) : Preference[j] \notin available]

needsSecret(m) == m # "EXTERNAL"

Send(m) == toServer' = Append(toServer, m)
Return(r) == cpc' = "idle" /\ result' = r
poison == state' = "closed" /\ up' = FALSE

\* Auth up to the write of the AUTH command.
Auth ==
    /\ cpc = "idle"
    /\ calls < MaxCalls
    /\ state = "greeted"
    /\ calls' = calls + 1
    /\ IF available = {} \/ (needsSecret(selectMechanism) /\ link = "plain")
       THEN Return("refused") /\ UNCHANGED <<mech, ini, last, toServer>>
       ELSE /\ mech' = selectMechanism
            /\ ini' = Initiator
            /\ last' = FALSE
            /\ Send([verb |-> "AUTH", mech |-> mech',
                     initial |-> IF ServerFirst(mech') \/ style = "waits" THEN line("none", <<>>)
                                 ELSE encodeSASL(Start(mech', opts))])
            /\ cpc' = "wait"
            /\ UNCHANGED result
    /\ UNCHANGED <<config, state, serverv, toClient, up, fault, cancelled>>

\* pipeline.read: a reply, or the end of the connection.
ReadReply ==
    /\ cpc = "wait"
    /\ toClient # <<>>
    /\ IF Head(toClient).code = 334 /\ last
       THEN Return("failed") /\ poison /\ UNCHANGED toClient
       ELSE cpc' = "got" /\ UNCHANGED <<result, state, up, toClient>>
    /\ UNCHANGED <<config, mech, ini, last, calls, serverv, toServer, fault, cancelled>>

ReadFails ==
    /\ cpc \in {"wait", "cancel", "ehlo"}
    /\ toClient = <<>>
    /\ ~up
    /\ Return("failed")
    /\ poison
    /\ UNCHANGED <<config, mech, ini, last, calls, serverv, toServer, toClient, fault, cancelled>>

\* A client that waited gives its first message on the first empty challenge.
respond(challenge) ==
    IF style = "waits" /\ ~ServerFirst(mech) /\ ini.step = 0 /\ challenge = <<>>
    THEN Answer(Start(mech, opts), FALSE, ini)
    ELSE NextResponse(mech, opts, ini, challenge)

\* Mutant: a malformed challenge ends the call and nothing else.
HandleChallengeNoCancel ==
    LET challenge == decodeSASLResponse(Head(toClient).text)
        answer    == respond(challenge)
    IN  /\ cpc = "got"
        /\ Head(toClient).code = 334
        /\ toClient' = Tail(toClient)
        /\ IF decodable(Head(toClient).text) /\ answer.ok
           THEN /\ Send([verb |-> "line", text |-> encodeSASL(answer.response)])
                /\ ini' = answer.st /\ last' = answer.done
                /\ cpc' = "wait"
                /\ UNCHANGED result
           ELSE Return("failed") /\ UNCHANGED <<ini, last, toServer>>
        /\ UNCHANGED <<config, state, mech, calls, serverv, up, fault, cancelled>>

\* A 334: decode, ask the mechanism, and answer or cancel.
HandleChallenge ==
    LET challenge == decodeSASLResponse(Head(toClient).text)
        answer    == respond(challenge)
    IN  /\ cpc = "got"
        /\ Head(toClient).code = 334
        /\ toClient' = Tail(toClient)
        /\ IF decodable(Head(toClient).text) /\ answer.ok
           THEN /\ Send([verb |-> "line", text |-> encodeSASL(answer.response)])
                /\ ini' = answer.st /\ last' = answer.done
                /\ cpc' = "wait"
           ELSE /\ Send([verb |-> "line", text |-> line("*", <<>>)])
                /\ cpc' = "cancel"
                /\ UNCHANGED <<ini, last>>
        /\ UNCHANGED <<config, state, mech, result, calls, serverv, up, fault, cancelled>>

\* Any other reply ends the exchange; after 235 the extensions are asked for
\* again.
HandleFinal ==
    /\ cpc = "got"
    /\ Head(toClient).code # 334
    /\ toClient' = Tail(toClient)
    /\ IF Head(toClient).code = 235
       THEN /\ state' = "authenticated"
            /\ Send([verb |-> "EHLO"])
            /\ cpc' = "ehlo"
            /\ UNCHANGED <<result, up>>
       ELSE IF Head(toClient).code = 421
       THEN Return("failed") /\ poison /\ UNCHANGED toServer
       ELSE Return("failed") /\ UNCHANGED <<state, up, toServer>>
    /\ UNCHANGED <<config, mech, ini, last, calls, serverv, fault, cancelled>>

\* cancelAuth reads the answer to "*".
HandleCancelled ==
    /\ cpc = "cancel"
    /\ toClient # <<>>
    /\ toClient' = Tail(toClient)
    /\ Return("failed")
    /\ IF Head(toClient).code # 501 THEN poison ELSE UNCHANGED <<state, up>>
    /\ UNCHANGED <<config, mech, ini, last, calls, serverv, toServer, fault, cancelled>>

HandleEHLO ==
    /\ cpc = "ehlo"
    /\ toClient # <<>>
    /\ toClient' = Tail(toClient)
    /\ Return(IF Head(toClient).code = 250 THEN "ok" ELSE "failed")
    /\ IF Head(toClient).code = 421 THEN poison ELSE UNCHANGED <<state, up>>
    /\ UNCHANGED <<config, mech, ini, last, calls, serverv, toServer, fault, cancelled>>

\* The context ends: before authResponse or a read looks at it the call
\* returns and leaves the connection; during a write or a read it is poisoned.
Cancel ==
    /\ cpc # "idle"
    /\ ~cancelled
    /\ cancelled' = TRUE
    /\ Return("failed")
    /\ \/ poison
       \/ UNCHANGED <<state, up>>
    /\ UNCHANGED <<config, mech, ini, last, calls, serverv, toServer, toClient, fault>>

(***************************************************************************)
(* The backend.                                                            *)
(***************************************************************************)
knows(m, credentials) ==
    CASE m \in {"PLAIN", "LOGIN"} ->
             credentials.user = account.user /\ credentials.password = account.password
      [] m = "OAUTHBEARER" -> credentials.token = account.token
      [] m = "XOAUTH2" ->
             credentials.user = account.user /\ credentials.token = account.token
      [] m = "EXTERNAL" -> TRUE
      [] OTHER -> credentials.user = account.user

accepts(step) ==
    IF step.kind = "challenge-response"
    THEN step.response = account.user \o <<" ", cramDigest(account.password, <<"<nonce@host>">>)>>
    ELSE knows(step.r.m, step.credentials)

storedKeys(iterations) ==
    [password |-> account.password, salt |-> <<"S">>, iterations |-> <<iterations>>]

(***************************************************************************)
(* The server.                                                             *)
(***************************************************************************)
Say(code) == toClient' = Append(toClient, [code |-> code, text |-> line("", <<>>)])

\* finalizeAuthentication: the only place where the backend commits.
finalizeAuthentication == commits' = commits + 1

\* What handleAUTH does with a step that asks the backend for nothing.
authExchangeError(why) ==
    IF why \in {"aborted", "payload"} THEN Say(501) /\ spc' = "loop" /\ UNCHANGED up
    ELSE spc' = "closed" /\ up' = FALSE /\ UNCHANGED toClient

Emit(step) ==
    /\ resp' = step.r
    /\ CASE step.is = "challenge" ->
                /\ toClient' = Append(toClient, [code |-> 334, text |-> encodeChallenge(step.octets)])
                /\ spc' = "challenge"
                /\ UNCHANGED <<sauth, commits, up>>
         [] step.is = "error" -> authExchangeError(step.why) /\ UNCHANGED <<sauth, commits>>
         [] step.is = "done" /\ step.accepted ->
                /\ finalizeAuthentication
                /\ sauth' = TRUE
                /\ Say(235) /\ spc' = "loop"
                /\ UNCHANGED up
         [] step.is = "done" /\ ~step.accepted ->
                /\ Say(535) /\ spc' = "loop"
                /\ UNCHANGED <<sauth, commits, up>>

\* verifyAUTH and Continue: the backend decides, or fails (454).
verifyAUTH(step) ==
    /\ asked' = <<step.kind, step.credentials>>
    /\ \/ \E diagnostic \in BOOLEAN, iterations \in {"0", "4096"} :
             /\ step.r.m \notin {"OAUTHBEARER", "XOAUTH2"} => ~diagnostic
             /\ step.kind # "scram-keys" => iterations = "4096"
             /\ keys' = storedKeys(iterations)
             /\ fault' = (fault \/ iterations = "0")
             /\ \E next \in {Continue(step.r, step.kind, accepts(step), diagnostic,
                                      storedKeys(iterations))} : Emit(next)
       \/ /\ Say(454) /\ spc' = "loop"
          /\ fault' = TRUE
          /\ resp' = step.r
          /\ UNCHANGED <<keys, sauth, commits, up>>

Process(step) ==
    IF step.is = "verify" THEN verifyAUTH(step)
    ELSE Emit(step) /\ UNCHANGED <<asked, keys, fault>>

Received == toServer' = Tail(toServer)

\* handleAUTH up to its first reply.
handleAUTH ==
    LET m == Head(toServer)
    IN  /\ peer = "library" /\ up
        /\ spc = "loop"
        /\ toServer # <<>>
        /\ m.verb = "AUTH"
        /\ Received
        /\ IF sauth \/ m.mech \notin offered
           THEN Say(IF sauth THEN 503 ELSE 504) /\ UNCHANGED <<serverv, up, fault>>
           ELSE \E step \in {StartResponder(NewResponder(m.mech, "B"), m.initial.form # "none",
                                            decodeSASLResponse(m.initial))} : Process(step)
        /\ UNCHANGED <<config, clientv, cancelled>>

\* What any line is when a response is awaited.  A command with an argument
\* is not base64.
asResponse(m) == IF m.verb = "line" THEN m.text ELSE line("bad", <<>>)

\* The next round of handleAUTH's loop.
Round ==
    LET l == asResponse(Head(toServer))
    IN  /\ peer = "library" /\ up
        /\ spc = "challenge"
        /\ toServer # <<>>
        /\ Received
        /\ IF decodable(l)
           THEN \E step \in {NextResponder(resp, decodeSASLResponse(l), keys)} : Process(step)
           ELSE /\ authExchangeError("base64")
                /\ UNCHANGED <<resp, keys, sauth, asked, commits, fault>>
        /\ UNCHANGED <<config, clientv, cancelled>>

\* Another command, or a response nobody awaits: 250, 500 or the end.
OtherCommand ==
    /\ peer = "library" /\ up
    /\ spc = "loop"
    /\ toServer # <<>>
    /\ Head(toServer).verb # "AUTH"
    /\ Received
    /\ IF Head(toServer).verb = "EHLO"
       THEN Say(250) /\ UNCHANGED <<spc, up>>
       ELSE \/ Say(500) /\ UNCHANGED <<spc, up>>
            \/ spc' = "closed" /\ up' = FALSE /\ UNCHANGED toClient
    /\ UNCHANGED <<config, clientv, resp, keys, sauth, asked, commits, fault, cancelled>>

\* The read deadline passes, or the connection is gone.
ServerGivesUp ==
    /\ spc # "closed"
    /\ toServer = <<>>
    /\ up => spc = "challenge"
    /\ spc' = "closed" /\ up' = FALSE
    /\ fault' = TRUE
    /\ UNCHANGED <<config, clientv, resp, keys, sauth, asked, commits, toServer, toClient, cancelled>>

\* Another server: any reply to each line.
ForeignTexts ==
    {line("bad", <<>>), line("", <<>>), line("base64", <<"?">>),
     line("base64", <<"r", "=", "N", ",", "s", "=", "S", ",", "i", "=", "1">>)}

ForeignReply ==
    /\ peer = "foreign" /\ up
    /\ toServer # <<>>
    /\ Received
    /\ \E code \in {235, 250, 334, 421, 501, 535}, l \in ForeignTexts :
          /\ code # 334 => l.form = ""
          /\ Head(toServer).verb = "EHLO" => code \in {250, 421, 501}
          /\ toClient' = Append(toClient, [code |-> code, text |-> l])
          /\ spc' = IF code = 334 THEN "challenge" ELSE "loop"
    /\ UNCHANGED <<config, clientv, resp, keys, sauth, asked, commits, up, fault, cancelled>>

Lose ==
    /\ up
    /\ up' = FALSE
    /\ fault' = TRUE
    /\ UNCHANGED <<config, clientv, serverv, toServer, toClient, cancelled>>

Init ==
    /\ \E c \in Cases :
          /\ opts = c.opts /\ account = c.account /\ offered = c.offered
          /\ link = c.link /\ style = c.style /\ peer = c.peer
    /\ cpc = "idle" /\ state = "greeted" /\ mech = "" /\ ini = Initiator
    /\ last = FALSE /\ result = "none" /\ calls = 0
    /\ spc = "loop" /\ resp = NewResponder("", "B") /\ keys = storedKeys("4096")
    /\ sauth = FALSE /\ asked = <<"none", NoCredentials>> /\ commits = 0
    /\ toServer = <<>> /\ toClient = <<>> /\ up = TRUE
    /\ fault = FALSE /\ cancelled = FALSE

ClientStep ==
    ReadReply \/ ReadFails \/ HandleChallenge \/ HandleFinal \/ HandleCancelled \/ HandleEHLO

ServerStep == handleAUTH \/ Round \/ OtherCommand \/ ForeignReply

Next == Auth \/ ClientStep \/ ServerStep \/ Cancel \/ ServerGivesUp \/ Lose

\* Both ends run and the connection delivers: neither is for ever ready to
\* take its next step.  (Each step of a goroutine consumes what made it ready,
\* so this is what weak fairness of ClientStep and of ServerStep gives.)
ClientReady == cpc = "got" \/ (cpc \in {"wait", "cancel", "ehlo"} /\ (toClient # <<>> \/ ~up))
ServerReady == toServer # <<>> /\ up /\ spc # "closed"
Fairness == []<>~ClientReady /\ []<>~ServerReady

Spec == Init /\ [][Next]_vars /\ Fairness

(***************************************************************************)
(* Properties.                                                             *)
(***************************************************************************)
\* The type of the exchange: at most a line and an end are under way each way.
TypeOK ==
    /\ cpc \in {"idle", "wait", "got", "cancel", "ehlo"}
    /\ state \in {"greeted", "authenticated", "closed"}
    /\ mech \in Mechanisms \union {""}
    /\ result \in {"none", "ok", "refused", "failed"}
    /\ calls \in 0..MaxCalls
    /\ spc \in {"loop", "challenge", "closed"}
    /\ resp.state \in {"new", "plain", "loginUser", "loginPassword", "CRAM", "external", "oauth",
                       "OAuthDummy", "SCRAMFirst", "SCRAMProof", "SCRAMEmpty", "verify", "done"}
    /\ sauth \in BOOLEAN
    /\ Len(toServer) <= 2 /\ Len(toClient) <= 2

\* The caller's credentials are those of the account, as far as the mechanism
\* uses them.
Right ==
    CASE mech \in {"PLAIN", "LOGIN", "CRAM-MD5", "SCRAM"} ->
             opts.user = account.user /\ opts.password = account.password
      [] mech = "SCRAM-PLUS" ->
             opts.user = account.user /\ opts.password = account.password /\ opts.binding = "B"
      [] mech = "OAUTHBEARER" -> opts.token = account.token
      [] mech = "XOAUTH2" -> opts.user = account.user /\ opts.token = account.token
      [] OTHER -> TRUE

\* A value that travels alone and is "*" is taken for the cancellation.
Starred ==
    \/ mech = "LOGIN" /\ Star \in {opts.user, opts.password}
    \/ mech = "EXTERNAL" /\ opts.authz = Star

(***************************************************************************)
(* CommitAuth is called at most once, only for credentials that are right  *)
(* - for SCRAM: whose proof was checked after the lookup succeeded - and   *)
(* never by the verifier's word alone (authentication.go:11-13).           *)
(***************************************************************************)
CommittedOnlyOnProof ==
    /\ commits <= 1
    /\ sauth <=> commits = 1
    /\ commits = 1 => Right /\ ~Starred

(***************************************************************************)
(* The two ends agree: a client that took 235 from this server speaks to a *)
(* session that is authenticated, and one that was told otherwise does not *)
(* (unless the reply never came).  When a call has returned and the        *)
(* connection is kept, nobody is in the middle of an exchange: the server  *)
(* reads commands, whatever ended the exchange (auth.go:144-181).          *)
(***************************************************************************)
EndsAgree ==
    /\ peer = "library" =>
          /\ state = "authenticated" => sauth
          /\ sauth /\ cpc = "idle" /\ ~fault /\ ~cancelled => state = "authenticated"
    /\ cpc = "idle" /\ state # "closed" /\ up /\ ~cancelled =>
          spc = "loop" /\ toServer = <<>> /\ toClient = <<>>

(***************************************************************************)
(* What a backend is asked about when nothing is mixed up on the way.      *)
(***************************************************************************)
Given ==
    CASE mech = "PLAIN"       -> [NoCredentials EXCEPT !.authz = opts.authz, !.user = opts.user,
                                     !.password = opts.password]
      [] mech = "LOGIN"       -> [NoCredentials EXCEPT !.user = opts.user, !.password = opts.password]
      [] mech = "EXTERNAL"    -> [NoCredentials EXCEPT !.authz = opts.authz]
      [] mech = "OAUTHBEARER" -> [NoCredentials EXCEPT !.authz = oauthIdentity(opts), !.token = opts.token]
      [] mech = "XOAUTH2"     -> [NoCredentials EXCEPT !.user = opts.user, !.token = opts.token]
      [] mech = "CRAM-MD5"    -> NoCredentials
      [] OTHER                -> [NoCredentials EXCEPT !.user = opts.user]

(***************************************************************************)
(* What reaches the backend is what the caller gave, whatever characters   *)
(* it has: the fields are not mixed up and the escapes undone.  So right   *)
(* credentials are accepted: a call that fails has met a fault, an end of  *)
(* the context, wrong credentials, or the one value the protocol keeps for *)
(* itself.                                                                 *)
(***************************************************************************)
RightIsAccepted ==
    /\ asked[1] # "none" => asked[2] = Given
    /\ peer = "library" /\ result = "failed" =>
          fault \/ cancelled \/ Starred \/ ~Right

(***************************************************************************)
(* Every call of Auth returns, against a server that challenges for ever   *)
(* too: no mechanism answers more rounds than it has.                      *)
(***************************************************************************)
AuthReturns == (cpc # "idle") ~> (cpc = "idle")
=============================================================================
