---------------------------- MODULE Negotiation ----------------------------
(***************************************************************************)
(* What the two ends agree on before mail flows: Dial, EHLO with its HELO  *)
(* fallback, STARTTLS and the EHLO after AUTH (smtpclient/conn.go, ehlo.go,*)
(* starttls.go) against the server's greeting, capability table and        *)
(* policies (smtpserver/server.go, cmd_server.go, floor_extensions.go,     *)
(* ext_capabilities.go, capability.go, tls.go).  The server's options and  *)
(* the backend's session are any of a set of configurations; the server    *)
(* may be another implementation.  Connections are lost, deadlines pass    *)
(* and handshakes fail at any point.                                       *)
(***************************************************************************)
EXTENDS Integers, FiniteSets, Sequences

CONSTANTS
    Configs,    \* the server's options with the backend's session, see below
    MaxOps      \* bound: calls on the client after Dial

(***************************************************************************)
(* A configuration has                                                     *)
(*   foreign               another implementation answers                  *)
(*   lmtp, clientLMTP      the mode of the listener and of the client      *)
(*   tls, implicit         TLSConfig, ImplicitTLS                          *)
(*   requireTLS, requireAuth                                               *)
(*   before, after         AuthMechanismsBeforeTLS, AuthMechanismsAfterTLS *)
(*   chunking, binary      EnableCHUNKING, EnableBINARYMIME                *)
(*   verifiers             what the Session can verify, and "atrn"         *)
(*   exts                  Session.ParameterExtensions, by keyword         *)
(*   limits                Session.Limits.MailMax, NoLimits if it is nil   *)
(*   maxTx                 MaxTransactions                                 *)
(***************************************************************************)
NoLimits == -1

ASSUME ConfigsAssumption ==
    \A c \in Configs : c.limits \in Int /\ c.maxTx \in Int

VARIABLES
    cfg,
    cli,        \* the connection of the client and the call in progress
    late,       \* cancelWatcher saw the handshake's deadline before stop()
    srv,        \* the commandSession
    req, rep,   \* the command and the reply under way, as sequences
    ops

vars == <<cfg, cli, late, srv, req, rep, ops>>

(***************************************************************************)
(* The server's options.                                                   *)
(***************************************************************************)
frameworkCapabilities ==
    {"PIPELINING", "SIZE", "8BITMIME", "ENHANCEDSTATUSCODES", "STARTTLS", "AUTH", "SMTPUTF8",
     "CHUNKING", "BINARYMIME", "LIMITS", "ATRN", "ETRN", "BURL"}

\* validateConstruction and NewServer's own tests.
NewServer(c) ==
    /\ c.binary => c.chunking
    /\ c.implicit \/ c.requireTLS => c.tls
    /\ c.requireAuth => c.before # {} \/ (c.tls /\ c.after # {})

validateExtensionSession(c) ==
    /\ c.exts \intersect frameworkCapabilities = {}
    /\ "MTRK" \in c.exts => "DSN" \in c.exts
    /\ "atrn" \in c.verifiers => c.verifiers # {"atrn"}

\* The verifier a mechanism needs, and what it asks of the connection.
verifierFor(m) ==
    CASE m \in {"PLAIN", "EXTERNAL"} -> "password"
      [] m = "CRAM-MD5" -> "challenge"
      [] m \in {"SCRAM", "SCRAM-PLUS"} -> "scram"
      [] OTHER -> "none"

availableAuthMechanisms(configured, verifiers, tls, cert) ==
    {m \in configured : /\ verifierFor(m) \in verifiers
                        /\ m = "EXTERNAL" => cert
                        /\ m = "SCRAM-PLUS" => tls}

authReachable(c, s) ==
    IF s.tls THEN availableAuthMechanisms(c.after, c.verifiers, TRUE, s.cert) # {}
    ELSE \/ availableAuthMechanisms(c.before, c.verifiers, FALSE, FALSE) # {}
         \/ /\ c.tls
            /\ \/ availableAuthMechanisms(c.after, c.verifiers, TRUE, FALSE) # {}
               \/ "EXTERNAL" \in c.after /\ "password" \in c.verifiers

\* newCommandSession: the smaller of the server's bound and the backend's.
maxTransactions(c) == IF c.limits > 0 /\ c.limits < c.maxTx THEN c.limits ELSE c.maxTx

(***************************************************************************)
(* The capability table: keywords, the mechanisms of AUTH and the MAILMAX  *)
(* of LIMITS (0: not stated).                                              *)
(***************************************************************************)
NoTable == [kw |-> {}, auth |-> {}, mailmax |-> 0]

authMechanisms(c, s) ==
    IF ~s.extended THEN {}
    ELSE availableAuthMechanisms(IF s.tls THEN c.after ELSE c.before, c.verifiers, s.tls, s.cert)

\* Mutant: what is configured is listed whatever has happened.
capabilitiesStatic(c, s) ==
    [kw |-> frameworkCapabilities \union c.exts, auth |-> c.after, mailmax |-> maxTransactions(c)]

capabilities(c, s) ==
    LET auth  == authMechanisms(c, s)
        when(b, k) == IF b THEN {k} ELSE {}
    IN  [kw |-> {"PIPELINING", "SIZE", "8BITMIME", "ENHANCEDSTATUSCODES", "SMTPUTF8"}
                  \union when(~s.tls /\ c.tls, "STARTTLS")
                  \union when(auth # {} /\ ~s.authed, "AUTH")
                  \union when(c.chunking, "CHUNKING")
                  \union when(c.chunking /\ c.binary, "BINARYMIME")
                  \union {k \in c.exts : k = "FUTURERELEASE" => ~c.lmtp}
                  \union when(c.limits # NoLimits, "LIMITS")
                  \union when("atrn" \in c.verifiers /\ auth # {} /\ ~c.lmtp, "ATRN"),
         auth |-> IF s.authed THEN {} ELSE auth,
         mailmax |-> IF c.limits = NoLimits THEN 0 ELSE maxTransactions(c)]

(***************************************************************************)
(* The parameters of MAIL: the extension each is checked against by the    *)
(* client's encoders, and what the server asks of it.                      *)
(***************************************************************************)
Parameters == {"none", "SIZE", "7BIT", "8BITMIME", "BINARYMIME", "SMTPUTF8", "AUTH", "RET",
               "MTRK", "HOLDFOR", "REQUIRETLS"}

parameterExtension(p) ==
    CASE p \in {"none", "7BIT"} -> {}
      [] p = "BINARYMIME" -> {"BINARYMIME", "CHUNKING"}
      [] p = "SMTPUTF8" -> {"SMTPUTF8", "8BITMIME"}
      [] p = "RET" -> {"DSN"}
      [] p = "MTRK" -> {"MTRK", "DSN"}
      [] p = "HOLDFOR" -> {"FUTURERELEASE"}
      [] OTHER -> {p}

mailParameterFeatures(c, s, p) ==
    CASE p = "none" -> TRUE
      [] p \in {"SIZE", "7BIT", "8BITMIME", "SMTPUTF8"} -> s.extended
      [] p = "BINARYMIME" -> c.binary /\ c.chunking
      [] p = "AUTH" -> authMechanisms(c, s) # {}
      [] p = "RET" -> "DSN" \in c.exts
      [] p = "MTRK" -> {"MTRK", "DSN"} \subseteq c.exts
      [] p = "HOLDFOR" -> "FUTURERELEASE" \in c.exts /\ ~c.lmtp
      [] p = "REQUIRETLS" -> "REQUIRETLS" \in c.exts

(***************************************************************************)
(* The client.  pc is where the call op stands: a call that is over leaves *)
(* "idle", a Dial that failed "failed".                                    *)
(***************************************************************************)
newClient(c) ==
    [state |-> "connected", base |-> "connected", tls |-> FALSE, raw |-> TRUE,
     ext |-> NoTable, era |-> FALSE, op |-> "dial",
     pc |-> IF c.implicit THEN "handshake" ELSE "greeting"]

poison(c) == [c EXCEPT !.state = "closed", !.raw = FALSE]

\* The call returns.  Dial closes what it cannot return.
returns(c, ok) ==
    IF c.op = "dial" /\ ~ok THEN [c EXCEPT !.pc = "failed", !.raw = FALSE]
    ELSE [c EXCEPT !.pc = "idle"]

\* executeLocked of one command: refused when closed, a failed write poisons.
issue(c, m, pc) ==
    IF c.state = "closed" \/ ~c.raw
    THEN cli' = returns(poison(c), FALSE) /\ UNCHANGED req
    ELSE cli' = [c EXCEPT !.pc = pc] /\ req' = Append(req, m)

hello == [verb |-> IF cfg.clientLMTP THEN "LHLO" ELSE "EHLO", arg |-> "none"]

\* Another call, once the one before has left opMu.
Calls ==
    /\ cli.pc = "idle"
    /\ ops < MaxOps
    /\ ops' = ops + 1
    /\ UNCHANGED <<cfg, late, srv, rep>>

StartTLS ==
    /\ Calls
    /\ cli.state = "greeted"
    /\ "STARTTLS" \in cli.ext.kw
    /\ issue([cli EXCEPT !.op = "starttls"], [verb |-> "STARTTLS", arg |-> "none"], "starttls")

\* Auth: any mechanism of the table the caller may ask for on this transport.
Auth ==
    \E m \in cli.ext.auth :
        /\ Calls
        /\ cli.state \in {"greeted", "tls"}
        /\ "AUTH" \in cli.ext.kw
        /\ m = "SCRAM-PLUS" => cli.tls
        /\ issue([cli EXCEPT !.op = "auth"], [verb |-> "AUTH", arg |-> m], "auth")

\* Mail: mailArgs looks the parameters up under the same lock.
Mail ==
    \E p \in Parameters :
        /\ Calls
        /\ cli.state \in {"greeted", "tls", "authenticated"}
        /\ parameterExtension(p) \subseteq cli.ext.kw
        /\ p = "REQUIRETLS" => cli.tls
        /\ issue([cli EXCEPT !.op = "mail"], [verb |-> "MAIL", arg |-> p], "mail")

Reset ==
    /\ Calls
    /\ cli.state \in {"greeted", "tls", "authenticated", "transaction"}
    /\ issue([cli EXCEPT !.op = "rset"], [verb |-> "RSET", arg |-> "none"], "rset")

\* upgradeTLS failed, if only by its deadline.
HandshakeFails ==
    /\ cli.pc = "handshake"
    /\ cli' = returns(IF cli.op = "dial" THEN cli ELSE poison(cli), FALSE)
    /\ UNCHANGED <<cfg, late, srv, req, rep, ops>>

\* Mutant: the state is set whatever the watcher has done.
UpgradedUnguarded ==
    /\ cli.pc = "upgraded"
    /\ IF cli.op = "dial"
       THEN cli' = [cli EXCEPT !.pc = "greeting"]
       ELSE cli' = [cli EXCEPT !.state = "tls", !.pc = "hello"]
    /\ UNCHANGED <<cfg, late, srv, req, rep, ops>>

\* The handshake is over: the greeting comes next, or state and EHLO.
Upgraded ==
    /\ cli.pc = "upgraded"
    /\ IF cli.op = "dial"
       THEN cli' = [cli EXCEPT !.pc = "greeting"]
       ELSE cli' = [cli EXCEPT !.state = IF @ = "closed" THEN @ ELSE "tls", !.pc = "hello"]
    /\ UNCHANGED <<cfg, late, srv, req, rep, ops>>

\* newClient after the greeting: the state is set whatever it was.
Welcomed ==
    /\ cli.pc = "welcomed"
    /\ cli' = [cli EXCEPT !.state = IF cfg.implicit THEN "tls" ELSE "greeted", !.pc = "hello"]
    /\ UNCHANGED <<cfg, late, srv, req, rep, ops>>

Hello ==
    /\ cli.pc = "hello"
    /\ issue(cli, hello, "ehlo")
    /\ UNCHANGED <<cfg, late, srv, rep, ops>>

\* The watcher goroutine of the handshake, at its own pace.
LatePoison ==
    /\ late
    /\ late' = FALSE
    /\ cli' = poison(cli)
    /\ UNCHANGED <<cfg, srv, req, rep, ops>>

Pending == {"greeting", "ehlo", "helo", "starttls", "mail", "auth", "rset"}

\* pipeline.read ends without a reply: closed, deadline or cancellation.
ReadFails ==
    /\ cli.pc \in Pending
    /\ cli' = returns(poison(cli), FALSE)
    /\ UNCHANGED <<cfg, late, srv, req, rep, ops>>

\* ehloLocked's and heloLocked's end: the table of a session that still is.
learns(c, r) ==
    returns(IF c.state = "closed" THEN c ELSE [c EXCEPT !.ext = r.ext, !.era = r.tls], TRUE)

\* Mutant: the old table stays until the new one is here.
startTLSKeeps(c) == [c EXCEPT !.pc = "handshake"]

\* StartTLS after 220: the table goes before the handshake starts.
startTLSClears(c) == [c EXCEPT !.ext = NoTable, !.pc = "handshake"]

\* What each call makes of its reply.
HandleGreeting(r) ==
    /\ cli.pc = "greeting"
    /\ cli' = IF r.code = 220 THEN [cli EXCEPT !.pc = "welcomed"] ELSE returns(cli, FALSE)
    /\ UNCHANGED req

HandleEHLO(r) ==
    /\ cli.pc = "ehlo"
    /\ IF r.code \in {500, 502} /\ ~cfg.clientLMTP
       THEN issue(cli, [verb |-> "HELO", arg |-> "none"], "helo")
       ELSE /\ cli' = IF r.code # 250 THEN returns(cli, FALSE)
                      ELSE IF r.bad THEN returns(poison(cli), FALSE)
                      ELSE learns(cli, r)
            /\ UNCHANGED req

HandleHELO(r) ==
    /\ cli.pc = "helo"
    /\ cli' = IF r.code # 250 THEN returns(cli, FALSE) ELSE learns(cli, [r EXCEPT !.ext = NoTable])
    /\ UNCHANGED req

HandleStartTLS(r) ==
    /\ cli.pc = "starttls"
    /\ cli' = IF r.code # 220 THEN returns(cli, FALSE) ELSE startTLSClears(cli)
    /\ UNCHANGED req

\* Mutant: the table from before AUTH is kept.
HandleAuthKeeps(r) ==
    /\ cli.pc = "auth"
    /\ cli' = IF r.code # 235 THEN returns(cli, FALSE)
              ELSE returns([cli EXCEPT !.state = IF @ = "closed" THEN @ ELSE "authenticated"], TRUE)
    /\ UNCHANGED req

HandleAuth(r) ==
    /\ cli.pc = "auth"
    /\ cli' = IF r.code # 235 THEN returns(cli, FALSE)
              ELSE [cli EXCEPT !.state = IF @ = "closed" THEN @ ELSE "authenticated", !.pc = "hello"]
    /\ UNCHANGED req

HandleMail(r) ==
    /\ cli.pc = "mail"
    /\ cli' = returns(IF r.code # 250 \/ cli.state = "closed" THEN cli
                      ELSE [cli EXCEPT !.base = cli.state, !.state = "transaction"], r.code = 250)
    /\ UNCHANGED req

HandleReset(r) ==
    /\ cli.pc = "rset"
    /\ cli' = returns(IF r.code = 250 /\ cli.state = "transaction"
                      THEN [cli EXCEPT !.state = cli.base] ELSE cli, r.code = 250)
    /\ UNCHANGED req

\* pipeline.read: a 421 poisons whatever the call.
ReadReply ==
    /\ cli.pc \in Pending
    /\ cli.raw
    /\ rep # <<>>
    /\ rep' = <<>>
    /\ LET r == Head(rep)
       IN  IF r.code = 421 THEN cli' = returns(poison(cli), FALSE) /\ UNCHANGED req
           ELSE \/ HandleGreeting(r) \/ HandleEHLO(r) \/ HandleHELO(r) \/ HandleStartTLS(r)
                \/ HandleAuth(r) \/ HandleMail(r) \/ HandleReset(r)
    /\ UNCHANGED <<cfg, late, srv, ops>>

(***************************************************************************)
(* The server.  at is where serveConnection stands.                        *)
(***************************************************************************)
newCommandSession(c) ==
    [at |-> IF c.implicit THEN "handshake" ELSE "new", phase |-> "connected", tls |-> FALSE,
     cert |-> FALSE, authed |-> FALSE, extended |-> FALSE, attempts |-> 0]

reply(code) ==
    [code |-> code, bad |-> FALSE, limit |-> FALSE, ext |-> NoTable, tls |-> srv.tls]

Says(code) == rep' = <<reply(code)>>

\* serveConnection from NewSession to the greeting.
Greet ==
    /\ srv.at = "new" /\ ~cfg.foreign
    /\ IF validateExtensionSession(cfg) /\ (cfg.requireAuth => authReachable(cfg, srv))
       THEN \/ Says(220) /\ srv' = [srv EXCEPT !.at = "loop"]
            \/ Says(421) /\ srv' = [srv EXCEPT !.at = "closed"]     \* NewSession failed
       ELSE Says(421) /\ srv' = [srv EXCEPT !.at = "closed"]
    /\ UNCHANGED <<cfg, cli, late, req, ops>>

\* legality: the rows of commandRules a command of this client meets.
wrongMode(verb) == verb \in (IF cfg.lmtp THEN {"EHLO", "HELO"} ELSE {"LHLO"})

wrongState(verb) ==
    CASE verb \in {"EHLO", "HELO", "LHLO"} -> FALSE
      [] verb = "STARTTLS" -> srv.phase # "ready" \/ srv.tls
      [] verb = "AUTH" -> srv.phase # "ready" \/ srv.authed
      [] verb = "RSET" -> srv.phase \notin {"ready", "mail"}

\* Mutant: the mechanisms are not looked at again once TLS is up.
handleHelloTrusting(verb) ==
    LET s == [srv EXCEPT !.phase = "ready", !.extended = (verb # "HELO")]
    IN  /\ srv' = s
        /\ rep' = <<[reply(250) EXCEPT !.ext = IF s.extended THEN capabilities(cfg, s) ELSE NoTable]>>

handleHello(verb) ==
    LET s == [srv EXCEPT !.phase = "ready", !.extended = (verb # "HELO")]
    IN  IF cfg.requireAuth /\ s.tls /\ ~s.authed /\ authMechanisms(cfg, s) = {}
        THEN Says(421) /\ srv' = [s EXCEPT !.at = "closed"]
        ELSE /\ srv' = s
             /\ rep' = <<[reply(250) EXCEPT !.ext = IF s.extended THEN capabilities(cfg, s)
                                                    ELSE NoTable]>>

handleSTARTTLS ==
    IF ~srv.extended \/ ~cfg.tls THEN Says(502) /\ UNCHANGED srv
    ELSE Says(220) /\ srv' = [srv EXCEPT !.at = "handshake"]

\* handleAUTH as one step: the exchange is module Authentication.
handleAUTH(m) ==
    IF m \notin authMechanisms(cfg, srv) THEN Says(504) /\ UNCHANGED srv
    ELSE \/ Says(235) /\ srv' = [srv EXCEPT !.authed = TRUE]
         \/ \E code \in {454, 535} : Says(code) /\ UNCHANGED srv

\* MAIL with execute's count: every MAIL is an attempt, whatever becomes of it.
handleMail(p) ==
    LET s == [srv EXCEPT !.attempts = @ + 1]
    IN  IF s.attempts > maxTransactions(cfg)
        THEN /\ rep' = <<[reply(421) EXCEPT !.limit = TRUE]>>
             /\ srv' = [s EXCEPT !.at = "closed"]
        ELSE IF s.phase \notin {"ready", "mail"} THEN Says(503) /\ srv' = s
        ELSE IF (cfg.requireTLS /\ ~s.tls) \/ (cfg.requireAuth /\ ~s.authed)
        THEN Says(530) /\ srv' = s
        ELSE IF (~s.extended /\ p # "none") \/ ~mailParameterFeatures(cfg, s, p)
        THEN Says(501) /\ srv' = s
        ELSE \/ Says(250) /\ srv' = [s EXCEPT !.phase = "mail"]
             \/ Says(451) /\ srv' = [s EXCEPT !.phase = "ready"]

handleRSET == Says(250) /\ srv' = [srv EXCEPT !.phase = "ready"]

handle(m) ==
    IF m.verb = "MAIL" THEN handleMail(m.arg)
    ELSE IF wrongMode(m.verb) THEN Says(500) /\ UNCHANGED srv
    ELSE IF wrongState(m.verb) THEN Says(503) /\ UNCHANGED srv
    ELSE CASE m.verb \in {"EHLO", "HELO", "LHLO"} -> handleHello(m.verb)
           [] m.verb = "STARTTLS" -> handleSTARTTLS
           [] m.verb = "AUTH" -> handleAUTH(m.arg)
           [] m.verb = "RSET" -> handleRSET

execute ==
    /\ srv.at = "loop" /\ ~cfg.foreign
    /\ req # <<>> /\ rep = <<>>
    /\ req' = <<>>
    /\ handle(Head(req))
    /\ UNCHANGED <<cfg, cli, late, ops>>

\* Both ends of a handshake.  The client's watcher may have seen its deadline
\* and not have acted; handleSTARTTLS forgets what it learned in the clear.
Handshake ==
    /\ cli.pc = "handshake" /\ cli.raw
    /\ srv.at = "handshake" /\ rep = <<>>
    /\ cli' = [cli EXCEPT !.tls = TRUE, !.pc = "upgraded"]
    /\ \E cert, expired \in BOOLEAN :
          /\ late' = expired
          /\ srv' = [srv EXCEPT !.tls = TRUE, !.cert = cert, !.authed = FALSE, !.extended = FALSE,
                                !.phase = "connected", !.at = IF cfg.implicit THEN "new" ELSE "loop"]
    /\ UNCHANGED <<cfg, req, rep, ops>>

\* The server's end of the connection goes: a deadline, an error, a loss.
Gone ==
    /\ srv.at # "closed"
    /\ srv' = [srv EXCEPT !.at = "closed"]
    /\ req' = <<>>
    /\ UNCHANGED <<cfg, cli, late, rep, ops>>

\* Another server: a greeting, then any of these answers.
ForeignTables ==
    {[kw |-> {"STARTTLS", "DSN"}, auth |-> {}, mailmax |-> 0],
     [kw |-> {"AUTH", "REQUIRETLS"}, auth |-> {"PLAIN"}, mailmax |-> 0]}

ForeignAnswers(verb) ==
    CASE verb \in {"EHLO", "LHLO"} ->
             {reply(c) : c \in {421, 500, 502, 550}} \union {[reply(250) EXCEPT !.bad = TRUE]}
               \union {[reply(250) EXCEPT !.ext = t] : t \in ForeignTables}
      [] verb = "HELO" -> {reply(550)} \union {[reply(250) EXCEPT !.ext = t] : t \in ForeignTables}
      [] verb = "STARTTLS" -> {reply(220), reply(454)}
      [] verb = "AUTH" -> {reply(235), reply(535)}
      [] OTHER -> {reply(250), reply(550)}

ForeignReply ==
    /\ cfg.foreign /\ rep = <<>>
    /\ \/ /\ srv.at = "new"
          /\ rep' \in {<<reply(c)>> : c \in {220, 554}}
          /\ srv' = [srv EXCEPT !.at = "loop"]
          /\ UNCHANGED req
       \/ /\ srv.at = "loop" /\ req # <<>>
          /\ req' = <<>>
          /\ \E r \in ForeignAnswers(Head(req).verb) :
                /\ rep' = <<r>>
                /\ srv' = IF Head(req).verb = "STARTTLS" /\ r.code = 220
                          THEN [srv EXCEPT !.at = "handshake"] ELSE srv
    /\ UNCHANGED <<cfg, cli, late, ops>>

Init ==
    /\ cfg \in {c \in Configs : NewServer(c)}
    /\ cli = newClient(cfg)
    /\ srv = newCommandSession(cfg)
    /\ late = FALSE /\ req = <<>> /\ rep = <<>> /\ ops = 0

ClientStep == HandshakeFails \/ Upgraded \/ Welcomed \/ Hello \/ ReadFails \/ ReadReply

Next ==
    \/ StartTLS \/ Auth \/ Mail \/ Reset
    \/ ClientStep \/ LatePoison
    \/ Greet \/ execute \/ Handshake \/ Gone \/ ForeignReply

\* The client's goroutine runs, and each of its waits has a deadline.  Of the
\* server and the network nothing is assumed.
Spec == Init /\ [][Next]_vars /\ WF_vars(ClientStep)

(***************************************************************************)
(* Properties.                                                             *)
(***************************************************************************)
\* The type of the two ends: one command and one reply are under way at most,
\* and the client knows keywords of the table only.
TypeOK ==
    /\ cli.state \in {"connected", "greeted", "tls", "authenticated", "transaction", "closed"}
    /\ cli.pc \in Pending \union {"handshake", "upgraded", "welcomed", "hello", "idle", "failed"}
    /\ cli.ext.kw \subseteq frameworkCapabilities \union cfg.exts \union {"DSN", "REQUIRETLS"}
    /\ srv.at \in {"handshake", "new", "loop", "closed"}
    /\ srv.phase \in {"connected", "ready", "mail"}
    /\ srv.attempts \in 0..MaxOps
    /\ Len(req) <= 1 /\ Len(rep) <= 1

\* Between calls on a session both ends hold, they agree on the security of
\* the connection, on the login and on the transaction, and the table
\* Extension() reads is the one the server would send now: after STARTTLS,
\* after AUTH and after anything refused (handleHello, capabilities against
\* ehloLocked, StartTLS and Auth).
SessionAgrees ==
    (cli.pc = "idle" /\ cli.state # "closed" /\ srv.at = "loop" /\ ~cfg.foreign) =>
        LET base == IF cli.state = "transaction" THEN cli.base ELSE cli.state
        IN  /\ cli.tls = srv.tls
            /\ (base = "authenticated") <=> srv.authed
            /\ (cli.state = "transaction") <=> (srv.phase = "mail")
            /\ cli.ext = capabilities(cfg, srv)
            /\ req = <<>> /\ rep = <<>>

\* What the client's own tests let through is never answered by the server as
\* unknown, out of order, malformed or unsupported: the table it is checked
\* against means to the handlers what it means to the encoders
\* (parameterExtension against mailParameterFeatures, commandRules).  The
\* MAILMAX in it is the one that is enforced: the transaction limit ends the
\* session on the first MAIL past it and never before (newCommandSession,
\* formatLimits, execute).
TableHonoured ==
    /\ (rep # <<>> /\ ~cfg.foreign /\ cli.pc \in {"starttls", "auth", "mail", "rset"}) =>
          Head(rep).code \notin {500, 501, 502, 503, 504}
    /\ (rep # <<>> /\ cli.pc = "mail" /\ cli.ext.mailmax > 0) =>
          (Head(rep).limit <=> srv.attempts > cli.ext.mailmax)

\* A table learned in the clear is never readable once the transport is being
\* upgraded, whatever server sent it (StartTLS clears it before the handshake).
TableFresh ==
    cli.ext # NoTable =>
        cli.era = cli.tls /\ cli.pc \notin {"handshake", "upgraded"}

\* A session the server greeted and still holds is never a dead end: MAIL is
\* open to it, or a step towards it is advertised (NewServer's tests,
\* authReachable and the second look of handleHello after TLS).
NoDeadEnd ==
    (srv.at = "loop" /\ srv.phase = "ready" /\ srv.extended /\ ~cfg.foreign) =>
        \/ (cfg.requireTLS => srv.tls) /\ (cfg.requireAuth => srv.authed)
        \/ {"STARTTLS", "AUTH"} \intersect capabilities(cfg, srv).kw # {}

\* A client in its caller's hands that is not closed has an open connection:
\* the watcher of a handshake that poisons late is never overruled
\* (StartTLS, upgradeTLS, poison).
OpenIsOpen ==
    (cli.pc # "failed" /\ cli.op # "dial" /\ cli.state # "closed") => cli.raw

\* Dial and every call after it return, whatever the server does
\* (upgradeTLS's and read's deadlines).
CallsReturn == []<>(cli.pc \in {"idle", "failed"})
=============================================================================
