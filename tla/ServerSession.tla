---------------------------- MODULE ServerSession ----------------------------
(***************************************************************************)
(* One accepted connection of smtpserver: the protocol state machine       *)
(* (state.go), the transaction lifecycle (lifecycle.go) and every command  *)
(* handler (cmd_session.go, cmd_data.go, cmd_auth.go, floor_extensions.go, *)
(* ext_atrn.go), from serveConnection to the deferred close.  The handlers *)
(* run on one goroutine, so a step is a whole handler.  What the peer      *)
(* sends, what the backend answers, whether it panics and whether a write  *)
(* reaches the peer are chosen freely in each step.                        *)
(***************************************************************************)
EXTENDS BackendContract, FiniteSets

CONSTANTS
    Servers,          \* the server configurations considered
    MaxRcpt,          \* Server.maxRcpt
    MaxTransactions   \* commandSession.maxTransactions

VARIABLES
    server,           \* Server and backend configuration, never changes
    loop,             \* where the connection's goroutine is
    phase,            \* protocolState.phase
    tls,              \* protocolState.tls
    authenticated,    \* protocolState.authenticated
    peerCert,         \* the TLS peer presented a certificate
    extended,         \* commandSession.extended: greeted with EHLO or LHLO
    smtpUTF8,         \* commandSession.smtpUTF8
    binaryMIME,       \* commandSession.binaryMIME
    recipients,       \* len(commandSession.recipients)
    mailAttempts,     \* commandSession.mailAttempts
    transactionOpen,  \* sessionLifecycle.transactionOpen
    spool,            \* sessionLifecycle.spool # nil
    reply,            \* code of the last reply the last step wrote, 0 if none
    backend,          \* history: the backend's account of the calls made
    refused           \* history: protocolState.transition returned an error

config    == <<server>>
protocol  == <<phase, tls, authenticated>>
greeting  == <<peerCert, extended>>
flags     == <<smtpUTF8, binaryMIME, recipients>>
lifecycle == <<transactionOpen, spool, backend>>
session   == <<server, protocol, greeting, flags, mailAttempts, lifecycle, refused>>
vars      == <<session, loop, reply>>

(***************************************************************************)
(* Configurations: what NewServer lets through.  authBefore and authAfter  *)
(* say whether the configured mechanisms that the backend supports leave   *)
(* one to offer before and after TLS; "external" is EXTERNAL alone, which  *)
(* needs a client certificate.  NewServer's own check for RequireAuth is   *)
(* over the configured names only: the backend may support none of them.   *)
(***************************************************************************)
ServerOptions ==
    [mode : {"smtp", "lmtp"}, tlsConfig : BOOLEAN, implicitTLS : BOOLEAN,
     requireTLS : BOOLEAN, requireAuth : BOOLEAN, authBefore : BOOLEAN,
     authAfter : {"none", "external", "some"},
     chunking : BOOLEAN, binaryMIME : BOOLEAN]

validateConstruction(c) ==
    /\ c.binaryMIME => c.chunking
    /\ c.implicitTLS => c.tlsConfig
    /\ c.requireTLS => c.tlsConfig

ASSUME ServersAssumption ==
    Servers \subseteq {c \in ServerOptions : validateConstruction(c)}
ASSUME LimitsAssumption ==
    MaxRcpt \in Nat \ {0} /\ MaxTransactions \in Nat

(***************************************************************************)
(* state.go: the sequencing tables.                                        *)
(***************************************************************************)
Phases == {"connected", "ready", "mail", "recipients", "failedBDAT", "closed"}

Rule(modes, phases) == [modes |-> modes, phases |-> phases]
Both == {"smtp", "lmtp"}
\* Mutant: RSET is not required after a failed chunk.
GreetedOrFailed == {"ready", "mail", "recipients", "failedBDAT"}
Greeted == {"ready", "mail", "recipients"}

commandRules ==
    [HELO |-> Rule({"smtp"}, Greeted \union {"connected"}),
     EHLO |-> Rule({"smtp"}, Greeted \union {"connected"}),
     LHLO |-> Rule({"lmtp"}, Greeted \union {"connected"}),
     MAIL |-> Rule(Both, Greeted),
     RCPT |-> Rule(Both, {"mail", "recipients"}),
     DATA |-> Rule(Both, {"recipients"}),
     BDAT |-> Rule(Both, Greeted \union {"failedBDAT"}),
     RSET |-> Rule(Both, Greeted \union {"failedBDAT"}),
     NOOP |-> Rule(Both, Greeted \union {"connected", "failedBDAT"}),
     QUIT |-> Rule(Both, Greeted \union {"connected", "failedBDAT"}),
     VRFY |-> Rule(Both, Greeted),
     EXPN |-> Rule(Both, Greeted),
     HELP |-> Rule(Both, Greeted),
     ETRN |-> Rule({"smtp"}, {"ready"}),
     STARTTLS |-> Rule(Both, {"ready"}),
     AUTH |-> Rule(Both, {"ready"}),
     ATRN |-> Rule({"smtp"}, {"ready"})]

Verbs == {"HELO", "EHLO", "LHLO", "MAIL", "RCPT", "DATA", "BDAT", "RSET",
          "NOOP", "QUIT", "VRFY", "EXPN", "HELP", "ETRN", "STARTTLS", "AUTH",
          "ATRN"}

wrongMode(verb) == server.mode \notin commandRules[verb].modes

wrongState(verb) ==
    \/ phase \notin commandRules[verb].phases
    \/ verb = "STARTTLS" /\ tls
    \/ verb = "AUTH" /\ authenticated

legality(verb) == ~wrongMode(verb) /\ ~wrongState(verb)

Transition(from, to) == [from |-> from, to |-> to]

phaseTransitions ==
    [hello               |-> Transition(Greeted \union {"connected"}, "ready"),
     mailAccepted        |-> Transition(Greeted, "mail"),
     recipientAccepted   |-> Transition({"mail", "recipients"}, "recipients"),
     transactionComplete |-> Transition({"recipients"}, "ready"),
     transactionFailed   |-> Transition({"mail", "recipients"}, "ready"),
     BDATFailed          |-> Transition({"recipients"}, "failedBDAT"),
     reset               |-> Transition(Greeted \union {"failedBDAT"}, "ready"),
     startTLS            |-> Transition({"ready"}, "connected"),
     authenticated       |-> Transition({"ready"}, "ready"),
     close               |-> Transition(Phases \ {"closed"}, "closed")]

Permits(event, p) == p \in phaseTransitions[event].from

After(event, p) ==
    IF Permits(event, p) THEN phaseTransitions[event].to ELSE p

(***************************************************************************)
(* How a handler ends.  A reply may fail to be written or flushed, and     *)
(* then the loop returns the error; after the loop only close is left.     *)
(***************************************************************************)
Answer(code) == reply' = code /\ loop' \in {"running", "closing"}
AnswerAndClose(code) == reply' = code /\ loop' = "closing"

\* The handler returns an error, or panics, before it has written a reply.
Abort == reply' = 0 /\ loop' = "closing"

\* protocolState.transition from phase p, then the reply: a refused transition
\* is returned to the loop as an error.
Transit(event, p, Ending) ==
    /\ phase' = After(event, p)
    /\ IF Permits(event, p) THEN Ending /\ UNCHANGED refused
                            ELSE Abort /\ refused' = TRUE

\* Mutant: the BINARYMIME flag survives the transaction.
clearTransactionButBinary ==
    smtpUTF8' = FALSE /\ recipients' = 0 /\ UNCHANGED binaryMIME

clearTransaction == smtpUTF8' = FALSE /\ binaryMIME' = FALSE /\ recipients' = 0

(***************************************************************************)
(* lifecycle.go.  The fields change before the backend's Reset is called,  *)
(* so a Reset that panics leaves them changed.                             *)
(***************************************************************************)
resetFrom(account, reason) ==
    /\ transactionOpen' = FALSE
    /\ spool' = FALSE
    /\ backend' = ResetCall(account, reason)

reset(reason) == resetFrom(backend, reason)

resetIfOpen(attached, reason) ==
    IF transactionOpen \/ attached THEN reset(reason) ELSE UNCHANGED lifecycle

ResetPanics(account, reason) ==
    /\ resetFrom(account, reason)
    /\ Abort
    /\ UNCHANGED <<protocol, greeting, flags, refused>>

(***************************************************************************)
(* execute: the loop has read a command the tables allow.  MAIL commands   *)
(* are counted first, allowed or not.                                      *)
(***************************************************************************)
Received(verb) ==
    /\ loop = "running"
    /\ legality(verb)
    /\ IF verb = "MAIL"
         THEN mailAttempts < MaxTransactions /\ mailAttempts' = mailAttempts + 1
         ELSE UNCHANGED mailAttempts
    /\ UNCHANGED server

\* No handler state changes.
Stay == UNCHANGED <<protocol, greeting, flags, lifecycle, refused>>

\* A command that the tables refuse, or an unknown verb, is answered and
\* forgotten.
RefuseCommand ==
    /\ loop = "running"
    /\ \/ \E verb \in Verbs \ {"MAIL"} :
            ~legality(verb) /\ Answer(IF wrongMode(verb) THEN 500 ELSE 503)
       \/ Answer(500)
    /\ Stay
    /\ UNCHANGED <<server, mailAttempts>>

RefuseMail ==
    /\ loop = "running"
    /\ mailAttempts' = mailAttempts + 1
    /\ \/ mailAttempts >= MaxTransactions /\ AnswerAndClose(421)
       \/ mailAttempts < MaxTransactions /\ ~legality("MAIL") /\ Answer(503)
    /\ Stay
    /\ UNCHANGED server

(***************************************************************************)
(* HELO, EHLO, LHLO.                                                       *)
(***************************************************************************)
authMechanisms(isExtended, isTLS, cert) ==
    /\ isExtended
    /\ IF isTLS THEN \/ server.authAfter = "some"
                     \/ server.authAfter = "external" /\ cert
                ELSE server.authBefore

\* RequireAuth with nothing to authenticate with: the session is of no use.
authUnavailable(isExtended) ==
    /\ server.requireAuth /\ tls /\ ~authenticated
    /\ ~authMechanisms(isExtended, tls, peerCert)

abandonOpen(reason) ==
    IF transactionOpen THEN reset(reason) ELSE UNCHANGED lifecycle

handleHello(verb) ==
    /\ Received(verb)
    /\ \/ Answer(501) /\ Stay
       \/ transactionOpen /\ ResetPanics(backend, "explicit")
       \/ /\ abandonOpen("explicit")
          /\ extended' = (verb # "HELO")
          /\ clearTransaction
          /\ UNCHANGED <<tls, authenticated, peerCert>>
          /\ Transit("hello", phase, IF authUnavailable(verb # "HELO")
                                       THEN AnswerAndClose(421) ELSE Answer(250))

(***************************************************************************)
(* MAIL.  A transaction that is open is reset before anything of the new   *)
(* one is decided, the SIZE check and the backend's answer included.       *)
(***************************************************************************)
mailPolicy == /\ server.requireTLS => tls
              /\ server.requireAuth => authenticated

\* Mutant: the backend is not told that MAIL replaces its transaction.
ReplacedSilently ==
    [phase |-> IF transactionOpen THEN After("transactionFailed", phase) ELSE phase,
     backend |-> backend]

Replaced ==
    IF transactionOpen
      THEN [phase |-> After("transactionFailed", phase),
            backend |-> ResetCall(backend, "newMail")]
      ELSE [phase |-> phase, backend |-> backend]

replaceRefused == transactionOpen /\ ~Permits("transactionFailed", phase)

\* The old transaction is gone and the new one did not open.
mailNotOpened(account) ==
    /\ transactionOpen' = FALSE
    /\ spool' = (spool /\ ~transactionOpen)
    /\ backend' = account
    /\ UNCHANGED <<tls, authenticated, greeting, refused>>

handleMail ==
    /\ Received("MAIL")
    /\ \/ ~mailPolicy /\ Answer(530) /\ Stay
       \/ mailPolicy /\ Answer(501) /\ Stay
       \/ mailPolicy /\ transactionOpen /\ ResetPanics(backend, "newMail")
       \/ /\ mailPolicy /\ replaceRefused
          /\ reset("newMail")
          /\ Abort /\ refused' = TRUE
          /\ UNCHANGED <<protocol, greeting, flags>>
       \/ /\ mailPolicy /\ ~replaceRefused /\ extended   \* SIZE is too large
          /\ mailNotOpened(Replaced.backend)
          /\ phase' = Replaced.phase
          /\ IF transactionOpen THEN clearTransaction ELSE UNCHANGED flags
          /\ Answer(552)
       \/ /\ mailPolicy /\ ~replaceRefused               \* the backend panics
          /\ mailNotOpened(MailCall(Replaced.backend, FALSE))
          /\ phase' = Replaced.phase
          /\ IF transactionOpen THEN clearTransaction ELSE UNCHANGED flags
          /\ Abort
       \/ /\ mailPolicy /\ ~replaceRefused               \* the backend refuses
          /\ mailNotOpened(MailCall(Replaced.backend, FALSE))
          /\ phase' = After("transactionFailed", Replaced.phase)
          /\ clearTransaction
          /\ Answer(451)
       \/ /\ mailPolicy /\ ~replaceRefused
          /\ transactionOpen' = TRUE
          /\ spool' = (spool /\ ~transactionOpen)
          /\ backend' = MailCall(Replaced.backend, TRUE)
          /\ smtpUTF8' \in {FALSE, extended}
          /\ binaryMIME' \in {FALSE, extended /\ server.binaryMIME /\ server.chunking}
          /\ recipients' = 0
          /\ UNCHANGED <<tls, authenticated, greeting>>
          /\ Transit("mailAccepted", Replaced.phase, Answer(250))

(***************************************************************************)
(* RCPT.  A recipient counts only once its 250 has been decided; success   *)
(* lines that cannot be sent turn the backend's acceptance into a 451.     *)
(***************************************************************************)
tooManyRecipients == recipients >= MaxRcpt

handleRcpt ==
    /\ Received("RCPT")
    /\ UNCHANGED <<tls, authenticated, greeting, smtpUTF8, binaryMIME,
                   transactionOpen, spool>>
    /\ \/ Answer(501) /\ UNCHANGED <<phase, recipients, backend, refused>>
       \/ /\ tooManyRecipients
          /\ Answer(452)
          /\ UNCHANGED <<phase, recipients, backend, refused>>
       \/ /\ ~tooManyRecipients
          /\ backend' = RcptCall(backend, FALSE)
          /\ Answer(451) \/ Abort
          /\ UNCHANGED <<phase, recipients, refused>>
       \/ /\ ~tooManyRecipients
          /\ backend' = RcptCall(backend, TRUE)
          /\ recipients' = recipients + 1
          /\ IF phase = "mail"
               THEN Transit("recipientAccepted", phase, Answer(250))
               ELSE Answer(250) /\ UNCHANGED <<phase, refused>>

(***************************************************************************)
(* DATA and BDAT.  Whether a backend's outcome is authoritative, and       *)
(* whether the content could be drained, is decided by evaluateDataCall    *)
(* (module DataPhase); here every outcome is possible.                     *)
(***************************************************************************)
\* The outcome is written, and the transaction ends whether or not the write
\* succeeds.
finishContent(completed) ==
    LET reason == IF completed THEN "completed" ELSE "failed"
        event  == IF completed THEN "transactionComplete" ELSE "transactionFailed"
        code   == IF completed THEN {250, 550} ELSE {451, 552}
    IN  \/ ResetPanics(DataCall(backend), reason)
        \/ /\ resetFrom(DataCall(backend), reason)
           /\ clearTransaction
           /\ UNCHANGED <<tls, authenticated, greeting>>
           /\ \E c \in code : Transit(event, phase, Answer(c))

evaluateContent(attached) ==
    \/ /\ spool' = attached                \* no Received header, no Data call
       /\ Abort
       /\ UNCHANGED <<protocol, greeting, flags, transactionOpen, backend, refused>>
    \/ /\ spool' = attached                \* Data panics, or the drain fails
       /\ backend' = DataCall(backend)
       /\ Abort
       /\ UNCHANGED <<protocol, greeting, flags, transactionOpen, refused>>
    \/ \E completed \in BOOLEAN : finishContent(completed)

dataAllowed == recipients > 0 /\ ~binaryMIME

handleDATA ==
    /\ Received("DATA")
    /\ \/ Answer(501) /\ Stay
       \/ ~dataAllowed /\ Answer(503) /\ Stay
       \/ dataAllowed /\ Abort /\ Stay     \* the 354 cannot be written
       \/ dataAllowed /\ evaluateContent(spool)

failBDAT(attached, code) ==
    \/ (transactionOpen \/ attached) /\ ResetPanics(backend, "failed")
    \/ /\ resetIfOpen(attached, "failed")
       /\ UNCHANGED <<tls, authenticated, greeting, flags>>
       /\ Transit("BDATFailed", phase, Answer(code))

chunkWithoutTransaction == recipients = 0 /\ phase # "failedBDAT"

\* The chunk of a transaction with recipients goes to its spool, which the
\* first chunk creates; the last one hands the spool to the backend.
storeChunk(last) ==
    \/ ~spool /\ Abort /\ Stay
    \/ ~spool /\ failBDAT(FALSE, 452)
    \/ \E code \in {451, 452, 552} : failBDAT(TRUE, code)
    \/ /\ spool' = TRUE
       /\ Abort \/ (~last /\ Answer(250))  \* the chunk may not arrive in full
       /\ UNCHANGED <<protocol, greeting, flags, transactionOpen, backend, refused>>
    \/ last /\ evaluateContent(TRUE)

handleBDAT(last) ==
    /\ Received("BDAT")
    /\ \/ (Answer(501) \/ AnswerAndClose(501)) /\ Stay
       \/ (~extended \/ ~server.chunking) /\ Answer(502) /\ Stay
       \/ /\ extended /\ server.chunking
          /\ chunkWithoutTransaction \/ phase = "failedBDAT"
          /\ Answer(503) \/ Abort
          /\ Stay
       \/ /\ extended /\ server.chunking
          /\ ~chunkWithoutTransaction /\ phase # "failedBDAT"
          /\ storeChunk(last)

\* A line that is framed but is no command, once chunks have been accepted.
handleCommandReadError ==
    /\ loop = "running" /\ spool
    /\ failBDAT(spool, 500)
    /\ UNCHANGED <<server, mailAttempts>>

(***************************************************************************)
(* RSET, STARTTLS, AUTH and the commands that change no session state.     *)
(***************************************************************************)
handleRSET ==
    /\ Received("RSET")
    /\ \/ Answer(501) /\ Stay
       \/ (transactionOpen \/ spool) /\ ResetPanics(backend, "explicit")
       \/ /\ resetIfOpen(spool, "explicit")
          /\ clearTransaction
          /\ UNCHANGED <<tls, authenticated, greeting>>
          /\ Transit("reset", phase, Answer(250))

\* A handshake discards all that was known before it: the backend is told to
\* reset although no transaction can be open here.
handleSTARTTLS ==
    /\ Received("STARTTLS")
    /\ \/ Answer(501) /\ Stay
       \/ (~extended \/ ~server.tlsConfig) /\ Answer(502) /\ Stay
       \/ /\ extended /\ server.tlsConfig
          /\ \/ Abort /\ Stay              \* no 220, or no handshake
             \/ ResetPanics(backend, "startTLS")
             \/ /\ reset("startTLS")
                /\ tls' = TRUE
                /\ authenticated' = FALSE
                /\ extended' = FALSE
                /\ peerCert' \in BOOLEAN
                /\ clearTransaction
                /\ Transit("startTLS", phase, reply' = 220 /\ loop' = "running")

\* The whole exchange, its rounds taken together.  Only an accepted
\* proof whose result the backend gave commits the authentication.
handleAUTH ==
    /\ Received("AUTH")
    /\ UNCHANGED <<tls, greeting, flags, transactionOpen, spool>>
    /\ \/ /\ \/ Answer(501)
             \/ ~authMechanisms(extended, tls, peerCert) /\ Answer(504)
             \/ /\ authMechanisms(extended, tls, peerCert)
                /\ \/ \E code \in {454, 535} : Answer(code)
                   \/ AnswerAndClose(500)
                   \/ Abort
          /\ UNCHANGED <<phase, authenticated, backend, refused>>
       \/ /\ authMechanisms(extended, tls, peerCert)
          /\ backend' = CommitAuthCall(backend)
          /\ \/ Abort /\ UNCHANGED <<phase, authenticated, refused>>
             \/ /\ authenticated' = Permits("authenticated", phase)
                /\ Transit("authenticated", phase, Answer(235))

\* NOOP, VRFY, EXPN, HELP and ETRN only answer; all but NOOP ask the backend,
\* which may panic.
queryReplies ==
    [NOOP |-> {250}, VRFY |-> {250, 252, 451, 501}, EXPN |-> {250, 451, 501, 502},
     HELP |-> {214, 451, 502}, ETRN |-> {250, 451, 501, 502}]

handleQuery(verb) ==
    /\ Received(verb)
    /\ Stay
    /\ \/ \E code \in queryReplies[verb] : Answer(code)
       \/ verb # "NOOP" /\ Abort

handleQUIT ==
    /\ Received("QUIT")
    /\ Stay
    /\ Answer(501) \/ AnswerAndClose(221)

\* ATRN hands the connection to the backend; the session is over afterwards.
handleATRN ==
    /\ Received("ATRN")
    /\ Stay
    /\ \/ Answer(501)
       \/ ~authenticated /\ Answer(530)
       \/ /\ authenticated
          /\ \/ \E code \in {451, 502} : Answer(code)
             \/ \E code \in {250, 554} : AnswerAndClose(code)
             \/ Abort

(***************************************************************************)
(* serveConnection: from the accepted socket to the loop, the loop's own   *)
(* exits, and the deferred close.                                          *)
(***************************************************************************)
Init ==
    /\ server \in Servers
    /\ loop = "accepted"
    /\ phase = "connected"
    /\ tls = FALSE /\ authenticated = FALSE /\ peerCert = FALSE
    /\ extended = FALSE /\ smtpUTF8 = FALSE /\ binaryMIME = FALSE
    /\ recipients = 0 /\ mailAttempts = 0
    /\ transactionOpen = FALSE /\ spool = FALSE
    /\ reply = 0
    /\ backend = NewAccount
    /\ refused = FALSE

authReachable(isTLS, cert) ==
    IF isTLS THEN authMechanisms(TRUE, TRUE, cert)
             ELSE \/ authMechanisms(TRUE, FALSE, cert)
                  \/ server.tlsConfig /\ server.authAfter # "none"

\* Refused before a commandSession exists: a Session the backend did return is
\* closed directly.
rejectConnection(code, account) ==
    /\ loop' = "gone" /\ reply' = code
    /\ backend' = account
    /\ UNCHANGED <<server, protocol, greeting, flags, mailAttempts,
                   transactionOpen, spool, refused>>

serveConnection ==
    /\ loop = "accepted"
    /\ \/ server.implicitTLS /\ rejectConnection(0, backend)  \* no handshake
       \/ rejectConnection(421, backend)                      \* NewSession fails
       \/ rejectConnection(421, CloseCall(backend))           \* Session is invalid
       \/ \E cert \in IF server.implicitTLS THEN BOOLEAN ELSE {FALSE} :
            IF server.requireAuth /\ ~authReachable(server.implicitTLS, cert)
              THEN rejectConnection(421, CloseCall(backend))
              ELSE /\ tls' = server.implicitTLS
                   /\ peerCert' = cert
                   /\ Answer(220)
                   /\ UNCHANGED <<server, phase, authenticated, extended, flags,
                                  mailAttempts, lifecycle, refused>>

\* Shutdown cancelled the context, the peer is gone, a deadline passed, the
\* line is malformed, or the pending replies cannot be flushed.
loopEnds ==
    /\ loop = "running"
    /\ Abort
    /\ Stay
    /\ UNCHANGED <<server, mailAttempts>>

\* Mutant: the last Reset takes the place of Close.
closeOrReset ==
    IF transactionOpen \/ spool THEN ResetCall(backend, "sessionEnd")
                                ELSE CloseCall(backend)

\* sessionLifecycle.close: a transaction that is still open is reset first.
closeAccount ==
    CloseCall(IF transactionOpen \/ spool
                THEN ResetCall(backend, "sessionEnd") ELSE backend)

closeSession ==
    /\ loop = "closing"
    /\ loop' = "gone"
    /\ transactionOpen' = FALSE
    /\ spool' = FALSE
    /\ backend' = closeAccount
    /\ phase' = After("close", phase)
    /\ UNCHANGED <<server, tls, authenticated, greeting, flags, mailAttempts,
                   reply, refused>>

Handler ==
    \/ \E verb \in {"HELO", "EHLO", "LHLO"} : handleHello(verb)
    \/ handleMail
    \/ handleRcpt
    \/ handleDATA
    \/ \E last \in BOOLEAN : handleBDAT(last)
    \/ handleRSET
    \/ handleSTARTTLS
    \/ handleAUTH
    \/ \E verb \in DOMAIN queryReplies : handleQuery(verb)
    \/ handleQUIT
    \/ handleATRN

\* The connection is over and its goroutine has returned.
Gone == loop = "gone" /\ UNCHANGED vars

Next ==
    \/ serveConnection
    \/ Handler
    \/ RefuseCommand
    \/ RefuseMail
    \/ handleCommandReadError
    \/ loopEnds
    \/ closeSession
    \/ Gone

\* The goroutine of the connection keeps running its deferred calls.
Spec == Init /\ [][Next]_vars /\ WF_vars(closeSession)

------------------------------------------------------------------------------
(***************************************************************************)
(* Properties.                                                             *)
(***************************************************************************)
\* Every variable keeps its type; the recipient list and the MAIL counter stay
\* within the limits handleRcpt and execute enforce.
TypeOK ==
    /\ server \in Servers
    /\ loop \in {"accepted", "running", "closing", "gone"}
    /\ phase \in Phases
    /\ tls \in BOOLEAN /\ authenticated \in BOOLEAN /\ peerCert \in BOOLEAN
    /\ extended \in BOOLEAN /\ smtpUTF8 \in BOOLEAN /\ binaryMIME \in BOOLEAN
    /\ recipients \in 0..MaxRcpt
    /\ mailAttempts \in 0..(MaxTransactions + 1)
    /\ transactionOpen \in BOOLEAN /\ spool \in BOOLEAN
    /\ reply \in Nat
    /\ backend \in Accounts
    /\ refused \in BOOLEAN

\* The backend never sees a call the Session contract rules out, on any path
\* through the handlers, write errors, panics, disconnects and teardown
\* (lifecycle.go, session.go): no overlapping transactions, no Data without a
\* recipient, exactly one Reset for each accepted Mail, one CommitAuth on a TLS
\* layer, one Close, and nothing after it.
ContractKept == backend.breach = {}

\* protocolState.transition never returns an error: the table of legal commands
\* (commandRules) and the table of transitions (phaseTransitions) agree with
\* what the handlers do in between.
TransitionsPermitted == ~refused

\* Nothing of a transaction outlives it: outside one, and outside the failed
\* BDAT state that RSET must clear, no recipient, parameter or spool is left
\* for the next MAIL to inherit (clearTransaction and sessionLifecycle.reset).
NothingInherited ==
    /\ spool => transactionOpen /\ phase = "recipients"
    /\ loop = "running" /\ phase \in {"connected", "ready"} =>
         ~smtpUTF8 /\ ~binaryMIME /\ recipients = 0

\* While commands are read, the three records of one transaction agree: the
\* protocol phase (state.go), the lifecycle's flag and spool (lifecycle.go) and
\* the backend's own account; so do the two records of the authentication.
\* Where all say that there is none, nothing of the last one is left.
TransactionAgreement ==
    /\ NothingInherited
    /\ loop = "running" =>
        /\ transactionOpen <=> phase \in {"mail", "recipients"}
        /\ transactionOpen <=> backend.open
        /\ transactionOpen => backend.rcpts = recipients
        /\ phase = "recipients" => recipients > 0
        /\ authenticated <=> backend.committed

\* RequireTLS and RequireAuth hold for as long as a transaction is open, not
\* only when its MAIL was admitted (handleMail against STARTTLS and AUTH).
PolicyEnforced ==
    transactionOpen => /\ server.requireTLS => tls
                       /\ server.requireAuth => authenticated

\* After a failed chunk the backend is not called at all, and only RSET or the
\* end of the session leaves the failed BDAT state (cmd_data.go, state.go).
FailedBDATIsSilent ==
    [][phase = "failedBDAT" /\ loop' = "running" =>
         /\ backend' = backend
         /\ phase' # phase => phase' = "ready" /\ recipients' = 0]_vars

\* A loop that has ended, for whatever reason, is followed by the backend's
\* Close and the release of the connection (serveConnection's deferred calls).
EventuallyClosed == loop = "closing" ~> loop = "gone" /\ backend.closed

==============================================================================
