------------------------- MODULE ServerSessionProofs -------------------------
(***************************************************************************)
(* Proofs about one connection: about ServerSession, for every set of      *)
(* configurations and every limit on recipients and transactions, and      *)
(* about its content stage (DataPhase), for every number of recipients,    *)
(* every content, every read buffer and every limit.                       *)
(***************************************************************************)
EXTENDS ServerSession, DataPhase, SequenceTheorems, TLAPS

-----------------------------------------------------------------------------
(***************************************************************************)
(* The session.                                                            *)
(***************************************************************************)

(***************************************************************************)
(* The inductive invariant.  ContractKept is not inductive: whether the    *)
(* next call is allowed depends on the backend's account agreeing with the *)
(* phase, the recipient list and the lifecycle flag.  Phase and flag are   *)
(* in step only while the loop runs; once it has ended, a panic may have   *)
(* left the phase behind, but never the flag that close looks at.          *)
(***************************************************************************)
InStep ==
    loop = "running" =>
        /\ phase # "closed"
        /\ phase = "mail" => recipients = 0
        /\ ~backend.data

BeforeGreeting ==
    loop = "accepted" =>
        /\ backend = NewAccount
        /\ phase = "connected"
        /\ ~transactionOpen /\ ~spool /\ ~authenticated
        /\ ~smtpUTF8 /\ ~binaryMIME /\ recipients = 0 /\ mailAttempts = 0

SessionInv ==
    /\ TypeOK
    /\ ContractKept
    /\ TransitionsPermitted
    /\ TransactionAgreement
    /\ NothingInherited
    /\ PolicyEnforced
    /\ InStep
    /\ BeforeGreeting
    /\ backend.open <=> transactionOpen
    /\ backend.closed => loop = "gone"
    /\ loop = "running" => mailAttempts <= MaxTransactions

(***************************************************************************)
(* What one backend call does to an account without a breach.              *)
(***************************************************************************)
\* A Mail outside a transaction is no breach; it opens one when accepted.
LEMMA MailCallKeeps ==
    ASSUME NEW a \in Accounts, NEW accepted \in BOOLEAN,
           ~a.open, ~a.closed, a.breach = {}
    PROVE  LET b == MailCall(a, accepted)
           IN  /\ b \in Accounts /\ b.breach = {} /\ b.open = accepted
               /\ b.rcpts = 0 /\ b.data = FALSE
               /\ b.committed = a.committed /\ b.closed = FALSE
BY Zenon DEF Accounts, MailCall, Breach

\* A Rcpt in a transaction whose content is still to come is no breach.
LEMMA RcptCallKeeps ==
    ASSUME NEW a \in Accounts, NEW accepted \in BOOLEAN,
           a.open, ~a.data, ~a.closed, a.breach = {}
    PROVE  LET b == RcptCall(a, accepted)
           IN  /\ b \in Accounts /\ b.breach = {} /\ b.open = TRUE
               /\ b.rcpts = IF accepted THEN a.rcpts + 1 ELSE a.rcpts
               /\ b.data = FALSE
               /\ b.committed = a.committed /\ b.closed = FALSE
<1> DEFINE n == IF accepted THEN a.rcpts + 1 ELSE a.rcpts
<1>1. n \in Nat
  BY DEF Accounts
<1>2. RcptCall(a, accepted) = [a EXCEPT !.rcpts = n, !.breach = {}]
  BY DEF RcptCall, Breach
<1> HIDE DEF n
<1>3. LET b == [a EXCEPT !.rcpts = n, !.breach = {}]
      IN  /\ b \in Accounts /\ b.breach = {} /\ b.open = a.open
          /\ b.rcpts = n /\ b.data = a.data
          /\ b.committed = a.committed /\ b.closed = a.closed
  BY Zenon, <1>1 DEF Accounts
<1>4. a.open = TRUE /\ a.data = FALSE /\ a.closed = FALSE
  BY DEF Accounts
<1> QED
  BY <1>2, <1>3, <1>4 DEF n

\* The first Data of a transaction with a recipient is no breach.
LEMMA DataCallKeeps ==
    ASSUME NEW a \in Accounts,
           a.open, ~a.data, a.rcpts > 0, ~a.closed, a.breach = {}
    PROVE  LET b == DataCall(a)
           IN  /\ b \in Accounts /\ b.breach = {} /\ b.open = TRUE
               /\ b.rcpts = a.rcpts /\ b.data = TRUE
               /\ b.committed = a.committed /\ b.closed = FALSE
BY Zenon DEF Accounts, DataCall, Breach

\* A Reset of an open transaction, or by STARTTLS, is no breach.
LEMMA ResetCallKeeps ==
    ASSUME NEW a \in Accounts, NEW reason \in ResetReasons,
           a.open \/ reason = "startTLS", reason = "completed" => a.data,
           ~a.closed, a.breach = {}
    PROVE  LET b == ResetCall(a, reason)
           IN  /\ b \in Accounts /\ b.breach = {} /\ b.open = FALSE
               /\ b.rcpts = 0 /\ b.data = FALSE
               /\ b.committed = (a.committed /\ reason # "startTLS")
               /\ b.closed = FALSE
BY Zenon DEF Accounts, ResetCall, Breach, ResetReasons

\* The first CommitAuth on a TLS layer, outside transactions, is no breach.
LEMMA CommitAuthCallKeeps ==
    ASSUME NEW a \in Accounts,
           ~a.committed, ~a.open, ~a.closed, a.breach = {}
    PROVE  LET b == CommitAuthCall(a)
           IN  /\ b \in Accounts /\ b.breach = {} /\ b.open = FALSE
               /\ b.rcpts = a.rcpts /\ b.data = a.data
               /\ b.committed = TRUE /\ b.closed = FALSE
BY Zenon DEF Accounts, CommitAuthCall, Breach

\* The one Close, after the last Reset, is no breach.
LEMMA CloseCallKeeps ==
    ASSUME NEW a \in Accounts, ~a.open, ~a.closed, a.breach = {}
    PROVE  LET b == CloseCall(a)
           IN  /\ b \in Accounts /\ b.breach = {} /\ b.open = FALSE
               /\ b.rcpts = a.rcpts /\ b.data = a.data
               /\ b.committed = a.committed /\ b.closed = TRUE
BY Zenon DEF Accounts, CloseCall, Breach

(***************************************************************************)
(* Steps.                                                                  *)
(***************************************************************************)
\* A command that is answered without touching the session keeps the
\* invariant: most early returns of the handlers.
LEMMA StayKeeps ==
    ASSUME SessionInv, loop = "running", Stay, UNCHANGED server,
           mailAttempts' \in 0..(MaxTransactions + 1),
           loop' \in {"running", "closing"}, reply' \in Nat,
           loop' = "running" => mailAttempts' <= MaxTransactions
    PROVE  SessionInv'
BY LimitsAssumption
   DEF SessionInv, TypeOK, ContractKept, TransitionsPermitted,
       TransactionAgreement, NothingInherited, PolicyEnforced, InStep,
       BeforeGreeting, Stay, protocol, greeting, flags, lifecycle

\* No transaction, no spool, and an account that says so.
NoTransaction ==
    /\ transactionOpen = FALSE /\ spool = FALSE
    /\ backend \in Accounts /\ backend.breach = {}
    /\ ~backend.open /\ ~backend.data /\ ~backend.closed

\* A step that leaves no transaction behind and, if the loop goes on, nothing
\* that a next transaction could inherit.
CleanStep ==
    /\ loop = "running" /\ NoTransaction'
    /\ UNCHANGED <<server, refused>>
    /\ mailAttempts' \in 0..(MaxTransactions + 1) /\ reply' \in Nat
    /\ loop' \in {"running", "closing"} /\ phase' \in Phases
    /\ tls' \in BOOLEAN /\ authenticated' \in BOOLEAN /\ peerCert' \in BOOLEAN
    /\ extended' \in BOOLEAN /\ smtpUTF8' \in BOOLEAN
    /\ binaryMIME' \in BOOLEAN /\ recipients' \in 0..MaxRcpt
    /\ loop' = "running" =>
         /\ phase' \in {"connected", "ready", "failedBDAT"}
         /\ phase' # "failedBDAT" =>
              ~smtpUTF8' /\ ~binaryMIME' /\ recipients' = 0
         /\ authenticated' <=> backend'.committed
         /\ mailAttempts' <= MaxTransactions

\* Such a step keeps the invariant.
LEMMA CleanStepKeeps ==
    ASSUME SessionInv, CleanStep
    PROVE  SessionInv'
BY Zenon, LimitsAssumption
   DEF SessionInv, TypeOK, ContractKept, TransitionsPermitted,
       TransactionAgreement, NothingInherited, PolicyEnforced, InStep,
       BeforeGreeting, NoTransaction, CleanStep

\* sessionLifecycle.reset after the calls recorded in account a.
LEMMA ResetFromEffect ==
    ASSUME NEW a \in Accounts, NEW reason \in ResetReasons,
           a.open \/ reason = "startTLS", reason = "completed" => a.data,
           ~a.closed, a.breach = {}, resetFrom(a, reason)
    PROVE  NoTransaction'
           /\ backend'.committed = (a.committed /\ reason # "startTLS")
<1>1. LET b == ResetCall(a, reason)
      IN  /\ b \in Accounts /\ b.breach = {} /\ b.open = FALSE
          /\ b.data = FALSE /\ b.closed = FALSE
          /\ b.committed = (a.committed /\ reason # "startTLS")
  BY Zenon, ResetCallKeeps
<1> QED
  BY <1>1 DEF NoTransaction, resetFrom

\* reset, or a conditional reset, as the handlers call it.
LEMMA ResetEffect ==
    ASSUME SessionInv, loop = "running", transactionOpen,
           NEW reason \in {"explicit", "newMail", "failed"}, reset(reason)
    PROVE  NoTransaction' /\ backend'.committed = backend.committed
<1>1. /\ backend \in Accounts /\ backend.open /\ ~backend.closed
      /\ backend.breach = {} /\ backend.committed \in BOOLEAN
  BY DEF SessionInv, TypeOK, ContractKept, Accounts
<1>2. reason \in ResetReasons /\ reason # "completed" /\ reason # "startTLS"
  BY DEF ResetReasons
<1> QED
  BY <1>1, <1>2, ResetFromEffect DEF reset

\* Without a transaction there is nothing to reset.
LEMMA IdleEffect ==
    ASSUME SessionInv, loop = "running", ~transactionOpen, UNCHANGED lifecycle
    PROVE  NoTransaction' /\ backend'.committed = backend.committed
BY DEF SessionInv, TypeOK, ContractKept, InStep, NothingInherited,
       NoTransaction, lifecycle

\* What clearTransaction leaves.
LEMMA ClearEffect ==
    ASSUME clearTransaction
    PROVE  /\ smtpUTF8' \in BOOLEAN /\ binaryMIME' \in BOOLEAN
           /\ ~smtpUTF8' /\ ~binaryMIME'
           /\ recipients' = 0 /\ recipients' \in 0..MaxRcpt
<1>1. /\ smtpUTF8' \in BOOLEAN /\ binaryMIME' \in BOOLEAN
      /\ ~smtpUTF8' /\ ~binaryMIME'
  BY Zenon DEF clearTransaction
<1>2. recipients' = 0 /\ recipients' \in 0..MaxRcpt
  BY LimitsAssumption DEF clearTransaction
<1> QED
  BY <1>1, <1>2

\* A Reset that panics ends the loop with flag, spool and account in step.
LEMMA ResetPanicsKeeps ==
    ASSUME SessionInv, loop = "running", UNCHANGED server,
           mailAttempts' \in 0..(MaxTransactions + 1),
           NEW a \in Accounts, NEW reason \in ResetReasons,
           a.open \/ reason = "startTLS", reason = "completed" => a.data,
           ~a.closed, a.breach = {}, ResetPanics(a, reason)
    PROVE  SessionInv'
<1>1. NoTransaction'
  BY ResetFromEffect DEF ResetPanics
<1>2. CleanStep
  BY <1>1 DEF SessionInv, TypeOK, ResetPanics, Abort, protocol, greeting,
              flags, CleanStep
<1> QED
  BY <1>2, CleanStepKeeps

\* HELO, EHLO and LHLO abandon an open transaction before they greet anew.
LEMMA HelloKeeps ==
    ASSUME SessionInv, NEW verb \in {"HELO", "EHLO", "LHLO"}, handleHello(verb)
    PROVE  SessionInv'
<1> USE LimitsAssumption
<1>1. /\ loop = "running" /\ UNCHANGED <<server, mailAttempts>>
      /\ phase \in Greeted \union {"connected"}
      /\ mailAttempts \in 0..MaxTransactions
  BY DEF handleHello, Received, legality, wrongState, commandRules, Rule,
         SessionInv, TypeOK
<1>2. CASE Answer(501) /\ Stay
  BY <1>1, <1>2, StayKeeps DEF Answer
<1>3. CASE transactionOpen /\ ResetPanics(backend, "explicit")
  BY <1>1, <1>3, ResetPanicsKeeps
     DEF SessionInv, TypeOK, ContractKept, ResetReasons
<1>4. CASE /\ abandonOpen("explicit")
           /\ extended' = (verb # "HELO")
           /\ clearTransaction
           /\ UNCHANGED <<tls, authenticated, peerCert>>
           /\ Transit("hello", phase, IF authUnavailable(verb # "HELO")
                                        THEN AnswerAndClose(421) ELSE Answer(250))
  <2>1. /\ phase' = "ready" /\ UNCHANGED refused
        /\ loop' \in {"running", "closing"} /\ reply' \in Nat
    BY <1>1, <1>4 DEF Transit, Permits, After, phaseTransitions, Transition,
                      Greeted, Answer, AnswerAndClose
  <2>2. NoTransaction' /\ backend'.committed = backend.committed
    BY <1>1, <1>4, ResetEffect, IdleEffect DEF abandonOpen
  <2>3. extended' \in BOOLEAN
    BY <1>4
  <2>4. clearTransaction /\ UNCHANGED <<tls, authenticated, peerCert>>
    BY <1>4
  <2>5. authenticated' <=> backend'.committed
    BY <1>1, <2>2, <2>4 DEF SessionInv, TransactionAgreement
  <2>6. CleanStep
    BY <1>1, <2>1, <2>2, <2>3, <2>4, <2>5, ClearEffect
       DEF SessionInv, TypeOK, Phases, CleanStep
  <2> QED
    BY <2>6, CleanStepKeeps
<1> QED
  BY <1>2, <1>3, <1>4 DEF handleHello

\* MAIL resets an open transaction first; then the phase is ready and the
\* account is that of a session without a transaction.
LEMMA ReplacedEffect ==
    ASSUME SessionInv, loop = "running", phase \in Greeted
    PROVE  /\ ~replaceRefused
           /\ Replaced.phase = "ready"
           /\ Replaced.backend \in Accounts /\ Replaced.backend.breach = {}
           /\ ~Replaced.backend.open /\ ~Replaced.backend.data
           /\ ~Replaced.backend.closed
           /\ Replaced.backend.committed = backend.committed
<1>1. /\ backend \in Accounts /\ backend.breach = {} /\ ~backend.closed
      /\ backend.open <=> transactionOpen
      /\ ~backend.data
      /\ transactionOpen <=> phase \in {"mail", "recipients"}
  BY DEF SessionInv, TypeOK, ContractKept, TransactionAgreement, InStep
<1>2. ~replaceRefused /\ Replaced.phase = "ready"
  BY <1>1 DEF replaceRefused, Replaced, After, Permits, phaseTransitions,
              Transition, Greeted
<1>3. CASE transactionOpen
  <2>1. LET b == ResetCall(backend, "newMail")
        IN  /\ b \in Accounts /\ b.breach = {} /\ b.open = FALSE
            /\ b.data = FALSE /\ b.closed = FALSE
            /\ b.committed = (backend.committed /\ "newMail" # "startTLS")
    BY Zenon, <1>1, <1>3, ResetCallKeeps DEF ResetReasons
  <2>2. backend.committed \in BOOLEAN
    BY <1>1 DEF Accounts
  <2>3. Replaced.backend = ResetCall(backend, "newMail")
    BY <1>3 DEF Replaced
  <2> QED
    BY <1>2, <2>1, <2>2, <2>3
<1>4. CASE ~transactionOpen
  BY <1>1, <1>2, <1>4 DEF Replaced
<1> QED
  BY <1>3, <1>4

\* MAIL that opens no transaction leaves a clean session behind.
LEMMA MailNotOpenedEffect ==
    ASSUME SessionInv, loop = "running",
           NEW a \in Accounts, a.breach = {}, ~a.open, ~a.data, ~a.closed,
           a.committed = backend.committed, mailNotOpened(a)
    PROVE  NoTransaction' /\ backend'.committed = backend.committed
BY Zenon DEF SessionInv, NothingInherited, TypeOK, NoTransaction, mailNotOpened

\* MAIL in each of its outcomes.
LEMMA MailKeeps ==
    ASSUME SessionInv, handleMail
    PROVE  SessionInv'
<1> USE LimitsAssumption
<1>1. /\ loop = "running" /\ UNCHANGED server /\ phase \in Greeted
      /\ mailAttempts' \in 0..(MaxTransactions + 1)
      /\ mailAttempts' <= MaxTransactions
  BY DEF handleMail, Received, legality, wrongState, commandRules, Rule,
         SessionInv, TypeOK
<1> DEFINE r == Replaced.backend
<1>2. /\ ~replaceRefused /\ Replaced.phase = "ready"
      /\ r \in Accounts /\ r.breach = {} /\ ~r.open /\ ~r.data /\ ~r.closed
      /\ r.committed = backend.committed
  BY <1>1, ReplacedEffect
<1>3. /\ tls \in BOOLEAN /\ authenticated \in BOOLEAN /\ peerCert \in BOOLEAN
      /\ extended \in BOOLEAN /\ smtpUTF8 \in BOOLEAN /\ binaryMIME \in BOOLEAN
      /\ recipients \in 0..MaxRcpt
  BY DEF SessionInv, TypeOK
<1>4. ~transactionOpen => ~smtpUTF8 /\ ~binaryMIME /\ recipients = 0
  BY <1>1 DEF SessionInv, TransactionAgreement, NothingInherited, Greeted
<1>5. authenticated <=> backend.committed
  BY <1>1 DEF SessionInv, TransactionAgreement
<1>6. LET b == MailCall(r, FALSE)
      IN  /\ b \in Accounts /\ b.breach = {} /\ b.open = FALSE
          /\ b.rcpts = 0 /\ b.data = FALSE
          /\ b.committed = r.committed /\ b.closed = FALSE
  BY Zenon, <1>2, MailCallKeeps
<1>7. LET b == MailCall(r, TRUE)
      IN  /\ b \in Accounts /\ b.breach = {} /\ b.open = TRUE
          /\ b.rcpts = 0 /\ b.data = FALSE
          /\ b.committed = r.committed /\ b.closed = FALSE
  BY Zenon, <1>2, MailCallKeeps
<1> HIDE DEF r
<1>8. CASE Stay /\ (Answer(501) \/ Answer(530))
  BY <1>1, <1>8, StayKeeps DEF Answer
<1>9. CASE transactionOpen /\ ResetPanics(backend, "newMail")
  BY <1>1, <1>9, ResetPanicsKeeps
     DEF SessionInv, TypeOK, ContractKept, ResetReasons
<1>10. CASE /\ mailNotOpened(r)
            /\ phase' = Replaced.phase
            /\ IF transactionOpen THEN clearTransaction ELSE UNCHANGED flags
            /\ Answer(552)
  <2>1. NoTransaction' /\ backend'.committed = backend.committed
    BY <1>1, <1>2, <1>10, MailNotOpenedEffect
  <2>2. /\ phase' = "ready" /\ UNCHANGED <<tls, authenticated, greeting, refused>>
        /\ loop' \in {"running", "closing"} /\ reply' \in Nat
    BY <1>2, <1>10 DEF mailNotOpened, Answer
  <2>3. /\ smtpUTF8' \in BOOLEAN /\ binaryMIME' \in BOOLEAN
        /\ ~smtpUTF8' /\ ~binaryMIME'
        /\ recipients' = 0 /\ recipients' \in 0..MaxRcpt
    BY <1>3, <1>4, <1>10, ClearEffect DEF flags
  <2>4. CleanStep
    BY <1>1, <1>3, <1>5, <2>1, <2>2, <2>3 DEF CleanStep, Phases, greeting
  <2> QED
    BY <2>4, CleanStepKeeps
<1>11. CASE /\ mailNotOpened(MailCall(r, FALSE))
            /\ phase' = Replaced.phase
            /\ IF transactionOpen THEN clearTransaction ELSE UNCHANGED flags
            /\ Abort
  <2>1. NoTransaction' /\ backend'.committed = backend.committed
    BY Zenon, <1>1, <1>2, <1>6, <1>11, MailNotOpenedEffect
  <2>2. /\ phase' = "ready" /\ UNCHANGED <<tls, authenticated, greeting, refused>>
        /\ loop' = "closing" /\ reply' \in Nat
    BY <1>2, <1>11 DEF mailNotOpened, Abort
  <2>3. /\ smtpUTF8' \in BOOLEAN /\ binaryMIME' \in BOOLEAN
        /\ recipients' \in 0..MaxRcpt
    BY <1>3, <1>11, ClearEffect DEF flags
  <2>4. CleanStep
    BY <1>1, <1>3, <2>1, <2>2, <2>3 DEF CleanStep, Phases, greeting
  <2> QED
    BY <2>4, CleanStepKeeps
<1>12. CASE /\ mailNotOpened(MailCall(r, FALSE))
            /\ phase' = After("transactionFailed", Replaced.phase)
            /\ clearTransaction
            /\ Answer(451)
  <2>1. NoTransaction' /\ backend'.committed = backend.committed
    BY Zenon, <1>1, <1>2, <1>6, <1>12, MailNotOpenedEffect
  <2>2. /\ phase' = "ready" /\ UNCHANGED <<tls, authenticated, greeting, refused>>
        /\ loop' \in {"running", "closing"} /\ reply' \in Nat
    BY <1>2, <1>12 DEF mailNotOpened, Answer, After, Permits, phaseTransitions,
                       Transition
  <2>3. CleanStep
    BY <1>1, <1>3, <1>5, <1>12, <2>1, <2>2, ClearEffect
       DEF CleanStep, Phases, greeting
  <2> QED
    BY <2>3, CleanStepKeeps
<1>13. CASE /\ mailPolicy
            /\ transactionOpen' = TRUE
            /\ spool' = (spool /\ ~transactionOpen)
            /\ backend' = MailCall(r, TRUE)
            /\ smtpUTF8' \in {FALSE, extended}
            /\ binaryMIME' \in {FALSE, extended /\ server.binaryMIME /\ server.chunking}
            /\ recipients' = 0
            /\ UNCHANGED <<tls, authenticated, greeting>>
            /\ Transit("mailAccepted", Replaced.phase, Answer(250))
  <2>1. /\ phase' = "mail" /\ UNCHANGED refused
        /\ loop' \in {"running", "closing"} /\ reply' \in Nat
    BY <1>2, <1>13 DEF Transit, Answer, After, Permits, phaseTransitions,
                       Transition, Greeted
  <2>2. smtpUTF8' \in BOOLEAN /\ binaryMIME' \in BOOLEAN
    BY Zenon, <1>3, <1>13
  <2>3. spool' = FALSE
    BY Zenon, <1>13 DEF SessionInv, NothingInherited, TypeOK
  <2>4. /\ backend' \in Accounts /\ backend'.breach = {} /\ backend'.open
        /\ backend'.rcpts = 0 /\ ~backend'.data /\ ~backend'.closed
        /\ backend'.committed = backend.committed
    BY Zenon, <1>2, <1>7, <1>13
  <2>5. recipients' = 0 /\ recipients' \in 0..MaxRcpt
    BY <1>13
  <2>6. PolicyEnforced'
    BY <1>1, <1>13 DEF PolicyEnforced, mailPolicy
  <2>7. TypeOK'
    BY Zenon, <1>1, <1>3, <1>13, <2>1, <2>2, <2>3, <2>4, <2>5
       DEF SessionInv, TypeOK, Phases, greeting
  <2> QED
    BY Zenon, <1>1, <1>5, <1>13, <2>1, <2>3, <2>4, <2>5, <2>6, <2>7
       DEF SessionInv, ContractKept, TransitionsPermitted,
           TransactionAgreement, NothingInherited, InStep, BeforeGreeting
<1> QED
  BY ONLY handleMail, <1>2, <1>8, <1>9, <1>10, <1>11, <1>12, <1>13, ZenonT(60)
     DEF handleMail, r

\* A step inside a transaction that stays open.
OpenStep ==
    /\ loop = "running" /\ transactionOpen /\ transactionOpen' = TRUE
    /\ UNCHANGED <<server, tls, authenticated, greeting, smtpUTF8, binaryMIME,
                   mailAttempts, refused>>
    /\ loop' \in {"running", "closing"} /\ reply' \in Nat
    /\ phase' \in {"mail", "recipients"}
    /\ spool' \in BOOLEAN /\ (spool' => phase' = "recipients")
    /\ recipients' \in 0..MaxRcpt
    /\ backend' \in Accounts /\ backend'.breach = {} /\ backend'.open
    /\ ~backend'.closed /\ backend'.committed = backend.committed
    /\ loop' = "running" => /\ ~backend'.data
                            /\ backend'.rcpts = recipients'
                            /\ phase' = "mail" <=> recipients' = 0

\* Such a step keeps the invariant.
LEMMA OpenStepKeeps ==
    ASSUME SessionInv, OpenStep
    PROVE  SessionInv'
<1>1. TypeOK'
  BY DEF SessionInv, TypeOK, OpenStep, Phases, greeting
<1>2. TransactionAgreement' /\ InStep' /\ NothingInherited'
  BY LimitsAssumption
     DEF SessionInv, TypeOK, TransactionAgreement, NothingInherited, InStep,
         OpenStep
<1> QED
  BY <1>1, <1>2 DEF SessionInv, ContractKept, TransitionsPermitted,
                    PolicyEnforced, BeforeGreeting, OpenStep

\* What the invariant says inside a transaction.
LEMMA InTransaction ==
    ASSUME SessionInv, loop = "running", phase \in {"mail", "recipients"}
    PROVE  /\ transactionOpen = TRUE
           /\ backend \in Accounts /\ backend.breach = {} /\ backend.open
           /\ ~backend.data /\ ~backend.closed
           /\ backend.rcpts = recipients /\ recipients \in 0..MaxRcpt
           /\ phase = "mail" <=> recipients = 0
           /\ spool \in BOOLEAN /\ (spool => phase = "recipients")
BY DEF SessionInv, TypeOK, ContractKept, TransactionAgreement,
       NothingInherited, InStep

\* RCPT never exceeds the limit, and counts what the backend accepted.
LEMMA RcptKeeps ==
    ASSUME SessionInv, handleRcpt
    PROVE  SessionInv'
<1> USE LimitsAssumption
<1>1. /\ loop = "running" /\ UNCHANGED <<server, mailAttempts>>
      /\ phase \in {"mail", "recipients"}
      /\ UNCHANGED <<tls, authenticated, greeting, smtpUTF8, binaryMIME,
                     transactionOpen, spool>>
  BY DEF handleRcpt, Received, legality, wrongState, commandRules, Rule
<1>2. /\ transactionOpen = TRUE
      /\ backend \in Accounts /\ backend.breach = {} /\ backend.open
      /\ ~backend.data /\ ~backend.closed
      /\ backend.rcpts = recipients /\ recipients \in 0..MaxRcpt
      /\ phase = "mail" <=> recipients = 0
      /\ spool \in BOOLEAN /\ (spool => phase = "recipients")
  BY Zenon, <1>1, InTransaction
<1>3. CASE /\ Answer(501) \/ Answer(452)
           /\ UNCHANGED <<phase, recipients, backend, refused>>
  <2>1. OpenStep
    BY <1>1, <1>2, <1>3 DEF OpenStep, Answer
  <2> QED
    BY <2>1, OpenStepKeeps
<1>4. CASE /\ backend' = RcptCall(backend, FALSE)
           /\ Answer(451) \/ Abort
           /\ UNCHANGED <<phase, recipients, refused>>
  <2>1. LET b == RcptCall(backend, FALSE)
        IN  /\ b \in Accounts /\ b.breach = {} /\ b.open = TRUE
            /\ b.rcpts = IF FALSE THEN backend.rcpts + 1 ELSE backend.rcpts
            /\ b.data = FALSE
            /\ b.committed = backend.committed /\ b.closed = FALSE
    BY Zenon, <1>2, RcptCallKeeps
  <2>2. /\ loop' \in {"running", "closing"} /\ reply' \in Nat
        /\ UNCHANGED <<phase, recipients, refused>>
    BY <1>4 DEF Answer, Abort
  <2>3. backend'.rcpts = recipients'
    BY Zenon, <1>2, <1>4, <2>1
  <2>4. OpenStep
    BY Zenon, <1>1, <1>2, <1>4, <2>1, <2>2, <2>3 DEF OpenStep
  <2> QED
    BY <2>4, OpenStepKeeps
<1>5. CASE /\ ~tooManyRecipients
           /\ backend' = RcptCall(backend, TRUE)
           /\ recipients' = recipients + 1
           /\ IF phase = "mail"
                THEN Transit("recipientAccepted", phase, Answer(250))
                ELSE Answer(250) /\ UNCHANGED <<phase, refused>>
  <2>1. LET b == RcptCall(backend, TRUE)
        IN  /\ b \in Accounts /\ b.breach = {} /\ b.open = TRUE
            /\ b.rcpts = IF TRUE THEN backend.rcpts + 1 ELSE backend.rcpts
            /\ b.data = FALSE
            /\ b.committed = backend.committed /\ b.closed = FALSE
    BY Zenon, <1>2, RcptCallKeeps
  <2>2. /\ phase' = "recipients" /\ UNCHANGED refused
        /\ loop' \in {"running", "closing"} /\ reply' \in Nat
    BY <1>1, <1>5 DEF Transit, Permits, After, phaseTransitions, Transition,
                      Answer
  <2>3. recipients' \in 0..MaxRcpt /\ recipients' # 0
    BY <1>2, <1>5 DEF tooManyRecipients
  <2>4. backend'.rcpts = recipients'
    BY Zenon, <1>2, <1>5, <2>1
  <2>5. OpenStep
    BY Zenon, <1>1, <1>2, <1>5, <2>1, <2>2, <2>3, <2>4 DEF OpenStep
  <2> QED
    BY <2>5, OpenStepKeeps
<1> QED
  BY ONLY handleRcpt, <1>3, <1>4, <1>5, ZenonT(60) DEF handleRcpt

\* Content is handed to Data once; whatever comes of it, the transaction has
\* been reset or is left for close to reset.
LEMMA EvaluateKeeps ==
    ASSUME SessionInv, loop = "running", phase = "recipients",
           UNCHANGED <<server, mailAttempts>>,
           NEW attached \in BOOLEAN, evaluateContent(attached)
    PROVE  SessionInv'
<1> USE LimitsAssumption
<1>1. /\ transactionOpen = TRUE
      /\ backend \in Accounts /\ backend.breach = {} /\ backend.open
      /\ ~backend.data /\ ~backend.closed
      /\ backend.rcpts = recipients /\ recipients \in 0..MaxRcpt
      /\ recipients # 0
  BY InTransaction
<1> DEFINE d == DataCall(backend)
<1>2. /\ d \in Accounts /\ d.breach = {} /\ d.open = TRUE
      /\ d.rcpts = backend.rcpts /\ d.data = TRUE
      /\ d.committed = backend.committed /\ d.closed = FALSE
  <2>1. backend.rcpts > 0
    BY <1>1
  <2> QED
    BY Zenon, <1>1, <2>1, DataCallKeeps
<1> HIDE DEF d
<1>3. CASE /\ spool' = attached
           /\ Abort
           /\ UNCHANGED <<protocol, greeting, flags, transactionOpen, backend, refused>>
  <2>1. OpenStep
    BY <1>1, <1>3 DEF OpenStep, Abort, protocol, flags
  <2> QED
    BY <2>1, OpenStepKeeps
<1>4. CASE /\ spool' = attached
           /\ backend' = d
           /\ Abort
           /\ UNCHANGED <<protocol, greeting, flags, transactionOpen, refused>>
  <2>1. OpenStep
    BY <1>1, <1>2, <1>4 DEF OpenStep, Abort, protocol, flags
  <2> QED
    BY <2>1, OpenStepKeeps
<1>5. ASSUME NEW completed \in BOOLEAN, finishContent(completed)
      PROVE  SessionInv'
  <2> DEFINE reason == IF completed THEN "completed" ELSE "failed"
             event == IF completed THEN "transactionComplete" ELSE "transactionFailed"
  <2>1. reason \in ResetReasons /\ reason # "startTLS"
    BY DEF ResetReasons
  <2>3. CASE ResetPanics(d, reason)
    <3>1. mailAttempts' \in 0..(MaxTransactions + 1)
      BY DEF SessionInv, TypeOK
    <3> HIDE DEF reason
    <3> QED
      BY <1>2, <2>1, <2>3, <3>1, ResetPanicsKeeps
  <2>4. CASE /\ resetFrom(d, reason)
             /\ clearTransaction
             /\ UNCHANGED <<tls, authenticated, greeting>>
             /\ \E c \in {250, 550, 451, 552} : Transit(event, phase, Answer(c))
    <3>1. /\ phase' = "ready" /\ UNCHANGED refused
          /\ loop' \in {"running", "closing"} /\ reply' \in Nat
      BY <2>4 DEF Transit, Permits, After, phaseTransitions, Transition, Answer
    <3>2. NoTransaction' /\ backend'.committed = (d.committed /\ reason # "startTLS")
      <4> HIDE DEF reason
      <4> QED
        BY <1>2, <2>1, <2>4, ResetFromEffect
    <3>3. authenticated' <=> backend'.committed
      BY Zenon, <1>2, <2>1, <2>4, <3>2 DEF SessionInv, TransactionAgreement
    <3>4. CleanStep
      BY <2>4, <3>1, <3>2, <3>3, ClearEffect
         DEF SessionInv, TypeOK, Phases, CleanStep, greeting
    <3> QED
      BY <3>4, CleanStepKeeps
  <2> QED
    BY <1>5, <2>3, <2>4 DEF finishContent, d
<1> QED
  BY <1>3, <1>4, <1>5 DEF evaluateContent, d

\* A failed chunk resets the transaction and leaves the failed BDAT phase.
LEMMA FailBDATKeeps ==
    ASSUME SessionInv, loop = "running", phase = "recipients",
           UNCHANGED <<server, mailAttempts>>,
           NEW attached \in BOOLEAN, NEW code \in Nat, failBDAT(attached, code)
    PROVE  SessionInv'
<1>1. /\ transactionOpen = TRUE
      /\ backend \in Accounts /\ backend.breach = {} /\ backend.open
      /\ ~backend.closed
  BY InTransaction
<1>2. mailAttempts' \in 0..(MaxTransactions + 1)
  BY DEF SessionInv, TypeOK
<1>3. CASE ResetPanics(backend, "failed")
  BY <1>1, <1>2, <1>3, ResetPanicsKeeps DEF ResetReasons
<1>4. CASE /\ resetIfOpen(attached, "failed")
           /\ UNCHANGED <<tls, authenticated, greeting, flags>>
           /\ Transit("BDATFailed", phase, Answer(code))
  <2>1. NoTransaction' /\ backend'.committed = backend.committed
    BY <1>1, <1>4, ResetEffect DEF resetIfOpen
  <2>2. /\ phase' = "failedBDAT" /\ UNCHANGED refused
        /\ loop' \in {"running", "closing"} /\ reply' \in Nat
    BY Zenon, <1>4 DEF Transit, Permits, After, phaseTransitions, Transition, Answer
  <2>3. authenticated' <=> backend'.committed
    BY <1>4, <2>1 DEF SessionInv, TransactionAgreement
  <2>4. CleanStep
    BY <1>2, <1>4, <2>1, <2>2, <2>3
       DEF SessionInv, TypeOK, Phases, CleanStep, greeting, flags
  <2> QED
    BY <2>4, CleanStepKeeps
<1> QED
  BY <1>3, <1>4 DEF failBDAT

\* DATA.
LEMMA DATAKeeps ==
    ASSUME SessionInv, handleDATA
    PROVE  SessionInv'
<1>1. /\ loop = "running" /\ UNCHANGED <<server, mailAttempts>>
      /\ phase = "recipients"
      /\ mailAttempts' \in 0..(MaxTransactions + 1)
      /\ mailAttempts' <= MaxTransactions
      /\ spool \in BOOLEAN
  BY Zenon DEF handleDATA, Received, legality, wrongState, commandRules, Rule,
         SessionInv, TypeOK
<1>2. CASE Stay /\ (Abort \/ \E code \in {501, 503} : Answer(code))
  BY <1>1, <1>2, StayKeeps DEF Answer, Abort
<1>3. CASE evaluateContent(spool)
  BY <1>1, <1>3, EvaluateKeeps
<1> QED
  BY <1>2, <1>3 DEF handleDATA

\* A chunk is stored only in the transaction it belongs to.
LEMMA StoreChunkKeeps ==
    ASSUME SessionInv, loop = "running", phase = "recipients",
           UNCHANGED <<server, mailAttempts>>,
           NEW last \in BOOLEAN, storeChunk(last)
    PROVE  SessionInv'
<1>1. /\ mailAttempts' \in 0..(MaxTransactions + 1)
      /\ mailAttempts' <= MaxTransactions
  BY DEF SessionInv, TypeOK
<1>2. CASE Abort /\ Stay
  BY <1>1, <1>2, StayKeeps DEF Abort
<1>3. CASE failBDAT(FALSE, 452)
  <2>1. 452 \in Nat
    OBVIOUS
  <2> QED
    BY Zenon, <1>3, <2>1, FailBDATKeeps
<1>4. ASSUME NEW code \in {451, 452, 552}, failBDAT(TRUE, code)
      PROVE  SessionInv'
  <2>1. code \in Nat
    OBVIOUS
  <2> QED
    BY Zenon, <1>4, <2>1, FailBDATKeeps
<1>5. CASE /\ spool' = TRUE
           /\ Abort \/ (~last /\ Answer(250))
           /\ UNCHANGED <<protocol, greeting, flags, transactionOpen, backend,
                          refused>>
  <2>1. /\ transactionOpen = TRUE
        /\ backend \in Accounts /\ backend.breach = {} /\ backend.open
        /\ ~backend.data /\ ~backend.closed
        /\ backend.rcpts = recipients /\ recipients \in 0..MaxRcpt
        /\ recipients # 0
    BY InTransaction
  <2>2. loop' \in {"running", "closing"} /\ reply' \in Nat
    BY <1>5 DEF Abort, Answer
  <2>3. OpenStep
    BY <1>5, <2>1, <2>2 DEF OpenStep, protocol, flags
  <2> QED
    BY <2>3, OpenStepKeeps
<1>6. CASE evaluateContent(TRUE)
  BY Zenon, <1>6, EvaluateKeeps
<1> QED
  BY <1>2, <1>3, <1>4, <1>5, <1>6, ZenonT(60) DEF storeChunk

\* BDAT.
LEMMA BDATKeeps ==
    ASSUME SessionInv, NEW last \in BOOLEAN, handleBDAT(last)
    PROVE  SessionInv'
<1>1. /\ loop = "running" /\ UNCHANGED <<server, mailAttempts>>
      /\ phase \in Greeted \union {"failedBDAT"}
      /\ mailAttempts' \in 0..(MaxTransactions + 1)
      /\ mailAttempts' <= MaxTransactions
  BY Zenon DEF handleBDAT, Received, legality, wrongState, commandRules, Rule,
         SessionInv, TypeOK
<1>2. CASE Stay /\ (\/ Abort \/ AnswerAndClose(501)
                    \/ Answer(501) \/ Answer(502) \/ Answer(503))
  BY <1>1, <1>2, StayKeeps DEF Answer, AnswerAndClose, Abort
<1>3. CASE ~chunkWithoutTransaction /\ phase # "failedBDAT" /\ storeChunk(last)
  <2>1. phase = "recipients"
    BY <1>1, <1>3 DEF SessionInv, NothingInherited, InStep, Greeted,
                      chunkWithoutTransaction
  <2> QED
    BY <1>1, <1>3, <2>1, StoreChunkKeeps
<1> QED
  BY <1>2, <1>3, ZenonT(60) DEF handleBDAT

\* A malformed line after accepted chunks fails the transaction.
LEMMA ReadErrorKeeps ==
    ASSUME SessionInv, handleCommandReadError
    PROVE  SessionInv'
<1>1. /\ loop = "running" /\ spool = TRUE
      /\ UNCHANGED <<server, mailAttempts>> /\ failBDAT(TRUE, 500)
  BY Zenon DEF handleCommandReadError, SessionInv, TypeOK
<1>2. phase = "recipients"
  BY <1>1 DEF SessionInv, NothingInherited
<1>3. 500 \in Nat
  OBVIOUS
<1> QED
  BY Zenon, <1>1, <1>2, <1>3, FailBDATKeeps

\* RSET ends the transaction, or the failed BDAT phase.
LEMMA RSETKeeps ==
    ASSUME SessionInv, handleRSET
    PROVE  SessionInv'
<1>1. /\ loop = "running" /\ UNCHANGED <<server, mailAttempts>>
      /\ phase \in Greeted \union {"failedBDAT"}
      /\ mailAttempts' \in 0..(MaxTransactions + 1)
      /\ mailAttempts' <= MaxTransactions
  BY Zenon DEF handleRSET, Received, legality, wrongState, commandRules, Rule,
         SessionInv, TypeOK
<1>2. spool => transactionOpen
  BY DEF SessionInv, NothingInherited
<1>3. CASE Answer(501) /\ Stay
  BY <1>1, <1>3, StayKeeps DEF Answer
<1>4. CASE (transactionOpen \/ spool) /\ ResetPanics(backend, "explicit")
  <2>1. /\ backend \in Accounts /\ backend.breach = {} /\ backend.open
        /\ ~backend.closed
    BY <1>1, <1>2, <1>4 DEF SessionInv, TypeOK, ContractKept
  <2> QED
    BY Zenon, <1>1, <1>4, <2>1, ResetPanicsKeeps DEF ResetReasons
<1>5. CASE /\ resetIfOpen(spool, "explicit")
           /\ clearTransaction
           /\ UNCHANGED <<tls, authenticated, greeting>>
           /\ Transit("reset", phase, Answer(250))
  <2>1. NoTransaction' /\ backend'.committed = backend.committed
    BY <1>1, <1>2, <1>5, ResetEffect, IdleEffect DEF resetIfOpen
  <2>2. /\ phase' = "ready" /\ UNCHANGED refused
        /\ loop' \in {"running", "closing"} /\ reply' \in Nat
    BY <1>1, <1>5 DEF Transit, Permits, After, phaseTransitions, Transition,
                      Answer, Greeted
  <2>3. authenticated' <=> backend'.committed
    BY <1>1, <1>5, <2>1 DEF SessionInv, TransactionAgreement
  <2>4. CleanStep
    BY Zenon, <1>1, <1>5, <2>1, <2>2, <2>3, ClearEffect
       DEF SessionInv, TypeOK, Phases, CleanStep, greeting
  <2> QED
    BY <2>4, CleanStepKeeps
<1> QED
  BY <1>3, <1>4, <1>5 DEF handleRSET

\* STARTTLS forgets the authentication and tells the backend so.
LEMMA STARTTLSKeeps ==
    ASSUME SessionInv, handleSTARTTLS
    PROVE  SessionInv'
<1>1. /\ loop = "running" /\ UNCHANGED <<server, mailAttempts>>
      /\ phase = "ready"
      /\ mailAttempts' \in 0..(MaxTransactions + 1)
      /\ mailAttempts' <= MaxTransactions
  BY Zenon DEF handleSTARTTLS, Received, legality, wrongState, commandRules, Rule,
         SessionInv, TypeOK
<1>2. backend \in Accounts /\ backend.breach = {} /\ ~backend.closed
  BY <1>1 DEF SessionInv, TypeOK, ContractKept
<1>3. CASE Stay /\ (Abort \/ Answer(501) \/ Answer(502))
  BY <1>1, <1>3, StayKeeps DEF Answer, Abort
<1>4. CASE ResetPanics(backend, "startTLS")
  BY <1>1, <1>2, <1>4, ResetPanicsKeeps DEF ResetReasons
<1>5. CASE /\ reset("startTLS")
           /\ tls' = TRUE
           /\ authenticated' = FALSE
           /\ extended' = FALSE
           /\ peerCert' \in BOOLEAN
           /\ clearTransaction
           /\ Transit("startTLS", phase, reply' = 220 /\ loop' = "running")
  <2>1. NoTransaction' /\ ~backend'.committed
    BY Zenon, <1>2, <1>5, ResetFromEffect DEF reset, ResetReasons
  <2>2. /\ phase' = "connected" /\ UNCHANGED refused
        /\ loop' = "running" /\ reply' \in Nat
    BY <1>1, <1>5 DEF Transit, Permits, After, phaseTransitions, Transition
  <2>3. /\ tls' \in BOOLEAN /\ authenticated' \in BOOLEAN
        /\ peerCert' \in BOOLEAN /\ extended' \in BOOLEAN
        /\ authenticated' <=> backend'.committed
    BY Zenon, <1>5, <2>1
  <2>4. CleanStep
    BY <1>1, <1>5, <2>1, <2>2, <2>3, ClearEffect DEF Phases, CleanStep
  <2> QED
    BY <2>4, CleanStepKeeps
<1> QED
  BY <1>3, <1>4, <1>5, ZenonT(60) DEF handleSTARTTLS

\* AUTH commits at most once, and only the committed outcome is remembered.
LEMMA AUTHKeeps ==
    ASSUME SessionInv, handleAUTH
    PROVE  SessionInv'
<1>1. /\ loop = "running" /\ UNCHANGED <<server, mailAttempts>>
      /\ phase = "ready" /\ ~authenticated
      /\ mailAttempts' \in 0..(MaxTransactions + 1)
      /\ mailAttempts' <= MaxTransactions
      /\ UNCHANGED <<tls, greeting, flags, transactionOpen, spool>>
  BY DEF handleAUTH, Received, legality, wrongState, commandRules, Rule,
         SessionInv, TypeOK
<1>2. /\ backend \in Accounts /\ backend.breach = {} /\ ~backend.closed
      /\ ~backend.open /\ ~backend.data /\ ~backend.committed
      /\ transactionOpen = FALSE /\ spool = FALSE
      /\ ~smtpUTF8 /\ ~binaryMIME /\ recipients = 0
  BY <1>1 DEF SessionInv, TypeOK, ContractKept, TransactionAgreement,
              NothingInherited, InStep
<1>3. /\ tls' \in BOOLEAN /\ peerCert' \in BOOLEAN /\ extended' \in BOOLEAN
      /\ smtpUTF8' \in BOOLEAN /\ binaryMIME' \in BOOLEAN
      /\ recipients' \in 0..MaxRcpt /\ authenticated \in BOOLEAN
      /\ ~smtpUTF8' /\ ~binaryMIME' /\ recipients' = 0
  BY <1>1, <1>2 DEF SessionInv, TypeOK, greeting, flags
<1>4. CASE /\ \/ Answer(501) \/ Answer(504) \/ AnswerAndClose(500) \/ Abort
              \/ \E code \in {454, 535} : Answer(code)
           /\ UNCHANGED <<phase, authenticated, backend, refused>>
  <2>1. NoTransaction'
    BY <1>1, <1>2, <1>4 DEF NoTransaction
  <2>2. loop' \in {"running", "closing"} /\ reply' \in Nat
    BY <1>4 DEF Answer, AnswerAndClose, Abort
  <2>3. CleanStep
    BY <1>1, <1>2, <1>3, <1>4, <2>1, <2>2 DEF CleanStep, Phases
  <2> QED
    BY <2>3, CleanStepKeeps
<1>5. CASE /\ backend' = CommitAuthCall(backend)
           /\ \/ Abort /\ UNCHANGED <<phase, authenticated, refused>>
              \/ /\ authenticated' = Permits("authenticated", phase)
                 /\ Transit("authenticated", phase, Answer(235))
  <2>1. LET b == CommitAuthCall(backend)
        IN  /\ b \in Accounts /\ b.breach = {} /\ b.open = FALSE
            /\ b.rcpts = backend.rcpts /\ b.data = backend.data
            /\ b.committed = TRUE /\ b.closed = FALSE
    BY Zenon, <1>2, CommitAuthCallKeeps
  <2>2. NoTransaction' /\ backend'.committed
    BY <1>1, <1>2, <1>5, <2>1 DEF NoTransaction
  <2>3. Permits("authenticated", phase) = TRUE /\ After("authenticated", phase) = "ready"
    BY <1>1 DEF Permits, After, phaseTransitions, Transition
  <2>4. /\ phase' = "ready" /\ UNCHANGED refused
        /\ loop' \in {"running", "closing"} /\ reply' \in Nat
    BY <1>1, <1>5, <2>3 DEF Transit, Answer, Abort
  <2>5. authenticated' \in BOOLEAN /\ (loop' = "running" => authenticated')
    BY Zenon, <1>3, <1>5, <2>3 DEF Abort
  <2>6. CleanStep
    BY <1>1, <1>3, <2>2, <2>4, <2>5 DEF CleanStep, Phases
  <2> QED
    BY <2>6, CleanStepKeeps
<1> QED
  BY SMTT(20), <1>4, <1>5 DEF handleAUTH

\* Commands that only answer.
LEMMA AnswerOnlyKeeps ==
    ASSUME SessionInv,
           \/ \E verb \in DOMAIN queryReplies : handleQuery(verb)
           \/ handleQUIT \/ handleATRN \/ RefuseCommand \/ RefuseMail \/ loopEnds
    PROVE  SessionInv'
<1> USE LimitsAssumption
<1>1. loop = "running" /\ Stay /\ UNCHANGED server
  BY DEF handleQuery, handleQUIT, handleATRN, RefuseCommand, RefuseMail,
         loopEnds, Received
<1>2. mailAttempts \in 0..MaxTransactions
  BY <1>1 DEF SessionInv, TypeOK
<1>3. CASE RefuseMail
  BY <1>1, <1>2, <1>3, StayKeeps DEF RefuseMail, Answer, AnswerAndClose
<1>4. CASE ~RefuseMail
  <2>1. UNCHANGED mailAttempts
    BY <1>4 DEF handleQuery, handleQUIT, handleATRN, RefuseCommand, loopEnds,
                Received, queryReplies
  <2>2. loop' \in {"running", "closing"} /\ reply' \in Nat
    BY <1>4 DEF handleQuery, queryReplies, handleQUIT, handleATRN,
                RefuseCommand, loopEnds, Answer, AnswerAndClose, Abort
  <2> QED
    BY <1>1, <1>2, <2>1, <2>2, StayKeeps
<1> QED
  BY <1>3, <1>4

\* The connection is refused, or greeted with nothing yet to account for.
LEMMA ServeConnectionKeeps ==
    ASSUME SessionInv, serveConnection
    PROVE  SessionInv'
<1> USE LimitsAssumption
<1>1. loop = "accepted"
  BY DEF serveConnection
<1>2. /\ backend = NewAccount /\ phase = "connected"
      /\ ~transactionOpen /\ ~spool /\ ~authenticated
      /\ ~smtpUTF8 /\ ~binaryMIME /\ recipients = 0
      /\ backend \in Accounts
  BY <1>1 DEF SessionInv, BeforeGreeting, TypeOK
<1>3. ASSUME NEW code \in {0, 421}, NEW account \in {backend, CloseCall(backend)},
             rejectConnection(code, account)
      PROVE  SessionInv'
  <2>1. /\ ~backend.open /\ ~backend.closed /\ backend.breach = {}
    BY <1>2 DEF NewAccount
  <2>2. /\ CloseCall(backend) \in Accounts /\ CloseCall(backend).breach = {}
        /\ CloseCall(backend).open = FALSE
    BY Zenon, <1>2, <2>1, CloseCallKeeps
  <2>3. /\ account \in Accounts /\ account.breach = {} /\ ~account.open
    BY <1>2, <2>1, <2>2
  <2>4. TypeOK'
    BY SMTT(20), <1>3, <2>3 DEF SessionInv, TypeOK, rejectConnection, protocol, greeting,
                      flags
  <2> QED
    BY <1>1, <1>2, <1>3, <2>3, <2>4
       DEF SessionInv, ContractKept, TransitionsPermitted,
           TransactionAgreement, NothingInherited, PolicyEnforced, InStep,
           BeforeGreeting, rejectConnection, protocol, flags
<1>4. ASSUME NEW cert \in BOOLEAN,
             tls' = server.implicitTLS, peerCert' = cert, Answer(220),
             UNCHANGED <<server, phase, authenticated, extended, flags,
                         mailAttempts, lifecycle, refused>>
      PROVE  SessionInv'
  <2>1. server.implicitTLS \in BOOLEAN
    BY ServersAssumption DEF SessionInv, TypeOK, ServerOptions
  <2>2. tls' \in BOOLEAN /\ peerCert' \in BOOLEAN
    BY <1>4, <2>1
  <2>3. /\ UNCHANGED <<transactionOpen, spool, backend>>
        /\ loop' \in {"running", "closing"} /\ reply' \in Nat
    BY <1>4 DEF lifecycle, Answer
  <2>4. TypeOK'
    BY <1>4, <2>2, <2>3 DEF SessionInv, TypeOK, flags
  <2>5. mailAttempts = 0
    BY <1>1 DEF SessionInv, BeforeGreeting
  <2> QED
    BY <1>1, <1>2, <1>4, <2>3, <2>4, <2>5
       DEF SessionInv, ContractKept, TransitionsPermitted,
           TransactionAgreement, NothingInherited, PolicyEnforced, InStep,
           BeforeGreeting, flags, NewAccount
<1>5. ASSUME NEW cert \in BOOLEAN,
             IF server.requireAuth /\ ~authReachable(server.implicitTLS, cert)
               THEN rejectConnection(421, CloseCall(backend))
               ELSE /\ tls' = server.implicitTLS
                    /\ peerCert' = cert
                    /\ Answer(220)
                    /\ UNCHANGED <<server, phase, authenticated, extended, flags,
                                   mailAttempts, lifecycle, refused>>
      PROVE  SessionInv'
  BY <1>3, <1>4, <1>5
<1>6. \/ rejectConnection(0, backend) \/ rejectConnection(421, backend)
      \/ rejectConnection(421, CloseCall(backend))
      \/ \E cert \in BOOLEAN :
            IF server.requireAuth /\ ~authReachable(server.implicitTLS, cert)
              THEN rejectConnection(421, CloseCall(backend))
              ELSE /\ tls' = server.implicitTLS
                   /\ peerCert' = cert
                   /\ Answer(220)
                   /\ UNCHANGED <<server, phase, authenticated, extended, flags,
                                  mailAttempts, lifecycle, refused>>
  BY Zenon DEF serveConnection
<1> QED
  BY <1>3, <1>5, <1>6

\* close resets what is open and closes the backend's Session once.
LEMMA CloseSessionKeeps ==
    ASSUME SessionInv, closeSession
    PROVE  SessionInv'
<1>1. /\ backend \in Accounts /\ backend.breach = {} /\ ~backend.closed
      /\ backend.open <=> transactionOpen \/ spool
  BY DEF SessionInv, TypeOK, ContractKept, NothingInherited, closeSession
<1> DEFINE a == IF transactionOpen \/ spool
                  THEN ResetCall(backend, "sessionEnd") ELSE backend
<1>2. a \in Accounts /\ a.breach = {} /\ ~a.open /\ ~a.closed
  <2>1. CASE transactionOpen \/ spool
    BY Zenon, <1>1, <2>1, ResetCallKeeps DEF ResetReasons
  <2>2. CASE ~(transactionOpen \/ spool)
    BY <1>1, <2>2
  <2> QED
    BY <2>1, <2>2
<1>3. /\ CloseCall(a) \in Accounts /\ CloseCall(a).breach = {}
      /\ CloseCall(a).open = FALSE
  <2> HIDE DEF a
  <2> QED
    BY Zenon, <1>2, CloseCallKeeps
<1>4. /\ loop' = "gone" /\ transactionOpen' = FALSE /\ spool' = FALSE
      /\ backend' \in Accounts /\ backend'.breach = {} /\ ~backend'.open
      /\ phase' = After("close", phase)
      /\ UNCHANGED <<server, tls, authenticated, greeting, flags, mailAttempts,
                     reply, refused>>
  BY <1>3 DEF closeSession, closeAccount
<1>5. phase' \in Phases
  BY <1>4 DEF SessionInv, TypeOK, After, Permits, phaseTransitions, Transition,
              Phases
<1>6. TypeOK'
  BY Zenon, <1>4, <1>5 DEF SessionInv, TypeOK, greeting, flags
<1> QED
  BY <1>4, <1>6
     DEF SessionInv, ContractKept, TransitionsPermitted, TransactionAgreement,
         NothingInherited, PolicyEnforced, InStep, BeforeGreeting

(***************************************************************************)
(* The theorems.                                                           *)
(***************************************************************************)
\* The invariant holds when the connection is accepted.
LEMMA InitInv == Init => SessionInv
<1> SUFFICES ASSUME Init PROVE SessionInv
  OBVIOUS
<1>1. /\ tls \in BOOLEAN /\ authenticated \in BOOLEAN /\ peerCert \in BOOLEAN
      /\ extended \in BOOLEAN /\ smtpUTF8 \in BOOLEAN /\ binaryMIME \in BOOLEAN
      /\ transactionOpen \in BOOLEAN /\ spool \in BOOLEAN /\ refused \in BOOLEAN
  BY Zenon DEF Init
<1>2. /\ recipients \in 0..MaxRcpt /\ mailAttempts \in 0..(MaxTransactions + 1)
      /\ reply \in Nat /\ mailAttempts <= MaxTransactions
  BY LimitsAssumption DEF Init
<1>3. backend \in Accounts
  BY DEF Init, NewAccount, Accounts
<1>4. TypeOK
  BY <1>1, <1>2, <1>3 DEF Init, TypeOK, Phases
<1> QED
  BY <1>2, <1>4
     DEF Init, SessionInv, ContractKept, TransitionsPermitted,
         TransactionAgreement, NothingInherited, PolicyEnforced, InStep,
         BeforeGreeting, NewAccount

\* Every step of the connection keeps it.
LEMMA NextInv == SessionInv /\ [Next]_vars => SessionInv'
<1> SUFFICES ASSUME SessionInv, [Next]_vars
             PROVE  SessionInv'
  OBVIOUS
<1>1. CASE UNCHANGED vars
  BY <1>1
     DEF vars, session, protocol, greeting, flags, lifecycle, SessionInv, TypeOK,
         ContractKept, TransitionsPermitted, TransactionAgreement,
         NothingInherited, PolicyEnforced, InStep, BeforeGreeting
<1>2. CASE Handler
  BY <1>2, HelloKeeps, MailKeeps, RcptKeeps, DATAKeeps, BDATKeeps, RSETKeeps,
     STARTTLSKeeps, AUTHKeeps, AnswerOnlyKeeps, Zenon DEF Handler
<1>3. CASE serveConnection
  BY <1>3, ServeConnectionKeeps
<1>4. CASE RefuseCommand \/ RefuseMail \/ loopEnds
  BY <1>4, AnswerOnlyKeeps
<1>5. CASE handleCommandReadError
  BY <1>5, ReadErrorKeeps
<1>6. CASE closeSession
  BY <1>6, CloseSessionKeeps
<1> QED
  BY <1>1, <1>2, <1>3, <1>4, <1>5, <1>6 DEF Next, Gone

\* Every reachable state of a connection satisfies the invariant.
THEOREM Invariance == Spec => []SessionInv
BY InitInv, NextInv, PTL DEF Spec

\* The variables of a connection keep their types, and the recipient list and
\* the MAIL counter their limits (handleRcpt, execute).
THEOREM TypeCorrect == Spec => []TypeOK
<1>1. SessionInv => TypeOK
  BY DEF SessionInv
<1> QED
  BY Invariance, <1>1, PTL

\* The framework keeps its contract with the backend on every path.
THEOREM ContractIsKept == Spec => []ContractKept
<1>1. SessionInv => ContractKept
  BY DEF SessionInv
<1> QED
  BY Invariance, <1>1, PTL

\* No transition of the protocol state is ever refused.
THEOREM TransitionsArePermitted == Spec => []TransitionsPermitted
<1>1. SessionInv => TransitionsPermitted
  BY DEF SessionInv
<1> QED
  BY Invariance, <1>1, PTL

\* Phase, lifecycle and backend agree on the transaction while commands are
\* read.
THEOREM RecordsAgree == Spec => []TransactionAgreement
<1>1. SessionInv => TransactionAgreement
  BY DEF SessionInv
<1> QED
  BY Invariance, <1>1, PTL

\* No transaction inherits anything of an earlier one.
THEOREM NoInheritance == Spec => []NothingInherited
<1>1. SessionInv => NothingInherited
  BY DEF SessionInv
<1> QED
  BY Invariance, <1>1, PTL

\* RequireTLS and RequireAuth hold throughout every transaction.
THEOREM PolicyIsEnforced == Spec => []PolicyEnforced
<1>1. SessionInv => PolicyEnforced
  BY DEF SessionInv
<1> QED
  BY Invariance, <1>1, PTL

\* In the failed BDAT phase the tables let only four commands through, and of
\* these RSET alone moves the session, without a call to the backend.
LEMMA FailedBDATStep ==
    ASSUME SessionInv, Next, phase = "failedBDAT", loop' = "running"
    PROVE  /\ backend' = backend
           /\ phase' # phase => phase' = "ready" /\ recipients' = 0
<1>1. ~spool /\ (loop = "running" => ~transactionOpen)
  BY SMTT(20) DEF SessionInv, NothingInherited, TransactionAgreement
<1>2. ASSUME NEW verb \in Verbs, Received(verb)
      PROVE  verb \in {"BDAT", "RSET", "NOOP", "QUIT"} /\ loop = "running"
  BY <1>2 DEF Received, legality, wrongState, commandRules, Rule, Greeted, Verbs
<1>3. CASE Stay
  BY <1>3 DEF Stay, lifecycle, protocol
<1>4. CASE handleRSET
  <2>1. CASE ResetPanics(backend, "explicit")
    BY <2>1 DEF ResetPanics, Abort
  <2>2. CASE /\ resetIfOpen(spool, "explicit")
             /\ clearTransaction
             /\ Transit("reset", phase, Answer(250))
    <3>1. backend' = backend
      BY <1>1, <1>4, <2>2 DEF resetIfOpen, lifecycle, handleRSET, Received
    <3> QED
      BY <2>2, <3>1 DEF clearTransaction, Transit, After, Permits,
                        phaseTransitions, Transition, Greeted
  <2> QED
    BY <1>3, <1>4, <2>1, <2>2 DEF handleRSET
<1>5. CASE \E last \in BOOLEAN : handleBDAT(last)
  BY <1>3, <1>5, Zenon DEF handleBDAT
<1>6. CASE \/ \E verb \in DOMAIN queryReplies : handleQuery(verb)
           \/ handleQUIT \/ handleATRN
  BY <1>3, <1>6 DEF handleQuery, handleQUIT, handleATRN
<1>7. CASE serveConnection \/ closeSession \/ Gone \/ handleCommandReadError
  BY Zenon, <1>1, <1>7
     DEF serveConnection, closeSession, Gone, vars, handleCommandReadError,
         SessionInv, BeforeGreeting
<1>8. CASE RefuseCommand \/ RefuseMail \/ loopEnds
  BY <1>3, <1>8 DEF RefuseCommand, RefuseMail, loopEnds
<1>9. CASE \/ \E verb \in {"HELO", "EHLO", "LHLO"} : Received(verb)
           \/ Received("MAIL") \/ Received("RCPT") \/ Received("DATA")
           \/ Received("STARTTLS") \/ Received("AUTH")
  BY <1>2, <1>9 DEF Verbs
<1> QED
  BY Zenon, <1>4, <1>5, <1>6, <1>7, <1>8, <1>9
     DEF Next, Handler, handleHello, handleMail, handleRcpt, handleDATA,
         handleSTARTTLS, handleAUTH

\* After a failed chunk the backend is left alone until RSET or the end.
THEOREM FailedBDATSilence == Spec => FailedBDATIsSilent
<1>1. SessionInv /\ [Next]_vars =>
        [phase = "failedBDAT" /\ loop' = "running" =>
           /\ backend' = backend
           /\ phase' # phase => phase' = "ready" /\ recipients' = 0]_vars
  BY FailedBDATStep
<1> QED
  BY Invariance, <1>1, PTL DEF Spec, FailedBDATIsSilent
-----------------------------------------------------------------------------
(***************************************************************************)
(* The content stage.                                                      *)
(***************************************************************************)
Bodies == [command : Commands, mode : {"SMTP", "LMTP"}, rcpts : 1..MaxRecipients,
           limit : Limits, size : 0..MaxContent, ending : Endings]

Evaluations == [verdicts : Seq(Verdicts), completed : BOOLEAN, close : BOOLEAN]

Types ==
    /\ msg \in Bodies
    /\ left \in 0..msg.size /\ remain \in 0..msg.limit /\ delivered \in 0..msg.size
    /\ exceeded \in BOOLEAN /\ exhausted \in BOOLEAN /\ told \in BOOLEAN
    /\ early \in BOOLEAN
    /\ pc \in {"backend", "drain", "drainAgain", "outcome", "finish", "done"}
    /\ outcome \in Outcomes
    /\ evaluation \in Evaluations /\ Len(evaluation.verdicts) <= MaxRecipients
    /\ replies \in Seq(Verdicts)
    /\ resetAs \in {"none", "completed", "failed", "sessionEnd"}
    /\ fate \in {"open", "resumed", "closed"}

\* What the two readers know of the content they passed on.
Reading ==
    /\ exceeded => msg.command = "DATA" /\ msg.size > msg.limit
    /\ limited => remain + (msg.size - left) = msg.limit
    /\ exhausted => left = 0 /\ msg.ending = "EOF"
    /\ told => exceeded
    /\ delivered <= msg.size - left
    /\ msg.command = "DATA" /\ ~told => delivered <= msg.limit
    /\ pc = "backend" /\ ~told => ~exceeded /\ delivered = msg.size - left

\* What is known when the backend returned: it either stopped early, or it was
\* handed everything.
Returned ==
    /\ pc \in {"drain", "drainAgain"} => early
    /\ pc = "outcome" => exhausted
    /\ pc = "outcome" /\ ~early /\ ~exceeded => delivered = msg.size

\* An evaluation that agrees with the backend, the content and the limit.
Sound(ev) ==
    /\ \A i \in DOMAIN ev.verdicts : ev.verdicts[i] = "accept" =>
         /\ outcome.verdicts[i] = "accept" /\ ~outcome.err
         /\ msg.ending = "EOF" /\ delivered = msg.size
    /\ ev.completed => \A i \in DOMAIN ev.verdicts : ev.verdicts[i] = outcome.verdicts[i]
    /\ ~ev.completed => \A i \in DOMAIN ev.verdicts : ev.verdicts[i] # "accept"
    /\ ~ev.close =>
         /\ Len(ev.verdicts) = Want(msg)
         /\ left = 0 /\ (msg.ending = "EOF" \/ exceeded)
         /\ msg.command = "DATA" =>
              \A i \in DOMAIN ev.verdicts : ev.verdicts[i] = "552" <=> msg.size > msg.limit

Replied ==
    /\ pc # "done" => replies = <<>> /\ resetAs = "none" /\ fate = "open"
    /\ AcceptedIsDelivered /\ ResetAgreesWithReplies /\ RepliesAfterContent
    /\ msg.command = "DATA" /\ fate = "resumed" =>
         \A i \in DOMAIN replies : replies[i] = "552" <=> msg.size > msg.limit

\* The inductive invariant.
DataInv == Types /\ Reading /\ Returned /\ (pc = "finish" => Sound(evaluation)) /\ Replied

------------------------------------------------------------------------------
\* The limits are positive numbers, and so are the counts.
LEMMA Numbers ==
    ASSUME Types
    PROVE  /\ msg.limit \in Nat /\ msg.limit > 0 /\ msg.limit <= Int64Max
           /\ msg.size \in Nat /\ left \in Nat /\ remain \in Nat /\ delivered \in Nat
           /\ Want(msg) \in Nat /\ Want(msg) >= 1 /\ Want(msg) <= MaxRecipients
           /\ msg.command \in Commands /\ msg.ending \in Endings
<1>1. /\ msg.limit \in Limits /\ msg.size \in 0..MaxContent
      /\ msg.rcpts \in 1..MaxRecipients
      /\ msg.command \in Commands /\ msg.ending \in Endings
  BY DEF Types, Bodies
<1>2. msg.limit \in 1..Int64Max
  BY Zenon, <1>1, DataPhaseAssumption
<1>3. msg.limit \in Nat /\ msg.limit > 0 /\ msg.limit <= Int64Max /\ msg.size \in Nat
  BY <1>1, <1>2, DataPhaseAssumption
<1>4. left \in Nat /\ remain \in Nat /\ delivered \in Nat
  BY <1>3 DEF Types
<1>5. Want(msg) \in Nat /\ Want(msg) >= 1 /\ Want(msg) <= MaxRecipients
  BY <1>1, DataPhaseAssumption DEF Want
<1> QED BY <1>1, <1>3, <1>4, <1>5

\* The smaller of two numbers.
LEMMA MinOfTwo ==
    ASSUME NEW a \in Nat, NEW b \in Nat
    PROVE  Min({a, b}) = IF a <= b THEN a ELSE b
<1> DEFINE m == IF a <= b THEN a ELSE b
<1>1. m \in {a, b} /\ \A y \in {a, b} : m =< y
  OBVIOUS
<1>2. \A x \in {a, b} : (\A y \in {a, b} : x =< y) => x = m
  OBVIOUS
<1>3. Min({a, b}) = m
  BY <1>1, <1>2 DEF Min
<1> QED BY <1>3

\* What one Read returns: it takes no more than is there, and hands on all it took
\* unless the content passes the limit with it.
LEMMA ReadReturns ==
    ASSUME Types, Reading, NEW b \in Nat \ {0}
    PROVE  LET r == Read(b)
           IN  /\ r.took \in 0..left /\ r.n \in 0..r.took
               /\ r.remain \in 0..remain /\ r.exceeded \in BOOLEAN
               /\ r.err \in {"none", "EOF", "broken", "tooLarge"}
               /\ r.err = "tooLarge" => /\ limited /\ r.exceeded /\ r.n = remain
                                        /\ left > remain
               /\ r.err # "tooLarge" =>
                    /\ r.n = r.took /\ r.exceeded = exceeded
                    /\ limited => r.remain = remain - r.took
                    /\ ~limited => r.remain = remain
               /\ r.err \in {"EOF", "broken"} =>
                    left = 0 /\ r.took = 0 /\ msg.ending = r.err
<1> DEFINE took == Min({readSize(b), left})
<1>1. readSize(b) \in Nat /\ readSize(b) > 0 /\ (limited => readSize(b) <= remain + 1)
  BY Numbers DEF readSize
<1>2. took = IF readSize(b) <= left THEN readSize(b) ELSE left
  BY <1>1, Numbers, MinOfTwo
<1>3. /\ took \in 0..left
      /\ left = 0 => took = 0
      /\ limited /\ took > remain => took = remain + 1 /\ left > remain
  BY <1>1, <1>2, Numbers
<1> HIDE DEF took
<1>4. Read(b) = IF limited /\ took > remain
        THEN [took |-> took, n |-> remain, err |-> "tooLarge", remain |-> 0,
              exceeded |-> TRUE]
        ELSE [took |-> took, n |-> took,
              err |-> IF left = 0 THEN msg.ending ELSE "none",
              remain |-> IF limited THEN remain - took ELSE remain,
              exceeded |-> exceeded]
  BY DEF Read, took
<1>5. msg.ending \in {"EOF", "broken"} /\ exceeded \in BOOLEAN
  BY DEF Types, Bodies, Endings
<1>6. CASE limited /\ took > remain
  <2>1. Read(b) = [took |-> took, n |-> remain, err |-> "tooLarge", remain |-> 0,
                   exceeded |-> TRUE]
    BY <1>4, <1>6
  <2> QED BY SMTT(20), <2>1, <1>3, <1>6, Numbers
<1>7. CASE ~(limited /\ took > remain)
  <2>1. Read(b) = [took |-> took, n |-> took,
                   err |-> IF left = 0 THEN msg.ending ELSE "none",
                   remain |-> IF limited THEN remain - took ELSE remain,
                   exceeded |-> exceeded]
    BY <1>4, <1>7
  <2> DEFINE r == Read(b)
  <2>2. /\ r.took = took /\ r.n = took /\ r.exceeded = exceeded
        /\ r.err = (IF left = 0 THEN msg.ending ELSE "none")
        /\ r.remain = (IF limited THEN remain - took ELSE remain)
    BY <2>1
  <2> HIDE DEF r
  <2>3. r.remain \in 0..remain
    BY <2>2, <1>3, <1>7, Numbers
  <2>4. r.err \in {"none", "EOF", "broken"} /\ r.err # "tooLarge"
    BY <2>2, <1>5
  <2>5. r.err \in {"EOF", "broken"} => left = 0 /\ r.took = 0 /\ msg.ending = r.err
    BY <2>2, <1>3, <1>5
  <2>6. r.took \in 0..left /\ r.n \in 0..r.took /\ r.exceeded \in BOOLEAN
    BY <2>2, <1>3, <1>5, Numbers
  <2>7. QED BY <2>2, <2>3, <2>4, <2>5, <2>6 DEF r
<1> QED BY <1>6, <1>7

\* What a step of either reader leaves true of the content and the limit.
LEMMA AdvanceKeeps ==
    ASSUME Types, Reading, NEW b \in Nat \ {0}, Advance(Read(b)), msg' = msg
    PROVE  /\ left' \in 0..msg.size /\ remain' \in 0..msg.limit
           /\ exceeded' \in BOOLEAN /\ exhausted' \in BOOLEAN
           /\ left' = left - Read(b).took
           /\ exceeded => exceeded'
           /\ exceeded' => msg.command = "DATA" /\ msg.size > msg.limit
           /\ limited' => remain' + (msg.size - left') = msg.limit
           /\ exhausted' => left' = 0 /\ msg.ending = "EOF"
<1> DEFINE r == Read(b)
<1>1. /\ r.took \in 0..left /\ r.n \in 0..r.took
      /\ r.remain \in 0..remain /\ r.exceeded \in BOOLEAN
      /\ r.err \in {"none", "EOF", "broken", "tooLarge"}
      /\ r.err = "tooLarge" => limited /\ r.exceeded /\ r.n = remain /\ left > remain
      /\ r.err # "tooLarge" =>
           /\ r.n = r.took /\ r.exceeded = exceeded
           /\ limited => r.remain = remain - r.took
           /\ ~limited => r.remain = remain
      /\ r.err \in {"EOF", "broken"} => left = 0 /\ r.took = 0 /\ msg.ending = r.err
  BY ReadReturns
<1>2. /\ left' = left - r.took /\ remain' = r.remain /\ exceeded' = r.exceeded
      /\ exhausted' = (exhausted \/ r.err = "EOF")
  BY DEF Advance
<1> HIDE DEF r
<1>3. left' \in 0..msg.size /\ remain' \in 0..msg.limit
  <2>1. /\ left \in 0..msg.size /\ remain \in 0..msg.limit
        /\ msg.size \in Nat /\ msg.limit \in Nat
    BY Numbers DEF Types
  <2>2. r.took \in 0..left /\ left' = left - r.took /\ remain' \in 0..remain
    BY <1>1, <1>2
  <2> QED BY ONLY <2>1, <2>2
<1>4. exceeded' \in BOOLEAN /\ exhausted' \in BOOLEAN
  BY <1>1, <1>2 DEF Types
<1>5. exceeded => exceeded'
  BY Zenon, <1>1, <1>2 DEF Types, limited
<1>6. exceeded' => msg.command = "DATA" /\ msg.size > msg.limit
  <2>1. CASE r.err = "tooLarge"
    BY <1>1, <2>1, Numbers DEF Reading, limited
  <2>2. CASE r.err # "tooLarge"
    BY Zenon, <1>1, <1>2, <2>2 DEF Reading
  <2> QED BY <2>1, <2>2
<1>7. limited' => remain' + (msg.size - left') = msg.limit
  <2> SUFFICES ASSUME limited' PROVE remain' + (msg.size - left') = msg.limit
    OBVIOUS
  <2>1. ~exceeded' /\ msg.command = "DATA"
    BY DEF limited
  <2>2. r.err # "tooLarge" /\ limited
    BY <2>1, <1>1, <1>2 DEF limited
  <2>3. remain' = remain - r.took /\ left' = left - r.took
    BY <2>2, <1>1, <1>2
  <2>4. remain + (msg.size - left) = msg.limit
    BY <2>2 DEF Reading
  <2>5. r.took \in Nat /\ left \in Nat /\ remain \in Nat /\ msg.size \in Nat /\ msg.limit \in Nat
    BY <1>1, Numbers
  <2> QED BY ONLY <2>3, <2>4, <2>5
<1>8. exhausted' => left' = 0 /\ msg.ending = "EOF"
  <2>1. exhausted' => left = 0 /\ msg.ending = "EOF"
    BY Zenon, <1>1, <1>2 DEF Reading
  <2>2. left = 0 => left' = 0
    BY <1>1, <1>2
  <2> QED BY <2>1, <2>2
<1> QED BY <1>2, <1>3, <1>4, <1>5, <1>6, <1>7, <1>8 DEF r

\* Sequences of verdicts, as functions.
LEMMA VerdictSeq ==
    ASSUME NEW n \in Nat, NEW S, NEW s \in [1..n -> S]
    PROVE  s \in Seq(S) /\ Len(s) = n /\ DOMAIN s = 1..n
<1>1. s \in Seq(S)
  BY SeqDef
<1>2. DOMAIN s = 1..n /\ DOMAIN s = 1..Len(s) /\ Len(s) \in Nat
  BY <1>1, LenProperties
<1>3. Len(s) = n
  BY <1>2
<1> QED BY <1>1, <1>2, <1>3

\* What the backend returns is a sequence of its two verdicts.
LEMMA OutcomeSeq ==
    ASSUME NEW o \in Outcomes
    PROVE  /\ o.verdicts \in Seq({"accept", "reject"}) /\ o.verdicts \in Seq(Verdicts)
           /\ Len(o.verdicts) \in Nat /\ Len(o.verdicts) <= MaxRecipients
           /\ DOMAIN o.verdicts = 1..Len(o.verdicts)
           /\ o.err \in BOOLEAN /\ o.named \in BOOLEAN
<1>1. PICK n \in 0..MaxRecipients : o.verdicts \in [1..n -> {"accept", "reject"}]
  BY DEF Outcomes
<1>2. n \in Nat /\ n <= MaxRecipients
  BY <1>1, DataPhaseAssumption
<1>3. o.verdicts \in Seq({"accept", "reject"}) /\ Len(o.verdicts) = n
      /\ DOMAIN o.verdicts = 1..n
  BY <1>1, <1>2, VerdictSeq
<1>4. o.verdicts \in Seq(Verdicts)
  BY <1>3, SeqMonotonic DEF Verdicts
<1>5. o.err \in BOOLEAN /\ o.named \in BOOLEAN
  BY DEF Outcomes
<1> QED BY <1>2, <1>3, <1>4, <1>5

\* One verdict for everyone.
LEMMA AlwaysIs ==
    ASSUME Types, NEW v \in Verdicts
    PROVE  /\ Always(msg, v) \in Evaluations
           /\ Len(Always(msg, v).verdicts) = Want(msg)
           /\ \A i \in DOMAIN Always(msg, v).verdicts : Always(msg, v).verdicts[i] = v
           /\ ~Always(msg, v).completed /\ ~Always(msg, v).close
<1> DEFINE s == [i \in 1..Want(msg) |-> v]
<1>1. s \in [1..Want(msg) -> Verdicts] /\ Want(msg) \in Nat
  BY Numbers
<1>2. s \in Seq(Verdicts) /\ Len(s) = Want(msg) /\ DOMAIN s = 1..Want(msg)
  BY <1>1, VerdictSeq
<1>3. \A i \in DOMAIN s : s[i] = v
  OBVIOUS
<1>4. Always(msg, v) = [verdicts |-> s, completed |-> FALSE, close |-> FALSE]
  BY SMTT(20) DEF Always
<1> HIDE DEF s
<1> QED BY <1>2, <1>3, <1>4 DEF Evaluations

\* validateDataOutcome returns one verdict for everyone who waits for one: the
\* backend's, or a temporary failure of them all.
LEMMA ValidatedIs ==
    ASSUME Types
    PROVE  LET ev == validateDataOutcome(msg, outcome)
           IN  /\ ev \in Evaluations /\ Len(ev.verdicts) = Want(msg) /\ ~ev.close
               /\ ev.completed => ev.verdicts = outcome.verdicts /\ ~outcome.err
               /\ ~ev.completed => \A i \in DOMAIN ev.verdicts : ev.verdicts[i] # "accept"
               /\ \A i \in DOMAIN ev.verdicts : ev.verdicts[i] # "552"
<1> DEFINE bad == \/ outcome.err \/ Len(outcome.verdicts) # Want(msg)
                  \/ (msg.mode = "LMTP" /\ ~outcome.named)
           ev == validateDataOutcome(msg, outcome)
<1>0. outcome \in Outcomes
  BY DEF Types
<1>1. CASE bad
  <2>1. ev = Always(msg, "451")
    BY <1>1 DEF validateDataOutcome, temporaryDataResult
  <2>2. "451" \in Verdicts
    BY DEF Verdicts
  <2> HIDE DEF ev
  <2>3. /\ ev \in Evaluations /\ Len(ev.verdicts) = Want(msg) /\ ~ev.close /\ ~ev.completed
        /\ \A i \in DOMAIN ev.verdicts : ev.verdicts[i] = "451"
    BY SMTT(20), <2>1, <2>2, AlwaysIs
  <2> QED BY <2>3 DEF ev
<1>2. CASE ~bad
  <2>1. ev = [verdicts |-> outcome.verdicts, completed |-> TRUE, close |-> FALSE]
    BY <1>2 DEF validateDataOutcome
  <2>2. /\ outcome.verdicts \in Seq({"accept", "reject"}) /\ outcome.verdicts \in Seq(Verdicts)
        /\ DOMAIN outcome.verdicts = 1..Len(outcome.verdicts)
    BY <1>0, OutcomeSeq
  <2>3. \A i \in DOMAIN outcome.verdicts : outcome.verdicts[i] \in {"accept", "reject"}
    BY <2>2, ElementOfSeq
  <2> HIDE DEF ev
  <2>4. ev \in Evaluations /\ ev.verdicts = outcome.verdicts /\ ev.completed /\ ~ev.close
    BY <2>1, <2>2 DEF Evaluations
  <2>5. Len(ev.verdicts) = Want(msg) /\ ~outcome.err
    BY <2>4, <1>2
  <2>6. \A i \in DOMAIN ev.verdicts : ev.verdicts[i] # "552"
    BY <2>3, <2>4
  <2> QED BY <2>4, <2>5, <2>6 DEF ev
<1> QED BY <1>1, <1>2

\* replaceEarlySuccess leaves no positive verdict, and leaves the verdicts alone
\* where there was none.
LEMMA ReplacedIs ==
    ASSUME NEW ev \in Evaluations,
           \A i \in DOMAIN ev.verdicts : ev.verdicts[i] # "552"
    PROVE  LET rv == replaceEarlySuccess(ev)
           IN  /\ rv \in Evaluations /\ Len(rv.verdicts) = Len(ev.verdicts)
               /\ rv.close = ev.close
               /\ rv.completed => ev.completed /\ DOMAIN rv.verdicts = DOMAIN ev.verdicts
                    /\ \A i \in DOMAIN rv.verdicts : rv.verdicts[i] = ev.verdicts[i]
               /\ \A i \in DOMAIN rv.verdicts : rv.verdicts[i] \notin {"accept", "552"}
<1> DEFINE claims == {i \in DOMAIN ev.verdicts : ev.verdicts[i] = "accept"}
           s == [i \in DOMAIN ev.verdicts |->
                   IF i \in claims THEN "451" ELSE ev.verdicts[i]]
           rv == replaceEarlySuccess(ev)
<1>1. /\ ev.verdicts \in Seq(Verdicts) /\ ev.completed \in BOOLEAN /\ ev.close \in BOOLEAN
  BY DEF Evaluations
<1>2. /\ Len(ev.verdicts) \in Nat /\ DOMAIN ev.verdicts = 1..Len(ev.verdicts)
      /\ \A i \in DOMAIN ev.verdicts : ev.verdicts[i] \in Verdicts
  BY <1>1, LenProperties, ElementOfSeq
<1>3. s \in [1..Len(ev.verdicts) -> Verdicts]
  BY <1>2 DEF Verdicts
<1>4. s \in Seq(Verdicts) /\ Len(s) = Len(ev.verdicts) /\ DOMAIN s = DOMAIN ev.verdicts
  BY <1>2, <1>3, VerdictSeq
<1>5. /\ \A i \in DOMAIN s : s[i] \notin {"accept", "552"}
      /\ claims = {} => \A i \in DOMAIN s : s[i] = ev.verdicts[i]
  OBVIOUS
<1>6. rv = [ev EXCEPT !.verdicts = s, !.completed = ev.completed /\ claims = {}]
  BY DEF replaceEarlySuccess
<1> HIDE DEF s, claims, rv
<1>7. /\ rv.verdicts = s /\ rv.completed = (ev.completed /\ claims = {})
      /\ rv.close = ev.close
  BY <1>6 DEF Evaluations
<1>8. rv \in Evaluations
  BY Zenon, <1>1, <1>4, <1>6 DEF Evaluations
<1> QED BY Zenon, <1>4, <1>5, <1>7, <1>8 DEF rv

\* What handleDATA concludes with is sound: nothing and a closed connection, the
\* refusal of content over the limit, or the backend's verdicts.
LEMMA NothingIsSound ==
    ASSUME Types
    PROVE  LET ev == [NoEvaluation EXCEPT !.close = TRUE]
           IN  ev \in Evaluations /\ Len(ev.verdicts) <= MaxRecipients /\ Sound(ev)
<1> DEFINE ev == [NoEvaluation EXCEPT !.close = TRUE]
<1>1. <<>> \in Seq(Verdicts) /\ Len(<<>>) = 0 /\ DOMAIN <<>> = {}
  BY EmptySeq
<1>2. NoEvaluation \in Evaluations /\ NoEvaluation.verdicts = <<>>
  BY <1>1 DEF NoEvaluation, Evaluations
<1>3. ev \in Evaluations /\ ev.verdicts = <<>> /\ ev.close
  BY Zenon, <1>2 DEF Evaluations
<1> HIDE DEF ev
<1>4. Len(ev.verdicts) <= MaxRecipients
  BY <1>1, <1>3, DataPhaseAssumption
<1>5. Sound(ev)
  BY SMTT(20), <1>1, <1>3 DEF Sound
<1> QED BY <1>3, <1>4, <1>5 DEF ev

\* Everyone is answered 552 when the content is over the limit and read to its end.
LEMMA ExcessIsSound ==
    ASSUME Types, Reading, exceeded, left = 0
    PROVE  LET ev == sizeExceededEvaluation(msg)
           IN  ev \in Evaluations /\ Len(ev.verdicts) <= MaxRecipients /\ Sound(ev)
<1> DEFINE ev == sizeExceededEvaluation(msg)
<1>1. "552" \in Verdicts
  BY DEF Verdicts
<1>2. ev = Always(msg, "552")
  BY SMTT(20) DEF sizeExceededEvaluation
<1> HIDE DEF ev
<1>3. /\ ev \in Evaluations /\ Len(ev.verdicts) = Want(msg) /\ ~ev.completed
      /\ \A i \in DOMAIN ev.verdicts : ev.verdicts[i] = "552"
  BY <1>1, <1>2, AlwaysIs
<1>4. msg.size > msg.limit
  BY DEF Reading
<1> QED BY <1>3, <1>4, Numbers DEF Sound, ev

\* With the content complete and within the limit, the verdicts are the backend's,
\* and none is positive if it stopped before the end.
LEMMA VerdictsAreSound ==
    ASSUME Types, Reading, Returned, pc = "outcome", ~exceeded
    PROVE  LET v == validateDataOutcome(msg, outcome)
               ev == IF early THEN replaceEarlySuccess(v) ELSE v
           IN  ev \in Evaluations /\ Len(ev.verdicts) <= MaxRecipients /\ Sound(ev)
<1> DEFINE v == validateDataOutcome(msg, outcome)
           rv == replaceEarlySuccess(v)
<1>1. /\ v \in Evaluations /\ Len(v.verdicts) = Want(msg) /\ ~v.close
      /\ v.completed => v.verdicts = outcome.verdicts /\ ~outcome.err
      /\ ~v.completed => \A i \in DOMAIN v.verdicts : v.verdicts[i] # "accept"
      /\ \A i \in DOMAIN v.verdicts : v.verdicts[i] # "552"
  BY ValidatedIs
<1> HIDE DEF v
<1>2. /\ rv \in Evaluations /\ Len(rv.verdicts) = Len(v.verdicts)
      /\ rv.close = v.close
      /\ rv.completed => v.completed /\ DOMAIN rv.verdicts = DOMAIN v.verdicts
           /\ \A i \in DOMAIN rv.verdicts : rv.verdicts[i] = v.verdicts[i]
      /\ \A i \in DOMAIN rv.verdicts : rv.verdicts[i] \notin {"accept", "552"}
  BY <1>1, ReplacedIs
<1> HIDE DEF rv
<1>3. exhausted /\ left = 0 /\ msg.ending = "EOF"
  BY DEF Returned, Reading
<1>4. msg.command = "DATA" => ~(msg.size > msg.limit)
  <2> SUFFICES ASSUME msg.command = "DATA" PROVE ~(msg.size > msg.limit)
    OBVIOUS
  <2>1. remain + (msg.size - left) = msg.limit
    BY DEF Reading, limited
  <2> QED BY <2>1, <1>3, Numbers
<1>5. Want(msg) <= MaxRecipients
  BY SMTT(20), Numbers
<1>6. CASE early
  <2>1. Sound(rv)
    BY SMTT(20), <1>1, <1>2, <1>3, <1>4 DEF Sound
  <2> QED BY Zenon, <1>1, <1>2, <1>5, <1>6, <2>1 DEF v, rv
<1>7. CASE ~early
  <2>1. delivered = msg.size
    BY <1>7 DEF Returned
  <2>2. Sound(v)
    BY <1>1, <1>3, <1>4, <2>1 DEF Sound
  <2> QED BY <1>1, <1>5, <1>7, <2>2 DEF v
<1> QED BY SMTT(20), <1>6, <1>7 DEF Types

\* Nothing is claimed to a peer that was sent no reply.
LEMMA NoReplyYet ==
    ASSUME replies' = <<>>, resetAs' \in {"none", "sessionEnd"}, fate' \in {"open", "closed"},
           pc' # "done" => resetAs' = "none" /\ fate' = "open"
    PROVE  Replied'
<1>1. DOMAIN <<>> = {}
  OBVIOUS
<1>2. AcceptedIsDelivered'
  BY <1>1 DEF AcceptedIsDelivered
<1>3. ResetAgreesWithReplies'
  BY DEF ResetAgreesWithReplies
<1>4. RepliesAfterContent'
  BY DEF RepliesAfterContent
<1> QED BY <1>2, <1>3, <1>4 DEF Replied

\* The invariant holds of the state the content stage starts in.
LEMMA InitData == DataInit => DataInv
<1> SUFFICES ASSUME DataInit PROVE DataInv
  OBVIOUS
<1>1. PICK c \in Commands, mode \in {"SMTP", "LMTP"}, n \in 1..MaxRecipients,
           max \in Limits, k \in 0..MaxContent, e \in Endings :
        /\ msg = [command |-> c, mode |-> mode, rcpts |-> n, limit |-> max,
                  size |-> k, ending |-> e]
        /\ left = k /\ remain = max
  BY DEF DataInit
<1>2. /\ exceeded = FALSE /\ exhausted = FALSE /\ delivered = 0 /\ told = FALSE
      /\ pc = "backend" /\ early = FALSE /\ outcome = NoOutcome
      /\ evaluation = NoEvaluation /\ replies = <<>> /\ resetAs = "none" /\ fate = "open"
  BY DEF DataInit
<1>3. msg \in Bodies /\ msg.size = k /\ msg.limit = max
  BY <1>1 DEF Bodies
<1>4. max \in 1..Int64Max /\ k \in Nat /\ MaxRecipients \in Nat
  BY <1>1, DataPhaseAssumption
<1>5. <<>> \in Seq(Verdicts) /\ Len(<<>>) = 0 /\ DOMAIN <<>> = {}
  BY EmptySeq
<1>6. NoOutcome \in Outcomes
  <2>1. <<>> \in [1..0 -> {"accept", "reject"}]
    <3>1. <<>> \in Seq({"accept", "reject"}) /\ Len(<<>>) = 0
      BY EmptySeq
    <3>2. <<>> \in [1..Len(<<>>) -> {"accept", "reject"}]
      BY <3>1, LenProperties
    <3> QED BY <3>1, <3>2
  <2>2. 0 \in 0..MaxRecipients
    BY <1>4
  <2> QED BY <2>1, <2>2 DEF NoOutcome, Outcomes
<1>7. NoEvaluation \in Evaluations /\ Len(NoEvaluation.verdicts) = 0
  BY <1>5 DEF NoEvaluation, Evaluations
<1>8. left \in 0..msg.size /\ remain \in 0..msg.limit /\ delivered \in 0..msg.size
  BY <1>1, <1>2, <1>3, <1>4
<1>9. Types
  <2>1. evaluation \in Evaluations /\ Len(evaluation.verdicts) <= MaxRecipients
    BY <1>2, <1>4, <1>7
  <2>2. outcome \in Outcomes /\ replies \in Seq(Verdicts)
    BY <1>2, <1>5, <1>6
  <2>3. exceeded \in BOOLEAN /\ exhausted \in BOOLEAN /\ told \in BOOLEAN /\ early \in BOOLEAN
    BY Zenon, <1>2
  <2> QED BY <1>2, <1>3, <1>8, <2>1, <2>2, <2>3 DEF Types
<1>10. Reading
  BY <1>1, <1>2, <1>3, <1>4 DEF Reading, limited
<1>11. Returned
  BY <1>2 DEF Returned
<1>12. Replied
  BY <1>2, <1>5 DEF Replied, AcceptedIsDelivered, ResetAgreesWithReplies, RepliesAfterContent
<1> QED BY <1>2, <1>9, <1>10, <1>11, <1>12 DEF DataInv

\* A read of the backend's.
LEMMA ReadStep == DataInv /\ backendRead => DataInv'
<1> SUFFICES ASSUME DataInv, backendRead PROVE DataInv'
  OBVIOUS
<1>1. Types /\ Reading /\ Returned /\ Replied
  BY DEF DataInv
<1>2. PICK b \in 1..MaxRead :
        /\ Advance(Read(b))
        /\ delivered' = delivered + Read(b).n
        /\ told' = (told \/ Read(b).err = "tooLarge")
  BY DEF backendRead
<1>3. /\ pc = "backend" /\ UNCHANGED <<msg, pc, early, outcome, evaluation, replies, resetAs, fate>>
  BY DEF backendRead
<1>4. b \in Nat \ {0}
  BY <1>2, DataPhaseAssumption
<1> DEFINE r == Read(b)
<1>5. /\ r.took \in 0..left /\ r.n \in 0..r.took
      /\ r.err = "tooLarge" => limited /\ r.exceeded /\ r.n = remain /\ left > remain
      /\ r.err # "tooLarge" => r.n = r.took /\ r.exceeded = exceeded
  BY <1>1, <1>4, ReadReturns
<1>6. /\ left' \in 0..msg.size /\ remain' \in 0..msg.limit
      /\ exceeded' \in BOOLEAN /\ exhausted' \in BOOLEAN
      /\ left' = left - r.took
      /\ exceeded => exceeded'
      /\ exceeded' => msg.command = "DATA" /\ msg.size > msg.limit
      /\ limited' => remain' + (msg.size - left') = msg.limit
      /\ exhausted' => left' = 0 /\ msg.ending = "EOF"
  BY <1>1, <1>2, <1>3, <1>4, AdvanceKeeps
<1>7. exceeded' = r.exceeded /\ delivered' = delivered + r.n
      /\ told' = (told \/ r.err = "tooLarge")
  BY <1>2 DEF Advance
<1> HIDE DEF r
<1>8. /\ msg.size \in Nat /\ msg.limit \in Nat /\ left \in Nat /\ remain \in Nat
      /\ delivered \in Nat /\ r.took \in Nat /\ r.n \in Nat
      /\ r.n <= r.took /\ r.took <= left /\ left <= msg.size
  BY <1>1, <1>5, Numbers DEF Types
<1>9. delivered' \in Nat /\ delivered' <= msg.size - left' /\ delivered' \in 0..msg.size
  <2>1. delivered <= msg.size - left
    BY <1>1 DEF Reading
  <2>2. left' = left - r.took /\ delivered' = delivered + r.n
    BY <1>6, <1>7
  <2> QED BY ONLY <1>8, <2>1, <2>2
<1>10. Types'
  BY <1>1, <1>3, <1>6, <1>7, <1>9 DEF Types
<1>11. told' => exceeded'
  BY <1>1, <1>5, <1>6, <1>7 DEF Reading
<1>12. ~told' => ~exceeded' /\ delivered' = msg.size - left'
  <2> SUFFICES ASSUME ~told' PROVE ~exceeded' /\ delivered' = msg.size - left'
    OBVIOUS
  <2>1. ~told /\ r.err # "tooLarge"
    BY Zenon, <1>7
  <2>2. ~exceeded /\ delivered = msg.size - left
    BY <1>1, <1>3, <2>1 DEF Reading
  <2>3. ~exceeded' /\ delivered' = delivered + r.took /\ left' = left - r.took
    BY <2>1, <2>2, <1>5, <1>6, <1>7
  <2> QED BY <2>2, <2>3, <1>8
<1>13. msg.command = "DATA" /\ ~told' => delivered' <= msg.limit
  <2> SUFFICES ASSUME msg.command = "DATA", ~told' PROVE delivered' <= msg.limit
    OBVIOUS
  <2>1. ~exceeded' /\ delivered' = msg.size - left'
    BY <1>12
  <2>2. limited'
    BY <2>1, <1>3 DEF limited
  <2>3. remain' + (msg.size - left') = msg.limit
    BY <2>2, <1>6
  <2>4. remain' \in Nat /\ left' \in Nat
    BY <1>6, <1>8
  <2> QED BY ONLY <2>1, <2>3, <2>4, <1>8
<1>14. Reading'
  BY <1>3, <1>6, <1>9, <1>11, <1>12, <1>13 DEF Reading
<1>15. Returned'
  BY <1>3 DEF Returned
<1>16. Replied'
  BY <1>1, <1>3, NoReplyYet DEF Replied
<1> QED BY <1>3, <1>10, <1>14, <1>15, <1>16 DEF DataInv

\* The backend returns, or panics, or the reader panics under it.
LEMMA ReturnStep == DataInv /\ (backendReturns \/ backendPanics \/ readPanics) => DataInv'
<1> SUFFICES ASSUME DataInv, backendReturns \/ backendPanics \/ readPanics PROVE DataInv'
  OBVIOUS
<1>1. Types /\ Reading /\ Returned /\ Replied
  BY DEF DataInv
<1>2. UNCHANGED <<msg, left, remain, exceeded, exhausted, delivered, told, evaluation, replies>>
  BY DEF backendReturns, backendPanics, readPanics, Panic
<1>3. pc # "done" /\ pc # "finish" /\ pc' # "backend"
  BY DEF backendReturns, backendPanics, readPanics, Panic
<1>4. Reading'
  BY <1>1, <1>2, <1>3 DEF Reading, limited
<1>5. CASE backendReturns
  <2>1. /\ pc = "backend" /\ outcome' \in Outcomes /\ early' = ~exhausted
        /\ pc' = (IF exhausted THEN "outcome" ELSE "drain") /\ UNCHANGED <<resetAs, fate>>
    BY <1>5 DEF backendReturns
  <2>2. Types'
    BY <1>1, <1>2, <2>1 DEF Types
  <2>3. ~early' /\ ~exceeded' => delivered' = msg'.size
    <3> SUFFICES ASSUME exhausted, ~exceeded PROVE delivered = msg.size
      BY Zenon, <2>1, <1>1, <1>2 DEF Types
    <3>1. left = 0 /\ delivered = msg.size - left
      BY <1>1, <2>1 DEF Reading
    <3> QED BY <3>1, <1>1, Numbers
  <2>4. Returned'
    BY Zenon, <1>1, <1>2, <2>1, <2>3 DEF Returned, Types
  <2>5. Replied'
    BY <1>1, <1>2, <1>3, <2>1, NoReplyYet DEF Replied
  <2> QED BY <1>4, <2>1, <2>2, <2>4, <2>5 DEF DataInv
<1>6. CASE backendPanics \/ readPanics
  <2>1. /\ fate' = "closed" /\ resetAs' = "sessionEnd" /\ pc' = "done"
        /\ UNCHANGED <<early, outcome>>
    BY <1>6 DEF backendPanics, readPanics, Panic
  <2>2. Types'
    BY <1>1, <1>2, <2>1 DEF Types
  <2>3. Returned'
    BY <2>1 DEF Returned
  <2>4. Replied'
    BY <1>1, <1>2, <1>3, <2>1, NoReplyYet DEF Replied
  <2> QED BY <1>4, <2>1, <2>2, <2>3, <2>4 DEF DataInv
<1> QED BY <1>5, <1>6

\* A read of the drain's.
LEMMA DrainStep == DataInv /\ drain => DataInv'
<1> SUFFICES ASSUME DataInv, drain PROVE DataInv'
  OBVIOUS
<1> DEFINE r == Read(MaxRead)
<1>1. Types /\ Reading /\ Returned /\ Replied
  BY DEF DataInv
<1>2. /\ pc \in {"drain", "drainAgain"} /\ Advance(r)
      /\ UNCHANGED <<msg, delivered, told, early, outcome, replies, resetAs, fate>>
  BY DEF drain
<1>3. \/ r.err = "none" /\ UNCHANGED <<pc, evaluation>>
      \/ r.err = "tooLarge" /\ pc' = "drainAgain" /\ UNCHANGED evaluation
      \/ r.err = "EOF" /\ pc' = "outcome" /\ UNCHANGED evaluation
      \/ /\ r.err = "broken"
         /\ Conclude([NoEvaluation EXCEPT !.close = TRUE], r.exceeded)
  BY DEF drain
<1>4. MaxRead \in Nat \ {0}
  BY DataPhaseAssumption
<1>5. /\ r.took \in 0..left
      /\ r.err # "tooLarge" => r.exceeded = exceeded
      /\ r.err \in {"EOF", "broken"} => left = 0 /\ r.took = 0 /\ msg.ending = r.err
  BY <1>1, <1>4, ReadReturns
<1>6. /\ left' \in 0..msg.size /\ remain' \in 0..msg.limit
      /\ exceeded' \in BOOLEAN /\ exhausted' \in BOOLEAN
      /\ left' = left - r.took
      /\ exceeded => exceeded'
      /\ exceeded' => msg.command = "DATA" /\ msg.size > msg.limit
      /\ limited' => remain' + (msg.size - left') = msg.limit
      /\ exhausted' => left' = 0 /\ msg.ending = "EOF"
  BY <1>1, <1>2, <1>4, AdvanceKeeps
<1>7. exceeded' = r.exceeded /\ exhausted' = (exhausted \/ r.err = "EOF")
  BY <1>2 DEF Advance
<1> HIDE DEF r
<1>8. delivered' <= msg.size - left'
  <2>1. delivered <= msg.size - left /\ delivered' = delivered
    BY <1>1, <1>2 DEF Reading
  <2>2. msg.size \in Nat /\ left \in Nat /\ delivered \in Nat /\ r.took \in Nat
    BY <1>1, <1>5, Numbers
  <2> QED BY <2>1, <2>2, <1>6
<1>9. early /\ pc # "backend" /\ pc # "done" /\ pc # "finish"
  BY <1>1, <1>2 DEF Returned
<1>10. pc' \in {"drain", "drainAgain", "outcome", "finish"}
  BY <1>2, <1>3 DEF Conclude
<1>11. Reading'
  <2>1. told' => exceeded'
    BY <1>1, <1>2, <1>6 DEF Reading
  <2>2. msg.command = "DATA" /\ ~told' => delivered' <= msg.limit
    BY <1>1, <1>2 DEF Reading
  <2>3. pc' # "backend"
    BY <1>10
  <2> QED BY <1>2, <1>6, <1>8, <2>1, <2>2, <2>3 DEF Reading
<1>12. Returned'
  <2>1. pc' = "outcome" => exhausted'
    BY Zenon, <1>2, <1>3, <1>7 DEF Conclude
  <2> QED BY <1>2, <1>9, <2>1 DEF Returned
<1>13. Replied'
  BY <1>1, <1>2, <1>9, <1>10, NoReplyYet DEF Replied
<1>14. evaluation' \in Evaluations /\ Len(evaluation'.verdicts) <= MaxRecipients
       /\ (pc' = "finish" => Sound(evaluation)')
  <2>1. CASE UNCHANGED evaluation /\ pc' # "finish"
    BY <1>1, <2>1 DEF Types
  <2>2. CASE r.err = "broken" /\ Conclude([NoEvaluation EXCEPT !.close = TRUE], r.exceeded)
    <3>1. UNCHANGED <<left, exceeded>> /\ left = 0
      <4>1. left = 0 /\ r.took = 0 /\ r.exceeded = exceeded
        BY <1>5, <2>2
      <4> QED BY <4>1, <1>6, <1>7
    <3>2. evaluation' = IF exceeded THEN sizeExceededEvaluation(msg)
                        ELSE [NoEvaluation EXCEPT !.close = TRUE]
      BY <2>2, <3>1, <1>7 DEF Conclude
    <3>3. evaluation' \in Evaluations /\ Len(evaluation'.verdicts) <= MaxRecipients
          /\ Sound(evaluation')
      <4>1. CASE exceeded
        BY <4>1, <3>1, <3>2, <1>1, ExcessIsSound
      <4>2. CASE ~exceeded
        BY SMTT(20), <4>2, <3>2, <1>1, NothingIsSound
      <4> QED BY <4>1, <4>2
    <3>4. Sound(evaluation)'
      BY <3>3, <3>1, <1>2 DEF Sound, Want
    <3> QED BY <3>3, <3>4
  <2> QED BY <1>2, <1>3, <2>1, <2>2
<1>15. Types'
  BY <1>1, <1>2, <1>6, <1>10, <1>14 DEF Types
<1> QED BY <1>11, <1>12, <1>13, <1>14, <1>15 DEF DataInv

\* The verdicts are settled.
LEMMA EvaluateStep == DataInv /\ evaluate => DataInv'
<1> SUFFICES ASSUME DataInv, evaluate PROVE DataInv'
  OBVIOUS
<1> DEFINE v == validateDataOutcome(msg, outcome)
           ev == IF early THEN replaceEarlySuccess(v) ELSE v
<1>1. Types /\ Reading /\ Returned /\ Replied
  BY DEF DataInv
<1>2. /\ pc = "outcome" /\ pc' = "finish"
      /\ evaluation' = IF exceeded THEN sizeExceededEvaluation(msg) ELSE ev
      /\ UNCHANGED <<msg, left, remain, exceeded, exhausted, delivered, told, early,
                     outcome, replies, resetAs, fate>>
  BY DEF evaluate, Conclude
<1>3. evaluation' \in Evaluations /\ Len(evaluation'.verdicts) <= MaxRecipients
      /\ Sound(evaluation')
  <2>1. CASE exceeded
    <3>1. left = 0
      BY <1>1, <1>2 DEF Returned, Reading
    <3> QED BY <2>1, <3>1, <1>1, <1>2, ExcessIsSound
  <2>2. CASE ~exceeded
    <3>1. ev \in Evaluations /\ Len(ev.verdicts) <= MaxRecipients /\ Sound(ev)
      BY SMTT(20), <2>2, <1>1, <1>2, VerdictsAreSound
    <3> QED BY <2>2, <3>1, <1>2
  <2> QED BY <2>1, <2>2
<1> HIDE DEF v, ev
<1>4. Sound(evaluation)'
  BY <1>2, <1>3 DEF Sound, Want
<1>5. Types'
  BY <1>1, <1>2, <1>3 DEF Types
<1>6. Reading'
  BY <1>1, <1>2 DEF Reading, limited
<1>7. Returned'
  BY <1>2 DEF Returned
<1>8. Replied'
  BY <1>1, <1>2, NoReplyYet DEF Replied
<1> QED BY <1>4, <1>5, <1>6, <1>7, <1>8 DEF DataInv

\* The replies are written, all of them or the first few.
LEMMA FinishStep == DataInv /\ finishStage => DataInv'
<1> SUFFICES ASSUME DataInv, finishStage PROVE DataInv'
  OBVIOUS
<1> DEFINE ev == evaluation
<1>1. Types /\ Reading /\ Returned /\ Replied /\ Sound(ev)
  BY DEF DataInv, finishStage
<1>2. /\ pc = "finish" /\ pc' = "done"
      /\ UNCHANGED <<msg, left, remain, exceeded, exhausted, delivered, told, early,
                     outcome, evaluation>>
  BY DEF finishStage
<1>3. /\ ev.verdicts \in Seq(Verdicts) /\ Len(ev.verdicts) \in Nat
      /\ DOMAIN ev.verdicts = 1..Len(ev.verdicts)
      /\ \A i \in 1..Len(ev.verdicts) : ev.verdicts[i] \in Verdicts
  <2>1. ev.verdicts \in Seq(Verdicts)
    BY <1>1 DEF Types, Evaluations
  <2> QED BY <2>1, LenProperties, ElementOfSeq
<1>4. Reading' /\ Returned'
  BY <1>1, <1>2 DEF Reading, Returned, limited
<1>5. CASE ev.close /\ fate' = "closed" /\ resetAs' = "sessionEnd" /\ UNCHANGED replies
  <2>1. Types'
    BY <1>1, <1>2, <1>5 DEF Types
  <2>2. Replied'
    BY <1>1, <1>2, <1>5, NoReplyYet DEF Replied
  <2> QED BY <1>2, <1>4, <2>1, <2>2 DEF DataInv
<1>6. ASSUME ~ev.close, resetAs' = IF ev.completed THEN "completed" ELSE "failed",
             replies' \in Seq(Verdicts), Len(replies') <= Len(ev.verdicts),
             \A i \in 1..Len(replies') : replies'[i] = ev.verdicts[i],
             fate' \in {"resumed", "closed"},
             fate' = "resumed" => Len(replies') = Len(ev.verdicts)
      PROVE  DataInv'
  <2>1. Len(replies') \in Nat /\ DOMAIN replies' = 1..Len(replies')
    BY <1>6, LenProperties
  <2>2. \A i \in DOMAIN replies' : i \in DOMAIN ev.verdicts /\ replies'[i] = ev.verdicts[i]
    BY SMTT(20), <2>1, <1>3, <1>6
  <2>3. AcceptedIsDelivered'
    BY SMTT(20), <2>2, <1>1, <1>2 DEF AcceptedIsDelivered, Sound
  <2>4. ResetAgreesWithReplies'
    BY <2>2, <1>1, <1>2, <1>6 DEF ResetAgreesWithReplies, Sound
  <2>5. RepliesAfterContent'
    BY Zenon, <1>1, <1>2, <1>6 DEF RepliesAfterContent, Sound, Want
  <2>6. msg'.command = "DATA" =>
          \A i \in DOMAIN replies' : replies'[i] = "552" <=> msg'.size > msg'.limit
    BY <2>2, <1>1, <1>2, <1>6 DEF Sound
  <2>7. Replied'
    BY SMTT(20), <1>2, <2>3, <2>4, <2>5, <2>6 DEF Replied
  <2>8. Types'
    BY <1>1, <1>2, <1>6 DEF Types
  <2> QED BY <1>2, <1>4, <2>7, <2>8 DEF DataInv
<1>7. CASE /\ ~ev.close /\ resetAs' = IF ev.completed THEN "completed" ELSE "failed"
           /\ replies' = ev.verdicts /\ fate' = "resumed"
  BY <1>3, <1>6, <1>7
<1>8. ASSUME ~ev.close, resetAs' = IF ev.completed THEN "completed" ELSE "failed",
             NEW k \in 0..Len(ev.verdicts) - 1,
             replies' = SubSeq(ev.verdicts, 1, k), fate' = "closed"
      PROVE  DataInv'
  <2>1. k \in Int /\ 0 <= k /\ k < Len(ev.verdicts)
    BY <1>3, <1>8
  <2>2. \A i \in 1..k : ev.verdicts[i] \in Verdicts
    BY <1>3, <2>1
  <2>3. /\ replies' \in Seq(Verdicts) /\ Len(replies') = IF 1 <= k THEN k - 1 + 1 ELSE 0
        /\ \A i \in 1..(k - 1 + 1) : replies'[i] = ev.verdicts[1 + i - 1]
    BY <1>8, <2>1, <2>2, SubSeqProperties
  <2>4. Len(replies') = k /\ \A i \in 1..k : replies'[i] = ev.verdicts[i]
    BY <2>1, <2>3
  <2>5. Len(replies') <= Len(ev.verdicts)
    BY <1>3, <2>1, <2>4
  <2> QED BY <1>6, <1>8, <2>3, <2>4, <2>5
<1> QED BY <1>5, <1>7, <1>8 DEF finishStage

\* The inductive invariant holds in every reachable state.
THEOREM DataInvariance == DataSpec => []DataInv
<1>1. DataInv /\ [DataNext]_dataVars => DataInv'
  <2> SUFFICES ASSUME DataInv, [DataNext]_dataVars PROVE DataInv'
    OBVIOUS
  <2>1. CASE backendRead
    BY <2>1, ReadStep
  <2>2. CASE backendReturns \/ backendPanics \/ readPanics
    BY SMTT(20), <2>2, ReturnStep
  <2>3. CASE drain
    BY <2>3, DrainStep
  <2>4. CASE evaluate
    BY <2>4, EvaluateStep
  <2>5. CASE finishStage
    BY <2>5, FinishStep
  <2>6. CASE UNCHANGED dataVars
    <3>1. Types' = Types
      BY SMTT(20), <2>6 DEF dataVars, Types
    <3>2. Reading' = Reading
      BY SMTT(20), <2>6 DEF dataVars, Reading, limited
    <3>3. Returned' = Returned
      BY SMTT(20), <2>6 DEF dataVars, Returned
    <3>4. (pc = "finish" => Sound(evaluation))' = (pc = "finish" => Sound(evaluation))
      BY SMTT(20), <2>6 DEF dataVars, Sound
    <3>5. /\ AcceptedIsDelivered' = AcceptedIsDelivered
          /\ ResetAgreesWithReplies' = ResetAgreesWithReplies
          /\ RepliesAfterContent' = RepliesAfterContent
      BY SMTT(20), <2>6 DEF dataVars, AcceptedIsDelivered, ResetAgreesWithReplies,
                            RepliesAfterContent, Want
    <3>6. Replied' = Replied
      BY SMTT(20), <2>6, <3>5 DEF dataVars, Replied, Want
    <3>. QED  BY SMTT(20), <3>1, <3>2, <3>3, <3>4, <3>6 DEF DataInv
  <2> QED BY <2>1, <2>2, <2>3, <2>4, <2>5, <2>6 DEF DataNext, Done
<1> QED BY InitData, <1>1, PTL DEF DataSpec

\* Every variable of the content stage keeps its type.
THEOREM DataTypes == DataSpec => []DataTypeOK
<1>1. DataInv => DataTypeOK
  <2> SUFFICES ASSUME DataInv PROVE DataTypeOK
    OBVIOUS
  <2>1. Types
    BY DEF DataInv
  <2>2. evaluation.verdicts \in Seq(Verdicts) /\ Len(evaluation.verdicts) <= MaxRecipients
        /\ evaluation.completed \in BOOLEAN /\ evaluation.close \in BOOLEAN
    BY <2>1 DEF Types, Evaluations
  <2>3. Len(evaluation.verdicts) \in Nat
        /\ DOMAIN evaluation.verdicts = 1..Len(evaluation.verdicts)
    BY <2>2, LenProperties
  <2>4. \A i \in DOMAIN evaluation.verdicts : evaluation.verdicts[i] \in Verdicts
    BY <2>2, <2>3, ElementOfSeq
  <2>5. Len(evaluation.verdicts) \in 0..MaxRecipients
    BY <2>2, <2>3, DataPhaseAssumption
  <2> QED BY <2>1, <2>2, <2>4, <2>5 DEF DataTypeOK, Types, Bodies
<1> QED BY <1>1, DataInvariance, PTL

\* No recipient is reported accepted unless the backend accepted it after being
\* handed the whole of complete content.
THEOREM AcceptedWasDelivered == DataSpec => []AcceptedIsDelivered
<1>1. DataInv => AcceptedIsDelivered
  BY DEF DataInv, Replied
<1> QED BY <1>1, DataInvariance, PTL

\* The reason a transaction is reset for agrees with the replies the peer got.
THEOREM ResetIsHonest == DataSpec => []ResetAgreesWithReplies
<1>1. DataInv => ResetAgreesWithReplies
  BY DEF DataInv, Replied
<1> QED BY <1>1, DataInvariance, PTL

\* 552 is answered if and only if the content of DATA is over the limit, and the
\* backend never holds more than the limit without having been told.
THEOREM LimitIsExact == DataSpec => []SizeLimitExact
<1>1. DataInv => SizeLimitExact
  BY DEF DataInv, Replied, Reading, SizeLimitExact
<1> QED BY <1>1, DataInvariance, PTL

\* Final replies come after the content, and as many as are waited for.
THEOREM RepliesComeLast == DataSpec => []RepliesAfterContent
<1>1. DataInv => RepliesAfterContent
  BY DEF DataInv, Replied
<1> QED BY <1>1, DataInvariance, PTL

==============================================================================
