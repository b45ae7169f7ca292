--------------------------- MODULE BackendContract ---------------------------
(***************************************************************************)
(* What a backend may rely on: the order in which the framework calls the  *)
(* fields of one smtpserver.Session (session.go, SERVER-DESIGN section 2c).  *)
(* A contract state is the backend's own account of the calls it has seen. *)
(* Every operator below takes the account before a call to the account     *)
(* after it, and notes a breach when the call comes at a time the contract *)
(* rules out.  The specification of a connection carries such an account   *)
(* as a history variable; a correct framework keeps its breach set empty.  *)
(***************************************************************************)
EXTENDS Naturals

\* session.go: ResetReason.
ResetReasons == {"explicit", "newMail", "completed", "failed", "startTLS",
                 "sessionEnd"}

Calls == {"Mail", "Rcpt", "Data", "Reset", "CommitAuth", "Close"}

\* open: a Mail was accepted and not yet Reset.  rcpts: recipients accepted
\* since.  data: Data was called since.  committed: CommitAuth was called on
\* this TLS layer.
Accounts == [open : BOOLEAN, rcpts : Nat, data : BOOLEAN,
             committed : BOOLEAN, closed : BOOLEAN, breach : SUBSET Calls]

NewAccount == [open |-> FALSE, rcpts |-> 0, data |-> FALSE,
               committed |-> FALSE, closed |-> FALSE, breach |-> {}]

Breach(a, call, allowed) ==
    IF allowed THEN a.breach ELSE a.breach \union {call}

\* Mail opens a transaction when the backend accepts it; it never overlaps one.
MailCall(a, accepted) ==
    [a EXCEPT !.open = a.open \/ accepted, !.rcpts = 0, !.data = FALSE,
              !.breach = Breach(a, "Mail", ~a.open /\ ~a.closed)]

\* Rcpt belongs to an open transaction whose content has not been delivered.
RcptCall(a, accepted) ==
    [a EXCEPT !.rcpts = IF accepted THEN a.rcpts + 1 ELSE a.rcpts,
              !.breach = Breach(a, "Rcpt", a.open /\ ~a.data /\ ~a.closed)]

\* Data is called once in a transaction, and never without a recipient.
DataCall(a) ==
    [a EXCEPT !.data = TRUE,
              !.breach = Breach(a, "Data", a.open /\ ~a.data /\ a.rcpts > 0
                                           /\ ~a.closed)]

\* Reset ends an open transaction, once.  STARTTLS alone may call it with none
\* open: it discards what was known before the handshake.  A transaction is
\* reported completed only if its content was handed to Data.
ResetCall(a, reason) ==
    [a EXCEPT !.open = FALSE, !.rcpts = 0, !.data = FALSE,
              !.committed = @ /\ reason # "startTLS",
              !.breach = Breach(a, "Reset",
                                /\ a.open \/ reason = "startTLS"
                                /\ reason = "completed" => a.data
                                /\ ~a.closed)]

\* CommitAuth is called at most once on a TLS layer, outside transactions.
CommitAuthCall(a) ==
    [a EXCEPT !.committed = TRUE,
              !.breach = Breach(a, "CommitAuth",
                                ~a.committed /\ ~a.open /\ ~a.closed)]

\* Close is called once, after the Reset of the last transaction.
CloseCall(a) ==
    [a EXCEPT !.closed = TRUE,
              !.breach = Breach(a, "Close", ~a.open /\ ~a.closed)]

==============================================================================
