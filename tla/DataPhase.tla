----------------------------- MODULE DataPhase ------------------------------
(***************************************************************************)
(* The content stage of one transaction, from the call of Session.Data to  *)
(* the final replies: the size limit on the reader, the backend that may   *)
(* stop reading anywhere, the drain of what it left, and the validation of *)
(* its result (smtpserver/cmd_data.go and data.go).  DATA streams from the *)
(* peer; BDAT reads the finished spool of module Spool.                    *)
(***************************************************************************)
EXTENDS Naturals, Sequences, FiniteSetsExt

CONSTANTS
    MaxRecipients,    \* recipients of the transaction
    MaxContent,       \* octets of content
    MaxRead,          \* size of a read buffer
    Limits,           \* values of MaxMessageBytes
    MaxSpoolBytes,
    Int64Max          \* the largest int64

ASSUME DataPhaseAssumption ==
    /\ MaxRecipients \in Nat \ {0} /\ MaxContent \in Nat /\ MaxRead \in Nat \ {0}
    /\ Int64Max \in Nat /\ Limits \subseteq 1..Int64Max
    /\ MaxSpoolBytes \in Nat

VARIABLES
    msg,         \* the transaction and the content the peer sends
    left,        \* octets of it not yet read
    remain, exceeded,   \* sizeEnforcingReader
    exhausted,   \* trackedDataReader
    delivered,   \* octets the backend was given
    told,        \* the backend was given errMessageTooLarge
    pc,
    early,       \* returnedEarly
    outcome,     \* what the backend returned
    evaluation,  \* dataEvaluation
    replies, resetAs, fate

dataVars == <<msg, left, remain, exceeded, exhausted, delivered, told, pc, early, outcome,
              evaluation, replies, resetAs, fate>>

Commands == {"DATA", "BDAT"}
Verdicts == {"accept", "reject", "451", "552"}

\* How the content ends: with its end indication, or with a lost transport, the
\* data deadline, malformed framing, an unreadable spool file.
Endings == {"EOF", "broken"}

\* One result for SMTP, one for each recipient for LMTP.
Want(m) == IF m.mode = "LMTP" THEN m.rcpts ELSE 1

\* What Session.Data can return: an error or not, results of any number and, for
\* LMTP, with or without the right names.
Outcomes ==
    [err : BOOLEAN, named : BOOLEAN,
     verdicts : UNION {[1..n -> {"accept", "reject"}] : n \in 0..MaxRecipients}]

NoOutcome == [err |-> FALSE, named |-> TRUE, verdicts |-> <<>>]
NoEvaluation == [verdicts |-> <<>>, completed |-> FALSE, close |-> FALSE]

DataInit ==
    /\ \E c \in Commands, mode \in {"SMTP", "LMTP"}, n \in 1..MaxRecipients,
          max \in Limits, k \in 0..MaxContent, e \in Endings :
         /\ c = "BDAT" => max <= MaxSpoolBytes /\ k <= MaxSpoolBytes
         /\ msg = [command |-> c, mode |-> mode, rcpts |-> n, limit |-> max,
                   size |-> k, ending |-> e]
         /\ left = k
         /\ remain = max
    /\ exceeded = FALSE /\ exhausted = FALSE
    /\ delivered = 0 /\ told = FALSE
    /\ pc = "backend" /\ early = FALSE
    /\ outcome = NoOutcome /\ evaluation = NoEvaluation
    /\ replies = <<>> /\ resetAs = "none" /\ fate = "open"

(***************************************************************************)
(* The readers.                                                            *)
(***************************************************************************)
\* Only DATA is read through a sizeEnforcingReader, and only until it tripped.
limited == msg.command = "DATA" /\ ~exceeded

\* r.remain+1 overflows, and the slice of negative length panics.
readerPanics == limited /\ remain + 1 > Int64Max

\* One octet more than remains is asked for, to see that there is one.
readSize(b) == IF limited /\ b > remain + 1 THEN remain + 1 ELSE b

\* Mutant: the octet over the limit is passed on.
ReadOver(b) ==
    LET took == Min({readSize(b), left})
    IN  IF limited /\ took > remain
        THEN [took |-> took, n |-> took, err |-> "none", remain |-> 0, exceeded |-> TRUE]
        ELSE [took |-> took, n |-> took,
              err |-> IF left = 0 THEN msg.ending ELSE "none",
              remain |-> IF limited THEN remain - took ELSE remain,
              exceeded |-> exceeded]

\* Read with a buffer of b octets: what is taken from the source, what the caller
\* gets, and the limit after it.  Every source repeats its last error.
Read(b) ==
    LET took == Min({readSize(b), left})
    IN  IF limited /\ took > remain
        THEN [took |-> took, n |-> remain, err |-> "tooLarge", remain |-> 0,
              exceeded |-> TRUE]
        ELSE [took |-> took, n |-> took,
              err |-> IF left = 0 THEN msg.ending ELSE "none",
              remain |-> IF limited THEN remain - took ELSE remain,
              exceeded |-> exceeded]

Advance(r) ==
    /\ left' = left - r.took
    /\ remain' = r.remain
    /\ exceeded' = r.exceeded
    /\ exhausted' = (exhausted \/ r.err = "EOF")

(***************************************************************************)
(* The backend.                                                            *)
(***************************************************************************)
backendRead ==
    /\ pc = "backend" /\ ~readerPanics
    /\ \E b \in 1..MaxRead :
         /\ Advance(Read(b))
         /\ delivered' = delivered + Read(b).n
         /\ told' = (told \/ Read(b).err = "tooLarge")
    /\ UNCHANGED <<msg, pc, early, outcome, evaluation, replies, resetAs, fate>>

backendReturns ==
    /\ pc = "backend"
    /\ outcome' \in Outcomes
    /\ early' = ~exhausted
    /\ pc' = IF exhausted THEN "outcome" ELSE "drain"
    /\ UNCHANGED <<msg, left, remain, exceeded, exhausted, delivered, told, evaluation,
                   replies, resetAs, fate>>

\* serveConnection recovers: the connection ends, and with it the transaction.
Panic ==
    /\ fate' = "closed" /\ resetAs' = "sessionEnd" /\ pc' = "done"
    /\ UNCHANGED <<msg, left, remain, exceeded, exhausted, delivered, told, early,
                   outcome, evaluation, replies>>

backendPanics == pc = "backend" /\ Panic
readPanics == pc \in {"backend", "drain"} /\ readerPanics /\ Panic

(***************************************************************************)
(* evaluateDataCall and validateDataOutcome.                               *)
(***************************************************************************)
Always(m, verdict) ==
    [verdicts |-> [i \in 1..Want(m) |-> verdict], completed |-> FALSE, close |-> FALSE]

temporaryDataResult(m) == Always(m, "451")
sizeExceededEvaluation(m) == Always(m, "552")

validateDataOutcome(m, o) ==
    IF o.err \/ Len(o.verdicts) # Want(m) \/ (m.mode = "LMTP" /\ ~o.named)
      THEN temporaryDataResult(m)
      ELSE [verdicts |-> o.verdicts, completed |-> TRUE, close |-> FALSE]

\* Mutant: an early success is believed.
earlyBelieved(ev) == ev

\* Mutant: the early success is replaced, and the backend not told of it.
earlyUntold(ev) ==
    [ev EXCEPT !.verdicts = [i \in DOMAIN ev.verdicts |->
                               IF ev.verdicts[i] = "accept" THEN "451" ELSE ev.verdicts[i]]]

\* A success claimed before the end of the content is not believed.
replaceEarlySuccess(ev) ==
    LET claims == {i \in DOMAIN ev.verdicts : ev.verdicts[i] = "accept"}
    IN  [ev EXCEPT !.verdicts = [i \in DOMAIN ev.verdicts |->
                                   IF i \in claims THEN "451" ELSE ev.verdicts[i]],
                   !.completed = ev.completed /\ claims = {}]

\* The end of handleDATA: the excess decides, whatever evaluateDataCall found.
Conclude(ev, tripped) ==
    /\ evaluation' = IF tripped THEN sizeExceededEvaluation(msg) ELSE ev
    /\ pc' = "finish"

\* Mutant: a drain that hits the limit stops there.
drainOnce ==
    /\ pc = "drain" /\ ~readerPanics
    /\ LET r == Read(MaxRead)
       IN  /\ Advance(r)
           /\ \/ r.err = "none" /\ UNCHANGED <<pc, evaluation>>
              \/ r.err \in {"tooLarge", "EOF"} /\ pc' = "outcome" /\ UNCHANGED evaluation
              \/ /\ r.err = "broken"
                 /\ Conclude([NoEvaluation EXCEPT !.close = TRUE], r.exceeded)
    /\ UNCHANGED <<msg, delivered, told, early, outcome, replies, resetAs, fate>>

\* io.Copy(io.Discard, tracked), once more after it hit the limit.
drain ==
    /\ pc \in {"drain", "drainAgain"} /\ ~readerPanics
    /\ LET r == Read(MaxRead)
       IN  /\ Advance(r)
           /\ \/ r.err = "none" /\ UNCHANGED <<pc, evaluation>>
              \/ r.err = "tooLarge" /\ pc' = "drainAgain" /\ UNCHANGED evaluation
              \/ r.err = "EOF" /\ pc' = "outcome" /\ UNCHANGED evaluation
              \/ /\ r.err = "broken"
                 /\ Conclude([NoEvaluation EXCEPT !.close = TRUE], r.exceeded)
    /\ UNCHANGED <<msg, delivered, told, early, outcome, replies, resetAs, fate>>

evaluate ==
    /\ pc = "outcome"
    /\ LET ev == validateDataOutcome(msg, outcome)
       IN  Conclude(IF early THEN replaceEarlySuccess(ev) ELSE ev, exceeded)
    /\ UNCHANGED <<msg, left, remain, exceeded, exhausted, delivered, told, early,
                   outcome, replies, resetAs, fate>>

\* finishContent.  A reply that cannot be written ends the connection, after the
\* reset that was due.
finishStage ==
    /\ pc = "finish"
    /\ pc' = "done"
    /\ \/ /\ evaluation.close
          /\ fate' = "closed" /\ resetAs' = "sessionEnd"
          /\ UNCHANGED replies
       \/ /\ ~evaluation.close
          /\ resetAs' = IF evaluation.completed THEN "completed" ELSE "failed"
          /\ \/ replies' = evaluation.verdicts /\ fate' = "resumed"
             \/ \E k \in 0..Len(evaluation.verdicts) - 1 :
                  replies' = SubSeq(evaluation.verdicts, 1, k) /\ fate' = "closed"
    /\ UNCHANGED <<msg, left, remain, exceeded, exhausted, delivered, told, early,
                   outcome, evaluation>>

Done == pc = "done" /\ UNCHANGED dataVars

DataNext ==
    \/ backendRead \/ backendReturns \/ backendPanics \/ readPanics
    \/ drain \/ evaluate \/ finishStage \/ Done

\* Reads end by the data deadline, and the backend returns by its context's.
DataSpec == /\ DataInit /\ [][DataNext]_dataVars
            /\ WF_dataVars(backendReturns) /\ WF_dataVars(readPanics)
            /\ WF_dataVars(drain) /\ WF_dataVars(evaluate) /\ WF_dataVars(finishStage)

------------------------------------------------------------------------------
\* Every variable keeps its type.
DataTypeOK ==
    /\ msg \in [command : Commands, mode : {"SMTP", "LMTP"}, rcpts : 1..MaxRecipients,
                limit : Limits, size : 0..MaxContent, ending : Endings]
    /\ left \in 0..msg.size /\ remain \in 0..msg.limit
    /\ delivered \in 0..msg.size
    /\ {exceeded, exhausted, told, early} \subseteq BOOLEAN
    /\ pc \in {"backend", "drain", "drainAgain", "outcome", "finish", "done"}
    /\ outcome \in Outcomes
    /\ evaluation.completed \in BOOLEAN /\ evaluation.close \in BOOLEAN
    /\ Len(evaluation.verdicts) \in 0..MaxRecipients
    /\ \A i \in DOMAIN evaluation.verdicts : evaluation.verdicts[i] \in Verdicts
    /\ resetAs \in {"none", "completed", "failed", "sessionEnd"}
    /\ fate \in {"open", "resumed", "closed"}

\* A positive reply is the backend's own verdict on this recipient, given after it
\* was handed every octet of complete content (evaluateDataCall, handleDATA).
AcceptedIsDelivered ==
    \A i \in DOMAIN replies : replies[i] = "accept" =>
        /\ outcome.verdicts[i] = "accept" /\ ~outcome.err
        /\ msg.ending = "EOF" /\ delivered = msg.size

\* The backend and the peer are told the same: a transaction reset as failed was
\* accepted for no one, and in one reset as completed every reply is the backend's.
ResetAgreesWithReplies ==
    /\ resetAs = "failed" => \A i \in DOMAIN replies : replies[i] # "accept"
    /\ resetAs = "completed" => \A i \in DOMAIN replies : replies[i] = outcome.verdicts[i]

\* The limit is exact: content of MaxMessageBytes passes, one octet more is
\* answered 552 to everyone, and the backend is told of it before it holds more
\* than the limit (sizeEnforcingReader).
SizeLimitExact ==
    msg.command = "DATA" =>
        /\ fate = "resumed" =>
              \A i \in DOMAIN replies : replies[i] = "552" <=> msg.size > msg.limit
        /\ ~told => delivered <= msg.limit

\* No final reply is written while octets of the content are still to come, and
\* none after a broken end unless the content was over the limit; the peer that
\* goes on got one, or one for each recipient of an LMTP transaction, whatever
\* the backend returned (evaluateDataCall, validateDataOutcome).
RepliesAfterContent ==
    /\ replies # <<>> => left = 0 /\ (msg.ending = "EOF" \/ exceeded)
    /\ fate = "resumed" => Len(replies) = Want(msg)

\* The content stage ends, however the backend, the peer and the limit behave.
StageEnds == <>(fate # "open")

\* Statement of evaluateDataCall's comment: neither a final reply nor command
\* parsing before the real end indication.
ResumesAtRealEnd == fate = "resumed" => msg.ending = "EOF"

\* Statement of MaxMessageBytes's comment: it is enforced against the octets the
\* client supplies.
MaxMessageEnforced ==
    \A i \in DOMAIN replies : replies[i] = "accept" => msg.size <= msg.limit

\* Statement of MaxMessageBytes's comment, for every value NewServer admits: only
\* content over the limit is refused by it.
EveryLimitServes == [][~readPanics]_dataVars

==============================================================================
