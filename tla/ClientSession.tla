--------------------------- MODULE ClientSession ---------------------------
(***************************************************************************)
(* One smtpclient.Client after Dial: the operations of a mail transaction, *)
(* the pipeline they write commands and read replies through, and the      *)
(* context whose cancellation may fall between any two of their steps.     *)
(*                                                                         *)
(* Every operation holds conn.opMu from its first look at the state to its *)
(* return, so one call runs at a time; the exception is Data, which looks  *)
(* at the transaction's body type before it takes the lock and may be      *)
(* overtaken there (waiting).  The peer is any server that answers the     *)
(* commands it gets in order.  It may stay silent, so that the client's    *)
(* timeout ends the wait, and it goes on with what has reached it after    *)
(* the client has closed.  A cancelled read or write differs from one that *)
(* fails only when the context was already cancelled on entry.             *)
(***************************************************************************)
EXTENDS Naturals, Sequences, FiniteSets, Functions

CONSTANTS
    MaxRecipients,  \* bound: recipients of a transaction
    MaxChunks,      \* bound: chunks of a BDAT transfer before the last one
    MaxDepth,       \* maxPipelineDepth
    CancelOps,      \* the operations whose context may be cancelled
    LongAt          \* where a batch may have a command over maxPipelineBytes

Operations == {"NOOP", "RSET", "QUIT", "MAIL", "RCPT", "BURL", "DATA", "BDAT"}

ASSUME ClientBounds ==
    /\ MaxRecipients \in Nat \ {0} /\ MaxChunks \in Nat /\ MaxDepth \in Nat \ {0}
    /\ CancelOps \subseteq Operations /\ LongAt \subseteq Nat \ {0}

VARIABLES
    config,      \* lmtp, and what EHLO advertised: the pipeline's depth, CHUNKING
    state,       \* connection.state
    base,        \* connection.transactionBase
    recipients,  \* length of connection.recipients
    smtpUTF8,    \* connection.smtpUTF8
    binaryMIME,  \* connection.binaryMIME
    call,        \* the operation that holds opMu
    waiting,     \* a Data call between its checks and opMu
    cancelled,   \* the context of the running or the last call is cancelled
    outcome,     \* what the last call to complete a transaction returned
    sent,        \* commands written that the peer has yet to handle
    replies,     \* replies the client has yet to read
    peer,        \* the peer's transaction
    verdict      \* what the peer decided for each recipient of that call

transaction == <<state, base, recipients, smtpUTF8, binaryMIME>>
network == <<sent, replies, peer, verdict>>
vars == <<config, transaction, call, waiting, cancelled, outcome, network>>

Ready == {"greeted", "tls", "authenticated"}

\* A call runs one group of n commands: w of them are written and r answered,
\* got of those with success.  Its stage is what it does next.
Idle == [op |-> "none", stage |-> "idle", n |-> 0, w |-> 0, r |-> 0, got |-> <<>>,
         utf8 |-> FALSE, binary |-> FALSE, last |-> FALSE, long |-> 0]

Group(op, n) == [Idle EXCEPT !.op = op, !.stage = "write", !.n = n]

Peer == [txn |-> "none", binary |-> FALSE, utf8 |-> FALSE, rcpts |-> 0,
         chunks |-> FALSE, leftover |-> FALSE, gone |-> FALSE, breach |-> {}]

Init ==
    /\ config \in [lmtp : BOOLEAN, depth : {1, MaxDepth}, chunking : BOOLEAN]
    /\ state \in {"greeted", "tls"} /\ base = "connected"
    /\ recipients = 0 /\ smtpUTF8 = FALSE /\ binaryMIME = FALSE
    /\ call = Idle /\ waiting = "none" /\ cancelled = FALSE
    /\ outcome = [status |-> "none", result |-> <<>>]
    /\ sent = <<>> /\ replies = <<>> /\ peer = Peer /\ verdict = <<>>

-----------------------------------------------------------------------------
(***************************************************************************)
(* How calls return.                                                       *)
(***************************************************************************)
poison == state' = "closed" /\ UNCHANGED <<base, recipients, smtpUTF8, binaryMIME>>

\* The running command may complete the transaction.
Completes == call.stage = "final" \/ (call.op = "BURL" /\ call.last)

\* The call returns, with one of the statuses of ErrFinalStatusUnknown's
\* contract and the results it reports for the recipients in order.
Return(status, result) ==
    /\ call' = Idle
    /\ outcome' = IF call.op \in {"DATA", "BDAT", "BURL"}
                    THEN [status |-> status, result |-> result]
                    ELSE outcome
    /\ UNCHANGED <<config, waiting, cancelled>>

\* Mutant: a failed BURL LAST is reported as not accepted.
finalStatusUnknownButBURL(may) ==
    IF may /\ call.op # "BURL" THEN "unknown" ELSE "failed"

\* What a failure that is not a reply says when the command may have reached
\* the peer and completed the transaction.
finalStatusUnknown(may) == IF may THEN "unknown" ELSE "failed"

\* The LMTP replies already read stay authoritative.
authoritativePrefix == IF Completes /\ config.lmtp THEN call.got ELSE <<>>

\* A coded 421 is the final reply of an SMTP transaction and answers no
\* recipient of an LMTP one.
classifyFinalReplyFailure ==
    Return(finalStatusUnknown(Completes /\ config.lmtp), authoritativePrefix)

-----------------------------------------------------------------------------
(***************************************************************************)
(* The start of each operation: what it checks before its first write.  An *)
(* operation that fails a check returns and, but for Mail, changes         *)
(* nothing.  Calls on a session that is out of step are not followed.      *)
(***************************************************************************)
MayCall == call = Idle /\ sent = <<>> /\ replies = <<>>

Start(c) ==
    /\ call' = c /\ cancelled' = FALSE
    /\ UNCHANGED <<config, network>>

\* Commands that leave the transaction alone (NOOP stands for VRFY, EXPN, HELP
\* and ETRN too, and QUIT for Close), and RSET.
command ==
    /\ MayCall /\ state # "closed"
    /\ \E verb \in {"NOOP", "RSET", "QUIT"} : Start(Group(verb, 1))
    /\ UNCHANGED <<transaction, waiting, outcome>>

\* mailArgs records the body type before the state is looked at.
Mail(binary, utf8) ==
    /\ MayCall
    /\ LET encoded == binary => config.chunking
       IN  /\ binaryMIME' = (binary /\ encoded)
           /\ Start(IF encoded /\ state \in Ready
                      THEN [Group("MAIL", 1) EXCEPT !.binary = binary, !.utf8 = utf8]
                      ELSE Idle)
    /\ UNCHANGED <<state, base, recipients, smtpUTF8, waiting, outcome>>

\* long is the position of a command over maxPipelineBytes, 0 for none.
rcptBatch(n, utf8, long) ==
    /\ MayCall /\ state = "transaction"
    /\ utf8 => smtpUTF8
    /\ recipients + n <= MaxRecipients
    /\ Start([Group("RCPT", n) EXCEPT !.utf8 = utf8, !.long = long])
    /\ UNCHANGED <<transaction, waiting, outcome>>

\* What Data checks before it takes opMu.
transportData(chunked) ==
    /\ waiting = "none"
    /\ IF chunked THEN config.chunking ELSE ~binaryMIME
    /\ waiting' = IF chunked THEN "BDAT" ELSE "DATA"
    /\ UNCHANGED <<config, transaction, call, cancelled, outcome, network>>

\* What it checks under opMu.
Data ==
    /\ MayCall /\ waiting # "none"
    /\ waiting' = "none" /\ cancelled' = FALSE
    /\ IF /\ state = "transaction"
          /\ recipients > 0 \/ (config.lmtp /\ waiting = "DATA")
         THEN /\ call' = IF waiting = "DATA"
                           THEN Group("DATA", 1)
                           ELSE [Group("BDAT", 0) EXCEPT !.stage = "chunk"]
              /\ outcome' = [status |-> "running", result |-> <<>>]
              /\ verdict' = <<>>
         ELSE UNCHANGED <<call, outcome, verdict>>
    /\ UNCHANGED <<config, transaction, sent, replies, peer>>

BURL(last) ==
    /\ MayCall /\ ~config.lmtp
    /\ recipients > 0 /\ state = "transaction"
    /\ call' = [Group("BURL", 1) EXCEPT !.last = last] /\ cancelled' = FALSE
    /\ outcome' = [status |-> "running", result |-> <<>>]
    /\ verdict' = <<>>
    /\ UNCHANGED <<config, transaction, waiting, sent, replies, peer>>

\* The caller gives the running call up.
Cancel ==
    /\ call.op \in CancelOps /\ ~cancelled
    /\ cancelled' = TRUE
    /\ UNCHANGED <<config, transaction, call, waiting, outcome, network>>

-----------------------------------------------------------------------------
(***************************************************************************)
(* The pipeline.  A write and a read begin with a look at the context, and *)
(* one found cancelled there returns without closing the connection.       *)
(***************************************************************************)
Message(verb, last) ==
    [verb |-> verb, last |-> last, binary |-> call.binary, utf8 |-> call.utf8]

\* A write that fails may have reached the peer.
Lost(message) ==
    /\ sent' \in {sent, Append(sent, message)}
    /\ UNCHANGED <<replies, peer, verdict>>

Delivered(message) ==
    /\ sent' = Append(sent, message)
    /\ UNCHANGED <<replies, peer, verdict>>

\* Quit closes whatever comes of its command.
ClosesAnyway == IF call.op = "QUIT" THEN poison ELSE UNCHANGED transaction

\* The replies of a prefix of the group are read before more is written.
PrefixFull(c) == c.w = c.n \/ c.w - c.r >= config.depth

write ==
    /\ call.stage = "write"
    /\ LET next == [call EXCEPT !.w = @ + 1]
           message == Message(call.op, call.last)
       IN  \/ /\ cancelled \/ next.w = call.long
              /\ Return("failed", <<>>)
              /\ ClosesAnyway
              /\ UNCHANGED network
           \/ /\ ~cancelled /\ next.w # call.long
              /\ Delivered(message)
              /\ call' = [next EXCEPT !.stage = IF PrefixFull(next) THEN "read" ELSE @]
              /\ UNCHANGED <<config, transaction, waiting, cancelled, outcome>>
           \/ /\ ~cancelled /\ next.w # call.long
              /\ Lost(message)
              /\ Return(finalStatusUnknown(Completes), <<>>)
              /\ poison

\* Mutant: a read that fails keeps the session.
readFailedKept(stage) ==
    /\ call.stage = stage /\ ~cancelled
    /\ Return(finalStatusUnknown(Completes), authoritativePrefix)
    /\ UNCHANGED transaction
    /\ UNCHANGED network

\* Mutant: a read has no deadline and fails only when something arrived.
readFailedLate(stage) ==
    /\ call.stage = stage /\ ~cancelled
    /\ replies # <<>>
    /\ Return(finalStatusUnknown(Completes), authoritativePrefix)
    /\ poison
    /\ UNCHANGED network

\* No reply in time, a connection error, or the context cancelled during it.
readFailed(stage) ==
    /\ call.stage = stage /\ ~cancelled
    /\ Return(finalStatusUnknown(Completes), authoritativePrefix)
    /\ poison
    /\ UNCHANGED network

read(stage) ==
    /\ call.stage = stage /\ ~cancelled
    /\ replies # <<>>
    /\ replies' = Tail(replies)
    /\ UNCHANGED <<sent, peer, verdict>>

\* The server ends the session.
read421(stage) ==
    /\ read(stage)
    /\ Head(replies) = "421"
    /\ classifyFinalReplyFailure
    /\ poison

\* Cancelled before the read: the command's reply is still to come.
readCancelled ==
    /\ call.stage = "read" /\ cancelled
    /\ Return(finalStatusUnknown(Completes), <<>>)
    /\ ClosesAnyway
    /\ UNCHANGED network

Answered(stage, code) == read(stage) /\ Head(replies) = code /\ code # "421"

-----------------------------------------------------------------------------
(***************************************************************************)
(* What each operation makes of its reply.                                 *)
(***************************************************************************)
endTransaction ==
    /\ state' = base
    /\ recipients' = 0
    /\ UNCHANGED base

mailReply(code) ==
    /\ call.op = "MAIL" /\ Answered("read", code)
    /\ Return("done", <<>>)
    /\ IF code = "ok"
         THEN /\ base' = state /\ state' = "transaction"
              /\ recipients' = 0
              /\ smtpUTF8' = call.utf8
              /\ UNCHANGED binaryMIME
         ELSE UNCHANGED transaction

restored == IF state = "transaction" THEN base ELSE state

resetReply(code) ==
    /\ call.op = "RSET" /\ Answered("read", code)
    /\ Return("done", <<>>)
    /\ IF code = "ok"
         THEN /\ state' = restored
              /\ recipients' = 0
              /\ smtpUTF8' = FALSE /\ binaryMIME' = FALSE
              /\ UNCHANGED base
         ELSE UNCHANGED transaction

noopReply(code) ==
    /\ call.op \in {"NOOP", "QUIT"} /\ Answered("read", code)
    /\ Return("done", <<>>)
    /\ ClosesAnyway

\* Mutant: every answered recipient is taken for an accepted one.
acceptedAll(got) == Len(got)

accepted(got) == Cardinality({i \in DOMAIN got : got[i] = "ok"})

\* Recipients count only when the whole batch has been answered.
rcptReply(code) ==
    /\ call.op = "RCPT" /\ Answered("read", code)
    /\ LET c == [call EXCEPT !.r = @ + 1, !.got = Append(@, code)]
       IN  IF c.r = c.n
             THEN /\ Return("done", <<>>)
                  /\ recipients' = recipients + accepted(c.got)
                  /\ UNCHANGED <<state, base, smtpUTF8, binaryMIME>>
             ELSE /\ call' = [c EXCEPT !.stage = IF c.r = c.w THEN "write" ELSE @]
                  /\ UNCHANGED <<config, transaction, waiting, cancelled, outcome>>

burlReply(code) ==
    /\ call.op = "BURL" /\ Answered("read", code)
    /\ IF call.last
         THEN /\ endTransaction
              /\ smtpUTF8' = FALSE /\ binaryMIME' = FALSE
         ELSE UNCHANGED transaction
    /\ IF code = "ok"
         THEN Return(IF call.last THEN "nil" ELSE "partial",
                     [i \in 1..(IF call.last THEN recipients ELSE 0) |-> "ok"])
         ELSE Return("failed", <<>>)

-----------------------------------------------------------------------------
(***************************************************************************)
(* DATA: the 354, the content with its terminator, the final replies.      *)
(***************************************************************************)
Continue(c) ==
    /\ call' = c
    /\ UNCHANGED <<config, waiting, cancelled, outcome>>

dataReply(code) ==
    /\ call.op = "DATA" /\ Answered("read", code)
    /\ IF code = "go" THEN Continue([call EXCEPT !.stage = "content"])
                      ELSE Return("failed", <<>>)
    /\ UNCHANGED transaction

\* The caller's reader and the writes up to the terminator may fail; from the
\* terminator on, a failure may follow the peer's acceptance.
sendContent ==
    /\ call.stage = "content"
    /\ \/ Return("failed", <<>>) /\ poison /\ UNCHANGED network
       \/ /\ ~cancelled
          /\ Delivered(Message(".", TRUE))
          /\ Continue([call EXCEPT !.stage = "final", !.n = recipients, !.r = 0])
          /\ UNCHANGED transaction
       \/ /\ ~cancelled
          /\ Lost(Message(".", TRUE))
          /\ Return(finalStatusUnknown(TRUE), <<>>)
          /\ poison

\* BDAT: each chunk is answered before the next is read from the caller, whose
\* reader may fail between two of them.
chunk(last) ==
    /\ call.stage = "chunk"
    /\ last \/ call.w < MaxChunks
    /\ \/ cancelled /\ Return("failed", <<>>) /\ poison /\ UNCHANGED network
       \/ /\ ~cancelled
          /\ Return("failed", <<>>)
          /\ peer' = [peer EXCEPT !.leftover = @ \/ call.r > 0]
          /\ UNCHANGED <<transaction, sent, replies, verdict>>
       \/ /\ ~cancelled
          /\ Delivered(Message("BDAT", last))
          /\ Continue([call EXCEPT !.w = @ + 1,
                                   !.n = recipients,
                                   !.r = IF last THEN 0 ELSE @,
                                   !.last = last,
                                   !.stage = IF last THEN "final" ELSE "read"])
          /\ UNCHANGED transaction
       \/ /\ ~cancelled
          /\ Lost(Message("BDAT", last))
          /\ Return(finalStatusUnknown(last), <<>>)
          /\ poison

chunkReply(code) ==
    /\ call.op = "BDAT" /\ Answered("read", code)
    /\ IF code = "ok" THEN Continue([call EXCEPT !.stage = "chunk", !.r = @ + 1])
                      ELSE Return("failed", <<>>)
    /\ UNCHANGED transaction

-----------------------------------------------------------------------------
(***************************************************************************)
(* Final replies: one for an SMTP transaction, one for each accepted       *)
(* recipient of an LMTP one, which a look for one reply too many follows.  *)
(***************************************************************************)
\* Cancelled before the read.  Where the code does not close explicitly, the
\* watcher of Data may have done so or may have been stopped before it ran.
finalCancelled ==
    /\ call.stage = "final" /\ cancelled
    /\ Return(finalStatusUnknown(TRUE), authoritativePrefix)
    /\ \/ poison
       \/ /\ ~config.lmtp \/ (call.op = "BDAT" /\ call.r = 0)
          /\ UNCHANGED transaction
    /\ UNCHANGED network

\* What the completed call resets: BDAT leaves smtpUTF8, DATA binaryMIME, and
\* LMTP DATA both.
completeTransaction ==
    /\ endTransaction
    /\ binaryMIME' = (binaryMIME /\ call.op # "BDAT")
    /\ smtpUTF8' = (smtpUTF8 /\ (call.op = "BDAT" \/ config.lmtp))

finalReply(code) ==
    /\ ~config.lmtp /\ Answered("final", code)
    /\ completeTransaction
    /\ IF code = "ok" THEN Return("nil", [i \in 1..call.n |-> "ok"])
                      ELSE Return("failed", <<>>)

\* rejectExtraLMTPFinalReply, after the last reply.
finalRepliesLMTP(code) ==
    /\ config.lmtp /\ Answered("final", code)
    /\ LET got == Append(call.got, code)
       IN  IF Len(got) < call.n
             THEN /\ Continue([call EXCEPT !.got = got, !.r = @ + 1])
                  /\ IF call.op = "BDAT" /\ call.r = 0 THEN completeTransaction
                                                       ELSE UNCHANGED transaction
             ELSE \/ /\ replies' = <<>>
                     /\ Return("nil", got)
                     /\ IF call.op = "DATA" \/ call.r = 0 THEN completeTransaction
                                                          ELSE UNCHANGED transaction
                  \/ /\ Return(finalStatusUnknown(TRUE), <<>>)
                     /\ poison

-----------------------------------------------------------------------------
(***************************************************************************)
(* The peer (external).  It may refuse any command, and it may end the     *)
(* session with 421 instead of an answer.                                  *)
(***************************************************************************)
\* Its final replies and the decisions behind them.
Finals ==
    IF ~config.lmtp
      THEN {[codes |-> <<v>>, for |-> [i \in 1..peer.rcpts |-> v]] : v \in {"ok", "no"}}
             \cup {[codes |-> <<"421">>, for |-> [i \in 1..peer.rcpts |-> "no"]]}
      ELSE UNION {{[codes |-> v, for |-> v], [codes |-> Append(v, "ok"), for |-> v]}
                    \cup {[codes |-> Append(SubSeq(v, 1, k), "421"), for |-> v]
                            : k \in 0..(peer.rcpts - 1)}
                  : v \in [1..peer.rcpts -> {"ok", "no"}]}

Peers(m) ==
    /\ ~peer.gone /\ sent # <<>> /\ m = Head(sent)
    /\ sent' = Tail(sent)
    /\ UNCHANGED <<config, transaction, call, waiting, cancelled, outcome>>

Replies(code, after) ==
    /\ replies' = Append(replies, code)
    /\ peer' = after
    /\ UNCHANGED verdict

Opened(m) == [Peer EXCEPT !.txn = "open", !.binary = m.binary, !.utf8 = m.utf8,
                          !.breach = peer.breach]

Cleared == [Peer EXCEPT !.breach = peer.breach]

Broken(m) ==
    {b \in {"utf8", "binary"} :
        \/ b = "utf8" /\ m.verb = "RCPT" /\ m.utf8 /\ ~peer.utf8
        \/ b = "binary" /\ m.verb = "DATA" /\ peer.binary}

\* The message ends the content of the peer's open transaction.
Ends(m) ==
    \/ m.verb = "." /\ peer.txn = "content"
    \/ m.verb \in {"BDAT", "BURL"} /\ m.last /\ peer.txn = "open" /\ peer.rcpts > 0

peerAgrees ==
    \E m \in Range(sent) :
        /\ Peers(m) /\ ~Ends(m)
        /\ LET seen == [peer EXCEPT !.breach = @ \cup Broken(m)]
               open == peer.txn = "open" /\ peer.rcpts > 0
           IN  \/ m.verb = "NOOP" /\ Replies("ok", peer)
               \/ m.verb = "QUIT" /\ Replies("ok", [peer EXCEPT !.gone = TRUE])
               \/ m.verb = "RSET" /\ Replies("ok", Cleared)
               \/ m.verb = "MAIL" /\ peer.txn = "none" /\ Replies("ok", Opened(m))
               \/ /\ m.verb = "RCPT" /\ peer.txn = "open"
                  /\ Replies("ok", [seen EXCEPT !.rcpts = @ + 1])
               \/ /\ m.verb = "DATA" /\ open /\ ~peer.chunks
                  /\ Replies("go", [seen EXCEPT !.txn = "content"])
               \/ /\ m.verb \in {"BDAT", "BURL"} /\ open
                  /\ Replies("ok", [peer EXCEPT !.chunks = TRUE])

\* A failed chunk fails the transaction until RSET.
peerRefuses ==
    \E m \in Range(sent) :
        /\ Peers(m) /\ ~Ends(m)
        /\ \/ m.verb # "QUIT" /\ Replies("no", IF m.verb \in {"BDAT", "BURL"} /\ peer.txn = "open"
                                                 THEN [peer EXCEPT !.txn = "failed"]
                                                 ELSE peer)
           \/ Replies("421", [Cleared EXCEPT !.gone = TRUE])

peerDecides ==
    \E m \in Range(sent), f \in Finals :
        /\ Peers(m) /\ Ends(m)
        /\ replies' = replies \o f.codes
        /\ verdict' = f.for
        /\ peer' = [Cleared EXCEPT
                      !.gone = "421" \in Range(f.codes),
                      !.breach = IF peer.leftover /\ "ok" \in Range(f.for)
                                   THEN @ \cup {"spliced"} ELSE @]

-----------------------------------------------------------------------------
Codes == {"ok", "no", "go"}

ClientStep ==
    \/ write
    \/ \E stage \in {"read", "final"} : readFailed(stage) \/ read421(stage)
    \/ readCancelled \/ finalCancelled
    \/ \E code \in Codes :
         \/ mailReply(code) \/ resetReply(code) \/ noopReply(code) \/ rcptReply(code)
         \/ burlReply(code) \/ dataReply(code) \/ chunkReply(code)
         \/ finalReply(code) \/ finalRepliesLMTP(code)
    \/ sendContent
    \/ \E last \in BOOLEAN : chunk(last)

CallStep ==
    \/ command
    \/ \E binary, utf8 \in BOOLEAN : Mail(binary, utf8)
    \/ \E n \in 1..MaxRecipients, utf8 \in BOOLEAN :
         \E long \in {0} \cup (LongAt \cap 1..n) : rcptBatch(n, utf8, long)
    \/ \E chunked \in BOOLEAN : transportData(chunked)
    \/ Data
    \/ \E last \in BOOLEAN : BURL(last)

PeerStep == peerAgrees \/ peerRefuses \/ peerDecides

Next == ClientStep \/ CallStep \/ Cancel \/ PeerStep

\* Reads and writes have deadlines, so a running call always goes on.
Spec == Init /\ [][Next]_vars /\ WF_vars(ClientStep)

-----------------------------------------------------------------------------
\* The type of the client: every variable keeps its set of values.
TypeOK ==
    /\ config \in [lmtp : BOOLEAN, depth : {1, MaxDepth}, chunking : BOOLEAN]
    /\ state \in Ready \cup {"transaction", "closed"}
    /\ base \in Ready \cup {"connected"}
    /\ recipients \in 0..MaxRecipients
    /\ smtpUTF8 \in BOOLEAN /\ binaryMIME \in BOOLEAN /\ cancelled \in BOOLEAN
    /\ call.op \in Operations \cup {"none"}
    /\ call.stage \in {"idle", "write", "read", "content", "chunk", "final"}
    /\ waiting \in {"none", "DATA", "BDAT"}
    /\ outcome.status \in {"none", "running", "nil", "partial", "unknown", "failed"}
    /\ Range(replies) \subseteq Codes \cup {"421"}
    /\ peer.txn \in {"none", "open", "content", "failed"}

\* The three-way contract of ErrFinalStatusUnknown, for DATA, BDAT and BURL in
\* SMTP and LMTP: without an error the results say for every recipient whether
\* the peer accepted; after an unknown status they say so for the first ones;
\* after any other error the peer has accepted for nobody, and goes on not to.
FinalStatusContract ==
    LET known == outcome.result
        Taken(i) == i \in DOMAIN verdict /\ verdict[i] = "ok"
        True == \A i \in DOMAIN known : known[i] = "ok" <=> Taken(i)
    IN  /\ outcome.status = "nil" => True /\ DOMAIN verdict \subseteq DOMAIN known
        /\ outcome.status = "unknown" => True
        /\ outcome.status \in {"failed", "partial"} => "ok" \notin Range(verdict)

\* Between calls no command or reply of an earlier call is under way, which the
\* next call would take for its own.
InStep == call = Idle /\ state # "closed" => sent = <<>> /\ replies = <<>>

\* executeLocked reads every reply of what it wrote, or closes: a call that was
\* not cancelled leaves a session that is in step, however it ended.
NothingOwed == ~cancelled => InStep

\* Between calls the client and the peer agree on whether a transaction is open
\* and on how many recipients it has, unless a chunk failed, after which the
\* peer wants RSET whatever the client believes.  A UTF-8 forward-path reaches
\* the peer only in a transaction whose MAIL asked for SMTPUTF8 (rcptBatch's
\* check of the flag that Mail, Reset and Data keep).
TransactionsAgree ==
    /\ MayCall /\ state # "closed" /\ peer.txn # "failed" =>
          /\ state = "transaction" <=> peer.txn = "open"
          /\ state = "transaction" => recipients = peer.rcpts
    /\ "utf8" \notin peer.breach

\* "If a context is cancelled after a command has reached the wire, Client closes
\* and poisons the connection rather than retaining a desynchronized session".
CancelPoisons == cancelled => InStep

\* Every call returns, whatever the peer does: reads and writes have deadlines.
CallsReturn == call # Idle ~> call = Idle

\* "so DATA can enforce that only CHUNKING/BDAT may deliver its content": no
\* DATA command is sent in a transaction that asked for BODY=BINARYMIME.
BinaryNeedsChunking == "binary" \notin peer.breach

\* "Keep the local transaction open so RSET is the sole recovery": the chunks of
\* a failed BDAT transfer are never part of a message the peer accepts.
RSETIsTheSoleRecovery == "spliced" \notin peer.breach
=============================================================================
