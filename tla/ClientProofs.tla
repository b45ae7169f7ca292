---------------------------- MODULE ClientProofs ----------------------------
(***************************************************************************)
(* The replies a call reads, and what it does with them, preserve ClientInv, so *)
(* that it is an invariant of a client session for any pipeline depth and any *)
(* number of recipients and chunks, in SMTP and LMTP. The contract of Data and *)
(* BURL, the accounting of replies and the agreement of the two transactions *)
(* follow from it.                                                          *)
(***************************************************************************)
EXTENDS ClientInvariant

\* What a call that breaks off while it waits for replies may report.
BreaksOff ==
    /\ call' = Idle /\ config' = config /\ waiting' = waiting /\ cancelled' = cancelled
    /\ call.stage \in {"read", "final"}
    /\ UNCHANGED <<sent, peer, verdict>>
    /\ call.op \notin Content => outcome' = outcome
    /\ call.op \in Content =>
         \/ /\ outcome'.status = "unknown"
            /\ outcome'.result = <<>> \/ (config.lmtp /\ call.stage = "final" /\ outcome'.result = call.got)
         \/ /\ outcome'.status = "failed" /\ outcome'.result = <<>>
            /\ Ending => sent = <<>> /\ NoneTaken

\* What such a call reports is right.
LEMMA BrokenOffOutcome ==
    ASSUME ClientInv, BreaksOff
    PROVE  OutcomeInv' /\ outcome'.status # "running" /\ PeerInv'
<1>0. Quiet' = Quiet /\ NoneTaken' = NoneTaken
  BY DEF BreaksOff, Quiet, NoneTaken
<1>1. PeerInv'
  BY PeerSame DEF BreaksOff
<1>2. CASE call.op \notin Content
  BY <1>0, <1>1, <1>2, OutcomeKept DEF BreaksOff, ClientInv, CallInv
<1>3. CASE call.op \in Content /\ outcome'.status = "failed"
  <2>1. NoneTaken /\ Quiet
    <3>1. CASE Ending
      BY <1>3, <3>1, EmptySeq DEF BreaksOff, Quiet
    <3>2. CASE ~Ending
      BY <1>3, <3>2 DEF ClientInv, CallInv, OutcomeInv, NoneTaken
    <3> QED
      BY <3>1, <3>2
  <2> QED
    BY <1>0, <1>1, <1>3, <2>1, FailedOutcome
<1>4. CASE call.op \in Content /\ outcome'.status = "unknown"
  <2>1. CASE outcome'.result = <<>>
    BY <1>1, <1>4, <2>1, UnknownOutcome
  <2>2. CASE outcome'.result # <<>>
    <3>1. config.lmtp /\ call.stage = "final" /\ outcome'.result = call.got /\ verdict' = verdict
      BY <1>4, <2>2 DEF BreaksOff
    <3>2. outcome.status = "running" /\ Ending
      BY <1>4, <3>1 DEF ClientInv, CallInv, Ending
    <3>3. sent = <<>>
      BY <2>2, <3>1, <3>2 DEF ClientInv, OutcomeInv
    <3>4. \A i \in 1..Len(call.got) : call.got[i] = "ok" <=> Taken(i)
      BY <3>1, <3>2, <3>3 DEF ClientInv, OutcomeInv, LmtpAnswers
    <3>5. Known'
      BY <3>1, <3>4 DEF Known, Taken
    <3>6. Quiet'
      BY <1>0, <3>3, EmptySeq DEF Quiet
    <3> QED
      BY <1>1, <1>4, <3>5, <3>6 DEF OutcomeInv
  <2> QED
    BY <2>1, <2>2
<1> QED
  BY <1>2, <1>3, <1>4 DEF BreaksOff

\* A call that breaks off and closes.
LEMMA BreaksOffClosed ==
    ASSUME ClientInv, BreaksOff, poison, outcome' \in Outcomes, replies' \in Seq(AllCodes)
    PROVE  ClientInv'
<1>1. OutcomeInv' /\ outcome'.status # "running" /\ PeerInv'
  BY BrokenOffOutcome
<1>2. CallInv' /\ WireInv' /\ AgreeInv'
  BY <1>1, ClosedStep DEF poison, BreaksOff
<1>3. Types'
  BY IdleCall DEF ClientInv, Types, BreaksOff, poison
<1> QED
  BY <1>1, <1>2, <1>3 DEF ClientInv

\* A call that breaks off and leaves a reply to come: nothing follows it.
LEMMA BreaksOffStray ==
    ASSUME ClientInv, BreaksOff, UNCHANGED <<transaction, replies>>, cancelled,
           sent # <<>> \/ replies # <<>>, outcome' \in Outcomes
    PROVE  ClientInv'
<1>1. OutcomeInv' /\ outcome'.status # "running" /\ PeerInv'
  BY BrokenOffOutcome
<1>2. CallInv'
  BY <1>1, IdleCall DEF ClientInv, CallInv, BreaksOff, transaction, Content
<1>3. WireInv' /\ AgreeInv'
  BY IdleCall DEF WireInv, AgreeInv, Followed, BreaksOff
<1>4. Types'
  BY IdleCall DEF ClientInv, Types, BreaksOff, transaction
<1> QED
  BY <1>1, <1>2, <1>3, <1>4 DEF ClientInv

\* The status and the results of a call that breaks off.
LEMMA Prefix ==
    ASSUME ClientInv
    PROVE  /\ authoritativePrefix \in Seq(AllCodes)
           /\ authoritativePrefix = <<>> \/ (config.lmtp /\ call.stage = "final" /\ authoritativePrefix = call.got)
           /\ Completes /\ call.stage = "read" => Ending
           /\ call.stage = "final" => Completes /\ Ending
           /\ Ending => Completes
BY DEF ClientInv, CallInv, Types, Calls, authoritativePrefix, Completes, Ending

\* No reply in time.
LEMMA ReadFailedKeeps ==
    ASSUME ClientInv, NEW stage \in {"read", "final"}, readFailed(stage)
    PROVE  ClientInv'
<1>1. /\ call' = Idle /\ outcome' \in Outcomes
      /\ call.op \notin Content => outcome' = outcome
      /\ call.op \in Content =>
            /\ outcome'.status = IF Completes THEN "unknown" ELSE "failed"
            /\ outcome'.result = authoritativePrefix
      /\ UNCHANGED <<config, waiting, cancelled>>
  BY Prefix DEF readFailed, Return, finalStatusUnknown, ClientInv, Types, Outcomes, Content
<1>2. poison /\ UNCHANGED <<sent, replies, peer, verdict>> /\ call.stage = stage
  BY DEF readFailed, network
<1>3. ~Completes => authoritativePrefix = <<>> /\ ~Ending
  BY Prefix DEF authoritativePrefix
<1>4. BreaksOff
  BY <1>1, <1>2, <1>3, Prefix DEF BreaksOff
<1> QED
  BY <1>1, <1>2, <1>4, BreaksOffClosed DEF ClientInv, Types

\* The server ends the session with 421.
LEMMA Read421Keeps ==
    ASSUME ClientInv, NEW stage \in {"read", "final"}, read421(stage)
    PROVE  ClientInv'
<1> DEFINE may == Completes /\ config.lmtp
<1>1. /\ call' = Idle /\ outcome' \in Outcomes
      /\ call.op \notin Content => outcome' = outcome
      /\ call.op \in Content =>
            /\ outcome'.status = IF may THEN "unknown" ELSE "failed"
            /\ outcome'.result = authoritativePrefix
      /\ UNCHANGED <<config, waiting, cancelled>>
  BY Prefix DEF read421, classifyFinalReplyFailure, Return, finalStatusUnknown, ClientInv, Types, Outcomes, Content
<1>2. /\ poison /\ UNCHANGED <<sent, peer, verdict>> /\ call.stage = stage
      /\ replies' \in Seq(AllCodes) /\ replies[1] = "421" /\ Len(replies) \in Nat \ {0}
  BY ReadTypes DEF read421, ClientInv
<1>3. ~may => authoritativePrefix = <<>>
  BY DEF authoritativePrefix
<1>4. call.op \in Content /\ Ending => sent = <<>>
  <2>1. CASE call.stage = "final"
    BY <1>2, <2>1, EmptySeq DEF ClientInv, WireInv
  <2>2. CASE call.stage = "read" /\ call.op = "BURL"
    <3>1. /\ call.w <= call.n /\ call.n = 1 /\ call.r = 0 /\ call.w = call.r + Len(sent) + Len(replies)
          /\ call.w \in Nat /\ Len(sent) \in Nat
      BY <2>2, LenProperties DEF ClientInv, WireInv, Types, Calls
    <3> QED
      BY <1>2, <3>1, EmptySeq DEF ClientInv, Types
  <2> QED
    BY <1>2, <2>1, <2>2 DEF Ending
<1>5. call.op \in Content /\ Ending /\ ~may => NoneTaken
  <2>1. SUFFICES ASSUME call.op \in Content, Ending, ~may
                 PROVE  NoneTaken
    OBVIOUS
  <2>2. ~config.lmtp /\ outcome.status = "running"
    BY <2>1, Prefix DEF ClientInv, CallInv
  <2> QED
    BY <1>2, <1>4, <2>1, <2>2 DEF ClientInv, OutcomeInv, SmtpAnswer
<1>6. BreaksOff
  BY <1>1, <1>2, <1>3, <1>4, <1>5, Prefix DEF BreaksOff
<1> QED
  BY <1>1, <1>2, <1>6, BreaksOffClosed

\* The context is found cancelled before a reply is read.
LEMMA ReadCancelledKeeps ==
    ASSUME ClientInv, readCancelled
    PROVE  ClientInv'
<1>1. /\ call' = Idle /\ outcome' \in Outcomes
      /\ call.op \notin Content => outcome' = outcome
      /\ call.op \in Content =>
            outcome'.status = (IF Completes THEN "unknown" ELSE "failed") /\ outcome'.result = <<>>
      /\ UNCHANGED <<config, waiting, cancelled>>
  BY Prefix DEF readCancelled, Return, finalStatusUnknown, ClientInv, Types, Outcomes, Content
<1>2. /\ UNCHANGED <<sent, replies, peer, verdict>> /\ call.stage = "read" /\ cancelled
      /\ poison \/ UNCHANGED transaction
  BY DEF readCancelled, network, ClosesAnyway
<1>3. BreaksOff
  BY <1>1, <1>2, Prefix DEF BreaksOff
<1>4. sent # <<>> \/ replies # <<>>
  <2>1. CASE call.op = "BDAT"
    BY <1>2, <2>1, EmptySeq DEF ClientInv, WireInv
  <2>2. CASE call.op # "BDAT"
    <3>1. call.r < call.w /\ call.w = call.r + Len(sent) + Len(replies) /\ call.r \in Nat
      BY <1>2, <2>2 DEF ClientInv, WireInv, Types, Calls
    <3>2. ~(Len(sent) = 0 /\ Len(replies) = 0)
      BY <3>1
    <3> QED
      BY <3>2
  <2> QED
    BY <2>1, <2>2
<1>5. CASE poison
  BY <1>1, <1>2, <1>3, <1>5, BreaksOffClosed DEF ClientInv, Types
<1>6. CASE UNCHANGED transaction
  BY <1>1, <1>2, <1>3, <1>4, <1>6, BreaksOffStray
<1> QED
  BY <1>2, <1>5, <1>6

\* The context is found cancelled before a final reply is read.
LEMMA FinalCancelledKeeps ==
    ASSUME ClientInv, finalCancelled
    PROVE  ClientInv'
<1>0. call.stage = "final" /\ call.op \in Content /\ Ending /\ outcome.status = "running"
  BY DEF finalCancelled, ClientInv, CallInv, Content, Ending
<1>1. /\ call' = Idle /\ outcome' \in Outcomes
      /\ outcome'.status = "unknown" /\ outcome'.result = authoritativePrefix
      /\ UNCHANGED <<config, waiting, cancelled>>
  BY <1>0, Prefix DEF finalCancelled, Return, finalStatusUnknown, ClientInv, Types, Outcomes, Content
<1>2. /\ UNCHANGED <<sent, replies, peer, verdict>> /\ cancelled
      /\ \/ poison
         \/ UNCHANGED transaction /\ (~config.lmtp \/ (call.op = "BDAT" /\ call.r = 0))
  BY DEF finalCancelled, network
<1>3. BreaksOff
  BY <1>0, <1>1, <1>2, Prefix DEF BreaksOff
<1>4. CASE poison
  BY <1>1, <1>2, <1>3, <1>4, BreaksOffClosed DEF ClientInv, Types
<1>5. CASE UNCHANGED transaction /\ (~config.lmtp \/ (call.op = "BDAT" /\ call.r = 0))
  <2>1. sent # <<>> \/ replies # <<>>
    <3>1. CASE ~config.lmtp
      BY <1>0, <3>1, EmptySeq DEF ClientInv, OutcomeInv, SmtpAnswer
    <3>2. CASE call.r = 0
      BY <1>0, <3>2 DEF ClientInv, WireInv
    <3> QED
      BY <1>5, <3>1, <3>2
  <2> QED
    BY <1>1, <1>2, <1>3, <1>5, <2>1, BreaksOffStray
<1> QED
  BY <1>2, <1>4, <1>5

-----------------------------------------------------------------------------
\* Outside a batch the reply that is read answers the only command under way.
LEMMA OneAnswer ==
    ASSUME ClientInv, NEW code, Answered("read", code), call.op # "RCPT"
    PROVE  /\ sent = <<>> /\ sent' = <<>> /\ replies' = <<>> /\ peer' = peer /\ verdict' = verdict
           /\ Len(replies) = 1 /\ replies[1] = code /\ code \in AllCodes /\ code # "421"
           /\ state # "closed" /\ Answer(code) /\ call.stage = "read" /\ ~cancelled
<1>1. /\ UNCHANGED <<sent, peer, verdict>> /\ replies[1] = code /\ code # "421" /\ code \in AllCodes
      /\ Len(replies) \in Nat \ {0} /\ (Len(replies) = 1 => replies' = <<>>)
      /\ call.stage = "read" /\ ~cancelled
  BY ReadTypes DEF Answered, ClientInv
<1>2. Len(sent) \in Nat
  BY LenProperties DEF ClientInv, Types
<1>8. Len(replies) \in Nat /\ Len(replies) >= 1
  BY <1>1
<1>3. Len(sent) = 0 /\ Len(replies) = 1
  <2>1. CASE call.op = "BDAT"
    <3>1. Len(sent) + Len(replies) = 1
      BY <1>1, <2>1 DEF ClientInv, WireInv
    <3>2. \A a, b \in Nat : a + b = 1 /\ b >= 1 => a = 0 /\ b = 1
      OBVIOUS
    <3> QED
      BY Zenon, <1>2, <1>8, <3>1, <3>2
  <2>2. CASE call.op # "BDAT"
    <3>1. call.w <= call.n /\ call.w = call.r + Len(sent) + Len(replies) /\ call.n = 1 /\ call.r = 0
      BY <1>1, <2>2 DEF ClientInv, WireInv
    <3>2. \A a, b \in Nat : 0 + a + b <= 1 /\ b >= 1 => a = 0 /\ b = 1
      OBVIOUS
    <3> QED
      BY Zenon, <1>2, <1>8, <3>1, <3>2
  <2> QED
    BY <2>1, <2>2
<1>4. sent = <<>>
  BY <1>3, EmptySeq DEF ClientInv, Types
<1>5. ~Doomed
  BY <1>1, <1>3 DEF Doomed
<1>6. state # "closed" /\ Followed
  BY <1>1 DEF ClientInv, CallInv, Followed
<1>7. Answer(code)
  BY <1>1, <1>4, <1>5, <1>6 DEF ClientInv, AgreeInv
<1> QED
  BY <1>1, <1>3, <1>4, <1>6, <1>7

\* A call other than a transfer that ends with its answer.
LEMMA AnsweredReturn ==
    ASSUME ClientInv, Types', call' = Idle, call.op \notin Content, outcome' = outcome,
           UNCHANGED <<verdict, peer>>, sent = <<>>, sent' = <<>>, replies' = <<>>,
           \/ state' = "closed"
           \/ /\ state' # "closed" /\ Settled(0)'
              /\ state' \in Ready => recipients' = 0
              /\ state' = "transaction" => base' \in Ready
    PROVE  ClientInv'
<1>1. outcome.status # "running" /\ outcome'.status # "running"
  BY DEF ClientInv, CallInv
<1>2. CallInv' /\ WireInv' /\ AgreeInv'
  BY <1>1, ClosedStep, ReturnStep
<1>3. PeerInv'
  BY PeerSame
<1>4. OutcomeInv'
  BY <1>1, OutcomeKept DEF Quiet
<1> QED
  BY <1>2, <1>3, <1>4 DEF ClientInv

\* The reply to MAIL.
LEMMA MailReplyKeeps ==
    ASSUME ClientInv, NEW code \in Codes, mailReply(code)
    PROVE  ClientInv'
<1>0. call.op = "MAIL" /\ Answered("read", code) /\ call.op \notin Content /\ call.op # "RCPT"
  BY DEF mailReply, Content
<1>1. /\ sent = <<>> /\ sent' = <<>> /\ replies' = <<>> /\ UNCHANGED <<peer, verdict>>
      /\ state # "closed" /\ Answer(code)
  BY <1>0, OneAnswer
<1>2. call' = Idle /\ UNCHANGED <<outcome, config, waiting, cancelled>>
  BY <1>0 DEF mailReply, Return, Content
<1>3. state \in Ready /\ recipients = 0 /\ call.utf8 \in BOOLEAN
  BY <1>0 DEF ClientInv, CallInv, Types, Calls
<1>4. CASE code = "ok"
  <2>1. /\ base' = state /\ state' = "transaction" /\ recipients' = 0 /\ smtpUTF8' = call.utf8
        /\ binaryMIME' = binaryMIME
    BY <1>4 DEF mailReply
  <2>2. peer.txn = "open" /\ peer.rcpts = 0 /\ peer.utf8 = call.utf8
    BY <1>0, <1>1, <1>4 DEF Answer
  <2>3. Settled(0)'
    BY <1>1, <2>1, <2>2 DEF Settled
  <2>4. Types'
    BY <1>1, <1>2, <1>3, <2>1, IdleCall DEF ClientInv, Types, Ready
  <2>5. state' # "closed" /\ (state' \in Ready => recipients' = 0) /\ (state' = "transaction" => base' \in Ready)
    BY <1>3, <2>1
  <2> QED
    BY <1>0, <1>1, <1>2, <2>3, <2>4, <2>5, AnsweredReturn
<1>5. CASE code # "ok"
  <2>1. UNCHANGED <<state, base, recipients, smtpUTF8, binaryMIME>>
    BY <1>5 DEF mailReply, transaction
  <2>2. Settled(0)
    BY <1>0, <1>1, <1>5 DEF Answer
  <2>3. Settled(0)'
    BY <1>1, <2>1, <2>2 DEF Settled
  <2>4. Types'
    BY <1>1, <1>2, <2>1, IdleCall DEF ClientInv, Types
  <2>5. state' # "closed" /\ (state' \in Ready => recipients' = 0) /\ (state' = "transaction" => base' \in Ready)
    BY <1>1, <2>1 DEF ClientInv, CallInv
  <2> QED
    BY <1>0, <1>1, <1>2, <2>3, <2>4, <2>5, AnsweredReturn
<1> QED
  BY <1>4, <1>5

\* The reply to RSET.
LEMMA ResetReplyKeeps ==
    ASSUME ClientInv, NEW code \in Codes, resetReply(code)
    PROVE  ClientInv'
<1>0. call.op = "RSET" /\ Answered("read", code) /\ call.op \notin Content /\ call.op # "RCPT"
  BY DEF resetReply, Content
<1>1. /\ sent = <<>> /\ sent' = <<>> /\ replies' = <<>> /\ UNCHANGED <<peer, verdict>>
      /\ state # "closed" /\ Answer(code)
  BY <1>0, OneAnswer
<1>2. call' = Idle /\ UNCHANGED <<outcome, config, waiting, cancelled>>
  BY <1>0 DEF resetReply, Return, Content
<1>4. CASE code = "ok"
  <2>1. /\ state' = restored /\ recipients' = 0 /\ smtpUTF8' = FALSE /\ binaryMIME' = FALSE /\ base' = base
    BY <1>4 DEF resetReply
  <2>2. peer.txn = "none"
    BY <1>0, <1>1, <1>4 DEF Answer
  <2>3. state' \in Ready
    <3>1. state \in Ready \cup {"transaction"} /\ (state = "transaction" => base \in Ready)
      BY <1>1 DEF ClientInv, CallInv, Types
    <3> QED
      BY <2>1, <3>1 DEF restored
  <2>6. state' # "closed" /\ state' # "transaction"
    BY <2>3 DEF Ready
  <2>7. peer'.txn = "none"
    BY <1>1, <2>2
  <2>4. Settled(0)' /\ state' # "closed" /\ state' # "transaction"
    BY <2>6, <2>7 DEF Settled
  <2>8. smtpUTF8' \in BOOLEAN /\ binaryMIME' \in BOOLEAN /\ base' = base /\ recipients' = 0
    BY Zenon, <2>1
  <2>5. Types'
    BY <1>1, <1>2, <2>3, <2>8, IdleCall DEF ClientInv, Types
  <2> QED
    BY <1>0, <1>1, <1>2, <2>1, <2>3, <2>4, <2>5, AnsweredReturn
<1>5. CASE code # "ok"
  <2>1. UNCHANGED <<state, base, recipients, smtpUTF8, binaryMIME>>
    BY <1>5 DEF resetReply, transaction
  <2>2. Settled(0)
    BY <1>0, <1>1, <1>5 DEF Answer
  <2>3. Settled(0)'
    BY <1>1, <2>1, <2>2 DEF Settled
  <2>4. Types'
    BY <1>1, <1>2, <2>1, IdleCall DEF ClientInv, Types
  <2>5. state' # "closed" /\ (state' \in Ready => recipients' = 0) /\ (state' = "transaction" => base' \in Ready)
    BY <1>1, <2>1 DEF ClientInv, CallInv
  <2> QED
    BY <1>0, <1>1, <1>2, <2>3, <2>4, <2>5, AnsweredReturn
<1> QED
  BY <1>4, <1>5

\* The reply to NOOP and to QUIT.
LEMMA NoopReplyKeeps ==
    ASSUME ClientInv, NEW code \in Codes, noopReply(code)
    PROVE  ClientInv'
<1>0. call.op \in {"NOOP", "QUIT"} /\ Answered("read", code) /\ call.op \notin Content /\ call.op # "RCPT"
  BY DEF noopReply, Content
<1>1. /\ sent = <<>> /\ sent' = <<>> /\ replies' = <<>> /\ UNCHANGED <<peer, verdict>>
      /\ state # "closed" /\ Answer(code)
  BY <1>0, OneAnswer
<1>2. call' = Idle /\ UNCHANGED <<outcome, config, waiting, cancelled>>
  BY <1>0 DEF noopReply, Return, Content
<1>3. /\ UNCHANGED <<base, recipients, smtpUTF8, binaryMIME>>
      /\ IF call.op = "QUIT" THEN state' = "closed" ELSE state' = state
  BY DEF noopReply, ClosesAnyway, poison, transaction
<1>4. Types'
  BY <1>1, <1>2, <1>3, IdleCall DEF ClientInv, Types
<1>5. CASE call.op = "QUIT"
  BY <1>0, <1>1, <1>2, <1>3, <1>4, <1>5, AnsweredReturn
<1>6. CASE call.op = "NOOP"
  <2>1. Settled(0)
    BY <1>1, <1>6 DEF Answer
  <2>2. Settled(0)'
    BY <1>1, <1>3, <1>6, <2>1 DEF Settled
  <2>3. state' # "closed" /\ (state' \in Ready => recipients' = 0) /\ (state' = "transaction" => base' \in Ready)
    BY <1>1, <1>3, <1>6 DEF ClientInv, CallInv
  <2> QED
    BY <1>0, <1>1, <1>2, <1>4, <2>2, <2>3, AnsweredReturn
<1> QED
  BY <1>0, <1>5, <1>6

\* A 421 behind the reply that is read is still to come.
LEMMA StillDoomed ==
    ASSUME ClientInv, NEW stage, read(stage), replies[1] # "421", Doomed
    PROVE  Doomed'
<1>1. /\ Len(replies) \in Nat \ {0} /\ Len(replies') = Len(replies) - 1
      /\ \A i \in 1..Len(replies') : replies'[i] = replies[i + 1]
  BY ReadTypes DEF ClientInv
<1>2. PICK i \in 1..Len(replies) : replies[i] = "421"
  BY DEF Doomed
<1>3. i - 1 \in 1..Len(replies')
  BY <1>1, <1>2
<1>4. replies'[i - 1] = "421"
  BY <1>1, <1>2, <1>3
<1> QED
  BY <1>3, <1>4 DEF Doomed

\* The reply to one RCPT of a batch.
LEMMA RcptReplyKeeps ==
    ASSUME ClientInv, NEW code \in Codes, rcptReply(code)
    PROVE  ClientInv'
<1> DEFINE c == [call EXCEPT !.r = @ + 1, !.got = Append(@, code)]
<1>0. call.op = "RCPT" /\ Answered("read", code) /\ call.op \notin Content /\ call \in Calls
  BY DEF rcptReply, Content, ClientInv, Types
<1>1. /\ UNCHANGED <<sent, peer, verdict>> /\ replies[1] = code /\ code # "421" /\ code \in AllCodes
      /\ Len(replies) \in Nat /\ Len(replies) >= 1 /\ (Len(replies) = 1 => replies' = <<>>)
      /\ call.stage = "read" /\ ~cancelled /\ replies' \in Seq(AllCodes)
      /\ Len(replies') = Len(replies) - 1 /\ \A i \in 1..Len(replies') : replies'[i] = replies[i + 1]
      /\ accepted(replies) = accepted(replies') + (IF code = "ok" THEN 1 ELSE 0)
  BY <1>0, ReadTypes DEF Answered, ClientInv
<1>2. /\ Append(call.got, code) \in Seq(AllCodes) /\ Len(Append(call.got, code)) = Len(call.got) + 1
      /\ accepted(Append(call.got, code)) = accepted(call.got) + (IF code = "ok" THEN 1 ELSE 0)
      /\ call.got \in Seq(AllCodes)
  BY <1>0, <1>1, AppendProperties, AcceptedAppend DEF Calls
<1>3. /\ c \in Calls /\ c.r = call.r + 1 /\ c.got = Append(call.got, code) /\ c.op = "RCPT"
      /\ c.n = call.n /\ c.w = call.w /\ c.stage = "read" /\ c.utf8 = call.utf8 /\ c.last = call.last
      /\ c.long = call.long
  <2> DEFINE d(k, q) == [call EXCEPT !.r = k, !.got = q]
  <2>1. ASSUME NEW q \in Seq(AllCodes), NEW k \in Nat
        PROVE  /\ d(k, q) \in Calls /\ d(k, q).r = k /\ d(k, q).got = q /\ d(k, q).op = call.op
               /\ d(k, q).n = call.n /\ d(k, q).w = call.w /\ d(k, q).stage = call.stage
               /\ d(k, q).utf8 = call.utf8 /\ d(k, q).last = call.last /\ d(k, q).long = call.long
    BY Zenon, <1>0 DEF Calls
  <2>3. c = d(call.r + 1, Append(call.got, code))
    OBVIOUS
  <2> HIDE DEF d, c
  <2>2. call.r + 1 \in Nat
    BY <1>0 DEF Calls
  <2> QED
    BY Zenon, <1>0, <1>1, <1>2, <2>1, <2>2, <2>3
<1>4. IF c.r = c.n
        THEN /\ Return("done", <<>>)
             /\ recipients' = recipients + accepted(c.got)
             /\ UNCHANGED <<state, base, smtpUTF8, binaryMIME>>
        ELSE /\ call' = [c EXCEPT !.stage = IF c.r = c.w THEN "write" ELSE @]
             /\ UNCHANGED <<config, transaction, waiting, cancelled, outcome>>
  BY DEF rcptReply
<1> HIDE DEF c
<1>5. /\ call.r \in Nat /\ call.w \in Nat /\ call.n \in Nat /\ Len(sent) \in Nat
      /\ call.r < call.w /\ call.w <= call.n /\ call.w = call.r + Len(sent) + Len(replies)
      /\ Len(call.got) = call.r
  BY <1>0, <1>1, LenProperties DEF ClientInv, WireInv, Types, Calls
<1>6. /\ state = "transaction" /\ state # "closed" /\ Followed /\ recipients \in Nat
      /\ base \in Ready /\ outcome.status # "running"
  BY <1>0, <1>1 DEF ClientInv, CallInv, Followed, Types
<1>7. ~Doomed => Settled(accepted(call.got) + accepted(replies))
  BY <1>0, <1>6 DEF ClientInv, AgreeInv
<1>8. accepted(c.got) + accepted(replies') = accepted(call.got) + accepted(replies)
  <2>1. accepted(call.got) \in Nat /\ accepted(replies') \in Nat
    BY Zenon, <1>1, <1>2, AcceptedType
  <2> QED
    BY <1>1, <1>2, <1>3, <2>1
<1>9. accepted(c.got) \in Nat /\ accepted(replies') \in Nat
  BY Zenon, <1>1, <1>2, <1>3, AcceptedType
<1>10. Quiet' = Quiet
  BY <1>1 DEF Quiet
<1>11. CASE c.r = c.n
  <2>1. call' = Idle /\ UNCHANGED <<outcome, config, waiting, cancelled>>
    BY <1>0, <1>4, <1>11 DEF Return, Content
  <2>2. recipients' = recipients + accepted(c.got) /\ UNCHANGED <<state, base, smtpUTF8, binaryMIME>>
    BY <1>4, <1>11
  <2>3. Len(sent) = 0 /\ Len(replies) = 1
    BY <1>1, <1>3, <1>5, <1>11
  <2>4. sent = <<>> /\ sent' = <<>> /\ replies' = <<>>
    BY <1>1, <2>3, EmptySeq DEF ClientInv, Types
  <2>5. ~Doomed
    BY <1>1, <2>3 DEF Doomed
  <2>6. accepted(replies') = 0
    BY <2>4, AcceptedNone
  <2>7. Settled(accepted(c.got))
    BY <1>7, <1>8, <1>9, <2>5, <2>6
  <2>8. Settled(0)'
    BY <1>1, <1>6, <1>9, <2>2, <2>7 DEF Settled
  <2>9. Types'
    BY <1>1, <1>6, <1>9, <2>1, <2>2, IdleCall DEF ClientInv, Types
  <2>10. state' # "closed" /\ state' \notin Ready /\ base' \in Ready
    BY <1>6, <2>2 DEF Ready
  <2> QED
    BY <1>0, <1>1, <2>1, <2>4, <2>8, <2>9, <2>10, AnsweredReturn
<1>12. CASE c.r # c.n
  <2> DEFINE to == IF c.r = c.w THEN "write" ELSE c.stage
  <2>1. call' = [c EXCEPT !.stage = to] /\ UNCHANGED <<config, transaction, waiting, cancelled, outcome>>
    BY <1>4, <1>12
  <2>2. to \in {"read", "write"} /\ (to = "write" => c.r = c.w) /\ (to = "read" => c.r # c.w)
    BY <1>3
  <2> HIDE DEF to
  <2>3. /\ call' \in Calls /\ call'.r = call.r + 1 /\ call'.got = c.got /\ call'.op = "RCPT"
        /\ call'.n = call.n /\ call'.w = call.w /\ call'.stage = to /\ call'.utf8 = call.utf8
        /\ call'.last = call.last /\ call'.long = call.long
    BY <1>3, <2>1, <2>2 DEF Calls, Stages
  <2>4. UNCHANGED <<config, state, base, recipients, smtpUTF8, binaryMIME, waiting, cancelled, outcome>>
    BY <2>1 DEF transaction
  <2>5. Types'
    BY <1>1, <2>3, <2>4 DEF ClientInv, Types
  <2>6. CallInv'
    BY SMTT(20), <1>0, <1>1, <2>2, <2>3, <2>4 DEF ClientInv, CallInv, Content, Ready
  <2>7. WireInv'
    <3>1. call'.w = call'.r + Len(sent') + Len(replies') /\ Len(call'.got) = call'.r
      <4>1. \A w, r, a, b \in Nat : w = r + a + b /\ b >= 1 => w = (r + 1) + a + (b - 1)
        OBVIOUS
      <4>2. Len(sent') = Len(sent) /\ call'.w = call.w /\ call'.r = call.r + 1
        BY <1>1, <2>3
      <4>3. call.w = (call.r + 1) + Len(sent) + (Len(replies) - 1)
        BY <1>1, <1>5, <4>1
      <4>4. Len(call'.got) = call'.r
        BY <1>2, <1>3, <1>5, <2>3
      <4> QED
        BY <1>1, <4>2, <4>3, <4>4
    <3>2. to = "write" => call'.r <= call'.w /\ call'.w < call'.n
      BY <1>3, <1>5, <1>12, <2>2, <2>3
    <3>3. to = "read" => call'.r < call'.w /\ call'.w <= call'.n
      BY <1>3, <1>5, <2>2, <2>3
    <3>4. \A i \in 1..Len(sent') : sent'[i].verb = call'.op /\ sent'[i].last = call'.last /\ sent'[i].utf8 = call'.utf8
      BY <1>0, <1>1, <2>3 DEF ClientInv, WireInv
    <3> QED
      BY <2>2, <2>3, <3>1, <3>2, <3>3, <3>4 DEF WireInv
  <2>8. AgreeInv'
    <3>1. ~Doomed' => ~Doomed
      BY <1>0, <1>1, StillDoomed DEF Answered
    <3>2. ~Doomed' => Settled(accepted(c.got) + accepted(replies'))
      BY <1>7, <1>8, <3>1
    <3>3. ~Doomed' => Settled(accepted(call.got) + accepted(replies))'
      BY <1>1, <2>3, <2>4, <3>2 DEF Settled
    <3> QED
      BY <2>2, <2>3, <3>3 DEF AgreeInv
  <2>9. PeerInv'
    BY <1>0, <1>1, <2>3, PeerSame
  <2>10. OutcomeInv'
    BY <1>1, <1>6, <1>10, <2>4, OutcomeKept
  <2> QED
    BY <2>5, <2>6, <2>7, <2>8, <2>9, <2>10 DEF ClientInv
<1> QED
  BY <1>11, <1>12

\* A transfer that ends with its answer.
LEMMA TransferReturn ==
    ASSUME ClientInv, Types', call' = Idle, peer' = peer, verdict' = verdict,
           sent = <<>>, sent' = <<>>, replies' = <<>>,
           \/ outcome'.status = "nil" /\ Known' /\ Len(verdict) <= Len(outcome'.result)
           \/ outcome'.status \in {"failed", "partial"} /\ NoneTaken,
           state' # "closed", Settled(0)',
           state' \in Ready => recipients' = 0,
           state' = "transaction" => base' \in Ready
    PROVE  ClientInv'
<1>1. CallInv' /\ WireInv' /\ AgreeInv'
  BY ReturnStep
<1>2. PeerInv'
  BY PeerSame
<1>3. OutcomeInv'
  BY EmptySeq DEF OutcomeInv, Quiet, NoneTaken
<1> QED
  BY <1>1, <1>2, <1>3 DEF ClientInv

\* A transfer that goes on after an answer.
LEMMA TransferGoesOn ==
    ASSUME ClientInv, Types', call.op \in {"DATA", "BDAT"}, call.stage = "read",
           call'.op = call.op, call'.utf8 = call.utf8, call'.last = call.last, call'.long = call.long, call'.got = call.got,
           call'.stage = IF call.op = "DATA" THEN "content" ELSE "chunk",
           UNCHANGED <<config, state, base, recipients, smtpUTF8, outcome, peer, verdict>>,
           sent = <<>>, sent' = <<>>, replies' = <<>>,
           IF call.op = "DATA" THEN peer.txn = "content" /\ peer.rcpts = recipients /\ recipients > 0
                               ELSE Settled(0)
    PROVE  ClientInv'
<1>1. CallInv'
  <2>1. CASE call.op = "DATA"
    BY <2>1 DEF ClientInv, CallInv, Content
  <2>2. CASE call.op = "BDAT"
    BY <2>2 DEF ClientInv, CallInv, Content
  <2> QED
    BY <2>1, <2>2
<1>2. WireInv'
  <2>1. call'.stage \in {"content", "chunk"} /\ call'.op # "RCPT"
    OBVIOUS
  <2> QED
    BY <2>1 DEF WireInv
<1>3. AgreeInv'
  <2>1. CASE call.op = "DATA"
    <3>1. call'.stage = "content" /\ peer'.txn = "content" /\ peer'.rcpts = recipients' /\ recipients' > 0
      BY <2>1
    <3> QED
      BY <2>1, <3>1 DEF AgreeInv
  <2>2. CASE call.op = "BDAT"
    <3>1. call'.stage = "chunk" /\ Settled(0)'
      BY <2>2 DEF Settled
    <3> QED
      BY <2>2, <3>1 DEF AgreeInv
  <2> QED
    BY <2>1, <2>2
<1>4. PeerInv'
  BY PeerSame
<1>5. OutcomeInv'
  <2>1. outcome.status = "running" /\ ~Ending /\ ~Ending'
    BY DEF ClientInv, CallInv, Content, Ending
  <2>2. verdict = <<>> /\ call.got = <<>>
    BY <2>1 DEF ClientInv, OutcomeInv, Content
  <2> QED
    BY <2>1, <2>2, EmptySeq DEF OutcomeInv, Quiet
<1> QED
  BY <1>1, <1>2, <1>3, <1>4, <1>5 DEF ClientInv

\* The reply to DATA.
LEMMA DataReplyKeeps ==
    ASSUME ClientInv, NEW code \in Codes, dataReply(code)
    PROVE  ClientInv'
<1>0. call.op = "DATA" /\ Answered("read", code) /\ call.op \in Content /\ call.op # "RCPT"
  BY DEF dataReply, Content
<1>1. /\ sent = <<>> /\ sent' = <<>> /\ replies' = <<>> /\ UNCHANGED <<peer, verdict>>
      /\ state # "closed" /\ Answer(code) /\ call.stage = "read" /\ call \in Calls
  BY <1>0, OneAnswer DEF ClientInv, Types
<1>2. UNCHANGED <<state, base, recipients, smtpUTF8, binaryMIME>>
  BY DEF dataReply, transaction
<1>3. outcome.status = "running" /\ ~Ending /\ verdict = <<>> /\ state = "transaction" /\ base \in Ready
  BY <1>0, <1>1 DEF ClientInv, CallInv, OutcomeInv, Ending
<1>4. CASE code = "go"
  <2>1. call' = [call EXCEPT !.stage = "content"] /\ UNCHANGED <<config, waiting, cancelled, outcome>>
    BY <1>4 DEF dataReply, Continue
  <2>2. /\ call' \in Calls /\ call'.stage = "content" /\ call'.op = call.op /\ call'.utf8 = call.utf8 /\ call'.last = call.last
        /\ call'.long = call.long /\ call'.got = call.got
    BY <1>1, <2>1 DEF Calls, Stages
  <2>3. Types'
    BY <1>1, <1>2, <2>1, <2>2 DEF ClientInv, Types
  <2>4. peer.txn = "content" /\ peer.rcpts = recipients /\ recipients > 0
    BY <1>0, <1>1, <1>4 DEF Answer
  <2> QED
    BY <1>0, <1>1, <1>2, <2>1, <2>2, <2>3, <2>4, TransferGoesOn
<1>5. CASE code # "go"
  <2>1. /\ call' = Idle /\ outcome'.status = "failed" /\ outcome' \in Outcomes
        /\ UNCHANGED <<config, waiting, cancelled>>
    <3>1. Return("failed", <<>>)
      BY <1>5 DEF dataReply
    <3> QED
      BY <1>0, <3>1 DEF Return, Outcomes, Content
  <2>2. Settled(0)
    BY <1>0, <1>1, <1>5 DEF Answer
  <2>3. Settled(0)'
    BY <1>1, <1>2, <2>2 DEF Settled
  <2>4. Types'
    BY <1>1, <1>2, <2>1, IdleCall DEF ClientInv, Types
  <2>5. NoneTaken
    BY <1>3 DEF NoneTaken
  <2>6. state' # "closed" /\ state' \notin Ready /\ base' \in Ready
    BY <1>2, <1>3 DEF Ready
  <2> QED
    BY <1>1, <2>1, <2>3, <2>4, <2>5, <2>6, TransferReturn
<1> QED
  BY <1>4, <1>5

\* The reply to a chunk that is not the last.
LEMMA ChunkReplyKeeps ==
    ASSUME ClientInv, NEW code \in Codes, chunkReply(code)
    PROVE  ClientInv'
<1>0. call.op = "BDAT" /\ Answered("read", code) /\ call.op \in Content /\ call.op # "RCPT"
  BY DEF chunkReply, Content
<1>1. /\ sent = <<>> /\ sent' = <<>> /\ replies' = <<>> /\ UNCHANGED <<peer, verdict>>
      /\ state # "closed" /\ Answer(code) /\ call.stage = "read" /\ call \in Calls
  BY <1>0, OneAnswer DEF ClientInv, Types
<1>2. UNCHANGED <<state, base, recipients, smtpUTF8, binaryMIME>>
  BY DEF chunkReply, transaction
<1>3. outcome.status = "running" /\ ~Ending /\ verdict = <<>> /\ state = "transaction" /\ base \in Ready
  BY <1>0, <1>1 DEF ClientInv, CallInv, OutcomeInv, Ending
<1>6. Settled(0)
  BY <1>0, <1>1 DEF Answer
<1>4. CASE code = "ok"
  <2> DEFINE d(k) == [call EXCEPT !.stage = "chunk", !.r = k]
  <2>1. call' = d(call.r + 1) /\ UNCHANGED <<config, waiting, cancelled, outcome>>
    BY <1>4 DEF chunkReply, Continue
  <2>4. ASSUME NEW k \in Nat
        PROVE  /\ d(k) \in Calls /\ d(k).stage = "chunk" /\ d(k).op = call.op /\ d(k).utf8 = call.utf8 /\ d(k).last = call.last
               /\ d(k).long = call.long /\ d(k).got = call.got
    BY Zenon, <1>1 DEF Calls, Stages
  <2>5. call.r + 1 \in Nat
    BY <1>1 DEF Calls
  <2> HIDE DEF d
  <2>2. /\ call' \in Calls /\ call'.stage = "chunk" /\ call'.op = call.op /\ call'.utf8 = call.utf8 /\ call'.last = call.last
        /\ call'.long = call.long /\ call'.got = call.got
    BY <2>1, <2>4, <2>5
  <2>3. Types'
    BY <1>1, <1>2, <2>1, <2>2 DEF ClientInv, Types
  <2> QED
    BY <1>0, <1>1, <1>2, <1>6, <2>1, <2>2, <2>3, TransferGoesOn
<1>5. CASE code # "ok"
  <2>1. /\ call' = Idle /\ outcome'.status = "failed" /\ outcome' \in Outcomes
        /\ UNCHANGED <<config, waiting, cancelled>>
    <3>1. Return("failed", <<>>)
      BY <1>5 DEF chunkReply
    <3> QED
      BY <1>0, <3>1 DEF Return, Outcomes, Content
  <2>3. Settled(0)'
    BY <1>1, <1>2, <1>6 DEF Settled
  <2>4. Types'
    BY <1>1, <1>2, <2>1, IdleCall DEF ClientInv, Types
  <2>5. NoneTaken
    BY <1>3 DEF NoneTaken
  <2>6. state' # "closed" /\ state' \notin Ready /\ base' \in Ready
    BY <1>2, <1>3 DEF Ready
  <2> QED
    BY <1>1, <2>1, <2>3, <2>4, <2>5, <2>6, TransferReturn
<1> QED
  BY <1>4, <1>5

\* The reply to BURL.
LEMMA BurlReplyKeeps ==
    ASSUME ClientInv, NEW code \in Codes, burlReply(code)
    PROVE  ClientInv'
<1> DEFINE k == IF call.last THEN recipients ELSE 0
           result == [i \in 1..k |-> "ok"]
<1>0. call.op = "BURL" /\ Answered("read", code) /\ call.op \in Content /\ call.op # "RCPT"
  BY DEF burlReply, Content
<1>1. /\ sent = <<>> /\ sent' = <<>> /\ replies' = <<>> /\ UNCHANGED <<peer, verdict>>
      /\ state # "closed" /\ Answer(code) /\ call.stage = "read" /\ call \in Calls /\ replies[1] = code
  BY <1>0, OneAnswer DEF ClientInv, Types
<1>2. /\ outcome.status = "running" /\ state = "transaction" /\ base \in Ready /\ ~config.lmtp
      /\ verdict \in Seq({"ok", "no"}) /\ recipients \in Nat /\ call.last \in BOOLEAN
      /\ Ending <=> call.last
  BY <1>0, <1>1 DEF ClientInv, CallInv, Ending, Types, Calls
<1>3. k \in Nat /\ result \in Seq(AllCodes) /\ Len(result) = k /\ \A i \in 1..k : result[i] = "ok"
  BY <1>2 DEF AllCodes
<1>4. /\ call' = Idle /\ outcome' \in Outcomes /\ UNCHANGED <<config, waiting, cancelled>>
      /\ IF code = "ok" THEN /\ outcome'.status = IF call.last THEN "nil" ELSE "partial"
                             /\ outcome'.result = result
                        ELSE outcome'.status = "failed"
  <2> DEFINE status == IF call.last THEN "nil" ELSE "partial"
  <2>1. IF code = "ok" THEN Return(status, result) ELSE Return("failed", <<>>)
    BY DEF burlReply
  <2>2. status \in {"nil", "partial"}
    OBVIOUS
  <2> HIDE DEF result, status
  <2>3. CASE code = "ok"
    <3>1. Return(status, result)
      BY <2>1, <2>3
    <3>2. outcome' = [status |-> status, result |-> result] /\ call' = Idle /\ UNCHANGED <<config, waiting, cancelled>>
      BY <1>0, <3>1 DEF Return
    <3>3. outcome' \in Outcomes /\ outcome'.status = status /\ outcome'.result = result
      BY <1>3, <2>2, <3>2 DEF Outcomes
    <3> QED
      BY <2>3, <3>2, <3>3 DEF status
  <2>4. CASE code # "ok"
    <3>1. Return("failed", <<>>)
      BY <2>1, <2>4
    <3> QED
      BY <1>0, <2>4, <3>1 DEF Return, Outcomes, Content
  <2> QED
    BY <2>3, <2>4
<1> HIDE DEF result
<1>5. CASE call.last
  <2>1. state' = base /\ recipients' = 0 /\ base' = base /\ smtpUTF8' = FALSE /\ binaryMIME' = FALSE
    BY <1>5 DEF burlReply, endTransaction
  <2>2. smtpUTF8' \in BOOLEAN /\ binaryMIME' \in BOOLEAN
    BY Zenon, <2>1
  <2>3. state' \in Ready /\ base' = base /\ recipients' = 0
    BY <1>2, <2>1
  <2>4. Types'
    BY <1>1, <1>4, <2>2, <2>3, IdleCall DEF ClientInv, Types
  <2>5. peer'.txn \in {"none", "failed"}
    BY <1>0, <1>1, <1>5 DEF Answer
  <2>6. state' # "closed" /\ state' # "transaction"
    BY <2>3 DEF Ready
  <2>7. Settled(0)'
    BY <2>5, <2>6 DEF Settled
  <2>8. /\ Len(replies) = 1
        /\ IF code = "ok" THEN Len(verdict) = recipients /\ \A i \in 1..recipients : verdict[i] = "ok"
                          ELSE NoneTaken
    BY <1>0, <1>1, <1>2, <1>5 DEF ClientInv, OutcomeInv, SmtpAnswer, Expected
  <2>9. CASE code = "ok"
    <3>1. outcome'.status = "nil" /\ outcome'.result = result /\ Len(result) = recipients
      BY <1>3, <1>4, <1>5, <2>9
    <3>2. \A i \in 1..recipients : Taken(i)
      BY <1>2, <2>8, <2>9, LenProperties DEF Taken
    <3>3. Known'
      BY <1>1, <1>3, <1>5, <3>1, <3>2 DEF Known, Taken
    <3>4. Len(verdict) <= Len(outcome'.result)
      BY <1>2, <2>8, <2>9, <3>1
    <3> QED
      BY <1>1, <1>4, <2>3, <2>4, <2>6, <2>7, <3>1, <3>3, <3>4, TransferReturn
  <2>10. CASE code # "ok"
    <3>1. outcome'.status = "failed" /\ NoneTaken
      BY <1>4, <2>8, <2>10
    <3> QED
      BY <1>1, <1>4, <2>3, <2>4, <2>6, <2>7, <3>1, TransferReturn
  <2> QED
    BY <2>9, <2>10
<1>6. CASE ~call.last
  <2>1. UNCHANGED <<state, base, recipients, smtpUTF8, binaryMIME>>
    BY <1>6 DEF burlReply, transaction
  <2>2. Settled(0)
    BY <1>0, <1>1, <1>6 DEF Answer
  <2>3. Settled(0)'
    BY <1>1, <2>1, <2>2 DEF Settled
  <2>4. Types'
    BY <1>1, <1>4, <2>1, IdleCall DEF ClientInv, Types
  <2>5. NoneTaken
    BY <1>2, <1>6, EmptySeq DEF ClientInv, OutcomeInv, NoneTaken
  <2>6. outcome'.status \in {"failed", "partial"}
    BY <1>4, <1>6
  <2>7. state' # "closed" /\ state' \notin Ready /\ base' \in Ready
    BY <1>2, <2>1 DEF Ready
  <2> QED
    BY <1>1, <1>4, <2>3, <2>4, <2>5, <2>6, <2>7, TransferReturn
<1> QED
  BY <1>2, <1>5, <1>6

\* A transfer that fails before its end with the connection closed.
LEMMA TransferCloses ==
    ASSUME ClientInv, Types', call.stage \in {"content", "chunk"}, call' = Idle, state' = "closed",
           UNCHANGED <<replies, peer, verdict>>, NEW m \in Messages,
           m.verb \in {".", "BDAT"}, m.utf8 = call.utf8,
           sent' = sent \/ sent' = Append(sent, m),
           \/ outcome'.status = "unknown" /\ outcome'.result = <<>>
           \/ outcome'.status = "failed" /\ (sent' = sent \/ ~Completing(m))
    PROVE  ClientInv'
<1>0. call.op \in Content /\ call.op # "RCPT" /\ sent = <<>>
  BY DEF ClientInv, CallInv, WireInv, Content
<1>1. CallInv' /\ WireInv' /\ AgreeInv'
  BY ClosedStep
<1>2. PeerInv'
  BY SMTT(20), <1>0, PeerSame, PeerSent
<1>3. OutcomeInv'
  <2>1. CASE outcome'.status = "unknown"
    BY <2>1, UnknownOutcome
  <2>2. CASE outcome'.status = "failed" /\ (sent' = sent \/ ~Completing(m))
    <3>1. NoneTaken'
      BY <1>0, EmptySeq DEF ClientInv, CallInv, OutcomeInv, Ending, NoneTaken
    <3>2. Quiet'
      <4>1. CASE sent' = sent
        BY <1>0, <4>1, EmptySeq DEF Quiet
      <4>2. CASE sent' = Append(sent, m) /\ ~Completing(m)
        <5>1. Len(sent') = 1 /\ sent'[1] = m
          BY <1>0, <4>2, SendTypes DEF ClientInv
        <5> QED
          BY <4>2, <5>1 DEF Quiet, Completing
      <4> QED
        BY <2>2, <4>1, <4>2
    <3> QED
      BY <2>2, <3>1, <3>2, FailedOutcome
  <2> QED
    BY <2>1, <2>2
<1> QED
  BY <1>1, <1>2, <1>3 DEF ClientInv

\* A transfer whose last message, or next chunk, is on its way.
LEMMA TransferSends ==
    ASSUME ClientInv, Types', call.stage \in {"content", "chunk"}, NEW m \in Messages,
           UNCHANGED <<config, state, base, recipients, smtpUTF8, outcome, replies, peer, verdict>>,
           sent' = Append(sent, m), m.utf8 = call.utf8,
           m.verb = IF call.op = "DATA" THEN "." ELSE "BDAT",
           call'.op = call.op, call'.utf8 = call.utf8, call'.long = call.long, call'.got = call.got,
           call'.n = recipients, call.op = "BDAT" => call'.last = m.last, call.op = "DATA" => m.last,
           call'.stage = IF m.last THEN "final" ELSE "read", m.last => call'.r = 0
    PROVE  ClientInv'
<1>0. /\ call.op \in Content /\ call.op \in {"DATA", "BDAT"} /\ call.op # "RCPT" /\ sent = <<>> /\ replies = <<>>
      /\ state = "transaction" /\ outcome.status = "running" /\ ~Ending /\ recipients > 0 /\ Followed
      /\ call.stage = IF call.op = "DATA" THEN "content" ELSE "chunk"
  <2>1. CASE call.stage = "content"
    <3>1. call.op = "DATA" /\ state = "transaction" /\ sent = <<>> /\ replies = <<>> /\ outcome.status = "running"
      BY <2>1 DEF ClientInv, CallInv, WireInv, Content
    <3>2. Followed /\ ~Ending
      BY <2>1, <3>1 DEF Followed, Ending
    <3>3. recipients > 0
      BY <2>1, <3>2 DEF ClientInv, AgreeInv
    <3> QED
      BY SMTT(20), <2>1, <3>1, <3>2, <3>3 DEF Content
  <2>2. CASE call.stage = "chunk"
    <3>1. /\ call.op = "BDAT" /\ state = "transaction" /\ sent = <<>> /\ replies = <<>> /\ outcome.status = "running"
          /\ recipients > 0
      BY <2>2 DEF ClientInv, CallInv, WireInv, Content
    <3>2. Followed /\ ~Ending
      BY <2>2, <3>1 DEF Followed, Ending
    <3> QED
      BY <2>2, <3>1, <3>2 DEF Content
  <2> QED
    BY <2>1, <2>2
<1>1. Len(sent') = 1 /\ sent'[1] = m /\ sent' # <<>>
  BY <1>0, SendTypes DEF ClientInv
<1>2. call.got = <<>> /\ verdict = <<>> /\ m.last \in BOOLEAN
  BY <1>0 DEF ClientInv, OutcomeInv, Messages
<1>3. CallInv'
  <2>1. call'.stage \in {"final", "read"} /\ (call'.stage = "read" => call'.op = "BDAT" /\ ~call'.last)
    BY <1>0, <1>2
  <2>2. call'.stage = "final" => call'.r = 0
    BY <1>2
  <2>3. call.long = 0 /\ base \in Ready /\ state \notin Ready
    BY <1>0 DEF ClientInv, CallInv, Ready
  <2> QED
    BY <1>0, <2>1, <2>2, <2>3 DEF CallInv, Content
<1>4. WireInv'
  <2>1. CASE m.last
    <3>1. call'.stage = "final" /\ call'.r = Len(call'.got) /\ call'.op # "RCPT" /\ replies' = <<>>
      BY <1>0, <1>2, <2>1, EmptySeq
    <3>2. sent'[1].last /\ sent'[1].verb = IF call'.op = "DATA" THEN "." ELSE "BDAT"
      BY <1>1, <2>1
    <3> QED
      BY <1>1, <3>1, <3>2 DEF WireInv
  <2>2. CASE ~m.last
    <3>1. call'.stage = "read" /\ call'.op = "BDAT" /\ Len(replies') = 0
      BY <1>0, <2>2, EmptySeq
    <3>2. \A i \in 1..Len(sent') : sent'[i].verb = call'.op /\ sent'[i].last = call'.last /\ sent'[i].utf8 = call'.utf8
      BY <1>1, <2>2, <3>1, <1>2
    <3> QED
      BY <1>1, <3>1, <3>2 DEF WireInv
  <2> QED
    BY <2>1, <2>2
<1>5. AgreeInv'
  <2>1. CASE call.op = "DATA"
    <3>1. peer.txn = "content" /\ peer.rcpts = recipients
      BY <1>0, <2>1 DEF ClientInv, AgreeInv
    <3>2. call'.stage = "final" /\ call'.op = "DATA" /\ call'.r = 0
      BY <2>1
    <3> QED
      BY SMTT(20), <1>0, <1>1, <3>1, <3>2 DEF AgreeInv
  <2>2. CASE call.op = "BDAT"
    <3>1. Settled(0)
      BY <1>0, <2>2 DEF ClientInv, AgreeInv
    <3>2. Settled(0)'
      BY <3>1 DEF Settled
    <3>3. call'.stage \in {"final", "read"} /\ call'.op = "BDAT" /\ (call'.stage = "final" => call'.r = 0)
      BY <2>2
    <3> QED
      BY SMTT(20), <1>0, <1>1, <3>2, <3>3 DEF AgreeInv
  <2> QED
    BY <1>0, <2>1, <2>2
<1>6. PeerInv'
  BY <1>0, PeerSent
<1>7. OutcomeInv'
  <2>1. ~Ending' => Quiet'
    BY <1>0, <1>1, <1>2 DEF Ending, Quiet, Completing
  <2>2. outcome'.status = "running" /\ verdict' = <<>> /\ call'.got = <<>> /\ sent' # <<>>
    BY <1>0, <1>1, <1>2
  <2> QED
    BY <2>1, <2>2 DEF OutcomeInv
<1> QED
  BY <1>3, <1>4, <1>5, <1>6, <1>7 DEF ClientInv

\* Data writes the content and its terminator.
LEMMA SendContentKeeps ==
    ASSUME ClientInv, sendContent
    PROVE  ClientInv'
<1> DEFINE m == Message(".", TRUE)
<1>0. /\ call.stage = "content" /\ call.op = "DATA" /\ call \in Calls /\ sent = <<>>
      /\ recipients \in Nat
  BY DEF sendContent, ClientInv, CallInv, WireInv, Types
<1>1. m \in Messages /\ m.verb = "." /\ m.last = TRUE /\ m.utf8 = call.utf8
  BY Zenon, MessageType DEF ClientInv
<1> HIDE DEF m
<1>2. Append(sent, m) \in Seq(Messages)
  BY <1>1, SendTypes DEF ClientInv
<1>3. CASE Return("failed", <<>>) /\ poison /\ UNCHANGED network
  <2>1. /\ call' = Idle /\ outcome' \in Outcomes /\ outcome'.status = "failed"
        /\ UNCHANGED <<config, waiting, cancelled>>
    BY <1>0, <1>3 DEF Return, Outcomes
  <2>2. state' = "closed" /\ UNCHANGED <<base, recipients, smtpUTF8, binaryMIME, sent, replies, peer, verdict>>
    BY <1>3 DEF poison, network
  <2>3. Types'
    BY <2>1, <2>2, IdleCall DEF ClientInv, Types
  <2> QED
    BY <1>0, <1>1, <2>1, <2>2, <2>3, TransferCloses
<1>4. CASE /\ Lost(m) /\ Return(finalStatusUnknown(TRUE), <<>>) /\ poison
  <2>1. /\ call' = Idle /\ outcome' \in Outcomes /\ outcome'.status = "unknown" /\ outcome'.result = <<>>
        /\ UNCHANGED <<config, waiting, cancelled>>
    BY <1>0, <1>4 DEF Return, Outcomes, finalStatusUnknown
  <2>2. /\ state' = "closed" /\ UNCHANGED <<base, recipients, smtpUTF8, binaryMIME, replies, peer, verdict>>
        /\ sent' = sent \/ sent' = Append(sent, m)
    BY <1>4 DEF poison, Lost
  <2>3. Types'
    BY Zenon, <1>2, <2>1, <2>2, IdleCall DEF ClientInv, Types
  <2> QED
    BY <1>0, <1>1, <2>1, <2>2, <2>3, TransferCloses
<1>5. CASE /\ Delivered(m) /\ Continue([call EXCEPT !.stage = "final", !.n = recipients, !.r = 0])
           /\ UNCHANGED transaction
  <2>1. /\ call' = [call EXCEPT !.stage = "final", !.n = recipients, !.r = 0]
        /\ UNCHANGED <<config, waiting, cancelled, outcome>>
    BY <1>5 DEF Continue
  <2>2. UNCHANGED <<state, base, recipients, smtpUTF8, binaryMIME, replies, peer, verdict>> /\ sent' = Append(sent, m)
    BY <1>5 DEF Delivered, transaction
  <2>3. /\ call' \in Calls /\ call'.op = call.op /\ call'.utf8 = call.utf8 /\ call'.long = call.long
        /\ call'.got = call.got /\ call'.n = recipients /\ call'.stage = "final" /\ call'.r = 0
    BY Zenon, <1>0, <2>1 DEF Calls, Stages
  <2>4. Types'
    BY <1>2, <2>1, <2>2, <2>3 DEF ClientInv, Types
  <2> QED
    BY <1>0, <1>1, <2>1, <2>2, <2>3, <2>4, TransferSends
<1> QED
  BY Zenon, <1>3, <1>4, <1>5 DEF sendContent, m

\* Data writes a chunk, or its caller's reader fails before it.
LEMMA ChunkKeeps ==
    ASSUME ClientInv, NEW last \in BOOLEAN, chunk(last)
    PROVE  ClientInv'
<1> DEFINE m == Message("BDAT", last)
           next == [call EXCEPT !.w = @ + 1, !.n = recipients, !.r = IF last THEN 0 ELSE @,
                                !.last = last, !.stage = IF last THEN "final" ELSE "read"]
<1>0. /\ call.stage = "chunk" /\ call.op = "BDAT" /\ call \in Calls /\ sent = <<>> /\ replies = <<>>
      /\ recipients \in Nat /\ "BDAT" \in Operations /\ peer \in PeerStates
  BY DEF chunk, ClientInv, CallInv, WireInv, Types, Operations
<1>1. m \in Messages /\ m.verb = "BDAT" /\ m.last = last /\ m.utf8 = call.utf8
  BY <1>0, MessageType DEF ClientInv
<1>6. /\ next \in Calls /\ next.op = call.op /\ next.utf8 = call.utf8 /\ next.long = call.long
      /\ next.got = call.got /\ next.n = recipients /\ next.stage = (IF last THEN "final" ELSE "read")
      /\ next.last = last /\ (last => next.r = 0)
  <2> DEFINE d(w, r, stage) == [call EXCEPT !.w = w, !.n = recipients, !.r = r, !.last = last, !.stage = stage]
  <2>1. ASSUME NEW w \in Nat, NEW r \in Nat, NEW stage \in Stages
        PROVE  /\ d(w, r, stage) \in Calls /\ d(w, r, stage).op = call.op /\ d(w, r, stage).utf8 = call.utf8
               /\ d(w, r, stage).long = call.long /\ d(w, r, stage).got = call.got
               /\ d(w, r, stage).n = recipients /\ d(w, r, stage).stage = stage
               /\ d(w, r, stage).last = last /\ d(w, r, stage).r = r
    BY Zenon, <1>0 DEF Calls
  <2>2. next = d(call.w + 1, IF last THEN 0 ELSE call.r, IF last THEN "final" ELSE "read")
    OBVIOUS
  <2> HIDE DEF d, next
  <2>3. call.w + 1 \in Nat /\ call.r \in Nat /\ "final" \in Stages /\ "read" \in Stages
    BY <1>0 DEF Calls, Stages
  <2>4. CASE last
    <3>1. next = d(call.w + 1, 0, "final") /\ 0 \in Nat
      BY <2>2, <2>4
    <3>2. /\ next \in Calls /\ next.op = call.op /\ next.utf8 = call.utf8 /\ next.long = call.long
          /\ next.got = call.got /\ next.n = recipients /\ next.stage = "final"
          /\ next.last = last /\ next.r = 0
      BY <2>1, <2>3, <3>1
    <3> QED
      BY <2>4, <3>2
  <2>5. CASE ~last
    BY <2>1, <2>2, <2>3, <2>5
  <2> QED
    BY <2>4, <2>5
<1>7. \/ cancelled /\ Return("failed", <<>>) /\ poison /\ UNCHANGED network
      \/ /\ Return("failed", <<>>)
         /\ peer' = [peer EXCEPT !.leftover = @ \/ call.r > 0]
         /\ UNCHANGED <<transaction, sent, replies, verdict>>
      \/ Delivered(m) /\ Continue(next) /\ UNCHANGED transaction
      \/ Lost(m) /\ Return(finalStatusUnknown(last), <<>>) /\ poison
  BY DEF chunk
<1> HIDE DEF m, next
<1>2. Append(sent, m) \in Seq(Messages)
  BY <1>1, SendTypes DEF ClientInv
<1>3. CASE Return("failed", <<>>) /\ poison /\ UNCHANGED network
  <2>1. /\ call' = Idle /\ outcome' \in Outcomes /\ outcome'.status = "failed"
        /\ UNCHANGED <<config, waiting, cancelled>>
    BY <1>0, <1>3 DEF Return, Outcomes
  <2>2. state' = "closed" /\ UNCHANGED <<base, recipients, smtpUTF8, binaryMIME, sent, replies, peer, verdict>>
    BY <1>3 DEF poison, network
  <2>3. Types'
    BY <2>1, <2>2, IdleCall DEF ClientInv, Types
  <2> QED
    BY <1>0, <1>1, <2>1, <2>2, <2>3, TransferCloses
<1>4. CASE Lost(m) /\ Return(finalStatusUnknown(last), <<>>) /\ poison
  <2>1. /\ call' = Idle /\ outcome' \in Outcomes /\ outcome'.result = <<>>
        /\ outcome'.status = IF last THEN "unknown" ELSE "failed"
        /\ UNCHANGED <<config, waiting, cancelled>>
    BY <1>0, <1>4 DEF Return, Outcomes, finalStatusUnknown
  <2>2. /\ state' = "closed" /\ UNCHANGED <<base, recipients, smtpUTF8, binaryMIME, replies, peer, verdict>>
        /\ sent' = sent \/ sent' = Append(sent, m)
    BY <1>4 DEF poison, Lost
  <2>3. Types'
    BY Zenon, <1>2, <2>1, <2>2, IdleCall DEF ClientInv, Types
  <2>4. ~last => ~Completing(m)
    BY <1>1 DEF Completing
  <2>5. \/ outcome'.status = "unknown" /\ outcome'.result = <<>>
        \/ outcome'.status = "failed" /\ (sent' = sent \/ ~Completing(m))
    BY <2>1, <2>4
  <2> QED
    BY SMTT(20), <1>0, <1>1, <2>1, <2>2, <2>3, <2>5, TransferCloses
<1>5. CASE Delivered(m) /\ Continue(next) /\ UNCHANGED transaction
  <2>1. call' = next /\ UNCHANGED <<config, waiting, cancelled, outcome>>
    BY <1>5 DEF Continue
  <2>2. UNCHANGED <<state, base, recipients, smtpUTF8, binaryMIME, replies, peer, verdict>> /\ sent' = Append(sent, m)
    BY <1>5 DEF Delivered, transaction
  <2>3. Types'
    BY <1>2, <1>6, <2>1, <2>2 DEF ClientInv, Types
  <2> QED
    BY <1>0, <1>1, <1>6, <2>1, <2>2, <2>3, TransferSends
<1>8. CASE /\ Return("failed", <<>>)
           /\ peer' = [peer EXCEPT !.leftover = @ \/ call.r > 0]
           /\ UNCHANGED <<transaction, sent, replies, verdict>>
  <2>1. /\ call' = Idle /\ outcome' \in Outcomes /\ outcome'.status = "failed"
        /\ UNCHANGED <<config, waiting, cancelled>>
    BY <1>0, <1>8 DEF Return, Outcomes
  <2>2. UNCHANGED <<state, base, recipients, smtpUTF8, binaryMIME, sent, replies, verdict>>
    BY <1>8 DEF transaction
  <2>3. /\ peer'.txn = peer.txn /\ peer'.rcpts = peer.rcpts /\ peer'.utf8 = peer.utf8 /\ peer'.breach = peer.breach
        /\ peer' \in PeerStates
    BY Zenon, <1>0, <1>8 DEF PeerStates
  <2>4. Types'
    BY SMTT(20), <2>1, <2>2, <2>3, IdleCall DEF ClientInv, Types
  <2>5. state = "transaction" /\ base \in Ready /\ verdict = <<>> /\ Followed
    BY <1>0 DEF ClientInv, CallInv, OutcomeInv, Ending, Content, Followed
  <2>6. Settled(0)'
    <3>1. Settled(0)
      BY <1>0, <2>5 DEF ClientInv, AgreeInv
    <3> QED
      BY <2>2, <2>3, <3>1 DEF Settled
  <2>7. state' # "closed" /\ state' \notin Ready /\ base' \in Ready /\ sent' = <<>> /\ replies' = <<>>
    BY <1>0, <2>2, <2>5 DEF Ready
  <2>8. CallInv' /\ WireInv' /\ AgreeInv'
    BY <2>1, <2>6, <2>7, ReturnStep
  <2>9. PeerInv'
    BY <2>1, <2>2, <2>3, PeerSame
  <2>10. OutcomeInv'
    BY <2>1, <2>2, <2>5, <2>7, FailedOutcome, EmptySeq DEF NoneTaken, Quiet
  <2> QED
    BY <2>4, <2>8, <2>9, <2>10 DEF ClientInv
<1> QED
  BY <1>3, <1>4, <1>5, <1>7, <1>8

\* What the client knows when it reads a final reply.
LEMMA FinalAnswer ==
    ASSUME ClientInv, NEW code \in Codes, Answered("final", code)
    PROVE  /\ UNCHANGED <<sent, peer, verdict>> /\ sent = <<>> /\ replies' \in Seq(AllCodes)
           /\ replies[1] = code /\ code # "421" /\ call.stage = "final" /\ Ending /\ call \in Calls
           /\ Len(replies) \in Nat \ {0} /\ Len(replies') = Len(replies) - 1
           /\ \A i \in 1..Len(replies') : replies'[i] = replies[i + 1]
           /\ Len(replies) = 1 => replies' = <<>> /\ ~Doomed
           /\ ~Doomed => peer.txn \in {"none", "failed"}
           /\ outcome.status = "running" /\ call.op \in {"DATA", "BDAT"} /\ Expected = call.n
           /\ call.r = Len(call.got) /\ Len(verdict) <= call.n
           /\ call.op = "DATA" \/ call.r = 0 => state = "transaction" /\ base \in Ready
           /\ call.op = "BDAT" /\ call.r > 0 => state \in Ready /\ recipients = 0
           /\ Doomed => Doomed'
<1>1. /\ UNCHANGED <<sent, peer, verdict>> /\ replies' \in Seq(AllCodes) /\ replies \in Seq(AllCodes)
      /\ replies[1] = code /\ code # "421" /\ call.stage = "final"
      /\ Len(replies) \in Nat \ {0} /\ Len(replies') = Len(replies) - 1
      /\ \A i \in 1..Len(replies') : replies'[i] = replies[i + 1]
      /\ Len(replies) = 1 => replies' = <<>>
  BY ReadTypes DEF Answered, ClientInv, Types
<1>2. sent = <<>>
  BY <1>1, EmptySeq DEF ClientInv, WireInv
<1>3. Len(replies) = 1 => ~Doomed
  BY SMTT(20), <1>1 DEF Doomed
<1>4. /\ Ending /\ call.op \in {"DATA", "BDAT"} /\ outcome.status = "running" /\ state # "closed" /\ Followed
      /\ call \in Calls /\ call.r = Len(call.got) /\ Expected = call.n
  BY SMTT(20), <1>1 DEF ClientInv, CallInv, WireInv, Ending, Content, Followed, Types, Expected
<1>5. ~Doomed => peer.txn \in {"none", "failed"}
  BY <1>1, <1>2, <1>4 DEF ClientInv, AgreeInv
<1>6. Len(verdict) <= call.n
  BY <1>2, <1>4 DEF ClientInv, OutcomeInv
<1>7. /\ call.op = "DATA" \/ call.r = 0 => state = "transaction" /\ base \in Ready
      /\ call.op = "BDAT" /\ call.r > 0 => state \in Ready /\ recipients = 0
  BY <1>1, <1>4 DEF ClientInv, CallInv
<1>8. Doomed => Doomed'
  BY <1>1, StillDoomed DEF Answered
<1> QED
  BY SMTT(20), <1>1, <1>2, <1>3, <1>4, <1>5, <1>6, <1>7, <1>8

\* What a completed transaction leaves behind.
LEMMA Completed ==
    ASSUME ClientInv, completeTransaction, base \in Ready
    PROVE  /\ state' = base /\ state' \in Ready /\ state' # "closed" /\ state' # "transaction"
           /\ recipients' = 0 /\ base' = base
           /\ smtpUTF8' \in BOOLEAN /\ binaryMIME' \in BOOLEAN
<1>1. state' = base /\ recipients' = 0 /\ base' = base
  BY DEF completeTransaction, endTransaction
<1>2. smtpUTF8' \in BOOLEAN /\ binaryMIME' \in BOOLEAN
  BY DEF completeTransaction
<1> QED
  BY <1>1, <1>2 DEF Ready

\* The final reply of an SMTP transaction.
LEMMA FinalReplyKeeps ==
    ASSUME ClientInv, NEW code \in Codes, finalReply(code)
    PROVE  ClientInv'
<1> DEFINE result == [i \in 1..call.n |-> "ok"]
<1>0. ~config.lmtp /\ Answered("final", code) /\ completeTransaction
  BY DEF finalReply
<1>1. /\ UNCHANGED <<sent, peer, verdict>> /\ sent = <<>> /\ replies[1] = code /\ Ending /\ call \in Calls
      /\ Len(replies) = 1 => replies' = <<>> /\ ~Doomed
      /\ ~Doomed => peer.txn \in {"none", "failed"}
      /\ outcome.status = "running" /\ call.op \in {"DATA", "BDAT"} /\ Expected = call.n
      /\ call.r = Len(call.got) /\ Len(verdict) <= call.n
      /\ call.op = "DATA" \/ call.r = 0 => state = "transaction" /\ base \in Ready
  BY <1>0, FinalAnswer
<1>2. /\ Len(replies) = 1 /\ call.got = <<>>
      /\ IF code = "ok" THEN Len(verdict) = call.n /\ \A i \in 1..call.n : verdict[i] = "ok" ELSE NoneTaken
  BY <1>0, <1>1 DEF ClientInv, OutcomeInv, SmtpAnswer
<1>3. call.n \in Nat /\ result \in Seq(AllCodes) /\ Len(result) = call.n /\ \A i \in 1..call.n : result[i] = "ok"
  BY <1>1 DEF Calls, AllCodes
<1>4. base \in Ready
  BY <1>1, <1>2, EmptySeq
<1>5. /\ state' \in Ready /\ state' # "closed" /\ state' # "transaction"
      /\ recipients' = 0 /\ base' = base /\ smtpUTF8' \in BOOLEAN /\ binaryMIME' \in BOOLEAN
  BY <1>0, <1>4, Completed
<1>6. peer.txn \in {"none", "failed"} /\ replies' = <<>> /\ sent' = <<>>
  BY <1>1, <1>2
<1>7. Settled(0)'
  BY <1>1, <1>5, <1>6 DEF Settled
<1>8. IF code = "ok" THEN Return("nil", result) ELSE Return("failed", <<>>)
  BY DEF finalReply
<1> HIDE DEF result
<1>9. CASE code = "ok"
  <2>1. /\ outcome' = [status |-> "nil", result |-> result] /\ call' = Idle
        /\ UNCHANGED <<config, waiting, cancelled>>
    BY <1>1, <1>8, <1>9 DEF Return
  <2>2. outcome' \in Outcomes /\ outcome'.status = "nil" /\ outcome'.result = result
    BY SMTT(20), <1>3, <2>1 DEF Outcomes
  <2>3. Types'
    BY <1>1, <1>5, <1>6, <2>1, <2>2, IdleCall, EmptySeq DEF ClientInv, Types
  <2>4. \A i \in 1..call.n : Taken(i)
    BY <1>2, <1>9, LenProperties DEF Taken, ClientInv, Types
  <2>5. Known'
    BY <1>1, <1>3, <2>2, <2>4 DEF Known, Taken
  <2>6. Len(verdict) <= Len(outcome'.result)
    BY <1>1, <1>3, <2>2
  <2> QED
    BY <1>1, <1>5, <1>6, <1>7, <2>1, <2>2, <2>3, <2>5, <2>6, TransferReturn
<1>10. CASE code # "ok"
  <2>1. Return("failed", <<>>)
    BY <1>8, <1>10
  <2>2. /\ call' = Idle /\ outcome' \in Outcomes /\ outcome'.status = "failed"
        /\ UNCHANGED <<config, waiting, cancelled>>
    BY <1>1, <2>1 DEF Return, Outcomes
  <2>3. Types'
    BY <1>1, <1>5, <1>6, <2>2, IdleCall, EmptySeq DEF ClientInv, Types
  <2>4. NoneTaken
    BY <1>2, <1>10
  <2> QED
    BY <1>1, <1>5, <1>6, <1>7, <2>2, <2>3, <2>4, TransferReturn
<1> QED
  BY <1>9, <1>10

\* The replies an LMTP call has read after one more of them.
LEMMA OneMoreReply ==
    ASSUME ClientInv, NEW code \in Codes, Answered("final", code), config.lmtp
    PROVE  LET got == Append(call.got, code)
           IN  /\ got \in Seq(AllCodes) /\ Len(got) = Len(call.got) + 1 /\ Len(got) <= call.n
               /\ \A i \in 1..Len(got) : got[i] = "ok" <=> Taken(i)
               /\ \A i \in 1..Len(replies') : replies'[i] # "421" /\ Len(got) + i <= call.n =>
                     (replies'[i] = "ok" <=> Taken(Len(got) + i))
<1> DEFINE got == Append(call.got, code)
<1>1. /\ sent = <<>> /\ replies[1] = code /\ code # "421" /\ Ending /\ call \in Calls
      /\ Len(replies) \in Nat \ {0} /\ Len(replies') = Len(replies) - 1
      /\ \A i \in 1..Len(replies') : replies'[i] = replies[i + 1]
      /\ outcome.status = "running" /\ Expected = call.n
  BY FinalAnswer
<1>2. /\ Len(call.got) < call.n
      /\ \A i \in 1..Len(call.got) : call.got[i] = "ok" <=> Taken(i)
      /\ \A i \in 1..Len(replies) : replies[i] # "421" /\ Len(call.got) + i <= call.n =>
            (replies[i] = "ok" <=> Taken(Len(call.got) + i))
  BY <1>1 DEF ClientInv, OutcomeInv, LmtpAnswers
<1>3. /\ call.got \in Seq(AllCodes) /\ call.n \in Nat /\ Len(call.got) \in Nat /\ code \in AllCodes
  BY <1>1, LenProperties DEF Calls, Codes, AllCodes
<1>4. /\ got \in Seq(AllCodes) /\ Len(got) = Len(call.got) + 1 /\ got[Len(call.got) + 1] = code
      /\ \A i \in 1..Len(call.got) : got[i] = call.got[i]
  BY <1>3, AppendProperties
<1> HIDE DEF got
<1>5. Len(call.got) + 1 <= call.n /\ 1 \in 1..Len(replies)
  BY <1>1, <1>2, <1>3
<1>6. code = "ok" <=> Taken(Len(call.got) + 1)
  BY <1>1, <1>2, <1>5
<1>7. \A i \in 1..Len(got) : i \in 1..Len(call.got) \/ i = Len(call.got) + 1
  BY <1>3, <1>4
<1>8. \A i \in 1..Len(got) : got[i] = "ok" <=> Taken(i)
  BY <1>2, <1>4, <1>6, <1>7
<1>9. ASSUME NEW i \in 1..Len(replies'), replies'[i] # "421", Len(got) + i <= call.n
      PROVE  replies'[i] = "ok" <=> Taken(Len(got) + i)
  <2>1. i + 1 \in 1..Len(replies) /\ Len(got) + i = Len(call.got) + (i + 1) /\ replies'[i] = replies[i + 1]
    <3>1. \A a, b \in Nat : (a + 1) + b = a + (b + 1)
      OBVIOUS
    <3>2. i \in Nat /\ i + 1 \in 1..Len(replies)
      BY <1>1
    <3> QED
      BY Zenon, <1>1, <1>3, <1>4, <3>1, <3>2
  <2>2. replies[i + 1] # "421" /\ Len(call.got) + (i + 1) <= call.n
    BY Zenon, <1>9, <2>1
  <2> QED
    BY Zenon, <1>2, <2>1, <2>2
<1> QED
  BY Zenon, <1>3, <1>4, <1>5, <1>8, <1>9 DEF got

\* One of the final replies of an LMTP transaction.
LEMMA FinalRepliesLMTPKeeps ==
    ASSUME ClientInv, NEW code \in Codes, finalRepliesLMTP(code)
    PROVE  ClientInv'
<1> DEFINE got == Append(call.got, code)
           d(q, k) == [call EXCEPT !.got = q, !.r = k]
<1>0. config.lmtp /\ Answered("final", code)
  BY DEF finalRepliesLMTP
<1>1. /\ UNCHANGED <<sent, peer, verdict>> /\ sent = <<>> /\ replies' \in Seq(AllCodes)
      /\ replies[1] = code /\ code # "421" /\ call.stage = "final" /\ Ending /\ call \in Calls
      /\ Len(replies) \in Nat \ {0} /\ Len(replies') = Len(replies) - 1
      /\ Len(replies) = 1 => replies' = <<>> /\ ~Doomed
      /\ ~Doomed => peer.txn \in {"none", "failed"}
      /\ outcome.status = "running" /\ call.op \in {"DATA", "BDAT"} /\ Expected = call.n
      /\ call.r = Len(call.got) /\ Len(verdict) <= call.n
      /\ call.op = "DATA" \/ call.r = 0 => state = "transaction" /\ base \in Ready
      /\ call.op = "BDAT" /\ call.r > 0 => state \in Ready /\ recipients = 0
      /\ Doomed => Doomed'
  BY <1>0, FinalAnswer
<1>2. /\ got \in Seq(AllCodes) /\ Len(got) = Len(call.got) + 1 /\ Len(got) <= call.n
      /\ \A i \in 1..Len(got) : got[i] = "ok" <=> Taken(i)
      /\ \A i \in 1..Len(replies') : replies'[i] # "421" /\ Len(got) + i <= call.n =>
            (replies'[i] = "ok" <=> Taken(Len(got) + i))
  BY <1>0, OneMoreReply
<1>3. IF Len(got) < call.n
        THEN /\ Continue(d(got, call.r + 1))
             /\ IF call.op = "BDAT" /\ call.r = 0 THEN completeTransaction ELSE UNCHANGED transaction
        ELSE \/ /\ replies' = <<>>
                /\ Return("nil", got)
                /\ IF call.op = "DATA" \/ call.r = 0 THEN completeTransaction ELSE UNCHANGED transaction
             \/ /\ Return(finalStatusUnknown(TRUE), <<>>)
                /\ poison
  BY Zenon DEF finalRepliesLMTP
<1>4. ASSUME NEW q \in Seq(AllCodes), NEW k \in Nat
      PROVE  /\ d(q, k) \in Calls /\ d(q, k).op = call.op /\ d(q, k).stage = call.stage
             /\ d(q, k).n = call.n /\ d(q, k).got = q /\ d(q, k).r = k /\ d(q, k).utf8 = call.utf8
             /\ d(q, k).last = call.last /\ d(q, k).long = call.long
  BY Zenon, <1>1 DEF Calls
<1> HIDE DEF got, d
<1>5. call.r \in Nat /\ call.r + 1 \in Nat /\ call.n \in Nat /\ Len(verdict) \in Nat /\ Len(got) \in Nat
  BY <1>1, <1>2, LenProperties DEF Calls, ClientInv, Types
<1>6. CASE Len(got) < call.n
  <2>1. call' = d(got, call.r + 1) /\ UNCHANGED <<config, waiting, cancelled, outcome>>
    BY <1>3, <1>6 DEF Continue
  <2>2. /\ call' \in Calls /\ call'.op = call.op /\ call'.stage = "final"
        /\ call'.n = call.n /\ call'.got = got /\ call'.r = call.r + 1 /\ call'.utf8 = call.utf8
        /\ call'.last = call.last /\ call'.long = call.long
    BY <1>1, <1>2, <1>4, <1>5, <2>1
  <2>3. /\ smtpUTF8' \in BOOLEAN /\ binaryMIME' \in BOOLEAN /\ base' = base /\ state' # "closed"
        /\ IF call.op = "BDAT" THEN state' \in Ready /\ recipients' = 0
                               ELSE state' = "transaction" /\ base' \in Ready /\ recipients' = recipients
    <3>1. CASE call.op = "BDAT" /\ call.r = 0
      <4>1. completeTransaction /\ base \in Ready
        BY <1>1, <1>3, <1>6, <3>1
      <4> QED
        BY <3>1, <4>1, Completed
    <3>2. CASE ~(call.op = "BDAT" /\ call.r = 0)
      <4>1. UNCHANGED <<state, base, recipients, smtpUTF8, binaryMIME>>
        BY <1>3, <1>6, <3>2 DEF transaction
      <4>2. call.op = "BDAT" => call.r > 0
        BY <1>5, <3>2
      <4>3. smtpUTF8 \in BOOLEAN /\ binaryMIME \in BOOLEAN
        BY DEF ClientInv, Types
      <4> QED
        BY <1>1, <4>1, <4>2, <4>3 DEF Ready
    <3> QED
      BY <3>1, <3>2
  <2>4. Types'
    <3>1. state' \in Ready \cup {"transaction"} /\ recipients' \in Nat
      BY <2>3 DEF ClientInv, Types
    <3>2. base' = base /\ smtpUTF8' \in BOOLEAN /\ binaryMIME' \in BOOLEAN
      BY <2>3
    <3> QED
      BY <1>1, <2>1, <2>2, <3>1, <3>2 DEF ClientInv, Types
  <2>5. CallInv'
    <3>1. call.long = 0 /\ call.op \in Content
      BY <1>1 DEF ClientInv, CallInv, Content
    <3>2. call'.r > 0 /\ call'.r # 0
      BY <1>5, <2>2
    <3>3. CASE call.op = "BDAT"
      <4>1. state' \in Ready /\ recipients' = 0 /\ state' # "transaction"
        BY <2>3, <3>3 DEF Ready
      <4> QED
        BY <1>1, <2>1, <2>2, <2>3, <3>1, <3>2, <3>3, <4>1 DEF CallInv, Content
    <3>4. CASE call.op = "DATA"
      <4>1. state' = "transaction" /\ base' \in Ready /\ state' \notin Ready
        BY <2>3, <3>4 DEF Ready
      <4> QED
        BY <1>1, <2>1, <2>2, <2>3, <3>1, <3>4, <4>1 DEF CallInv, Content
    <3> QED
      BY <1>1, <3>3, <3>4
  <2>6. WireInv'
    <3>1. call'.r = Len(call'.got) /\ call'.r # 0 /\ sent' = <<>> /\ call'.op # "RCPT"
      BY <1>1, <1>2, <1>5, <2>2
    <3> QED
      BY <2>2, <3>1 DEF WireInv
  <2>7. AgreeInv'
    <3>1. ~Doomed' => peer'.txn \in {"none", "failed"}
      BY <1>1
    <3>2. call'.stage = "final" /\ sent' = <<>> /\ call'.op # "RCPT"
      BY <1>1, <2>2
    <3> QED
      BY <3>1, <3>2 DEF AgreeInv
  <2>8. PeerInv'
    BY <1>1, <2>2, PeerSame
  <2>9. OutcomeInv'
    <3>1. /\ outcome'.status = "running" /\ Ending' /\ sent' = <<>> /\ config'.lmtp /\ Expected' = call.n
          /\ call'.stage = "final" /\ call'.n = call.n /\ verdict' = verdict
      BY <1>0, <1>1, <2>1, <2>2 DEF Ending, Expected
    <3>3. /\ Len(call'.got) < Expected'
          /\ \A i \in 1..Len(call'.got) : call'.got[i] = "ok" <=> Taken(i)
      BY <1>2, <1>6, <2>2, <3>1
    <3>4. \A i \in 1..Len(replies') : replies'[i] # "421" /\ Len(call'.got) + i <= Expected' =>
                (replies'[i] = "ok" <=> Taken(Len(call'.got) + i))
      BY Zenon, <1>2, <2>2, <3>1
    <3>5. LmtpAnswers'
      BY Zenon, <3>1, <3>3, <3>4 DEF LmtpAnswers, Taken
    <3>6. Len(verdict') <= Expected'
      BY <1>1, <3>1
    <3> QED
      BY <3>1, <3>5, <3>6 DEF OutcomeInv
  <2> QED
    BY <2>4, <2>5, <2>6, <2>7, <2>8, <2>9 DEF ClientInv
<1>7. CASE /\ ~(Len(got) < call.n) /\ replies' = <<>> /\ Return("nil", got)
           /\ IF call.op = "DATA" \/ call.r = 0 THEN completeTransaction ELSE UNCHANGED transaction
  <2>1. /\ outcome' = [status |-> "nil", result |-> got] /\ call' = Idle
        /\ UNCHANGED <<config, waiting, cancelled>>
    BY <1>1, <1>7 DEF Return
  <2>2. outcome' \in Outcomes /\ outcome'.status = "nil" /\ outcome'.result = got
    BY <1>2, <2>1 DEF Outcomes
  <2>3. /\ state' \in Ready /\ recipients' = 0 /\ base' = base
        /\ smtpUTF8' \in BOOLEAN /\ binaryMIME' \in BOOLEAN
    <3>1. CASE call.op = "DATA" \/ call.r = 0
      BY <1>1, <1>7, <3>1, Completed
    <3>2. CASE ~(call.op = "DATA" \/ call.r = 0)
      <4>1. UNCHANGED <<state, base, recipients, smtpUTF8, binaryMIME>>
        BY <1>7, <3>2 DEF transaction
      <4>2. call.op = "BDAT" /\ call.r > 0
        BY SMTT(20), <1>1, <1>5, <3>2
      <4>3. smtpUTF8 \in BOOLEAN /\ binaryMIME \in BOOLEAN
        BY DEF ClientInv, Types
      <4> QED
        BY <1>1, <4>1, <4>2, <4>3
    <3> QED
      BY <3>1, <3>2
  <2>4. Types'
    BY <1>1, <2>1, <2>2, <2>3, IdleCall DEF ClientInv, Types
  <2>5. Len(replies) = 1
    <3>1. Len(replies') = 0
      BY <1>7, EmptySeq
    <3> QED
      BY <1>1, <3>1
  <2>6. peer.txn \in {"none", "failed"} /\ sent' = <<>>
    BY <1>1, <2>5
  <2>7. state' # "closed" /\ state' # "transaction"
    BY <2>3 DEF Ready
  <2>8. Settled(0)'
    BY <1>1, <2>6, <2>7 DEF Settled
  <2>9. Known'
    BY <1>1, <1>2, <2>2 DEF Known, Taken
  <2>10. Len(verdict) <= Len(outcome'.result)
    BY <1>1, <1>2, <1>5, <1>7, <2>2
  <2> QED
    BY <1>1, <1>7, <2>1, <2>2, <2>3, <2>4, <2>6, <2>7, <2>8, <2>9, <2>10, TransferReturn
<1>8. CASE Return(finalStatusUnknown(TRUE), <<>>) /\ poison
  <2>1. /\ call' = Idle /\ outcome' \in Outcomes /\ outcome'.status = "unknown" /\ outcome'.result = <<>>
        /\ UNCHANGED <<config, waiting, cancelled>>
    BY <1>1, <1>8 DEF Return, Outcomes, finalStatusUnknown
  <2>2. BreaksOff
    BY <1>1, <2>1 DEF BreaksOff, Content
  <2> QED
    BY SMTT(20), <1>1, <1>8, <2>1, <2>2, BreaksOffClosed
<1> QED
  BY Zenon, <1>3, <1>6, <1>7, <1>8


-----------------------------------------------------------------------------
\* A session that Dial has just set up.
LEMMA InitEstablishes ==
    ASSUME Init
    PROVE  ClientInv
<1>1. /\ config \in [lmtp : BOOLEAN, depth : {1, MaxDepth}, chunking : BOOLEAN] /\ state \in {"greeted", "tls"}
      /\ base = "connected" /\ recipients = 0 /\ smtpUTF8 = FALSE /\ binaryMIME = FALSE
      /\ call = Idle /\ waiting = "none" /\ cancelled = FALSE
      /\ sent = <<>> /\ replies = <<>> /\ peer = Peer /\ verdict = <<>>
      /\ outcome = [status |-> "none", result |-> <<>>]
  BY DEF Init
<1>2. smtpUTF8 \in BOOLEAN /\ binaryMIME \in BOOLEAN /\ cancelled \in BOOLEAN
  BY Zenon, <1>1
<1>3. outcome \in Outcomes /\ outcome.status = "none"
  BY <1>1 DEF Outcomes
<1>4. config \in [lmtp : BOOLEAN, depth : Nat, chunking : BOOLEAN]
  BY <1>1, ClientBounds
<1>5. Types
  <2>1. state \in Ready \cup {"transaction", "closed"} /\ base \in Ready \cup {"connected"} /\ recipients \in Nat
    BY <1>1 DEF Ready
  <2> QED
    BY <1>1, <1>2, <1>3, <1>4, <2>1, IdleCall, PeerValues DEF Types
<1>6. CallInv
  BY <1>1, <1>3, IdleCall DEF CallInv, Content, Ready
<1>7. WireInv
  BY <1>1, IdleCall DEF WireInv
<1>8. AgreeInv
  <2>1. Settled(0)
    BY <1>1, PeerValues DEF Settled
  <2> QED
    BY <1>1, <2>1, IdleCall DEF AgreeInv
<1>9. PeerInv
  BY <1>1, IdleCall, PeerValues DEF PeerInv
<1>10. OutcomeInv
  BY <1>1, <1>3 DEF OutcomeInv, Quiet
<1> QED
  BY <1>5, <1>6, <1>7, <1>8, <1>9, <1>10 DEF ClientInv

\* Every step of the running call keeps the invariant.
LEMMA ClientStepKeeps ==
    ASSUME ClientInv, ClientStep
    PROVE  ClientInv'
<1>1. CASE write
  BY <1>1, WriteKeeps
<1>2. CASE \E stage \in {"read", "final"} : readFailed(stage) \/ read421(stage)
  BY <1>2, ReadFailedKeeps, Read421Keeps
<1>3. CASE readCancelled \/ finalCancelled
  BY <1>3, ReadCancelledKeeps, FinalCancelledKeeps
<1>4. CASE \E code \in Codes : mailReply(code) \/ resetReply(code) \/ noopReply(code) \/ rcptReply(code)
  BY <1>4, MailReplyKeeps, ResetReplyKeeps, NoopReplyKeeps, RcptReplyKeeps
<1>5. CASE \E code \in Codes : burlReply(code) \/ dataReply(code) \/ chunkReply(code)
  BY <1>5, BurlReplyKeeps, DataReplyKeeps, ChunkReplyKeeps
<1>6. CASE \E code \in Codes : finalReply(code) \/ finalRepliesLMTP(code)
  BY <1>6, FinalReplyKeeps, FinalRepliesLMTPKeeps
<1>7. CASE sendContent
  BY <1>7, SendContentKeeps
<1>8. CASE \E last \in BOOLEAN : chunk(last)
  BY <1>8, ChunkKeeps
<1> QED
  BY <1>1, <1>2, <1>3, <1>4, <1>5, <1>6, <1>7, <1>8 DEF ClientStep

\* Every step keeps the invariant when no batch goes wrong half way.
LEMMA NextKeeps ==
    ASSUME Whole, ClientInv, [Next]_vars
    PROVE  ClientInv'
<1>1. CASE ClientStep
  BY <1>1, ClientStepKeeps
<1>2. CASE command \/ Data
  BY <1>2, CommandKeeps, DataKeeps
<1>3. CASE \E binary, utf8 \in BOOLEAN : Mail(binary, utf8)
  BY <1>3, MailKeeps
<1>4. CASE \E n \in 1..MaxRecipients, utf8 \in BOOLEAN :
             \E long \in {0} \cup (LongAt \cap 1..n) : rcptBatch(n, utf8, long)
  BY <1>4, RcptBatchKeeps
<1>5. CASE \E last \in BOOLEAN : BURL(last)
  BY <1>5, BURLKeeps
<1>6. CASE Cancel \/ (\E chunked \in BOOLEAN : transportData(chunked)) \/ UNCHANGED vars
  BY <1>6, AsideKeeps
<1>7. CASE PeerStep
  BY <1>7, PeerAgreesKeeps, PeerRefusesKeeps, PeerDecidesKeeps DEF PeerStep
<1> QED
  BY <1>1, <1>2, <1>3, <1>4, <1>5, <1>6, <1>7 DEF Next, CallStep

\* For any depth, any number of recipients and chunks, and any cancellation
\* outside RCPT batches, ClientInv always holds: the commands and replies under
\* way are those of the running call, and what the client believes of the
\* transaction, and what Data and BURL return, follows from them.
THEOREM ClientInvariance ==
    ASSUME Whole
    PROVE  Spec => []ClientInv
<1>1. Init => ClientInv
  BY InitEstablishes
<1>2. ClientInv /\ [Next]_vars => ClientInv'
  BY NextKeeps
<1> QED
  BY <1>1, <1>2, PTL DEF Spec

\* The contract of ErrFinalStatusUnknown for every value of the constants: what
\* Data and BURL return agrees with what the peer decides, then and later.
THEOREM FinalStatusContractHolds ==
    ASSUME Whole
    PROVE  Spec => []FinalStatusContract
<1>1. ClientInv => FinalStatusContract
  <2>1. SUFFICES ASSUME ClientInv PROVE FinalStatusContract
    OBVIOUS
  <2>2. /\ DOMAIN outcome.result = 1..Len(outcome.result) /\ DOMAIN verdict = 1..Len(verdict)
        /\ Len(verdict) \in Nat /\ Len(outcome.result) \in Nat
    BY LenProperties DEF ClientInv, Types, Outcomes
  <2>3. Known => \A i \in DOMAIN outcome.result : outcome.result[i] = "ok" <=> i \in DOMAIN verdict /\ verdict[i] = "ok"
    BY <2>2 DEF Known, Taken
  <2>4. Len(verdict) <= Len(outcome.result) => DOMAIN verdict \subseteq DOMAIN outcome.result
    BY <2>2
  <2>5. NoneTaken => "ok" \notin Range(verdict)
    BY <2>2 DEF NoneTaken, Range
  <2>6. outcome.result = <<>> => \A i \in DOMAIN outcome.result : outcome.result[i] = "ok" <=> i \in DOMAIN verdict /\ verdict[i] = "ok"
    OBVIOUS
  <2> QED
    BY <2>1, <2>3, <2>4, <2>5, <2>6 DEF ClientInv, OutcomeInv, FinalStatusContract
<1> QED
  BY <1>1, ClientInvariance, PTL

\* executeLocked reads every reply of what it wrote, or closes, whatever the
\* depth and the length of the batch.
THEOREM NothingOwedHolds ==
    ASSUME Whole
    PROVE  Spec => []NothingOwed
<1>1. ClientInv => NothingOwed
  BY IdleCall DEF ClientInv, WireInv, NothingOwed, InStep
<1> QED
  BY <1>1, ClientInvariance, PTL

\* The client's transaction and the peer's agree between any two calls, and no
\* UTF-8 forward-path reaches a peer that was not asked for SMTPUTF8.
THEOREM TransactionsAgreeHolds ==
    ASSUME Whole
    PROVE  Spec => []TransactionsAgree
<1>1. ClientInv => TransactionsAgree
  <2>1. SUFFICES ASSUME ClientInv PROVE TransactionsAgree
    OBVIOUS
  <2>2. "utf8" \notin peer.breach
    BY <2>1 DEF ClientInv, PeerInv
  <2>3. ASSUME MayCall, state # "closed", peer.txn # "failed"
        PROVE  /\ state = "transaction" <=> peer.txn = "open"
               /\ state = "transaction" => recipients = peer.rcpts
    <3>1. Settled(0)
      BY <2>1, <2>3, IdleCall DEF ClientInv, AgreeInv, Followed, MayCall
    <3>2. recipients \in Nat
      BY <2>1 DEF ClientInv, Types
    <3> QED
      BY <2>3, <3>1, <3>2 DEF Settled
  <2> QED
    BY <2>2, <2>3 DEF TransactionsAgree
<1> QED
  BY <1>1, ClientInvariance, PTL

=============================================================================
