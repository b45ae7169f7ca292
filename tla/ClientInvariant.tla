--------------------------- MODULE ClientInvariant --------------------------
(***************************************************************************)
(* The invariant of a client session (ClientInv), from which ClientProofs  *)
(* derives what Data and BURL promise, and the proofs that starting a call *)
(* and writing a command preserve it.                                      *)
(***************************************************************************)
EXTENDS ClientSession, FiniteSetTheorems, SequenceTheorems, TLAPS

AllCodes == {"ok", "no", "go", "421"}
Stages == {"idle", "write", "read", "content", "chunk", "final"}
Content == {"DATA", "BDAT", "BURL"}
Messages == [verb : Operations \cup {"."}, last : BOOLEAN, binary : BOOLEAN, utf8 : BOOLEAN]
Calls == [op : Operations \cup {"none"}, stage : Stages, n : Nat, w : Nat, r : Nat, got : Seq(AllCodes),
          utf8 : BOOLEAN, binary : BOOLEAN, last : BOOLEAN, long : Nat]
PeerStates == [txn : {"none", "open", "content", "failed"}, binary : BOOLEAN, utf8 : BOOLEAN, rcpts : Nat,
          chunks : BOOLEAN, leftover : BOOLEAN, gone : BOOLEAN, breach : SUBSET {"utf8", "binary", "spliced"}]
Outcomes == [status : {"none", "running", "nil", "partial", "unknown", "failed"}, result : Seq(AllCodes)]

\* The types, without the bounds of an instance.
Types ==
    /\ config \in [lmtp : BOOLEAN, depth : Nat, chunking : BOOLEAN]
    /\ state \in Ready \cup {"transaction", "closed"} /\ base \in Ready \cup {"connected"}
    /\ recipients \in Nat /\ smtpUTF8 \in BOOLEAN /\ binaryMIME \in BOOLEAN /\ cancelled \in BOOLEAN
    /\ waiting \in {"none", "DATA", "BDAT"}
    /\ call \in Calls /\ outcome \in Outcomes /\ peer \in PeerStates
    /\ sent \in Seq(Messages) /\ replies \in Seq(AllCodes) /\ verdict \in Seq({"ok", "no"})

\* The messages that make the peer decide, and a network without any.
Completing(m) == m.verb = "." \/ (m.verb \in {"BDAT", "BURL"} /\ m.last)
Quiet == \A i \in 1..Len(sent) : ~Completing(sent[i])

\* The peer's decision on the i-th recipient of the message.
Taken(i) == i \in DOMAIN verdict /\ verdict[i] = "ok"
NoneTaken == \A i \in 1..Len(verdict) : verdict[i] # "ok"

\* A reply under way makes the client close.
Doomed == \E i \in 1..Len(replies) : replies[i] = "421"

\* The running call has written the message that completes the transaction.
Ending == call.stage = "final" \/ (call.op = "BURL" /\ call.last /\ call.stage = "read")

\* The running call and the state of the session it has checked.
CallInv ==
    /\ call.stage = "idle" => call = Idle
    /\ call.op = "none" => call.stage = "idle"
    /\ call.stage # "idle" => state # "closed" /\ call.op # "none"
    /\ call.op \in Content <=> outcome.status = "running"
    /\ call.stage = "content" => call.op = "DATA"
    /\ call.stage = "chunk" => call.op = "BDAT"
    /\ call.stage = "write" => call.op # "BDAT"
    /\ call.stage = "final" => call.op \in {"DATA", "BDAT"}
    /\ call.op = "BURL" => ~config.lmtp
    /\ call.op \in {"BDAT", "BURL"} /\ call.stage # "final" => recipients > 0
    /\ call.op = "MAIL" => state \in Ready
    /\ call.op \in {"RCPT", "DATA", "BURL"} => state = "transaction"
    /\ call.op = "BDAT" /\ (call.stage # "final" \/ call.r = 0) => state = "transaction"
    /\ call.op = "BDAT" /\ call.stage = "final" /\ call.r > 0 => state \in Ready
    /\ call.op = "BDAT" /\ call.stage \in {"chunk", "read"} => ~call.last
    /\ call.op = "RCPT" => call.long \in {0, 1}
    /\ call.op = "RCPT" => ~cancelled
    /\ call.op # "RCPT" => call.long = 0
    /\ state \in Ready => recipients = 0
    /\ state = "transaction" => base \in Ready

\* What is under way belongs to the running call: every command it has written
\* is still sent, or its reply is under way, or has been read.
WireInv ==
    /\ call.stage = "idle" /\ ~cancelled /\ state # "closed" => sent = <<>> /\ replies = <<>>
    /\ call.stage \in {"content", "chunk"} => sent = <<>> /\ replies = <<>>
    /\ call.stage = "write" => call.r <= call.w /\ call.w < call.n /\ call.w = call.r + Len(sent) + Len(replies)
    /\ call.stage = "read" /\ call.op # "BDAT" =>
          call.r < call.w /\ call.w <= call.n /\ call.w = call.r + Len(sent) + Len(replies)
    /\ call.stage = "read" /\ call.op = "BDAT" => Len(sent) + Len(replies) = 1
    /\ call.stage \in {"write", "read"} =>
          \A i \in 1..Len(sent) : sent[i].verb = call.op /\ sent[i].last = call.last /\ sent[i].utf8 = call.utf8
    /\ call.stage \in {"write", "read"} /\ call.op \notin {"RCPT", "BDAT"} => call.n = 1 /\ call.r = 0
    /\ call.op = "RCPT" => Len(call.got) = call.r
    /\ call.stage = "final" => call.r = Len(call.got)
    /\ call.stage = "final" /\ sent # <<>> => Len(sent) = 1 /\ replies = <<>>
    /\ call.stage = "final" /\ sent = <<>> /\ call.r = 0 => replies # <<>>
    /\ call.stage = "final" /\ sent # <<>> =>
          sent[1].last /\ sent[1].verb = IF call.op = "DATA" THEN "." ELSE "BDAT"

\* The peer's transaction is the client's, with new recipients the client does
\* not know of yet.
Settled(new) ==
    /\ peer.txn # "content"
    /\ peer.txn # "failed" => (state = "transaction" <=> peer.txn = "open")
    /\ peer.txn = "open" => peer.rcpts = recipients + new /\ (smtpUTF8 => peer.utf8)

\* The peer's transaction when the reply c to the running call's command is under way.
Answer(c) ==
    /\ call.op \in {"NOOP", "BDAT"} => Settled(0)
    /\ call.op = "RSET" => IF c = "ok" THEN peer.txn = "none" ELSE Settled(0)
    /\ call.op = "MAIL" =>
          IF c = "ok" THEN peer.txn = "open" /\ peer.rcpts = 0 /\ peer.utf8 = call.utf8 ELSE Settled(0)
    /\ call.op = "DATA" =>
          IF c = "go" THEN peer.txn = "content" /\ peer.rcpts = recipients /\ recipients > 0 ELSE Settled(0)
    /\ call.op = "BURL" => IF call.last THEN peer.txn \in {"none", "failed"} ELSE Settled(0)

\* Open, and no command of an earlier call is unanswered.
Followed == state # "closed" /\ (call.stage = "idle" => sent = <<>> /\ replies = <<>>)

\* At every stage of a call, what the client believes of the peer's transaction
\* together with the replies under way is the peer's transaction.
AgreeInv ==
    Followed =>
       /\ call.stage \in {"idle", "write", "chunk"} /\ call.op # "RCPT" => Settled(0)
       /\ call.op = "RCPT" /\ ~Doomed => Settled(accepted(call.got) + accepted(replies))
       /\ call.stage = "read" /\ call.op # "RCPT" /\ sent # <<>> => Settled(0)
       /\ call.stage = "read" /\ call.op # "RCPT" /\ sent = <<>> /\ ~Doomed => Answer(replies[1])
       /\ call.stage = "content" => peer.txn = "content" /\ peer.rcpts = recipients /\ recipients > 0
       /\ call.stage = "final" /\ sent # <<>> =>
             /\ call.n = recipients /\ recipients > 0 /\ call.r = 0
             /\ IF call.op = "DATA" THEN peer.txn = "content" /\ peer.rcpts = recipients ELSE Settled(0)
       /\ call.stage = "final" /\ sent = <<>> /\ ~Doomed => peer.txn \in {"none", "failed"}

\* UTF-8 forward-paths go only to a transaction opened with SMTPUTF8.
PeerInv ==
    /\ call.op = "RCPT" /\ call.utf8 /\ peer.txn = "open" => peer.utf8
    /\ \A i \in 1..Len(sent) : sent[i].verb = "RCPT" =>
          /\ \A j \in 1..Len(sent) : sent[j].verb = "RCPT"
          /\ sent[i].utf8 /\ peer.txn = "open" => peer.utf8
    /\ "utf8" \notin peer.breach
    /\ peer.txn = "content" => peer.rcpts > 0

\* The results returned are the peer's decisions; the recipients a transfer has.
Known == \A i \in 1..Len(outcome.result) : outcome.result[i] = "ok" <=> Taken(i)
Expected == IF call.op = "BURL" THEN recipients ELSE call.n

\* The one reply of SMTP tells the decision on the message.
SmtpAnswer ==
    /\ Len(replies) = 1 /\ call.got = <<>>
    /\ IF replies[1] = "ok" THEN Len(verdict) = Expected /\ \A i \in 1..Expected : verdict[i] = "ok"
                            ELSE NoneTaken

\* Each reply of LMTP, read or under way, tells the decision on its recipient.
LmtpAnswers ==
    /\ Len(call.got) < Expected
    /\ \A i \in 1..Len(call.got) : call.got[i] = "ok" <=> Taken(i)
    /\ \A i \in 1..Len(replies) : replies[i] # "421" /\ Len(call.got) + i <= Expected =>
          (replies[i] = "ok" <=> Taken(Len(call.got) + i))

\* What the last transfer returned, or the running one can still return.
OutcomeInv ==
    /\ outcome.status \in {"none", "nil", "failed", "partial"} => Quiet
    /\ outcome.status = "nil" => Known /\ Len(verdict) <= Len(outcome.result)
    /\ outcome.status = "unknown" => outcome.result = <<>> \/ (Quiet /\ Known)
    /\ outcome.status \in {"failed", "partial"} => NoneTaken
    /\ outcome.status = "running" =>
         /\ ~Ending => Quiet /\ verdict = <<>>
         /\ call.op \in Content => (call.got # <<>> => call.stage = "final")
         /\ Ending /\ sent # <<>> => verdict = <<>> /\ call.got = <<>>
         /\ Ending /\ sent = <<>> =>
              /\ Len(verdict) <= Expected
              /\ IF config.lmtp THEN LmtpAnswers ELSE SmtpAnswer

\* No batch of recipients goes wrong half way: it is not cancelled, and only its
\* first command can be too long to write.
Whole == "RCPT" \notin CancelOps /\ LongAt \subseteq {1}

ClientInv == Types /\ CallInv /\ WireInv /\ AgreeInv /\ PeerInv /\ OutcomeInv

-----------------------------------------------------------------------------
\* The number of accepted recipients is a number.
LEMMA AcceptedType ==
    ASSUME NEW s \in Seq(AllCodes)
    PROVE  accepted(s) \in Nat /\ IsFiniteSet({i \in DOMAIN s : s[i] = "ok"})
<1>1. DOMAIN s = 1..Len(s) /\ Len(s) \in Nat
  BY LenProperties
<1>2. IsFiniteSet(DOMAIN s)
  BY <1>1, FS_Interval
<1> QED
  BY <1>2, FS_Subset, FS_CardinalityType DEF accepted

\* No reply, no recipient accepted.
LEMMA AcceptedNone == accepted(<<>>) = 0
<1>1. {i \in DOMAIN <<>> : <<>>[i] = "ok"} = {}
  OBVIOUS
<1> QED
  BY <1>1, FS_EmptySet DEF accepted

\* rcptBatch counts one recipient for each reply that accepts.
LEMMA AcceptedAppend ==
    ASSUME NEW s \in Seq(AllCodes), NEW c \in AllCodes
    PROVE  accepted(Append(s, c)) = accepted(s) + (IF c = "ok" THEN 1 ELSE 0)
<1> DEFINE A == {i \in DOMAIN s : s[i] = "ok"}
           B == {i \in DOMAIN Append(s, c) : Append(s, c)[i] = "ok"}
<1>1. DOMAIN s = 1..Len(s) /\ Len(s) \in Nat /\ DOMAIN Append(s, c) = 1..(Len(s) + 1)
  BY LenProperties, AppendProperties
<1>2. \A i \in 1..Len(s) : Append(s, c)[i] = s[i]
  BY AppendProperties
<1>3. Append(s, c)[Len(s) + 1] = c
  BY AppendProperties
<1>4. Len(s) + 1 \notin A
  BY <1>1
<1>6. IsFiniteSet(A) /\ Cardinality(A) \in Nat
  BY AcceptedType, FS_CardinalityType
<1>5. B = IF c = "ok" THEN A \cup {Len(s) + 1} ELSE A
  BY <1>1, <1>2, <1>3
<1>7. Cardinality(A \cup {Len(s) + 1}) = Cardinality(A) + 1
  BY Zenon, <1>4, <1>6, FS_AddElement
<1>8. accepted(s) = Cardinality(A) /\ accepted(Append(s, c)) = Cardinality(B)
  BY DEF accepted
<1> HIDE DEF A, B
<1> QED
  BY <1>5, <1>6, <1>7, <1>8

\* A reply that is read leaves the replies behind it.
LEMMA AcceptedTail ==
    ASSUME NEW s \in Seq(AllCodes), s # <<>>
    PROVE  accepted(s) = accepted(Tail(s)) + (IF Head(s) = "ok" THEN 1 ELSE 0)
<1> DEFINE A == {i \in DOMAIN s : s[i] = "ok"}
           B == {i \in DOMAIN Tail(s) : Tail(s)[i] = "ok"}
           f == [i \in B |-> i + 1]
<1>1. /\ DOMAIN s = 1..Len(s) /\ Len(s) \in Nat \ {0} /\ Tail(s) \in Seq(AllCodes)
      /\ DOMAIN Tail(s) = 1..(Len(s) - 1) /\ \A i \in 1..(Len(s) - 1) : Tail(s)[i] = s[i + 1]
      /\ Head(s) = s[1]
  BY LenProperties, HeadTailProperties, EmptySeq
<1>2. IsFiniteSet(A) /\ IsFiniteSet(B)
  BY Zenon, <1>1, AcceptedType
<1>3. f \in Bijection(B, A \ {1})
  <2>1. f \in [B -> A \ {1}]
    BY <1>1
  <2>2. \A i, j \in B : f[i] = f[j] => i = j
    BY <1>1
  <2>3. \A k \in A \ {1} : k - 1 \in B /\ f[k - 1] = k
    BY <1>1
  <2> QED
    BY Zenon, <2>1, <2>2, <2>3 DEF Bijection, Injection, Surjection, IsInjective
<1>4. Cardinality(A \ {1}) = Cardinality(B)
  BY Zenon, <1>2, <1>3, FS_Bijection DEF ExistsBijection
<1>5. Cardinality(A \ {1}) = IF 1 \in A THEN Cardinality(A) - 1 ELSE Cardinality(A)
  BY Zenon, <1>2, FS_RemoveElement
<1>6. 1 \in A <=> Head(s) = "ok"
  BY <1>1
<1>7. Cardinality(A) \in Nat /\ accepted(s) = Cardinality(A) /\ accepted(Tail(s)) = Cardinality(B)
  BY <1>2, FS_CardinalityType DEF accepted
<1> HIDE DEF A, B
<1> QED
  BY <1>4, <1>5, <1>6, <1>7

-----------------------------------------------------------------------------
\* The fields of the idle call.
LEMMA IdleCall ==
    /\ Idle \in Calls /\ Idle.op = "none" /\ Idle.stage = "idle" /\ Idle.got = <<>>
    /\ Idle.long = 0 /\ Idle.n = 0 /\ Idle.w = 0 /\ Idle.r = 0
    /\ Idle.last = FALSE /\ Idle.utf8 = FALSE /\ Idle.binary = FALSE
BY DEF Idle, Calls, Stages

\* The fields of a call that has just begun.
LEMMA GroupCall ==
    ASSUME NEW op \in Operations, NEW n \in Nat
    PROVE  /\ Group(op, n) \in Calls /\ Group(op, n).op = op /\ Group(op, n).stage = "write"
           /\ Group(op, n).n = n /\ Group(op, n).w = 0 /\ Group(op, n).r = 0
           /\ Group(op, n).got = <<>> /\ Group(op, n).long = 0
           /\ Group(op, n).last = FALSE /\ Group(op, n).utf8 = FALSE /\ Group(op, n).binary = FALSE
BY Zenon, IdleCall DEF Group, Calls, Stages

\* Reading takes the oldest reply and changes nothing else on the network.
LEMMA ReadTypes ==
    ASSUME Types, NEW stage, read(stage)
    PROVE  /\ replies' \in Seq(AllCodes) /\ sent' = sent /\ peer' = peer /\ verdict' = verdict
           /\ Head(replies) = replies[1] /\ replies[1] \in AllCodes
           /\ Len(replies) \in Nat \ {0} /\ Len(replies') = Len(replies) - 1
           /\ \A i \in 1..Len(replies') : replies'[i] = replies[i + 1]
           /\ call.stage = stage /\ ~cancelled
           /\ Len(replies) = 1 => replies' = <<>>
           /\ accepted(replies) = accepted(replies') + (IF replies[1] = "ok" THEN 1 ELSE 0)
<1>1. replies \in Seq(AllCodes) /\ replies # <<>> /\ replies' = Tail(replies)
  BY DEF read, Types
<1>2. /\ Tail(replies) \in Seq(AllCodes) /\ Len(replies) \in Nat \ {0}
      /\ Len(Tail(replies)) = Len(replies) - 1
      /\ \A i \in 1..(Len(replies) - 1) : Tail(replies)[i] = replies[i + 1]
      /\ Head(replies) = replies[1] /\ replies[1] \in AllCodes
  BY <1>1, HeadTailProperties, LenProperties, EmptySeq, ElementOfSeq
<1>3. Len(replies) = 1 => Tail(replies) = <<>>
  BY <1>1, <1>2, EmptySeq
<1> QED
  BY <1>1, <1>2, <1>3, AcceptedTail DEF read

\* Writing puts a message behind those already sent.
LEMMA SendTypes ==
    ASSUME Types, NEW m \in Messages
    PROVE  /\ Append(sent, m) \in Seq(Messages) /\ Len(Append(sent, m)) = Len(sent) + 1
           /\ Append(sent, m) # <<>> /\ Append(sent, m)[Len(sent) + 1] = m
           /\ \A i \in 1..Len(sent) : Append(sent, m)[i] = sent[i]
           /\ sent = <<>> => Len(Append(sent, m)) = 1 /\ Append(sent, m)[1] = m
BY AppendProperties, EmptySeq DEF Types

\* What the running call writes.
LEMMA MessageType ==
    ASSUME Types, NEW verb \in Operations \cup {"."}, NEW last \in BOOLEAN
    PROVE  /\ Message(verb, last) \in Messages /\ Message(verb, last).verb = verb
           /\ Message(verb, last).last = last /\ Message(verb, last).utf8 = call.utf8
BY DEF Message, Messages, Types, Calls

-----------------------------------------------------------------------------
\* A call that closes the connection: nothing is asked of it afterwards.
LEMMA ClosedStep ==
    ASSUME call' = Idle, state' = "closed", outcome'.status # "running"
    PROVE  CallInv' /\ WireInv' /\ AgreeInv'
BY IdleCall DEF CallInv, WireInv, AgreeInv, Followed, Content, Ready

\* A call that returns with the session in step and the peer agreeing.
LEMMA ReturnStep ==
    ASSUME call' = Idle, state' # "closed", outcome'.status # "running",
           sent' = <<>>, replies' = <<>>, Settled(0)',
           state' \in Ready => recipients' = 0, state' = "transaction" => base' \in Ready
    PROVE  CallInv' /\ WireInv' /\ AgreeInv'
BY IdleCall DEF CallInv, WireInv, AgreeInv, Content, Ready

\* A step that touches neither the outcome nor the decisions keeps what they say.
LEMMA OutcomeKept ==
    ASSUME ClientInv, outcome' = outcome, verdict' = verdict, Quiet => Quiet',
           outcome.status # "running"
    PROVE  OutcomeInv'
BY DEF ClientInv, OutcomeInv, Known, Taken, NoneTaken

\* A call begins: its checks hold and nothing has been written.
LEMMA StartStep ==
    ASSUME ClientInv, Types', MayCall, state # "closed",
           UNCHANGED <<config, state, base, recipients, smtpUTF8, sent, replies, peer>>,
           cancelled' = FALSE,
           call'.op \in Operations \ {"BDAT"}, call'.stage = "write", call'.n > 0, call'.w = 0, call'.r = 0,
           call'.got = <<>>, call'.op # "RCPT" => call'.n = 1 /\ call'.long = 0,
           call'.op = "RCPT" => call'.long \in {0, 1} /\ (call'.utf8 => smtpUTF8),
           call'.op = "MAIL" => state \in Ready,
           call'.op \in {"RCPT", "DATA", "BURL"} => state = "transaction",
           call'.op = "BURL" => ~config.lmtp /\ recipients > 0,
           call'.op \in Content => outcome'.status = "running" /\ verdict' = <<>>,
           call'.op \notin Content => UNCHANGED <<outcome, verdict>>
    PROVE  ClientInv'
<1>0. call = Idle /\ sent = <<>> /\ replies = <<>> /\ Settled(0) /\ Len(sent) = 0 /\ Len(replies) = 0
  BY IdleCall DEF ClientInv, MayCall, AgreeInv, Followed
<1>1. CallInv'
  BY <1>0, IdleCall DEF ClientInv, CallInv, Content, Operations, Ready
<1>2. WireInv'
  BY <1>0 DEF ClientInv, WireInv, Types, Calls
<1>3. AgreeInv'
  <2>1. accepted(<<>>) = 0
    BY AcceptedNone
  <2>2. Settled(0)'
    BY <1>0 DEF Settled
  <2>3. Settled(accepted(call.got) + accepted(replies))'
    BY <1>0, <2>1, <2>2 DEF Settled
  <2> QED
    BY <2>2, <2>3 DEF AgreeInv
<1>4. PeerInv'
  BY <1>0 DEF ClientInv, PeerInv, Settled
<1>5. OutcomeInv'
  <2>1. outcome.status # "running"
    BY <1>0, IdleCall DEF ClientInv, CallInv, Content
  <2>2. Quiet /\ Quiet'
    BY <1>0 DEF Quiet
  <2>3. CASE call'.op \notin Content
    BY <2>1, <2>2, <2>3, OutcomeKept
  <2>4. CASE call'.op \in Content
    BY <2>2, <2>4 DEF OutcomeInv, Ending
  <2> QED
    BY <2>3, <2>4
<1> QED
  BY <1>1, <1>2, <1>3, <1>4, <1>5 DEF ClientInv

\* NOOP, RSET and QUIT begin.
LEMMA CommandKeeps ==
    ASSUME ClientInv, command
    PROVE  ClientInv'
<1>1. PICK verb \in {"NOOP", "RSET", "QUIT"} : Start(Group(verb, 1))
  BY DEF command
<1>a. verb \in Operations /\ 1 \in Nat /\ call' = Group(verb, 1)
  BY <1>1 DEF Start, Operations
<1>2. /\ call' \in Calls /\ call'.op = verb /\ call'.stage = "write" /\ call'.n = 1 /\ call'.w = 0
      /\ call'.r = 0 /\ call'.got = <<>> /\ call'.long = 0
  BY Zenon, <1>a, GroupCall
<1>3. /\ UNCHANGED <<config, transaction, waiting, outcome, network>> /\ cancelled' = FALSE
      /\ MayCall /\ state # "closed"
  BY <1>1 DEF command, Start
<1>4. Types'
  BY Zenon, <1>2, <1>3 DEF ClientInv, Types, transaction, network
<1>5. /\ UNCHANGED <<config, state, base, recipients, smtpUTF8, sent, replies, peer>>
      /\ UNCHANGED <<outcome, verdict>>
  BY <1>3 DEF transaction, network
<1>6. /\ call'.op \in Operations \ {"BDAT"} /\ call'.op # "RCPT" /\ call'.op # "MAIL"
      /\ call'.op \notin {"RCPT", "DATA", "BURL"} /\ call'.op # "BURL" /\ call'.op \notin Content
      /\ call'.n > 0
  BY <1>1, <1>2 DEF Operations, Content
<1> QED
  BY Zenon, <1>2, <1>3, <1>4, <1>5, <1>6, StartStep

\* A call that ends at its checks.
LEMMA RefusedKeeps ==
    ASSUME ClientInv, Types', MayCall, call' = Idle, cancelled' = FALSE,
           UNCHANGED <<config, state, base, recipients, smtpUTF8, outcome, network>>
    PROVE  ClientInv'
<1>0. call = Idle /\ call' = call /\ sent = <<>> /\ replies = <<>>
  BY DEF MayCall
<1>1. CallInv'
  BY <1>0, IdleCall DEF ClientInv, CallInv, Content
<1>2. WireInv' /\ PeerInv'
  BY <1>0, IdleCall DEF ClientInv, WireInv, PeerInv, network
<1>3. AgreeInv'
  BY <1>0, IdleCall DEF ClientInv, AgreeInv, Followed, Settled, network
<1>4. outcome.status # "running"
  BY <1>0, IdleCall DEF ClientInv, CallInv, Content
<1>5. OutcomeInv'
  BY <1>4, OutcomeKept DEF network, Quiet
<1> QED
  BY <1>1, <1>2, <1>3, <1>5 DEF ClientInv

\* Mail begins, or ends at its checks with the body type recorded.
LEMMA MailKeeps ==
    ASSUME ClientInv, NEW binary \in BOOLEAN, NEW utf8 \in BOOLEAN, Mail(binary, utf8)
    PROVE  ClientInv'
<1> DEFINE encoded == binary => config.chunking
           go == encoded /\ state \in Ready
           g == Group("MAIL", 1)
           mail == [g EXCEPT !.binary = binary, !.utf8 = utf8]
<1>0. /\ MayCall /\ cancelled' = FALSE /\ call' = (IF go THEN mail ELSE Idle)
      /\ UNCHANGED <<config, state, base, recipients, smtpUTF8, waiting, outcome, network>>
      /\ binaryMIME' = (binary /\ encoded)
  BY DEF Mail, Start
<1>a. "MAIL" \in Operations /\ 1 \in Nat
  BY DEF Operations
<1>b. /\ g \in Calls /\ g.op = "MAIL" /\ g.stage = "write" /\ g.n = 1 /\ g.w = 0 /\ g.r = 0
      /\ g.got = <<>> /\ g.long = 0
  BY Zenon, <1>a, GroupCall
<1> HIDE DEF g
<1>1. /\ mail \in Calls /\ mail.op = "MAIL" /\ mail.stage = "write" /\ mail.n = 1 /\ mail.w = 0
      /\ mail.r = 0 /\ mail.got = <<>> /\ mail.long = 0
  BY Zenon, <1>b DEF Calls
<1>2. call' \in Calls
  BY <1>0, <1>1, IdleCall
<1>3. binaryMIME' \in BOOLEAN
  BY <1>0
<1>4. Types'
  BY Zenon, <1>0, <1>2, <1>3 DEF ClientInv, Types, network
<1>5. CASE go
  <2>1. /\ UNCHANGED <<config, state, base, recipients, smtpUTF8, sent, replies, peer>>
        /\ UNCHANGED <<outcome, verdict>>
    BY <1>0 DEF network
  <2>2. call' = mail /\ state \in Ready /\ state # "closed"
    BY <1>0, <1>5 DEF Ready
  <2>3. /\ call'.op \in Operations \ {"BDAT"} /\ call'.op # "RCPT" /\ call'.n = 1
        /\ call'.op \notin {"RCPT", "DATA", "BURL"} /\ call'.op # "BURL" /\ call'.op \notin Content
        /\ call'.n > 0
    BY <1>1, <2>2 DEF Operations, Content
  <2>4. call'.stage = "write" /\ call'.w = 0 /\ call'.r = 0 /\ call'.got = <<>> /\ call'.long = 0
    BY <1>1, <2>2
  <2> QED
    BY Zenon, <1>0, <1>4, <2>1, <2>2, <2>3, <2>4, StartStep
<1>6. CASE ~go
  <2>1. call' = Idle /\ UNCHANGED <<config, state, base, recipients, smtpUTF8, outcome, network>>
    BY <1>0, <1>6
  <2> QED
    BY Zenon, <1>0, <1>4, <2>1, RefusedKeeps
<1> QED
  BY <1>5, <1>6

\* A batch of recipients begins.
LEMMA RcptBatchKeeps ==
    ASSUME ClientInv, Whole, NEW n \in 1..MaxRecipients, NEW utf8 \in BOOLEAN,
           NEW long \in {0} \cup (LongAt \cap 1..n), rcptBatch(n, utf8, long)
    PROVE  ClientInv'
<1> DEFINE g == Group("RCPT", n)
           rcpt == [g EXCEPT !.utf8 = utf8, !.long = long]
<1>0. /\ MayCall /\ cancelled' = FALSE /\ call' = rcpt /\ state = "transaction"
      /\ UNCHANGED <<config, transaction, waiting, outcome, network>>
      /\ utf8 => smtpUTF8
  BY DEF rcptBatch, Start
<1>1. long \in {0, 1} /\ long \in Nat /\ n \in Nat /\ n > 0
  BY ClientBounds DEF Whole
<1>a. "RCPT" \in Operations
  BY DEF Operations
<1>b. /\ g \in Calls /\ g.op = "RCPT" /\ g.stage = "write" /\ g.n = n /\ g.w = 0 /\ g.r = 0
      /\ g.got = <<>>
  BY Zenon, <1>1, <1>a, GroupCall
<1> HIDE DEF g
<1>2. /\ rcpt \in Calls /\ rcpt.op = "RCPT" /\ rcpt.stage = "write" /\ rcpt.n = n /\ rcpt.w = 0
      /\ rcpt.r = 0 /\ rcpt.got = <<>> /\ rcpt.long = long /\ rcpt.utf8 = utf8
  BY Zenon, <1>1, <1>b DEF Calls
<1>3. Types'
  BY Zenon, <1>0, <1>2 DEF ClientInv, Types, network, transaction
<1>4. /\ UNCHANGED <<config, state, base, recipients, smtpUTF8, sent, replies, peer>>
      /\ UNCHANGED <<outcome, verdict>>
  BY <1>0 DEF network, transaction
<1>5. /\ call'.op \in Operations \ {"BDAT"} /\ call'.op # "MAIL" /\ call'.op = "RCPT"
      /\ call'.op # "BURL" /\ call'.op \notin Content /\ call'.n > 0 /\ call'.w = 0 /\ call'.r = 0
      /\ call'.stage = "write" /\ call'.got = <<>> /\ call'.long \in {0, 1} /\ (call'.utf8 => smtpUTF8)
  BY <1>0, <1>1, <1>2 DEF Operations, Content
<1> QED
  BY Zenon, <1>0, <1>3, <1>4, <1>5, StartStep

\* BURL begins.
LEMMA BURLKeeps ==
    ASSUME ClientInv, NEW last \in BOOLEAN, BURL(last)
    PROVE  ClientInv'
<1> DEFINE g == Group("BURL", 1)
           burl == [g EXCEPT !.last = last]
<1>0. /\ MayCall /\ cancelled' = FALSE /\ call' = burl /\ state = "transaction" /\ ~config.lmtp
      /\ recipients > 0 /\ verdict' = <<>> /\ outcome' = [status |-> "running", result |-> <<>>]
      /\ UNCHANGED <<config, transaction, waiting, sent, replies, peer>>
  BY DEF BURL
<1>a. "BURL" \in Operations /\ 1 \in Nat
  BY DEF Operations
<1>b. /\ g \in Calls /\ g.op = "BURL" /\ g.stage = "write" /\ g.n = 1 /\ g.w = 0 /\ g.r = 0
      /\ g.got = <<>> /\ g.long = 0
  BY Zenon, <1>a, GroupCall
<1> HIDE DEF g
<1>2. /\ burl \in Calls /\ burl.op = "BURL" /\ burl.stage = "write" /\ burl.n = 1 /\ burl.w = 0
      /\ burl.r = 0 /\ burl.got = <<>> /\ burl.long = 0
  BY <1>b DEF Calls
<1>3. outcome' \in Outcomes /\ outcome'.status = "running" /\ verdict' \in Seq({"ok", "no"})
  BY <1>0 DEF Outcomes
<1>4. Types'
  BY Zenon, <1>0, <1>2, <1>3 DEF ClientInv, Types, transaction
<1>5. UNCHANGED <<config, state, base, recipients, smtpUTF8, sent, replies, peer>>
  BY <1>0 DEF transaction
<1>6. /\ call'.op \in Operations \ {"BDAT"} /\ call'.op # "RCPT" /\ call'.op # "MAIL"
      /\ call'.op \in Content /\ call'.n = 1 /\ call'.n > 0 /\ call'.w = 0 /\ call'.r = 0
      /\ call'.stage = "write" /\ call'.got = <<>> /\ call'.long = 0
  BY <1>0, <1>2 DEF Operations, Content
<1> QED
  BY Zenon, <1>0, <1>3, <1>4, <1>5, <1>6, StartStep

\* Data takes opMu and begins a transfer, or ends at its checks.
LEMMA DataKeeps ==
    ASSUME ClientInv, Data
    PROVE  ClientInv'
<1> DEFINE may == state = "transaction" /\ (recipients > 0 \/ (config.lmtp /\ waiting = "DATA"))
           g == Group("BDAT", 0)
           bdat == [g EXCEPT !.stage = "chunk"]
<1>0. /\ MayCall /\ cancelled' = FALSE /\ waiting' = "none" /\ waiting \in {"DATA", "BDAT"}
      /\ UNCHANGED <<config, transaction, sent, replies, peer>>
      /\ call = Idle /\ sent = <<>> /\ replies = <<>>
  BY DEF Data, ClientInv, Types, MayCall
<1>1. CASE ~may
  <2>1. UNCHANGED <<call, outcome, verdict>>
    BY <1>1 DEF Data
  <2>2. Types'
    BY Zenon, <1>0, <2>1 DEF ClientInv, Types, transaction
  <2>3. call' = Idle /\ UNCHANGED <<config, state, base, recipients, smtpUTF8, outcome, network>>
    BY <1>0, <2>1 DEF transaction, network
  <2> QED
    BY Zenon, <1>0, <2>2, <2>3, RefusedKeeps
<1>2. CASE may
  <2>1. /\ outcome' = [status |-> "running", result |-> <<>>] /\ verdict' = <<>>
        /\ call' = IF waiting = "DATA" THEN Group("DATA", 1) ELSE bdat
    BY <1>2 DEF Data
  <2> HIDE DEF may, bdat
  <2>2. outcome' \in Outcomes /\ outcome'.status = "running" /\ verdict' \in Seq({"ok", "no"})
    BY <2>1 DEF Outcomes
  <2>3. "DATA" \in Operations /\ 1 \in Nat /\ "BDAT" \in Operations /\ 0 \in Nat
    BY DEF Operations
  <2>4. g \in Calls /\ g.op = "BDAT" /\ g.r = 0 /\ g.got = <<>> /\ g.last = FALSE /\ g.long = 0
    BY Zenon, <2>3, GroupCall
  <2> HIDE DEF g
  <2>5. /\ bdat \in Calls /\ bdat.op = "BDAT" /\ bdat.stage = "chunk" /\ bdat.r = 0 /\ bdat.got = <<>>
        /\ bdat.last = FALSE /\ bdat.long = 0
    BY <2>4 DEF bdat, Calls, Stages
  <2>6. call' \in Calls
    BY Zenon, <2>1, <2>3, <2>5, GroupCall
  <2>7. Types'
    BY Zenon, <1>0, <2>2, <2>6 DEF ClientInv, Types, transaction
  <2>8. CASE waiting = "DATA"
    <3>1. /\ call'.op = "DATA" /\ call'.stage = "write" /\ call'.n = 1 /\ call'.w = 0 /\ call'.r = 0
          /\ call'.got = <<>> /\ call'.long = 0
      <4>1. call' = Group("DATA", 1)
        BY Zenon, <2>1, <2>8
      <4> QED
        BY Zenon, <2>3, <4>1, GroupCall
    <3>2. UNCHANGED <<config, state, base, recipients, smtpUTF8, sent, replies, peer>>
      BY <1>0 DEF transaction
    <3>3. /\ call'.op \in Operations \ {"BDAT"} /\ call'.op # "RCPT" /\ call'.op # "MAIL"
          /\ call'.op \in Content /\ call'.n > 0 /\ call'.op # "BURL"
      BY <3>1 DEF Operations, Content
    <3> QED
      BY Zenon, <1>0, <1>2, <2>1, <2>2, <2>7, <3>1, <3>2, <3>3, StartStep DEF may
  <2>9. CASE waiting # "DATA"
    <3>0. call' = bdat /\ recipients > 0 /\ state = "transaction"
      BY <1>2, <2>1, <2>9 DEF may
    <3>5. /\ call'.op = "BDAT" /\ call'.stage = "chunk" /\ call'.r = 0 /\ call'.got = <<>>
          /\ call'.last = FALSE /\ call'.long = 0
      BY <2>5, <3>0
    <3>1. CallInv'
      BY <1>0, <2>2, <3>0, <3>5 DEF ClientInv, CallInv, Content, Ready, transaction
    <3>2. WireInv' /\ PeerInv'
      BY <1>0, <3>0, <3>5, EmptySeq DEF ClientInv, WireInv, PeerInv
    <3>3. AgreeInv'
      BY <1>0, <3>0, <3>5, IdleCall DEF ClientInv, AgreeInv, Followed, Settled, transaction
    <3>4. OutcomeInv'
      BY <1>0, <2>1, <2>2, <3>5 DEF OutcomeInv, Ending, Quiet
    <3> QED
      BY <2>7, <3>1, <3>2, <3>3, <3>4 DEF ClientInv
  <2> QED
    BY <2>8, <2>9
<1> QED
  BY <1>1, <1>2

\* Steps that change neither the session nor the network.
LEMMA AsideKeeps ==
    ASSUME ClientInv, Whole, Cancel \/ (\E chunked \in BOOLEAN : transportData(chunked)) \/ UNCHANGED vars
    PROVE  ClientInv'
<1>1. UNCHANGED <<config, transaction, call, outcome, network>>
  BY DEF Cancel, transportData, vars
<1>2. Types' /\ (cancelled => cancelled') /\ (call.op = "RCPT" => cancelled' = cancelled)
  BY Zenon, <1>1 DEF ClientInv, Types, transaction, network, vars, Cancel, transportData, Whole
<1>3. CallInv' /\ WireInv'
  BY <1>1, <1>2 DEF ClientInv, CallInv, WireInv, transaction, network
<1>4. AgreeInv' /\ PeerInv'
  BY <1>1 DEF ClientInv, AgreeInv, PeerInv, Followed, Settled, Answer, Doomed, transaction, network
<1>5. OutcomeInv'
  BY <1>1 DEF ClientInv, OutcomeInv, SmtpAnswer, LmtpAnswers, Ending, Quiet, Known, Taken, NoneTaken, Expected,
                 transaction, network
<1> QED
  BY <1>2, <1>3, <1>4, <1>5 DEF ClientInv

-----------------------------------------------------------------------------
\* Reporting a failure is right when nothing completing is under way.
LEMMA FailedOutcome ==
    ASSUME outcome'.status \in {"failed", "partial"}, Quiet', NoneTaken'
    PROVE  OutcomeInv'
BY DEF OutcomeInv

\* Reporting an unknown status without results is always right.
LEMMA UnknownOutcome ==
    ASSUME outcome'.status = "unknown", outcome'.result = <<>>
    PROVE  OutcomeInv'
BY DEF OutcomeInv

\* What the peer was told stays right while the network stands still.
LEMMA PeerSame ==
    ASSUME ClientInv, call' = Idle \/ (call'.op = call.op /\ call'.utf8 = call.utf8), sent' = sent,
           peer'.txn = peer.txn, peer'.rcpts = peer.rcpts, peer'.utf8 = peer.utf8, peer'.breach = peer.breach
    PROVE  PeerInv'
BY IdleCall DEF ClientInv, PeerInv

\* It stays right when the running call writes one more message.
LEMMA PeerSent ==
    ASSUME ClientInv, call' = Idle \/ (call'.op = call.op /\ call'.utf8 = call.utf8),
           NEW m \in Messages, sent' = Append(sent, m), m.utf8 = call.utf8,
           m.verb = "RCPT" <=> call.op = "RCPT", call.stage \in {"write", "content", "chunk"},
           peer'.txn = peer.txn, peer'.rcpts = peer.rcpts, peer'.utf8 = peer.utf8, peer'.breach = peer.breach
    PROVE  PeerInv'
<1>1. /\ Len(sent') = Len(sent) + 1 /\ Len(sent) \in Nat /\ sent'[Len(sent) + 1] = m
      /\ \A i \in 1..Len(sent) : sent'[i] = sent[i]
  BY SendTypes, LenProperties DEF ClientInv, Types
<1>2. \A i \in 1..Len(sent') : i \in 1..Len(sent) \/ i = Len(sent) + 1
  BY <1>1
<1>3. call.op # "RCPT" => Len(sent) = 0
  BY <1>1, LenProperties DEF ClientInv, WireInv, CallInv, Types, Calls
<1>4. \A i \in 1..Len(sent) : sent[i].verb = call.op /\ sent[i].utf8 = call.utf8
  BY <1>1, <1>3 DEF ClientInv, WireInv, CallInv
<1>5. \A i \in 1..Len(sent') : sent'[i].utf8 = call.utf8 /\ (sent'[i].verb = "RCPT" <=> call.op = "RCPT")
  BY <1>1, <1>2, <1>4
<1> QED
  BY <1>5, IdleCall DEF ClientInv, PeerInv

\* A write that finds the context cancelled, or its command too long.
LEMMA WriteGivesUp ==
    ASSUME ClientInv, call.stage = "write", cancelled \/ call.w + 1 = call.long,
           Return("failed", <<>>), ClosesAnyway, UNCHANGED network
    PROVE  ClientInv'
<1>1. /\ call' = Idle /\ call' \in Calls /\ outcome' \in Outcomes
      /\ config' = config /\ waiting' = waiting /\ cancelled' = cancelled
      /\ call.op \notin Content => outcome' = outcome
      /\ call.op \in Content => outcome'.status = "failed" /\ outcome'.result = <<>>
  BY IdleCall DEF ClientInv, Return, Types, Outcomes, Content
<1>2. /\ UNCHANGED <<base, recipients, smtpUTF8, binaryMIME>>
      /\ IF call.op = "QUIT" THEN state' = "closed" ELSE state' = state
  BY DEF ClosesAnyway, poison, transaction
<1>3. Types'
  BY <1>1, <1>2 DEF ClientInv, Types, network
<1>4. call.w = 0 /\ call.r = 0
  BY DEF ClientInv, CallInv, WireInv, Types, Calls
<1>5. sent = <<>> /\ replies = <<>>
  BY <1>4, LenProperties, EmptySeq DEF ClientInv, WireInv, Types
<1>6. state # "closed" /\ Settled(0)
  <2>1. state # "closed" /\ Followed
    BY DEF ClientInv, CallInv, Followed
  <2>2. CASE call.op # "RCPT"
    BY <2>1, <2>2 DEF ClientInv, AgreeInv
  <2>3. CASE call.op = "RCPT"
    <3>1. call.got = <<>> /\ ~Doomed
      BY <1>4, <1>5, <2>3, EmptySeq DEF ClientInv, WireInv, Doomed, Types, Calls
    <3>2. accepted(call.got) + accepted(replies) = 0
      BY <3>1, <1>5, AcceptedNone
    <3> QED
      BY <2>1, <2>3, <3>1, <3>2 DEF ClientInv, AgreeInv
  <2> QED
    BY <2>1, <2>2, <2>3
<1>7. outcome'.status # "running"
  BY <1>1 DEF ClientInv, CallInv
<1>8. CallInv' /\ WireInv' /\ AgreeInv'
  <2>1. CASE call.op = "QUIT"
    BY <1>1, <1>2, <1>7, <2>1, ClosedStep
  <2>2. CASE call.op # "QUIT"
    <3>1. Settled(0)'
      BY <1>2, <1>6, <2>2 DEF Settled, network
    <3>2. state' # "closed" /\ (state' \in Ready => recipients' = 0) /\ (state' = "transaction" => base' \in Ready)
      BY <1>2, <1>6, <2>2 DEF ClientInv, CallInv
    <3>3. sent' = <<>> /\ replies' = <<>>
      BY <1>5 DEF network
    <3> QED
      BY <1>1, <1>7, <3>1, <3>2, <3>3, ReturnStep
  <2> QED
    BY <2>1, <2>2
<1>9. PeerInv'
  BY <1>1, PeerSame DEF network
<1>10. OutcomeInv'
  <2>1. verdict' = verdict /\ Quiet' /\ Quiet
    BY <1>5, EmptySeq DEF network, Quiet
  <2>2. CASE call.op \notin Content
    BY <1>1, <2>1, <2>2, OutcomeKept DEF ClientInv, CallInv
  <2>3. CASE call.op \in Content
    <3>1. verdict = <<>>
      BY <2>3 DEF ClientInv, CallInv, OutcomeInv, Ending
    <3>2. NoneTaken'
      BY <2>1, <3>1 DEF NoneTaken
    <3> QED
      BY <1>1, <2>1, <2>3, <3>2, FailedOutcome
  <2> QED
    BY <2>2, <2>3
<1> QED
  BY <1>3, <1>8, <1>9, <1>10 DEF ClientInv

\* The call after one more command is written.
Advanced(next) == call' = [next EXCEPT !.stage = IF PrefixFull(next) THEN "read" ELSE @]

\* A write that reaches the peer.
LEMMA WriteDelivers ==
    ASSUME ClientInv, call.stage = "write",
           Delivered(Message(call.op, call.last)), Advanced([call EXCEPT !.w = @ + 1]),
           UNCHANGED <<config, transaction, waiting, cancelled, outcome>>
    PROVE  ClientInv'
<1> DEFINE m == Message(call.op, call.last)
<1>0. call \in Calls /\ call.op # "none"
  BY DEF ClientInv, Types, CallInv
<1>1. /\ call' \in Calls /\ call'.w = call.w + 1 /\ call'.op = call.op /\ call'.n = call.n
      /\ call'.r = call.r /\ call'.got = call.got /\ call'.utf8 = call.utf8 /\ call'.last = call.last
      /\ call'.long = call.long /\ call'.stage \in {"write", "read"}
      /\ call'.stage = "write" => call.w + 1 # call.n
  <2> DEFINE next == [call EXCEPT !.w = @ + 1]
             to == IF PrefixFull(next) THEN "read" ELSE next.stage
  <2>1. /\ next \in Calls /\ next.w = call.w + 1 /\ next.op = call.op /\ next.n = call.n
        /\ next.r = call.r /\ next.got = call.got /\ next.utf8 = call.utf8 /\ next.last = call.last
        /\ next.long = call.long /\ next.stage = "write"
    BY <1>0 DEF Calls, Stages
  <2>2. call' = [next EXCEPT !.stage = to]
    BY DEF Advanced
  <2>3. to \in {"write", "read"} /\ (to = "write" => call.w + 1 # call.n)
    BY <2>1 DEF PrefixFull
  <2> HIDE DEF next, to
  <2> QED
    BY <2>1, <2>2, <2>3 DEF Calls, Stages
<1>2. call'.stage = "write" => call.w + 1 # call.n
  BY <1>1
<1>3. m \in Messages /\ m.verb = call.op /\ m.last = call.last /\ m.utf8 = call.utf8
  BY <1>0, MessageType DEF ClientInv, Calls
<1>4. sent' = Append(sent, m) /\ UNCHANGED <<replies, peer, verdict>>
  BY DEF Delivered
<1> HIDE DEF m
<1>5. /\ sent' \in Seq(Messages) /\ Len(sent') = Len(sent) + 1 /\ sent' # <<>>
      /\ sent'[Len(sent) + 1] = m /\ \A i \in 1..Len(sent) : sent'[i] = sent[i]
      /\ Len(sent) \in Nat /\ Len(replies) \in Nat
  BY <1>3, <1>4, SendTypes, LenProperties DEF ClientInv, Types
<1>6. Types'
  BY <1>1, <1>4, <1>5 DEF ClientInv, Types, transaction
<1>7. UNCHANGED <<state, base, recipients, smtpUTF8, config, outcome, cancelled>>
  BY DEF transaction
<1>8. \A i \in 1..Len(sent') : i \in 1..Len(sent) \/ i = Len(sent) + 1
  BY <1>5
<1>9. \A i \in 1..Len(sent') : sent'[i].verb = call.op /\ sent'[i].last = call.last /\ sent'[i].utf8 = call.utf8
  BY <1>3, <1>5, <1>8 DEF ClientInv, WireInv
<1>10. CallInv'
  BY <1>1, <1>7 DEF ClientInv, CallInv, Content
<1>11. WireInv'
  <2>1. /\ call.r <= call.w /\ call.w < call.n /\ call.w = call.r + Len(sent) + Len(replies)
        /\ call.op # "BDAT" /\ (call.op # "RCPT" => call.n = 1 /\ call.r = 0)
        /\ call.op = "RCPT" => Len(call.got) = call.r
        /\ call.w \in Nat /\ call.r \in Nat /\ call.n \in Nat
    BY <1>0 DEF ClientInv, CallInv, WireInv, Calls
  <2>2. /\ call'.r < call'.w /\ call'.w <= call'.n /\ call'.w = call'.r + Len(sent') + Len(replies')
        /\ call'.stage = "write" => call'.w < call'.n
    <3>1. call'.w = call.w + 1 /\ call'.r = call.r /\ call'.n = call.n
      BY <1>1
    <3>2. Len(sent') = Len(sent) + 1 /\ Len(replies') = Len(replies) /\ Len(sent) \in Nat /\ Len(replies) \in Nat
      BY <1>4, <1>5
    <3>3. call'.r < call'.w /\ call'.w <= call'.n
      BY <2>1, <3>1
    <3>4. call'.w = call'.r + Len(sent') + Len(replies')
      BY <2>1, <3>1, <3>2
    <3>5. call'.stage = "write" => call'.w < call'.n
      BY <1>2, <2>1, <3>1
    <3> QED
      BY <3>3, <3>4, <3>5
  <2> QED
    BY <1>1, <1>9, <2>1, <2>2 DEF WireInv
<1>12. AgreeInv'
  <2>1. Followed /\ (call.op # "RCPT" => call'.stage = "read")
    BY <1>0, <1>1, <1>2 DEF ClientInv, CallInv, WireInv, Followed, Calls
  <2>2. CASE call.op # "RCPT"
    <3>1. Settled(0)
      BY <2>1, <2>2 DEF ClientInv, AgreeInv
    <3>2. Settled(0)'
      BY <3>1, <1>4, <1>7 DEF Settled
    <3> QED
      BY <1>1, <1>5, <2>1, <2>2, <3>2 DEF AgreeInv
  <2>3. CASE call.op = "RCPT"
    <3>1. ~Doomed => Settled(accepted(call.got) + accepted(replies))
      BY <2>1, <2>3 DEF ClientInv, AgreeInv
    <3>2. ~Doomed' => Settled(accepted(call.got) + accepted(replies))'
      BY <1>1, <1>4, <1>7, <3>1 DEF Settled, Doomed
    <3> QED
      BY <1>1, <2>3, <3>2 DEF AgreeInv
  <2> QED
    BY <2>2, <2>3
<1>13. PeerInv'
  BY <1>1, <1>3, <1>4, PeerSent
<1>14. OutcomeInv'
  <2>1. CASE call.op \notin Content
    <3>1. Quiet'
      BY <1>0, <1>9, <2>1 DEF Quiet, Completing, Content, Calls, Operations
    <3> QED
      BY <1>4, <1>7, <2>1, <3>1, OutcomeKept DEF ClientInv, CallInv
  <2>2. CASE call.op \in Content
    <3>1. verdict = <<>> /\ call.got = <<>> /\ outcome.status = "running"
      BY <2>2 DEF ClientInv, CallInv, OutcomeInv, Ending
    <3>2. ~Ending' => Quiet'
      <4>1. call.op # "BDAT" /\ (call.op = "BURL" => call.n = 1)
        BY DEF ClientInv, CallInv, WireInv
      <4>2. call.op = "BURL" => call'.stage = "read"
        BY <1>0, <1>1, <1>2, <4>1 DEF ClientInv, WireInv, Calls
      <4> QED
        BY <1>1, <1>9, <2>2, <4>1, <4>2 DEF Quiet, Completing, Ending, Content
    <3> QED
      BY <1>1, <1>4, <1>5, <1>7, <3>1, <3>2 DEF OutcomeInv
  <2> QED
    BY <2>1, <2>2
<1> QED
  BY <1>6, <1>10, <1>11, <1>12, <1>13, <1>14 DEF ClientInv

\* A write that fails, with or without having reached the peer.
LEMMA WriteLoses ==
    ASSUME ClientInv, call.stage = "write",
           Lost(Message(call.op, call.last)), Return(finalStatusUnknown(Completes), <<>>), poison
    PROVE  ClientInv'
<1> DEFINE m == Message(call.op, call.last)
           may == call.op = "BURL" /\ call.last
<1>0. call \in Calls /\ call.op # "none"
  BY DEF ClientInv, Types, CallInv
<1>1. /\ call' = Idle /\ call' \in Calls /\ outcome' \in Outcomes
      /\ config' = config /\ waiting' = waiting /\ cancelled' = cancelled
      /\ call.op \notin Content => outcome' = outcome
      /\ call.op \in Content =>
            outcome'.status = (IF may THEN "unknown" ELSE "failed") /\ outcome'.result = <<>>
  BY IdleCall DEF ClientInv, Return, Types, Outcomes, Content, finalStatusUnknown, Completes
<1>2. state' = "closed" /\ UNCHANGED <<base, recipients, smtpUTF8, binaryMIME>>
  BY DEF poison
<1>3. m \in Messages /\ m.verb = call.op /\ m.last = call.last /\ m.utf8 = call.utf8
  BY <1>0, MessageType DEF ClientInv, Calls
<1>4. (sent' = sent \/ sent' = Append(sent, m)) /\ UNCHANGED <<replies, peer, verdict>>
  BY DEF Lost
<1> HIDE DEF m
<1>5. /\ Append(sent, m) \in Seq(Messages) /\ Len(Append(sent, m)) = Len(sent) + 1
      /\ Append(sent, m)[Len(sent) + 1] = m /\ \A i \in 1..Len(sent) : Append(sent, m)[i] = sent[i]
      /\ Len(sent) \in Nat
  BY <1>3, SendTypes, LenProperties DEF ClientInv, Types
<1>6. Types'
  BY <1>1, <1>2, <1>4, <1>5 DEF ClientInv, Types
<1>7. outcome'.status # "running"
  BY <1>1 DEF ClientInv, CallInv
<1>8. CallInv' /\ WireInv' /\ AgreeInv'
  BY <1>1, <1>2, <1>7, ClosedStep
<1>9. PeerInv'
  BY <1>1, <1>3, <1>4, PeerSame, PeerSent
<1>10. OutcomeInv'
  <2>1. CASE may
    BY <1>1, <2>1, UnknownOutcome DEF Content
  <2>2. CASE ~may
    <3>0. call.op # "BDAT"
      BY DEF ClientInv, CallInv
    <3>1. ~Completing(m)
      BY <1>0, <1>3, <2>2, <3>0 DEF Completing, Calls, Operations
    <3>2. \A i \in 1..(Len(sent) + 1) : i \in 1..Len(sent) \/ i = Len(sent) + 1
      BY <1>5
    <3>3. Quiet => Quiet'
      BY <1>4, <1>5, <3>1, <3>2 DEF Quiet, Completing
    <3>4. CASE call.op \notin Content
      BY <1>1, <1>4, <3>3, <3>4, OutcomeKept DEF ClientInv, CallInv
    <3>5. CASE call.op \in Content
      <4>1. verdict = <<>> /\ Quiet
        BY <3>5 DEF ClientInv, CallInv, OutcomeInv, Ending
      <4>2. NoneTaken'
        BY <1>4, <4>1 DEF NoneTaken
      <4> QED
        BY <1>1, <2>2, <3>3, <3>5, <4>1, <4>2, FailedOutcome
    <3> QED
      BY <3>4, <3>5
  <2> QED
    BY <2>1, <2>2
<1> QED
  BY <1>6, <1>8, <1>9, <1>10 DEF ClientInv

\* The pipeline writes a command.
LEMMA WriteKeeps ==
    ASSUME ClientInv, write
    PROVE  ClientInv'
<1> DEFINE next == [call EXCEPT !.w = @ + 1]
<1>1. next.w = call.w + 1 /\ call.stage = "write"
  BY DEF ClientInv, Types, Calls, write
<1>2. CASE /\ cancelled \/ next.w = call.long
           /\ Return("failed", <<>>) /\ ClosesAnyway /\ UNCHANGED network
  BY <1>1, <1>2, WriteGivesUp
<1>3. CASE /\ Delivered(Message(call.op, call.last))
           /\ call' = [next EXCEPT !.stage = IF PrefixFull(next) THEN "read" ELSE @]
           /\ UNCHANGED <<config, transaction, waiting, cancelled, outcome>>
  BY <1>1, <1>3, WriteDelivers DEF Advanced
<1>4. CASE Lost(Message(call.op, call.last)) /\ Return(finalStatusUnknown(Completes), <<>>) /\ poison
  BY <1>1, <1>4, WriteLoses
<1> QED
  BY <1>2, <1>3, <1>4 DEF write


-----------------------------------------------------------------------------
\* What the peer does with a message.

\* The peer takes the oldest message; the client does not move.
LEMMA PeerTakes ==
    ASSUME ClientInv, NEW m, Peers(m)
    PROVE  /\ m \in Messages /\ m = sent[1] /\ sent # <<>> /\ Len(sent) \in Nat /\ Len(sent) >= 1
           /\ sent' \in Seq(Messages) /\ Len(sent') = Len(sent) - 1
           /\ \A i \in 1..Len(sent') : sent'[i] = sent[i + 1] /\ i + 1 \in 1..Len(sent)
           /\ Len(sent) = 1 => sent' = <<>>
           /\ UNCHANGED <<config, state, base, recipients, smtpUTF8, binaryMIME, call, waiting, cancelled, outcome>>
           /\ CallInv' /\ (Quiet => Quiet' /\ ~Completing(m))
           /\ call.stage \in {"write", "read"} => m.verb = call.op /\ m.last = call.last /\ m.utf8 = call.utf8
           /\ call.stage \notin {"content", "chunk"}
<1>1. sent \in Seq(Messages) /\ sent # <<>> /\ m = Head(sent) /\ sent' = Tail(sent)
  BY DEF ClientInv, Types, Peers
<1>2. /\ Len(sent) \in Nat \ {0} /\ Tail(sent) \in Seq(Messages) /\ Len(Tail(sent)) = Len(sent) - 1
      /\ \A i \in 1..(Len(sent) - 1) : Tail(sent)[i] = sent[i + 1]
      /\ Head(sent) = sent[1] /\ sent[1] \in Messages
  BY <1>1, HeadTailProperties, LenProperties, EmptySeq, ElementOfSeq
<1>3. Len(sent) = 1 => Tail(sent) = <<>>
  BY <1>1, <1>2, EmptySeq
<1>4. Len(sent) >= 1 /\ 1 \in 1..Len(sent) /\ \A i \in 1..(Len(sent) - 1) : i + 1 \in 1..Len(sent)
  BY <1>2
<1>5. UNCHANGED <<config, state, base, recipients, smtpUTF8, binaryMIME, call, waiting, cancelled, outcome>>
  BY DEF Peers, transaction
<1>6. CallInv'
  BY <1>5 DEF ClientInv, CallInv
<1>7. Quiet => Quiet' /\ ~Completing(m)
  BY <1>1, <1>2, <1>4 DEF Quiet, Completing
<1>8. call.stage \in {"write", "read"} => m.verb = call.op /\ m.last = call.last /\ m.utf8 = call.utf8
  BY <1>1, <1>2, <1>4 DEF ClientInv, WireInv
<1>9. call.stage \notin {"content", "chunk"}
  BY <1>1 DEF ClientInv, WireInv
<1> QED
  BY <1>1, <1>2, <1>3, <1>4, <1>5, <1>6, <1>7, <1>8, <1>9

\* What a command and its answer make of the peer's transaction.
Same(after) == after.txn = peer.txn /\ after.rcpts = peer.rcpts /\ after.utf8 = peer.utf8

Response(m, code, after) ==
    /\ m.verb \in {"NOOP", "."} => Same(after)
    /\ m.verb = "RSET" => IF code = "ok" THEN after.txn = "none" ELSE Same(after)
    /\ m.verb = "MAIL" =>
          IF code = "ok" THEN after.txn = "open" /\ after.rcpts = 0 /\ after.utf8 = m.utf8 ELSE Same(after)
    /\ m.verb = "RCPT" =>
          IF code = "ok"
            THEN /\ peer.txn = "open" /\ after.txn = "open" /\ after.rcpts = peer.rcpts + 1
                 /\ after.utf8 = peer.utf8
            ELSE Same(after)
    /\ m.verb = "DATA" =>
          IF code = "go" THEN /\ after.txn = "content" /\ peer.txn = "open" /\ after.rcpts = peer.rcpts
                              /\ peer.rcpts > 0
                         ELSE Same(after)
    /\ m.verb \in {"BDAT", "BURL"} => Same(after) \/ after.txn = "failed"

\* The peer handles a command other than the end of a transaction's content.
Handles(m, code, after) ==
    /\ Peers(m) /\ Replies(code, after) /\ ~Ends(m)
    /\ code \in AllCodes /\ after \in PeerStates
    /\ Completing(m) => code # "ok"
    /\ "utf8" \notin after.breach
    /\ after.txn = "content" => after.rcpts > 0
    /\ IF code = "421" THEN after.txn = "none" ELSE Response(m, code, after)

\* It adds one reply behind those under way.
LEMMA HandledTypes ==
    ASSUME ClientInv, NEW m, NEW code, NEW after, Handles(m, code, after)
    PROVE  /\ Types' /\ replies' \in Seq(AllCodes) /\ Len(replies') = Len(replies) + 1 /\ Len(replies) \in Nat
           /\ replies' # <<>> /\ replies'[Len(replies) + 1] = code
           /\ \A i \in 1..Len(replies) : replies'[i] = replies[i]
           /\ accepted(replies') = accepted(replies) + (IF code = "ok" THEN 1 ELSE 0)
           /\ peer' = after /\ verdict' = verdict
           /\ Doomed => Doomed'
           /\ code = "421" => Doomed'
<1>1. /\ replies \in Seq(AllCodes) /\ replies' = Append(replies, code) /\ peer' = after /\ verdict' = verdict
      /\ code \in AllCodes /\ after \in PeerStates /\ Peers(m)
  BY DEF Handles, Replies, ClientInv, Types
<1>2. /\ replies' \in Seq(AllCodes) /\ Len(replies') = Len(replies) + 1 /\ Len(replies) \in Nat
      /\ replies' # <<>> /\ replies'[Len(replies) + 1] = code
      /\ \A i \in 1..Len(replies) : replies'[i] = replies[i]
      /\ accepted(replies') = accepted(replies) + (IF code = "ok" THEN 1 ELSE 0)
  BY <1>1, AppendProperties, LenProperties, EmptySeq, AcceptedAppend
<1>3. /\ sent' \in Seq(Messages)
      /\ UNCHANGED <<config, state, base, recipients, smtpUTF8, binaryMIME, call, waiting, cancelled, outcome>>
  BY <1>1, PeerTakes
<1>4. Types'
  BY <1>1, <1>2, <1>3 DEF ClientInv, Types
<1>5. \A i \in 1..Len(replies) : i \in 1..Len(replies')
  BY <1>2
<1>6. Len(replies) + 1 \in 1..Len(replies')
  BY <1>2
<1> QED
  BY <1>1, <1>2, <1>4, <1>5, <1>6 DEF Doomed

\* One message less and one reply more: the group is still accounted for.
LEMMA HandlesKeepsWire ==
    ASSUME ClientInv, NEW m, NEW code, NEW after, Handles(m, code, after)
    PROVE  WireInv'
<1>1. /\ m = sent[1] /\ sent # <<>> /\ Len(sent) \in Nat /\ Len(sent) >= 1 /\ Len(sent') = Len(sent) - 1
      /\ \A i \in 1..Len(sent') : sent'[i] = sent[i + 1] /\ i + 1 \in 1..Len(sent)
      /\ Len(sent) = 1 => sent' = <<>>
      /\ UNCHANGED <<config, state, base, recipients, smtpUTF8, binaryMIME, call, waiting, cancelled, outcome>>
      /\ call.stage \notin {"content", "chunk"}
  BY PeerTakes DEF Handles
<1>2. Len(replies') = Len(replies) + 1 /\ Len(replies) \in Nat /\ replies' # <<>>
  BY HandledTypes
<1>3. \A c, a, b \in Nat : a >= 1 => c + (a - 1) + (b + 1) = c + a + b /\ (a - 1) + (b + 1) = a + b
  OBVIOUS
<1>5. call.r \in Nat
  BY DEF ClientInv, Types, Calls
<1>10. /\ (Len(sent) - 1) + (Len(replies) + 1) = Len(sent) + Len(replies)
       /\ call.r + (Len(sent) - 1) + (Len(replies) + 1) = call.r + Len(sent) + Len(replies)
  BY Zenon, <1>1, <1>2, <1>3, <1>5
<1>4. Len(sent') + Len(replies') = Len(sent) + Len(replies)
  BY <1>1, <1>2, <1>10
<1>6. call.r + Len(sent') + Len(replies') = call.r + Len(sent) + Len(replies)
  BY <1>1, <1>2, <1>10
<1>7. CASE call.stage = "idle"
  <2>1. cancelled \/ state = "closed"
    BY <1>1, <1>7 DEF ClientInv, WireInv
  <2>2. call.op # "RCPT"
    BY <1>7, IdleCall DEF ClientInv, CallInv
  <2> QED
    BY <1>1, <1>7, <2>1, <2>2 DEF WireInv
<1>8. CASE call.stage = "write" \/ call.stage = "read"
  <2>1. \A i \in 1..Len(sent') : sent'[i].verb = call.op /\ sent'[i].last = call.last /\ sent'[i].utf8 = call.utf8
    BY Zenon, <1>1, <1>8 DEF ClientInv, WireInv
  <2> QED
    BY <1>1, <1>4, <1>6, <1>8, <2>1 DEF ClientInv, WireInv
<1>9. CASE call.stage = "final"
  <2>1. sent' = <<>> /\ call.r = Len(call.got) /\ call.op # "RCPT"
    BY <1>1, <1>9 DEF ClientInv, WireInv, CallInv
  <2> QED
    BY <1>1, <1>2, <1>9, <2>1 DEF WireInv
<1> QED
  BY <1>1, <1>7, <1>8, <1>9 DEF ClientInv, Types, Calls, Stages

\* What the peer was told of UTF-8 still holds.
LEMMA HandlesKeepsPeer ==
    ASSUME ClientInv, NEW m, NEW code, NEW after, Handles(m, code, after)
    PROVE  PeerInv'
<1>1. /\ m = sent[1] /\ Len(sent) \in Nat /\ Len(sent) >= 1 /\ Len(sent') = Len(sent) - 1
      /\ \A i \in 1..Len(sent') : sent'[i] = sent[i + 1] /\ i + 1 \in 1..Len(sent)
      /\ call' = call
      /\ call.stage \in {"write", "read"} => m.verb = call.op
      /\ call.stage \notin {"content", "chunk"}
  BY PeerTakes DEF Handles
<1>2. 1 \in 1..Len(sent) /\ peer' = after
  BY <1>1, HandledTypes
<1>3. m.verb = "RCPT" /\ after.txn = "open" => peer.txn = "open" /\ after.utf8 = peer.utf8
  BY DEF Handles, Response, Same
<1>4. call.op = "RCPT" => m.verb = "RCPT"
  BY <1>1, IdleCall DEF ClientInv, CallInv, Types, Calls, Stages
<1>5. call.op = "RCPT" /\ call.utf8 /\ after.txn = "open" => after.utf8
  BY <1>3, <1>4 DEF ClientInv, PeerInv
<1>6. ASSUME NEW i \in 1..Len(sent'), sent'[i].verb = "RCPT"
      PROVE  /\ \A j \in 1..Len(sent') : sent'[j].verb = "RCPT"
             /\ sent'[i].utf8 /\ after.txn = "open" => after.utf8
  <2>1. i + 1 \in 1..Len(sent) /\ sent[i + 1].verb = "RCPT" /\ sent'[i] = sent[i + 1]
    BY <1>1, <1>6
  <2>2. \A j \in 1..Len(sent) : sent[j].verb = "RCPT"
    BY <2>1 DEF ClientInv, PeerInv
  <2>3. m.verb = "RCPT"
    BY <1>1, <1>2, <2>2
  <2>4. sent[i + 1].utf8 /\ peer.txn = "open" => peer.utf8
    BY <2>1 DEF ClientInv, PeerInv
  <2> QED
    BY <1>1, <1>3, <2>1, <2>2, <2>3, <2>4
<1>7. "utf8" \notin after.breach /\ (after.txn = "content" => after.rcpts > 0)
  BY DEF Handles
<1> QED
  BY SMTT(20), <1>1, <1>2, <1>5, <1>6, <1>7 DEF PeerInv

\* A refused last message completes nothing.
LEMMA HandlesKeepsOutcome ==
    ASSUME ClientInv, NEW m, NEW code, NEW after, Handles(m, code, after)
    PROVE  OutcomeInv'
<1>1. /\ m = sent[1] /\ sent # <<>> /\ Len(sent) \in Nat /\ Len(sent) >= 1 /\ Len(sent') = Len(sent) - 1
      /\ Len(sent) = 1 => sent' = <<>>
      /\ UNCHANGED <<config, state, base, recipients, smtpUTF8, binaryMIME, call, waiting, cancelled, outcome>>
      /\ Quiet => Quiet' /\ ~Completing(m)
      /\ call.stage \in {"write", "read"} => m.verb = call.op /\ m.last = call.last
  BY PeerTakes DEF Handles
<1>2. /\ Len(replies') = Len(replies) + 1 /\ Len(replies) \in Nat
      /\ replies'[Len(replies) + 1] = code /\ verdict' = verdict
  BY HandledTypes
<1>3. CASE outcome.status # "running"
  BY <1>1, <1>2, <1>3, OutcomeKept
<1>4. CASE outcome.status = "running" /\ ~Ending
  <2>1. Quiet /\ verdict = <<>> /\ (call.op \in Content => (call.got # <<>> => call.stage = "final"))
    BY <1>4 DEF ClientInv, OutcomeInv
  <2>2. ~Ending' /\ Quiet' /\ verdict' = <<>> /\ outcome'.status = "running"
    BY <1>1, <1>2, <1>4, <2>1 DEF Ending
  <2> QED
    BY <1>1, <2>1, <2>2 DEF OutcomeInv
<1>5. CASE outcome.status = "running" /\ Ending
  <2>1. verdict = <<>> /\ call.got = <<>> /\ call.op \in Content
    BY <1>1, <1>5 DEF ClientInv, OutcomeInv, CallInv
  <2>2. Len(sent) = 1 /\ Len(replies) = 0 /\ Completing(m)
    <3>1. CASE call.stage = "final"
      <4>1. Len(sent) = 1 /\ replies = <<>>
        BY <1>1, <3>1 DEF ClientInv, WireInv
      <4>2. sent[1].last /\ sent[1].verb = IF call.op = "DATA" THEN "." ELSE "BDAT"
        BY <1>1, <3>1 DEF ClientInv, WireInv
      <4> QED
        BY <1>1, <4>1, <4>2, EmptySeq DEF Completing
    <3>2. CASE call.op = "BURL" /\ call.last /\ call.stage = "read"
      <4>1. call.w <= call.n /\ call.w = call.r + Len(sent) + Len(replies) /\ call.n = 1 /\ call.r = 0 /\ call.w \in Nat
        BY <3>2 DEF ClientInv, WireInv, Types, Calls
      <4> QED
        <5>1. \A a, b \in Nat : a >= 1 /\ 0 + a + b <= 1 => a = 1 /\ b = 0
          OBVIOUS
        <5>2. 0 + Len(sent) + Len(replies) <= 1
          BY <4>1
        <5>3. Len(sent) = 1 /\ Len(replies) = 0
          BY <1>1, <1>2, <5>1, <5>2
        <5> QED
          BY Zenon, <1>1, <3>2, <5>3 DEF Completing
    <3> QED
      BY <1>5, <3>1, <3>2 DEF Ending
  <2>3. sent' = <<>> /\ Len(replies') = 1 /\ replies'[1] = code /\ code # "ok"
    BY <1>1, <1>2, <2>2 DEF Handles
  <2>4. Expected \in Nat /\ Expected > 0
    <3>1. state # "closed" /\ Followed
      BY <1>5 DEF ClientInv, CallInv, Followed, Ending
    <3>2. CASE call.stage = "final"
      BY <1>1, <3>1, <3>2 DEF ClientInv, AgreeInv, CallInv, Types, Expected
    <3>3. CASE call.op = "BURL" /\ call.stage # "final"
      BY <3>3 DEF ClientInv, CallInv, Types, Expected
    <3> QED
      BY <1>5, <3>2, <3>3 DEF Ending
  <2>5. /\ Ending' = Ending /\ Expected' = Expected /\ NoneTaken' /\ Len(verdict') = 0
        /\ \A i : ~(i \in DOMAIN verdict' /\ verdict'[i] = "ok")
    BY <1>1, <1>2, <2>1, EmptySeq DEF Ending, Expected, NoneTaken
  <2>6. SmtpAnswer'
    BY <1>1, <2>1, <2>3, <2>5 DEF SmtpAnswer
  <2>7. LmtpAnswers'
    <3>1. call'.got = <<>> /\ Len(call'.got) = 0
      BY <1>1, <2>1, EmptySeq
    <3>2. \A i \in 1..Len(replies') : replies'[i] # "ok"
      BY <2>3
    <3> QED
      BY <2>4, <2>5, <3>1, <3>2 DEF LmtpAnswers, Taken
  <2>8. Len(verdict') <= Expected' /\ outcome'.status = "running" /\ Ending'
    BY <1>1, <1>5, <2>4, <2>5
  <2> QED
    BY <1>1, <2>1, <2>3, <2>6, <2>7, <2>8 DEF OutcomeInv
<1> QED
  BY <1>3, <1>4, <1>5

\* A peer whose transaction is as before, or failed, still agrees.
LEMMA SameSettled ==
    ASSUME NEW new, Settled(new), Same(peer') \/ peer'.txn = "failed", UNCHANGED <<state, recipients, smtpUTF8>>
    PROVE  /\ peer'.txn # "content"
           /\ peer'.txn # "failed" => (state' = "transaction" <=> peer'.txn = "open")
           /\ peer'.txn = "open" => peer'.rcpts = recipients' + new /\ (smtpUTF8' => peer'.utf8)
BY DEF Settled, Same

\* The reply under way tells the client what the peer has made of the command.
LEMMA HandlesKeepsAgree ==
    ASSUME ClientInv, NEW m, NEW code, NEW after, Handles(m, code, after)
    PROVE  AgreeInv'
<1>1. /\ m = sent[1] /\ sent # <<>> /\ Len(sent) \in Nat /\ Len(sent) >= 1
      /\ Len(sent) = 1 => sent' = <<>>
      /\ UNCHANGED <<config, state, base, recipients, smtpUTF8, call>>
      /\ call.stage \in {"write", "read"} => m.verb = call.op /\ m.last = call.last /\ m.utf8 = call.utf8
      /\ call.stage \notin {"content", "chunk"}
  BY PeerTakes DEF Handles
<1>2. /\ Len(replies') = Len(replies) + 1 /\ Len(replies) \in Nat /\ replies' # <<>>
      /\ replies'[Len(replies) + 1] = code /\ peer' = after
      /\ accepted(replies') = accepted(replies) + (IF code = "ok" THEN 1 ELSE 0)
      /\ Doomed => Doomed'
      /\ code = "421" => Doomed'
  BY HandledTypes
<1>3. SUFFICES ASSUME Followed' PROVE AgreeInv'
  BY DEF AgreeInv
<1>4. Followed /\ state # "closed" /\ call.stage # "idle"
  BY <1>1, <1>2, <1>3 DEF Followed
<1>5. ~Doomed' => ~Doomed /\ Response(m, code, after)
  <2>1. code # "421" => Response(m, code, after)
    BY DEF Handles
  <2>2. (code = "421" => Doomed') /\ (Doomed => Doomed')
    BY <1>2
  <2> QED
    BY <2>1, <2>2
<1>6. CASE call.op = "RCPT"
  <2>1. call.stage \in {"write", "read"} /\ m.verb = "RCPT"
    BY <1>1, <1>4, <1>6 DEF ClientInv, CallInv, Types, Calls, Stages
  <2> DEFINE old == accepted(call.got) + accepted(replies)
             new == accepted(call.got) + accepted(replies')
  <2>3. /\ accepted(call.got) \in Nat /\ accepted(replies) \in Nat /\ recipients \in Nat
        /\ accepted(replies') = accepted(replies) + (IF code = "ok" THEN 1 ELSE 0)
    BY Zenon, <1>2, AcceptedType DEF ClientInv, Types, Calls
  <2>4. old \in Nat /\ new = old + (IF code = "ok" THEN 1 ELSE 0)
    BY <2>3
  <2>2. ASSUME ~Doomed'
        PROVE  /\ peer'.txn # "content"
               /\ peer'.txn # "failed" => (state' = "transaction" <=> peer'.txn = "open")
               /\ peer'.txn = "open" => peer'.rcpts = recipients' + new /\ (smtpUTF8' => peer'.utf8)
    <3>1. Settled(old)
      BY <1>4, <1>5, <1>6, <2>2 DEF ClientInv, AgreeInv
    <3> HIDE DEF old, new
    <3>2. CASE code = "ok"
      <4>1. /\ peer.txn = "open" /\ peer'.txn = "open" /\ peer'.rcpts = peer.rcpts + 1
            /\ peer'.utf8 = peer.utf8
        BY <1>2, <1>5, <2>1, <2>2, <3>2 DEF Response
      <4>2. peer.rcpts = recipients + old /\ (smtpUTF8 => peer.utf8) /\ state = "transaction"
        BY <3>1, <4>1 DEF Settled
      <4>3. peer'.rcpts = recipients' + new
        BY <1>1, <2>3, <2>4, <3>2, <4>1, <4>2
      <4> QED
        BY <1>1, <4>1, <4>2, <4>3
    <3>3. CASE code # "ok"
      <4>1. Same(peer') /\ new = old
        BY <1>2, <1>5, <2>1, <2>2, <2>4, <3>3 DEF Response
      <4> QED
        BY <1>1, <3>1, <4>1, SameSettled
    <3> QED
      BY <3>2, <3>3
  <2>5. ~Doomed' => Settled(accepted(call.got) + accepted(replies))'
    BY <1>1, <2>2 DEF Settled
  <2>6. call'.op = "RCPT" /\ call'.stage \in {"write", "read"}
    BY <1>1, <1>6, <2>1
  <2> QED
    BY <2>5, <2>6 DEF AgreeInv
<1>7. CASE call.op # "RCPT"
  <2>1. Len(sent) = 1 /\ Len(replies) = 0 /\ call.stage \in {"read", "final"}
    <3>0. \A a, b \in Nat : a >= 1 /\ (a + b <= 1 \/ 0 + a + b <= 1) => a = 1 /\ b = 0
      OBVIOUS
    <3>1. CASE call.stage = "final"
      BY <1>1, <3>1, EmptySeq DEF ClientInv, WireInv
    <3>2. CASE call.stage = "read" /\ call.op = "BDAT"
      <4>1. Len(sent) + Len(replies) <= 1
        BY <3>2 DEF ClientInv, WireInv
      <4> QED
        BY SMTT(20), <1>1, <1>2, <3>0, <3>2, <4>1
    <3>3. CASE call.stage \in {"read", "write"} /\ call.op # "BDAT"
      <4>1. /\ call.w <= call.n /\ call.w = call.r + Len(sent) + Len(replies) /\ call.n = 1 /\ call.r = 0
            /\ call.stage = "write" => call.w < call.n
        BY <1>7, <3>3 DEF ClientInv, WireInv, Types, Calls
      <4>2. 0 + Len(sent) + Len(replies) <= 1
        BY <4>1
      <4>3. Len(sent) = 1 /\ Len(replies) = 0
        BY Zenon, <1>1, <1>2, <3>0, <4>2
      <4>4. call.w = 1
        BY <4>1, <4>3
      <4> QED
        BY <3>3, <4>1, <4>3, <4>4
    <3>4. call.stage \in {"final", "read", "write"} /\ (call.stage = "write" => call.op # "BDAT")
      BY <1>1, <1>4 DEF ClientInv, CallInv, Types, Calls, Stages
    <3> QED
      BY <3>1, <3>2, <3>3, <3>4
  <2>2. sent' = <<>> /\ replies'[1] = code
    BY <1>1, <1>2, <2>1
  <2>3. CASE call.stage = "read"
    <3>1. Settled(0) /\ m.verb = call.op /\ m.last = call.last
      BY <1>1, <1>4, <1>7, <2>3 DEF ClientInv, AgreeInv
    <3>2. ASSUME ~Doomed' PROVE Answer(code)'
      <4>1. Response(m, code, peer')
        BY <1>2, <1>5, <3>2
      <4>2. Same(peer') \/ peer'.txn = "failed" => Settled(0)'
        BY <1>1, <3>1, SameSettled DEF Settled
      <4>3. CASE call.op \in {"NOOP", "BDAT", "RSET", "MAIL", "QUIT", "none"}
        <5>1. CASE call.op \in {"NOOP", "BDAT"}
          <6>1. Settled(0)'
            BY <3>1, <4>1, <4>2, <5>1 DEF Response
          <6> QED
            BY <1>1, <5>1, <6>1 DEF Answer
        <5>2. CASE call.op = "RSET"
          <6>1. IF code = "ok" THEN peer'.txn = "none" ELSE Settled(0)'
            BY <3>1, <4>1, <4>2, <5>2 DEF Response
          <6> QED
            BY <1>1, <5>2, <6>1 DEF Answer
        <5>3. CASE call.op = "MAIL"
          <6>1. IF code = "ok" THEN peer'.txn = "open" /\ peer'.rcpts = 0 /\ peer'.utf8 = call'.utf8
                               ELSE Settled(0)'
            BY <1>1, <2>3, <3>1, <4>1, <4>2, <5>3 DEF Response
          <6> QED
            BY <1>1, <5>3, <6>1 DEF Answer
        <5>4. CASE call.op \in {"QUIT", "none"}
          BY <1>1, <5>4 DEF Answer
        <5> QED
          BY <4>3, <5>1, <5>2, <5>3, <5>4
      <4>4. CASE call.op = "DATA"
        <5>1. code = "go" => peer'.txn = "content" /\ peer'.rcpts = recipients' /\ recipients' > 0
          BY <1>1, <3>1, <4>1, <4>4 DEF Response, Settled, ClientInv, Types
        <5>2. code # "go" => Settled(0)'
          BY <3>1, <4>1, <4>2, <4>4 DEF Response
        <5> QED
          BY <1>1, <4>4, <5>1, <5>2 DEF Answer
      <4>5. CASE call.op = "BURL"
        <5>1. Same(peer') \/ peer'.txn = "failed"
          BY <3>1, <4>1, <4>5 DEF Response
        <5>2. call.last => peer'.txn \in {"none", "failed"}
          <6>1. recipients > 0 /\ state = "transaction" /\ recipients \in Nat
            BY <2>3, <4>5 DEF ClientInv, CallInv, Types
          <6>2. call.last => ~(peer.txn = "open" /\ peer.rcpts > 0)
            BY <3>1, <4>5 DEF Handles, Ends
          <6>3. call.last => peer.txn = "failed"
            BY <3>1, <6>1, <6>2 DEF Settled
          <6> QED
            BY <5>1, <6>3 DEF Same
        <5> QED
          BY <1>1, <4>2, <4>5, <5>1, <5>2 DEF Answer
      <4> QED
        BY <1>7, <4>3, <4>4, <4>5 DEF ClientInv, Types, Calls, Operations
    <3>3. call'.stage = "read" /\ call'.op # "RCPT"
      BY <1>1, <1>7, <2>3
    <3>4. ~Doomed' => Answer(replies[1])'
      BY <2>2, <3>2
    <3> QED
      BY <2>2, <3>3, <3>4 DEF AgreeInv
  <2>4. CASE call.stage = "final"
    <3>1. /\ recipients > 0 /\ call.r = 0 /\ call.op \in {"DATA", "BDAT"}
          /\ IF call.op = "DATA" THEN peer.txn = "content" /\ peer.rcpts = recipients ELSE Settled(0)
      BY SMTT(20), <1>1, <1>4, <2>4 DEF ClientInv, AgreeInv, CallInv
    <3>2. m.last /\ m.verb = IF call.op = "DATA" THEN "." ELSE "BDAT"
      BY SMTT(20), <1>1, <2>4 DEF ClientInv, WireInv
    <3>3. call.op = "BDAT"
      BY <3>1, <3>2 DEF Handles, Ends
    <3>4. state = "transaction" /\ recipients \in Nat
      BY <2>4, <3>1, <3>3 DEF ClientInv, CallInv, Types
    <3>5. ~(peer.txn = "open" /\ peer.rcpts > 0)
      BY <3>2, <3>3 DEF Handles, Ends
    <3>6. peer.txn = "failed"
      BY <3>1, <3>3, <3>4, <3>5 DEF Settled
    <3>7. ~Doomed' => peer'.txn \in {"none", "failed"}
      BY <1>2, <1>5, <3>2, <3>3, <3>6 DEF Response, Same
    <3>8. call'.stage = "final" /\ call'.op # "RCPT"
      BY <1>1, <1>7, <2>4
    <3> QED
      BY <2>2, <3>7, <3>8 DEF AgreeInv
  <2> QED
    BY <2>1, <2>3, <2>4
<1> QED
  BY <1>6, <1>7

\* The peer handles a command other than the end of the content.
LEMMA HandlesKeeps ==
    ASSUME ClientInv, NEW m, NEW code, NEW after, Handles(m, code, after)
    PROVE  ClientInv'
<1>1. Types' /\ CallInv'
  BY HandledTypes, PeerTakes DEF Handles
<1> QED
  BY <1>1, HandlesKeepsWire, HandlesKeepsPeer, HandlesKeepsAgree, HandlesKeepsOutcome DEF ClientInv

\* The peer before any transaction.
LEMMA PeerValues ==
    /\ Peer \in PeerStates /\ Peer.txn = "none" /\ Peer.rcpts = 0 /\ Peer.breach = {}
BY DEF Peer, PeerStates

\* The peer after a transaction.
LEMMA ClearedPeer ==
    ASSUME Types
    PROVE  /\ Cleared \in PeerStates /\ Cleared.txn = "none" /\ Cleared.breach = peer.breach
BY PeerValues DEF Cleared, PeerStates, Types

\* The peer agrees to a command.
LEMMA PeerAgreesKeeps ==
    ASSUME ClientInv, peerAgrees
    PROVE  ClientInv'
<1> DEFINE seen(m) == [peer EXCEPT !.breach = @ \cup Broken(m)]
           open == peer.txn = "open" /\ peer.rcpts > 0
<1>1. PICK m \in Range(sent) :
        /\ Peers(m) /\ ~Ends(m)
        /\ \/ m.verb = "NOOP" /\ Replies("ok", peer)
           \/ m.verb = "QUIT" /\ Replies("ok", [peer EXCEPT !.gone = TRUE])
           \/ m.verb = "RSET" /\ Replies("ok", Cleared)
           \/ m.verb = "MAIL" /\ peer.txn = "none" /\ Replies("ok", Opened(m))
           \/ m.verb = "RCPT" /\ peer.txn = "open" /\ Replies("ok", [seen(m) EXCEPT !.rcpts = @ + 1])
           \/ m.verb = "DATA" /\ open /\ ~peer.chunks /\ Replies("go", [seen(m) EXCEPT !.txn = "content"])
           \/ m.verb \in {"BDAT", "BURL"} /\ open /\ Replies("ok", [peer EXCEPT !.chunks = TRUE])
  BY Zenon DEF peerAgrees
<1>2. /\ peer \in PeerStates /\ "utf8" \notin peer.breach /\ (peer.txn = "content" => peer.rcpts > 0)
      /\ m \in Messages /\ m = sent[1] /\ 1 \in 1..Len(sent)
  BY <1>1, PeerTakes DEF ClientInv, Types, PeerInv
<1>3. "ok" \in AllCodes /\ "go" \in AllCodes
  BY DEF AllCodes
<1>4. m.verb = "RCPT" /\ peer.txn = "open" => (m.utf8 => peer.utf8)
  BY <1>2 DEF ClientInv, PeerInv
<1>5. Broken(m) \subseteq {"utf8", "binary"}
  BY DEF Broken
<1>6. m.verb = "DATA" \/ (m.verb = "RCPT" /\ peer.txn = "open") => "utf8" \notin Broken(m)
  BY <1>4 DEF Broken
<1>7. /\ seen(m) \in PeerStates /\ seen(m).breach = peer.breach \cup Broken(m) /\ seen(m).txn = peer.txn
      /\ seen(m).rcpts = peer.rcpts /\ seen(m).utf8 = peer.utf8
  BY <1>2, <1>5 DEF PeerStates
<1> HIDE DEF seen
<1>8. CASE m.verb = "NOOP" /\ Replies("ok", peer)
  <2>1. Handles(m, "ok", peer)
    BY <1>1, <1>2, <1>3, <1>8 DEF Handles, Response, Same, Completing
  <2> QED
    BY <2>1, HandlesKeeps
<1>9. CASE m.verb = "QUIT" /\ Replies("ok", [peer EXCEPT !.gone = TRUE])
  <2> DEFINE after == [peer EXCEPT !.gone = TRUE]
  <2>1. /\ after \in PeerStates /\ after.txn = peer.txn /\ after.rcpts = peer.rcpts /\ after.breach = peer.breach
    BY Zenon, <1>2 DEF PeerStates
  <2> HIDE DEF after
  <2>2. Handles(m, "ok", after)
    BY <1>1, <1>2, <1>3, <1>9, <2>1 DEF Handles, Response, Completing, after
  <2> QED
    BY <2>2, HandlesKeeps
<1>10. CASE m.verb = "RSET" /\ Replies("ok", Cleared)
  <2>1. Cleared \in PeerStates /\ Cleared.txn = "none" /\ Cleared.breach = peer.breach
    BY ClearedPeer DEF ClientInv
  <2>2. Handles(m, "ok", Cleared)
    BY <1>1, <1>2, <1>3, <1>10, <2>1 DEF Handles, Response, Completing
  <2> QED
    BY <2>2, HandlesKeeps
<1>11. CASE m.verb = "MAIL" /\ Replies("ok", Opened(m))
  <2>1. /\ Opened(m) \in PeerStates /\ Opened(m).txn = "open" /\ Opened(m).rcpts = 0
        /\ Opened(m).utf8 = m.utf8 /\ Opened(m).breach = peer.breach
    BY Zenon, <1>2, PeerValues DEF Opened, PeerStates, Messages
  <2>2. Handles(m, "ok", Opened(m))
    BY <1>1, <1>2, <1>3, <1>11, <2>1 DEF Handles, Response, Completing
  <2> QED
    BY <2>2, HandlesKeeps
<1>12. CASE m.verb = "RCPT" /\ peer.txn = "open" /\ Replies("ok", [seen(m) EXCEPT !.rcpts = @ + 1])
  <2> DEFINE after == [seen(m) EXCEPT !.rcpts = @ + 1]
  <2>1. /\ after \in PeerStates /\ after.txn = "open" /\ after.rcpts = peer.rcpts + 1
        /\ after.breach = peer.breach \cup Broken(m) /\ after.utf8 = peer.utf8
    BY <1>2, <1>7, <1>12 DEF PeerStates
  <2>2. "utf8" \notin after.breach
    BY <1>2, <1>6, <1>12, <2>1
  <2> HIDE DEF after
  <2>3. Handles(m, "ok", after)
    BY <1>1, <1>3, <1>12, <2>1, <2>2 DEF Handles, Response, Completing, after
  <2> QED
    BY <2>3, HandlesKeeps
<1>13. CASE m.verb = "DATA" /\ open /\ Replies("go", [seen(m) EXCEPT !.txn = "content"])
  <2> DEFINE after == [seen(m) EXCEPT !.txn = "content"]
  <2>1. /\ after \in PeerStates /\ after.txn = "content" /\ after.rcpts = peer.rcpts
        /\ after.breach = peer.breach \cup Broken(m)
    BY <1>2, <1>7, <1>13 DEF PeerStates
  <2>2. "utf8" \notin after.breach
    BY <1>2, <1>6, <1>13, <2>1
  <2> HIDE DEF after
  <2>3. Handles(m, "go", after)
    BY <1>1, <1>3, <1>13, <2>1, <2>2 DEF Handles, Response, Completing, after
  <2> QED
    BY <2>3, HandlesKeeps
<1>14. CASE m.verb \in {"BDAT", "BURL"} /\ open /\ Replies("ok", [peer EXCEPT !.chunks = TRUE])
  <2> DEFINE after == [peer EXCEPT !.chunks = TRUE]
  <2>1. /\ after \in PeerStates /\ after.txn = peer.txn /\ after.rcpts = peer.rcpts /\ after.breach = peer.breach
        /\ after.utf8 = peer.utf8
    BY Zenon, <1>2 DEF PeerStates
  <2>2. ~Completing(m)
    BY <1>1, <1>14 DEF Completing, Ends
  <2> HIDE DEF after
  <2>3. Handles(m, "ok", after)
    BY <1>1, <1>2, <1>3, <1>14, <2>1, <2>2 DEF Handles, Response, Same, after
  <2> QED
    BY <2>3, HandlesKeeps
<1> QED
  BY <1>1, <1>8, <1>9, <1>10, <1>11, <1>12, <1>13, <1>14

\* The peer refuses a command or ends the session.
LEMMA PeerRefusesKeeps ==
    ASSUME ClientInv, peerRefuses
    PROVE  ClientInv'
<1>1. PICK m \in Range(sent) :
        /\ Peers(m) /\ ~Ends(m)
        /\ \/ m.verb # "QUIT" /\ Replies("no", IF m.verb \in {"BDAT", "BURL"} /\ peer.txn = "open"
                                                 THEN [peer EXCEPT !.txn = "failed"]
                                                 ELSE peer)
           \/ Replies("421", [Cleared EXCEPT !.gone = TRUE])
  BY DEF peerRefuses
<1>2. /\ peer \in PeerStates /\ "utf8" \notin peer.breach /\ (peer.txn = "content" => peer.rcpts > 0)
      /\ m \in Messages
  BY <1>1, PeerTakes DEF ClientInv, Types, PeerInv
<1>3. "no" \in AllCodes /\ "421" \in AllCodes
  BY DEF AllCodes
<1>4. CASE m.verb \in {"BDAT", "BURL"} /\ Replies("no", [peer EXCEPT !.txn = "failed"])
  <2> DEFINE after == [peer EXCEPT !.txn = "failed"]
  <2>1. after \in PeerStates /\ after.txn = "failed" /\ after.breach = peer.breach
    BY <1>2 DEF PeerStates
  <2> HIDE DEF after
  <2>2. Handles(m, "no", after)
    BY <1>1, <1>2, <1>3, <1>4, <2>1 DEF Handles, Response, after
  <2> QED
    BY <2>2, HandlesKeeps
<1>5. CASE Replies("no", peer)
  <2>1. Handles(m, "no", peer)
    BY <1>1, <1>2, <1>3, <1>5 DEF Handles, Response, Same
  <2> QED
    BY <2>1, HandlesKeeps
<1>6. CASE Replies("421", [Cleared EXCEPT !.gone = TRUE])
  <2> DEFINE after == [Cleared EXCEPT !.gone = TRUE]
  <2>1. Cleared \in PeerStates /\ Cleared.txn = "none" /\ Cleared.breach = peer.breach
    BY ClearedPeer DEF ClientInv
  <2>2. after \in PeerStates /\ after.txn = "none" /\ after.breach = peer.breach
    BY Zenon, <2>1 DEF PeerStates
  <2> HIDE DEF after
  <2>3. Handles(m, "421", after)
    BY <1>1, <1>2, <1>3, <1>6, <2>2 DEF Handles, after
  <2> QED
    BY <2>3, HandlesKeeps
<1> QED
  BY <1>1, <1>4, <1>5, <1>6

\* The final replies tell the decisions.
Telling(f) ==
    /\ f.codes \in Seq(AllCodes) /\ f.codes # <<>>
    /\ f.for \in Seq({"ok", "no"}) /\ Len(f.for) = peer.rcpts
    /\ ~config.lmtp =>
          /\ Len(f.codes) = 1
          /\ IF f.codes[1] = "ok" THEN \A i \in 1..peer.rcpts : f.for[i] = "ok"
                                  ELSE \A i \in 1..peer.rcpts : f.for[i] # "ok"
    /\ config.lmtp =>
          \A i \in 1..Len(f.codes) : f.codes[i] # "421" /\ i <= peer.rcpts => (f.codes[i] = "ok" <=> f.for[i] = "ok")

\* Every choice of final replies tells the decisions behind it.
LEMMA FinalsTell ==
    ASSUME ClientInv, peer.rcpts > 0, NEW f \in Finals
    PROVE  Telling(f)
<1> DEFINE k == peer.rcpts
<1>0. k \in Nat /\ k > 0
  BY DEF ClientInv, Types, PeerStates
<1>1. CASE ~config.lmtp
  <2>1. PICK c \in {"ok", "no", "421"}, v \in {"ok", "no"} :
          /\ f = [codes |-> <<c>>, for |-> [i \in 1..k |-> v]]
          /\ c = "ok" <=> v = "ok"
    BY <1>1 DEF Finals
  <2>2. f.codes = <<c>> /\ f.for = [i \in 1..k |-> v]
    BY <2>1
  <2>3. f.codes \in Seq(AllCodes) /\ f.codes # <<>> /\ Len(f.codes) = 1 /\ f.codes[1] = c
    BY <2>2 DEF AllCodes
  <2>4. f.for \in Seq({"ok", "no"}) /\ Len(f.for) = k /\ \A i \in 1..k : f.for[i] = v
    BY <1>0, <2>2
  <2> QED
    BY Zenon, <1>1, <2>1, <2>3, <2>4 DEF Telling
<1>2. CASE config.lmtp
  <2>1. PICK v \in [1..k -> {"ok", "no"}] :
          \/ f = [codes |-> v, for |-> v]
          \/ f = [codes |-> Append(v, "ok"), for |-> v]
          \/ \E j \in 0..(k - 1) : f = [codes |-> Append(SubSeq(v, 1, j), "421"), for |-> v]
    BY <1>2 DEF Finals
  <2>2. v \in Seq({"ok", "no"}) /\ Len(v) = k /\ v \in Seq(AllCodes) /\ f.for = v
    BY <1>0, <2>1 DEF AllCodes
  <2>3. ASSUME NEW q \in Seq(AllCodes), NEW c \in {"ok", "421"}, f.codes = Append(q, c), Len(q) <= k,
               \A i \in 1..Len(q) : q[i] = v[i], c = "ok" => Len(q) = k
        PROVE  Telling(f)
    <3>1. /\ f.codes \in Seq(AllCodes) /\ Len(f.codes) = Len(q) + 1 /\ Len(q) \in Nat
          /\ f.codes[Len(q) + 1] = c /\ f.codes # <<>>
          /\ \A i \in 1..Len(q) : f.codes[i] = q[i]
      <4>1. c \in AllCodes
        BY DEF AllCodes
      <4> QED
        BY <2>3, <4>1, AppendProperties, LenProperties
    <3>2. ASSUME NEW i \in 1..Len(f.codes), f.codes[i] # "421", i <= k
          PROVE  f.codes[i] = "ok" <=> f.for[i] = "ok"
      <4>1. i \in 1..Len(q) \/ i = Len(q) + 1
        BY <3>1
      <4>2. i = Len(q) + 1 => c = "ok" /\ Len(q) = k
        BY <2>3, <3>1, <3>2
      <4>3. i \in 1..Len(q)
        BY <1>0, <3>1, <3>2, <4>1, <4>2
      <4> QED
        BY <2>2, <2>3, <3>1, <4>3
    <3> QED
      BY <1>2, <2>2, <3>1, <3>2 DEF Telling
  <2>4. CASE f = [codes |-> v, for |-> v]
    <3>1. f.codes = v /\ f.for = v /\ v # <<>>
      BY <1>0, <2>2, <2>4, EmptySeq
    <3> QED
      BY <1>2, <2>2, <3>1 DEF Telling
  <2>5. CASE f = [codes |-> Append(v, "ok"), for |-> v]
    <3>1. f.codes = Append(v, "ok") /\ Len(v) <= k
      BY <1>0, <2>2, <2>5
    <3> QED
      BY <2>2, <2>3, <3>1
  <2>6. ASSUME NEW j \in 0..(k - 1), f = [codes |-> Append(SubSeq(v, 1, j), "421"), for |-> v]
        PROVE  Telling(f)
    <3>1. f.codes = Append(SubSeq(v, 1, j), "421")
      BY <2>6
    <3>2. \A i \in 1..j : v[i] \in AllCodes
      BY <1>0 DEF AllCodes
    <3>3. /\ SubSeq(v, 1, j) \in Seq(AllCodes) /\ Len(SubSeq(v, 1, j)) = j
          /\ \A i \in 1..j : SubSeq(v, 1, j)[i] = v[i]
      <4>1. j \in Int /\ 1 \in Int /\ j - 1 + 1 = j /\ j >= 0
        BY <1>0
      <4>2. /\ SubSeq(v, 1, j) \in Seq(AllCodes) /\ Len(SubSeq(v, 1, j)) = IF 1 <= j THEN j - 1 + 1 ELSE 0
            /\ \A i \in 1..(j - 1 + 1) : SubSeq(v, 1, j)[i] = v[1 + i - 1]
        BY <3>2, <4>1, SubSeqProperties
      <4>3. \A i \in 1..j : 1 + i - 1 = i
        BY <4>1
      <4> QED
        BY <4>1, <4>2, <4>3
    <3>4. Len(SubSeq(v, 1, j)) <= k
      BY <1>0, <3>3
    <3> QED
      BY Zenon, <2>3, <3>1, <3>3, <3>4
  <2> QED
    BY <2>1, <2>4, <2>5, <2>6
<1> QED
  BY <1>1, <1>2

\* The peer decides on the message and sends its final replies.
LEMMA PeerDecidesKeeps ==
    ASSUME ClientInv, peerDecides
    PROVE  ClientInv'
<1> DEFINE d(gone, breach) == [Cleared EXCEPT !.gone = gone, !.breach = breach]
<1>1. PICK m \in Range(sent), f \in Finals :
        /\ Peers(m) /\ Ends(m) /\ replies' = replies \o f.codes /\ verdict' = f.for
        /\ peer' = [Cleared EXCEPT
                      !.gone = "421" \in Range(f.codes),
                      !.breach = IF peer.leftover /\ "ok" \in Range(f.for)
                                   THEN @ \cup {"spliced"} ELSE @]
  BY Zenon DEF peerDecides
<1>2. /\ m \in Messages /\ m = sent[1] /\ sent # <<>> /\ Len(sent) \in Nat /\ Len(sent) >= 1
      /\ sent' \in Seq(Messages) /\ Len(sent') = Len(sent) - 1
      /\ \A i \in 1..Len(sent') : sent'[i] = sent[i + 1] /\ i + 1 \in 1..Len(sent)
      /\ Len(sent) = 1 => sent' = <<>>
      /\ UNCHANGED <<config, state, base, recipients, smtpUTF8, binaryMIME, call, waiting, cancelled, outcome>>
      /\ CallInv' /\ (Quiet => Quiet' /\ ~Completing(m))
      /\ call.stage \in {"write", "read"} => m.verb = call.op /\ m.last = call.last /\ m.utf8 = call.utf8
      /\ call.stage \notin {"content", "chunk"}
  BY <1>1, PeerTakes
<1>3. Completing(m) /\ m.verb # "RCPT" /\ ~Quiet /\ peer.rcpts > 0
  BY <1>1, <1>2 DEF Ends, Completing, ClientInv, PeerInv
<1>4. Telling(f)
  BY <1>3, FinalsTell
<1>5. /\ f.codes \in Seq(AllCodes) /\ f.codes # <<>> /\ f.for \in Seq({"ok", "no"}) /\ Len(f.for) = peer.rcpts
      /\ replies \in Seq(AllCodes) /\ peer.rcpts \in Nat
  BY <1>4 DEF Telling, ClientInv, Types, PeerStates
<1>6. replies' \in Seq(AllCodes) /\ replies' # <<>> /\ (replies = <<>> => replies' = f.codes)
  BY <1>1, <1>5, ConcatProperties, ConcatEmptySeq, ConcatEqualIffEmpty
<1>7. peer' \in PeerStates /\ peer'.txn = "none" /\ "utf8" \notin peer'.breach
  <2>1. /\ Cleared \in PeerStates /\ Cleared.txn = "none" /\ Cleared.breach = peer.breach
        /\ "utf8" \notin peer.breach /\ peer.breach \subseteq {"utf8", "binary", "spliced"}
    BY ClearedPeer DEF ClientInv, PeerInv, Types, PeerStates
  <2>2. ASSUME NEW gone \in BOOLEAN, NEW breach \in SUBSET {"utf8", "binary", "spliced"}
        PROVE  d(gone, breach) \in PeerStates /\ d(gone, breach).txn = "none" /\ d(gone, breach).breach = breach
    BY Zenon, <2>1 DEF PeerStates
  <2> DEFINE gone == "421" \in Range(f.codes)
             breach == IF peer.leftover /\ "ok" \in Range(f.for) THEN peer.breach \cup {"spliced"} ELSE peer.breach
  <2>3. peer' = d(gone, breach)
    BY <1>1, <2>1
  <2>4. gone \in BOOLEAN /\ breach \in {peer.breach, peer.breach \cup {"spliced"}}
    OBVIOUS
  <2> HIDE DEF d, gone, breach
  <2>5. breach \in SUBSET {"utf8", "binary", "spliced"} /\ "utf8" \notin breach
    BY <2>1, <2>4
  <2> QED
    BY <2>2, <2>3, <2>4, <2>5
<1>8. Types'
  BY <1>1, <1>2, <1>5, <1>6, <1>7 DEF ClientInv, Types
<1>9. PeerInv'
  <2>1. call.op # "RCPT"
    BY Zenon, <1>2, <1>3, IdleCall DEF ClientInv, CallInv, Types, Calls, Stages
  <2>2. ASSUME NEW i \in 1..Len(sent') PROVE sent'[i].verb # "RCPT"
    <3>1. i + 1 \in 1..Len(sent) /\ sent'[i] = sent[i + 1] /\ 1 \in 1..Len(sent)
      BY <1>2
    <3> QED
      BY Zenon, <1>2, <1>3, <3>1 DEF ClientInv, PeerInv
  <2> QED
    BY <1>2, <1>7, <2>1, <2>2 DEF PeerInv
<1>10. outcome.status = "running" => Ending
  BY <1>3 DEF ClientInv, OutcomeInv
<1>11. outcome.status \in {"running", "unknown"} /\ (outcome.status = "unknown" => outcome.result = <<>>)
  BY <1>3 DEF ClientInv, OutcomeInv, Types, Outcomes
<1>12. CASE outcome.status # "running"
  <2>1. call.stage = "idle"
    <3>1. call.op \notin Content
      BY <1>12 DEF ClientInv, CallInv
    <3>2. call.stage \notin {"write", "read"}
      BY SMTT(20), <1>2, <1>3, <3>1 DEF Completing, Content, ClientInv, CallInv, Types, Calls, Operations
    <3> QED
      BY <1>2, <3>1, <3>2 DEF Content, ClientInv, CallInv, Types, Calls, Stages
  <2>2. WireInv'
    <3>1. cancelled \/ state = "closed"
      BY <1>2, <2>1 DEF ClientInv, WireInv
    <3>2. call.op # "RCPT"
      BY SMTT(20), <1>12, <2>1, IdleCall DEF ClientInv, CallInv
    <3> QED
      BY <1>2, <2>1, <3>1, <3>2 DEF WireInv
  <2>3. AgreeInv'
    BY SMTT(20), <1>2, <1>6, <2>1 DEF AgreeInv, Followed
  <2>4. OutcomeInv'
    BY <1>2, <1>11, <1>12, UnknownOutcome
  <2> QED
    BY SMTT(20), <1>2, <1>8, <1>9, <2>2, <2>3, <2>4 DEF ClientInv
<1>13. CASE outcome.status = "running"
  <2>1. /\ verdict = <<>> /\ call.got = <<>> /\ call.op \in Content /\ state # "closed" /\ Followed /\ Ending
        /\ call.stage \in {"final", "read"} /\ (call.stage = "read" => call.op = "BURL" /\ call.last)
    BY Zenon, <1>2, <1>10, <1>13 DEF ClientInv, OutcomeInv, CallInv, Followed, Ending
  <2>2. Len(sent) = 1 /\ replies = <<>>
    <3>1. CASE call.stage = "final"
      BY <1>2, <3>1 DEF ClientInv, WireInv
    <3>2. CASE call.stage = "read"
      <4>1. /\ call.w <= call.n /\ call.w = call.r + Len(sent) + Len(replies) /\ call.n = 1 /\ call.r = 0
            /\ call.w \in Nat /\ Len(replies) \in Nat
        BY <2>1, <3>2, LenProperties DEF ClientInv, WireInv, Types, Calls
      <4>2. \A a, b \in Nat : a >= 1 /\ 0 + a + b <= 1 => a = 1 /\ b = 0
        OBVIOUS
      <4>3. 0 + Len(sent) + Len(replies) <= 1
        BY <4>1
      <4>4. Len(sent) = 1 /\ Len(replies) = 0
        BY <1>2, <4>1, <4>2, <4>3
      <4> QED
        BY <1>5, <4>4, EmptySeq
    <3> QED
      BY <2>1, <3>1, <3>2
  <2>3. sent' = <<>> /\ replies' = f.codes /\ verdict' = f.for
    BY <1>1, <1>2, <1>6, <2>2
  <2>4. peer.rcpts = Expected /\ (call.stage = "final" => call.r = 0)
    <3>1. CASE call.stage = "final"
      <4>1. /\ call.n = recipients /\ call.r = 0 /\ recipients \in Nat /\ call.op \in {"DATA", "BDAT"}
            /\ IF call.op = "DATA" THEN peer.rcpts = recipients ELSE Settled(0)
        BY <1>2, <2>1, <3>1 DEF ClientInv, AgreeInv, CallInv, Types
      <4>2. m.verb = IF call.op = "DATA" THEN "." ELSE "BDAT"
        BY Zenon, <1>2, <3>1 DEF ClientInv, WireInv
      <4>3. call.op = "BDAT" => peer.rcpts = recipients
        BY <1>1, <4>1, <4>2 DEF Ends, Settled
      <4> QED
        BY SMTT(20), <4>1, <4>3 DEF Expected
    <3>2. CASE call.stage = "read"
      <4>1. Settled(0) /\ recipients \in Nat /\ m.verb = "BURL"
        BY Zenon, <1>2, <2>1, <3>2 DEF ClientInv, AgreeInv, Types
      <4>2. peer.rcpts = recipients
        BY <1>1, <4>1 DEF Ends, Settled
      <4> QED
        BY SMTT(20), <2>1, <3>2, <4>2 DEF Expected
    <3> QED
      BY <2>1, <3>1, <3>2
  <2>5. WireInv'
    <3>1. CASE call.stage = "final"
      <4>1. call.r = Len(call.got) /\ call.op # "RCPT"
        BY <2>1, <3>1 DEF ClientInv, WireInv, Content
      <4> QED
        BY Zenon, <1>2, <1>6, <2>3, <3>1, <4>1 DEF WireInv
    <3>2. CASE call.stage = "read"
      <4>1. ~config.lmtp /\ Len(replies') = 1 /\ Len(sent') = 0
        BY <1>4, <2>1, <2>3, <3>2, EmptySeq DEF ClientInv, CallInv, Telling
      <4>2. /\ call.r < call.w /\ call.w <= call.n /\ call.w = call.r + Len(sent) + Len(replies)
            /\ call.n = 1 /\ call.r = 0 /\ Len(replies) = 0
        BY <2>1, <2>2, <3>2, EmptySeq DEF ClientInv, WireInv
      <4>3. call.w = call.r + Len(sent') + Len(replies')
        BY <2>2, <4>1, <4>2
      <4> QED
        BY SMTT(20), <1>2, <2>1, <2>3, <3>2, <4>1, <4>2, <4>3 DEF WireInv
    <3> QED
      BY SMTT(20), <2>1, <3>1, <3>2
  <2>6. AgreeInv'
    <3>1. call.stage = "read" => Answer(replies[1])' /\ peer'.txn \in {"none", "failed"}
      BY <1>2, <1>7, <2>1 DEF Answer
    <3>2. call'.op # "RCPT" /\ call'.stage \in {"final", "read"} /\ call' = call
      BY <1>2, <2>1 DEF Content
    <3> QED
      BY <1>7, <2>3, <3>1, <3>2 DEF AgreeInv
  <2>7. OutcomeInv'
    <3>1. Ending' /\ Expected' = Expected /\ outcome'.status = "running" /\ config' = config /\ call' = call
      BY <1>2, <1>13, <2>1 DEF Ending, Expected
    <3>2. Len(verdict') = Expected /\ verdict' \in Seq({"ok", "no"}) /\ Expected \in Nat /\ Expected > 0
      BY <1>3, <1>5, <2>3, <2>4
    <3>3. ~config.lmtp => SmtpAnswer'
      <4>1. ~config.lmtp =>
              /\ Len(replies') = 1
              /\ IF replies'[1] = "ok" THEN \A i \in 1..Expected : verdict'[i] = "ok"
                                       ELSE \A i \in 1..Len(verdict') : verdict'[i] # "ok"
        BY <1>4, <2>3, <2>4, <3>2 DEF Telling
      <4> QED
        BY SMTT(20), <2>1, <3>1, <3>2, <4>1 DEF SmtpAnswer, NoneTaken
    <3>4. config.lmtp => LmtpAnswers'
      <4>1. SUFFICES ASSUME config.lmtp PROVE LmtpAnswers'
        OBVIOUS
      <4>2. \A i \in 1..Len(replies') : replies'[i] # "421" /\ i <= Expected => (replies'[i] = "ok" <=> verdict'[i] = "ok")
        BY <1>4, <2>3, <2>4, <4>1 DEF Telling
      <4>3. DOMAIN verdict' = 1..Expected
        BY <3>2, LenProperties
      <4>4. call'.got = <<>> /\ Len(call'.got) = 0
        BY <2>1, <3>1, EmptySeq
      <4>5. \A i \in 1..Len(replies') : i \in Nat /\ 0 + i = i /\ (i <= Expected => i \in 1..Expected)
        BY <1>6, <3>2, LenProperties
      <4>6. \A i \in 1..Len(replies') : replies'[i] # "421" /\ 0 + i <= Expected =>
              (replies'[i] = "ok" <=> 0 + i \in DOMAIN verdict' /\ verdict'[0 + i] = "ok")
        BY <4>2, <4>3, <4>5
      <4> QED
        BY <3>1, <3>2, <4>4, <4>6 DEF LmtpAnswers, Taken
    <3>5. Len(verdict') <= Expected' /\ call'.got = <<>>
      BY <2>1, <3>1, <3>2
    <3> QED
      BY <2>3, <3>1, <3>3, <3>4, <3>5 DEF OutcomeInv
  <2> QED
    BY <1>2, <1>8, <1>9, <2>5, <2>6, <2>7 DEF ClientInv
<1> QED
  BY <1>12, <1>13

=============================================================================
