---------------------------- MODULE Transparency ----------------------------
(***************************************************************************)
(* internal/smtpwire/dotstuff.go: DotStuffWriter, the network and          *)
(* DotUnstuffReader as one pipe.  The caller's Writes, the network's       *)
(* segments and the receiver's Reads may be cut anywhere; the connection   *)
(* may be lost anywhere.  A second kind of sender ("foreign") puts octets  *)
(* on the wire without a DotStuffWriter, as other implementations do.      *)
(* Octets are abstracted to CR, LF, dot and one other.                     *)
(***************************************************************************)
EXTENDS Integers, Sequences

CONSTANTS
    MaxContent,  \* bound: octets the caller writes
    MaxRaw,      \* bound: octets a foreign sender puts on the wire
    MaxChunk,    \* bound: len(p) of one Write
    MaxRead      \* bound: len(p) of one Read

ASSUME BoundsAssumption == {MaxContent, MaxRaw, MaxChunk, MaxRead} \subseteq Nat

VARIABLES
    sender,      \* "writer" or "foreign"
    content,     \* history: the octets passed to Write
    writer,      \* DotStuffWriter, with the octets it has put on the wire
    text,        \* history: what those octets say, and whether to the end
    following,   \* history: octets sent after Close, the next command
    arrived,     \* how many octets the network has delivered
    cut,         \* the connection is gone; nothing more arrives
    reader,      \* DotUnstuffReader, with the octets it has consumed
    out,         \* history: the octets Read has returned
    status       \* what Read last returned: "more" for nil, or its error

vars == <<sender, content, writer, text, following, arrived, cut, reader, out, status>>

Octets == {"CR", "LF", ".", "x"}
CRLF == <<"CR", "LF">>
Terminator == <<".", "CR", "LF">>
raw == writer.w

(***************************************************************************)
(* Reference definitions, over whole streams rather than octet by octet.   *)
(* (Min, Last and IsPrefix are those of the community modules, and Joined  *)
(* is FlattenSeq.  The modules are not extended here, because a proof      *)
(* carries all they define and state through every step.)                  *)
(***************************************************************************)
Min(S) == CHOOSE i \in S : \A j \in S : i <= j

Last(s) == s[Len(s)]

IsPrefix(s, t) == Len(s) <= Len(t) /\ \A i \in 1..Len(s) : s[i] = t[i]

\* The sequences of ss, one after the other.
Joined(ss) ==
    LET upto[k \in 0..Len(ss)] == IF k = 0 THEN <<>> ELSE upto[k - 1] \o ss[k]
    IN  upto[Len(ss)]

\* The caller's content with every CR, LF or CRLF turned into one CRLF.
Normalised(s) ==
    Joined([i \in DOMAIN s |->
        IF s[i] = "LF" /\ i > 1 /\ s[i - 1] = "CR" THEN <<>>
        ELSE IF s[i] \in {"CR", "LF"} THEN CRLF
        ELSE <<s[i]>>])

\* ... and with the last line terminated, as it stands once Close has run.
Complete(s) ==
    LET n == Normalised(s) IN IF n # <<>> /\ Last(n) # "LF" THEN n \o CRLF ELSE n

LineStart(s, i) == i = 1 \/ s[i - 1] = "LF"

\* The dots of a stream that stand at the start of a line.
StartDots(s) == {i \in DOMAIN s : s[i] = "." /\ LineStart(s, i)}

Unstuffed(s) ==
    Joined([i \in DOMAIN s |-> IF i \in StartDots(s) THEN <<>> ELSE <<s[i]>>])

Matches(s, i, pattern) ==
    i + Len(pattern) - 1 <= Len(s) /\ SubSeq(s, i, i + Len(pattern) - 1) = pattern

\* Line-start dots that cannot be stuffed ones: a terminator, or an error.
EndDots(s) == {i \in StartDots(s) : i < Len(s) /\ s[i + 1] \in {"CR", "LF"}}

Body(s) ==
    LET ends == EndDots(s)
    IN  IF ends = {} THEN s ELSE SubSeq(s, 1, Min(ends) - 1)

Terminated(s) ==
    Body(s) # s /\ Matches(s, Len(Body(s)) + 1, Terminator)

Text(s) == [sent |-> Unstuffed(Body(s)), complete |-> Terminated(s)]

Ambiguous(s) ==
    \E i \in DOMAIN s :
        \/ Matches(s, i, <<"CR", ".", "LF">>)
        \/ Matches(s, i, <<"CR", ".", "CR", "LF">>)

\* The sender's state becomes d.
Sends(d) == writer' = d /\ text' = Text(d.w)

(***************************************************************************)
(* DotStuffWriter.                                                         *)
(***************************************************************************)
NewDotStuffWriter ==
    [w |-> <<>>, pendingCR |-> FALSE, atLineStart |-> TRUE,
     wroteAny |-> FALSE, lastByte |-> "none", closed |-> FALSE]

Emit(d, octets, startsLine) ==
    [d EXCEPT !.w = @ \o octets, !.atLineStart = startsLine,
              !.wroteAny = TRUE, !.lastByte = Last(octets)]

emitCRLF(d) == Emit([d EXCEPT !.pendingCR = FALSE], CRLF, TRUE)

emitLiteral(d, b) ==
    Emit(d, IF d.atLineStart /\ b = "." THEN <<".", ".">> ELSE <<b>>, FALSE)

\* One octet of Write's loop.  A held CR ends a line either way: a
\* following LF is absorbed, anything else is looked at again.
WriteOctet(d, b) ==
    LET e == IF d.pendingCR THEN emitCRLF(d) ELSE d
    IN  CASE d.pendingCR /\ b = "LF" -> e
          [] ~d.pendingCR /\ b = "LF" -> emitCRLF(e)
          [] b = "CR" -> [e EXCEPT !.pendingCR = TRUE]
          [] OTHER    -> emitLiteral(e, b)

WriteLoop(d, p) ==
    LET after[i \in 0..Len(p)] == IF i = 0 THEN d ELSE WriteOctet(after[i - 1], p[i])
    IN  after[Len(p)]

Write(p) ==
    /\ sender = "writer"
    /\ ~writer.closed
    /\ Len(content) + Len(p) <= MaxContent
    /\ Sends(WriteLoop(writer, p))
    /\ content' = content \o p
    /\ UNCHANGED <<sender, following, arrived, cut, reader, out, status>>

\* Mutant: Close forgets the held CR.
CloseForgetsCR ==
    /\ sender = "writer"
    /\ ~writer.closed
    /\ LET e == [writer EXCEPT !.pendingCR = FALSE]
           f == IF e.wroteAny /\ e.lastByte # "LF" THEN emitCRLF(e) ELSE e
       IN  Sends([f EXCEPT !.closed = TRUE, !.w = @ \o Terminator])
    /\ UNCHANGED <<sender, content, following, arrived, cut, reader, out, status>>

\* Mutant: the terminator is written only when the content had no last line.
CloseWithoutDot ==
    /\ sender = "writer"
    /\ ~writer.closed
    /\ LET e == IF writer.pendingCR THEN emitCRLF(writer) ELSE writer
       IN  IF e.wroteAny /\ e.lastByte # "LF"
           THEN Sends([emitCRLF(e) EXCEPT !.closed = TRUE])
           ELSE Sends([e EXCEPT !.closed = TRUE, !.w = @ \o Terminator])
    /\ UNCHANGED <<sender, content, following, arrived, cut, reader, out, status>>

Close ==
    /\ sender = "writer"
    /\ ~writer.closed
    /\ LET e == IF writer.pendingCR THEN emitCRLF(writer) ELSE writer
           f == IF e.wroteAny /\ e.lastByte # "LF" THEN emitCRLF(e) ELSE e
       IN  Sends([f EXCEPT !.closed = TRUE, !.w = @ \o Terminator])
    /\ UNCHANGED <<sender, content, following, arrived, cut, reader, out, status>>

\* After Close the client goes on with its next command.
NextCommand ==
    /\ sender = "writer"
    /\ writer.closed
    /\ following = <<>>
    /\ \E b \in {".", "x"} : following' = <<b>> /\ Sends([writer EXCEPT !.w = Append(@, b)])
    /\ UNCHANGED <<sender, content, arrived, cut, reader, out, status>>

\* A peer that is not a DotStuffWriter sends any octets at all.  What it
\* has sent and has not arrived is of no consequence, so it sends an octet
\* when the octet arrives.
ForeignOctet(b) ==
    /\ sender = "foreign"
    /\ ~cut
    /\ Len(raw) < MaxRaw
    /\ Sends([writer EXCEPT !.w = Append(@, b)])
    /\ arrived' = arrived + 1
    /\ UNCHANGED <<sender, content, following, cut, reader, out, status>>

(***************************************************************************)
(* The network: octets arrive in order, and the connection may be lost     *)
(* between any two of them.  A read deadline that expires has the same     *)
(* effect on the reader as a loss.                                         *)
(***************************************************************************)
Arrive ==
    /\ ~cut
    /\ arrived < Len(raw)
    /\ arrived' = arrived + 1
    /\ UNCHANGED <<sender, content, writer, text, following, cut, reader, out, status>>

Lose ==
    /\ ~cut
    /\ cut' = TRUE
    /\ UNCHANGED <<sender, content, writer, text, following, arrived, reader, out, status>>

\* What ReadByte or Peek finds at position i of the stream.
Octet(i) ==
    CASE i <= arrived        -> raw[i]
      [] i > arrived /\ cut  -> "EOF"
      [] i > arrived /\ ~cut -> "wait"

(***************************************************************************)
(* DotUnstuffReader.  One iteration of Read's loop either blocks, takes an *)
(* octet, drops a stuffed dot, or fails: fail records the end of the       *)
(* stream, clean (EOF) or not, for the call that has nothing to return.    *)
(***************************************************************************)
Errors == {"EOF", "unexpectedEOF", "malformedTerminator", "bareLFTerminator"}

NewDotUnstuffReader ==
    [consumed |-> 0, atLineStart |-> TRUE, previousCR |-> FALSE,
     done |-> FALSE, err |-> "none", p |-> <<>>, blocked |-> FALSE]

fail(r, used, err) ==
    [r EXCEPT !.consumed = @ + used, !.done = TRUE, !.err = err]

Block(r) == [r EXCEPT !.blocked = TRUE]

take(r, b) ==
    [r EXCEPT !.consumed = @ + 1, !.p = Append(@, b),
              !.atLineStart = b = "LF", !.previousCR = b = "CR"]

consumeTerminatorTail(r, tail) ==
    CASE tail = "wait" -> Block(r)
      [] tail = "EOF"  -> fail(r, 2, "unexpectedEOF")
      [] tail = "LF"   -> fail(r, 3, "EOF")
      [] OTHER         -> fail(r, 3, "malformedTerminator")

LineStartDot(r, peek, tail) ==
    CASE peek = "wait" -> Block(r)
      [] peek = "EOF"  -> fail(r, 1, "unexpectedEOF")
      [] peek = "CR"   -> consumeTerminatorTail(r, tail)
      [] peek = "LF"   -> fail(r, 1, "bareLFTerminator")
      [] OTHER         -> [r EXCEPT !.consumed = @ + 1, !.atLineStart = FALSE]

BareCRDot(r, peek, tail) ==
    CASE peek = "wait" -> Block(r)
      [] peek = "EOF"  -> fail(r, 1, "unexpectedEOF")
      [] peek = "LF"   -> fail(r, 1, "malformedTerminator")
      [] peek = "CR" /\ tail = "wait" -> Block(r)
      [] peek = "CR" /\ tail = "EOF"  -> fail(r, 1, "unexpectedEOF")
      [] peek = "CR" /\ tail = "LF"   -> fail(r, 1, "malformedTerminator")
      [] OTHER         -> take(r, ".")

\* Mutant: previousCR is not looked at.
ReadIterationNoCR(r) ==
    LET b    == Octet(r.consumed + 1)
        peek == Octet(r.consumed + 2)
        tail == Octet(r.consumed + 3)
    IN  CASE b = "wait" -> Block(r)
          [] b = "EOF"  -> fail(r, 0, "unexpectedEOF")
          [] b = "." /\ r.atLineStart -> LineStartDot(r, peek, tail)
          [] OTHER      -> take(r, b)

ReadIteration(r) ==
    LET b    == Octet(r.consumed + 1)
        peek == Octet(r.consumed + 2)
        tail == Octet(r.consumed + 3)
    IN  CASE b = "wait" -> Block(r)
          [] b = "EOF"  -> fail(r, 0, "unexpectedEOF")
          [] b = "." /\ r.atLineStart -> LineStartDot(r, peek, tail)
          [] b = "." /\ ~r.atLineStart /\ r.previousCR -> BareCRDot(r, peek, tail)
          [] OTHER      -> take(r, b)

Readers ==
    [consumed : Nat, atLineStart : BOOLEAN, previousCR : BOOLEAN, done : BOOLEAN,
     err : {"none"} \union Errors, p : Seq(Octets), blocked : BOOLEAN]

\* The loop of Read, until p is full, the stream ends or the call blocks.
\* Every iteration but the last consumes an octet.
ReadLoop(r, n) ==
    LET turn  == [q \in Readers |->
                     IF q.done \/ q.blocked \/ Len(q.p) = n THEN q ELSE ReadIteration(q)]
        turns == arrived - r.consumed + 1
        after[k \in 0..turns] == IF k = 0 THEN r ELSE turn[after[k - 1]]
    IN  after[turns]

\* Mutant: a Read that returns octets also hands over the error it met.
ReadEager(n) ==
    /\ status = "more"
    /\ LET r == ReadLoop(reader, n)
       IN  /\ ~r.blocked
           /\ reader' = [r EXCEPT !.p = <<>>]
           /\ out' = IF r.done THEN out ELSE out \o r.p
           /\ status' = IF r.done THEN r.err ELSE "more"
    /\ UNCHANGED <<sender, content, writer, text, following, arrived, cut>>

\* Read returns once it has filled p or has met the end of the stream; a
\* call that blocks is taken to run when the octets it waits for are there.
Read(n) ==
    /\ status = "more"
    /\ LET r == ReadLoop(reader, n)
       IN  /\ ~r.blocked
           /\ reader' = [r EXCEPT !.p = <<>>]
           /\ out' = out \o r.p
           /\ status' = IF r.done /\ r.p = <<>> THEN r.err ELSE "more"
    /\ UNCHANGED <<sender, content, writer, text, following, arrived, cut>>

Init ==
    /\ sender \in {"writer", "foreign"}
    /\ content = <<>>
    /\ writer = NewDotStuffWriter
    /\ text = Text(<<>>)
    /\ following = <<>>
    /\ arrived = 0
    /\ cut = FALSE
    /\ reader = NewDotUnstuffReader
    /\ out = <<>>
    /\ status = "more"

Chunks == UNION {[1..n -> Octets] : n \in 1..MaxChunk}

Next ==
    \/ \E p \in Chunks : Write(p)
    \/ Close
    \/ NextCommand
    \/ \E b \in Octets : ForeignOctet(b)
    \/ Arrive
    \/ Lose
    \/ \E n \in 1..MaxRead : Read(n)

Spec == Init /\ [][Next]_vars

(***************************************************************************)
(* The network delivers what was sent or the connection is lost, and the   *)
(* server keeps reading until it is told of the end.                       *)
(***************************************************************************)
Fairness ==
    /\ WF_vars(Arrive)
    /\ WF_vars(\E n \in 1..MaxRead : Read(n))

FairSpec == Spec /\ Fairness

(***************************************************************************)
(* Properties.                                                             *)
(***************************************************************************)
\* The type of the pipe: nothing is consumed before it arrived, nothing
\* arrives before it was sent.
TypeOK ==
    /\ sender \in {"writer", "foreign"}
    /\ content \in Seq(Octets)
    /\ writer.w \in Seq(Octets)
    /\ following \in Seq(Octets)
    /\ arrived \in 0..Len(raw)
    /\ cut \in BOOLEAN
    /\ reader.consumed \in 0..arrived
    /\ out \in Seq(Octets)
    /\ status \in {"more"} \union Errors

(***************************************************************************)
(* Content is exact: whatever the cuts of Write, network and Read, what    *)
(* Read returns is a prefix of the caller's content with its line endings  *)
(* normalised, and a clean end is reported only after Close and only when  *)
(* all of it, with a terminated last line, has been returned.  A stream    *)
(* that a DotStuffWriter produced is never called malformed.  The octets   *)
(* of the next command stay in the LineReader's buffer: a reader that has  *)
(* met the terminator has consumed it and nothing more.                    *)
(***************************************************************************)
ContentExact ==
    sender = "writer" =>
        /\ IsPrefix(out, Complete(content))
        /\ status = "EOF" => writer.closed /\ out = Complete(content)
        /\ status \notin {"malformedTerminator", "bareLFTerminator"}
        /\ reader.err = "EOF" => SubSeq(raw, reader.consumed + 1, Len(raw)) = following

(***************************************************************************)
(* Framing is a function of the octets alone, from any sender: what Read   *)
(* has returned is the un-stuffed text of what it consumed, a message ends *)
(* cleanly exactly at the first line-start dot followed by CRLF, and no    *)
(* message that ended cleanly holds CR . LF or CR . CRLF (lines 45-52).    *)
(***************************************************************************)
FramingExact ==
    LET seen == SubSeq(raw, 1, reader.consumed)
    IN  /\ ~reader.done => out = Unstuffed(seen) /\ ~Terminated(seen)
        /\ status = "EOF" =>
              /\ seen = Body(seen) \o Terminator
              /\ out = Unstuffed(Body(seen))
              /\ ~Ambiguous(Body(seen))

\* The pipe implements the abstract content channel, for any sender.
Channel ==
    INSTANCE ContentChannel WITH
        sent     <- text.sent,
        complete <- text.complete,
        got      <- out,
        told     <- status

(***************************************************************************)
(* Refinement: every step of writer, network and reader is a step of the   *)
(* content channel or changes nothing it shows.                            *)
(***************************************************************************)
ImplementsChannel == Channel!Spec

(***************************************************************************)
(* Once Close has run, the receiver is told of an end, clean or not.       *)
(***************************************************************************)
EndIsReported == writer.closed ~> (status # "more")
=============================================================================
