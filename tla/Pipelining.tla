----------------------------- MODULE Pipelining -----------------------------
(***************************************************************************)
(* The two ends of command pipelining over one TCP connection of limited   *)
(* windows: the client's pipeline (smtpclient/pipeline.go), which writes a *)
(* group of commands and reads the replies in issue order, and the         *)
(* server's command loop (smtpserver/loop.go), which reads ahead, collects *)
(* replies in a bufio.Writer and flushes them.  Command lines arrive in    *)
(* parts; DATA content and BDAT octets share the stream with the commands. *)
(* The peer may also be one that pipelines BDAT chunks and reads replies   *)
(* whenever it likes, as RFC 2920 and RFC 3030 allow.  The session has     *)
(* been greeted with EHLO and offers CHUNKING.                             *)
(***************************************************************************)
EXTENDS Integers, Sequences, FiniteSets

CONSTANTS
    MaxCommands,   \* bound: commands the peer issues
    Depth,         \* maxPipelineDepth
    ChunkSize,     \* octets of one BDAT chunk or of DATA content
    Window,        \* parts the network holds towards the server
    ReplyWindow,   \* replies the network holds towards the client
    ReplyBuffer,   \* replies the server's bufio.Writer holds
    Styles         \* "group": reads after writing; "any": reads at any time

\* A group's replies fit where the server can put them without the client.
ASSUME WindowAssumption ==
    /\ {MaxCommands, Depth, ChunkSize, Window, ReplyWindow, ReplyBuffer} \subseteq Nat \ {0}
    /\ Depth <= ReplyWindow + ReplyBuffer
    /\ Styles \subseteq {"group", "any"}

VARIABLES
    style,      \* how this peer reads
    issued,     \* how many commands have been begun
    owed,       \* those of them without a reply, in order; "content" follows a 354
    chunked,    \* the transaction has used BDAT
    unsent,     \* parts of the last command still to be written
    group,      \* commands of the group written so far
    draining,   \* the client has begun to read the group's replies
    answer,     \* the reply it read last
    toServer,   \* the network, towards the server
    buffered,   \* LineReader's buffer
    pc,         \* commandLoop.run: where it is
    after,      \* where it goes on once Flush is done
    verb,       \* the command being executed
    remaining,  \* content parts still to be read
    phase,      \* protocolState.phase, from "ready" on
    spool,      \* chunks in sessionLifecycle.spool
    pending,    \* replies in the bufio.Writer
    toClient,   \* the network, towards the client
    acked,      \* history: chunks of this transaction answered 250
    lost,       \* history: a message was accepted without an acknowledged chunk
    misread     \* history: content was read as a command line

client  == <<style, issued, owed, chunked, unsent, group, draining, answer>>
session == <<phase, spool, acked, lost>>
vars    == <<client, toServer, buffered, pc, after, verb, remaining, session,
             pending, toClient, misread>>

Verbs == {"MAIL", "RCPT", "DATA", "BDAT", "LAST", "RSET", "NOOP", "QUIT", "BAD"}
Chunks == {"BDAT", "LAST"}

\* What a command or a content puts on the wire.
Repeat(part, n) == [i \in 1..n |-> part]
Parts(v) ==
    CASE v \in Chunks   -> <<<<"part", v>>, <<"line", v>>>> \o Repeat(<<"octet", v>>, ChunkSize)
      [] v = "content"  -> Append(Repeat(<<"octet", v>>, ChunkSize), <<"dot", v>>)
      [] OTHER          -> <<<<"part", v>>, <<"line", v>>>>

(***************************************************************************)
(* The client.  A group ends at a synchronisation point or at the depth    *)
(* bound; the next one starts when every reply has been read.              *)
(***************************************************************************)
isSyncPoint(v) == v \in {"DATA", "QUIT", "NOOP", "content"}

\* A peer that reads while it writes needs no bound on its groups.
GroupRoom ==
    owed # <<>> => ~isSyncPoint(owed[Len(owed)]) /\ (style = "any" \/ group < Depth)

\* RFC 3030: a transaction that has used BDAT does not go on with DATA.  RSET
\* and LAST end it, whatever the reply; MAIL does once it is accepted.
chunkedAfter(v) == v = "BDAT" \/ (chunked /\ v \notin {"RSET", "LAST"})
chunkedUpon(reply, rest) ==
    chunked /\ (reply = <<"MAIL", 250>> => \E i \in DOMAIN rest : rest[i] = "BDAT")

\* executeLocked begins the next command of a group; a peer that has been
\* answered 354 begins the content.
Begin(v) ==
    /\ unsent = <<>>
    /\ ~draining
    /\ pc # "closed"
    /\ GroupRoom
    /\ IF owed = <<>> /\ answer = <<"DATA", 354>>
       THEN v = "content" /\ UNCHANGED issued
       ELSE /\ v \in Verbs
            /\ v = "DATA" => ~chunked
            /\ issued < MaxCommands
            /\ issued' = issued + 1
    /\ owed' = Append(owed, v)
    /\ chunked' = chunkedAfter(v)
    /\ unsent' = Parts(v)
    /\ group' = IF owed = <<>> THEN 1 ELSE group + 1
    /\ UNCHANGED <<style, draining, answer, toServer, buffered, pc, after, verb,
                   remaining, session, pending, toClient, misread>>

\* The transport takes the next part when its window has room.
WritePart ==
    /\ unsent # <<>>
    /\ Len(toServer) < Window
    /\ toServer' = Append(toServer, Head(unsent))
    /\ unsent' = Tail(unsent)
    /\ UNCHANGED <<style, issued, owed, chunked, group, draining, answer, buffered, pc,
                   after, verb, remaining, session, pending, toClient, misread>>

\* read: the replies of a group, once it is written; or at any time.
ReadReply ==
    /\ toClient # <<>>
    /\ style = "group" => unsent = <<>>
    /\ answer' = Head(toClient)
    /\ owed' = Tail(owed)
    /\ toClient' = Tail(toClient)
    /\ chunked' = chunkedUpon(Head(toClient), Tail(owed))
    /\ draining' = (style = "group" /\ Len(owed) > 1)
    /\ UNCHANGED <<style, issued, unsent, group, toServer, buffered, pc, after,
                   verb, remaining, session, pending, misread>>

(***************************************************************************)
(* The server's loop.                                                      *)
(***************************************************************************)
\* Mutant: replies wait until the next synchronisation point.
TopNoFlush ==
    /\ pc = "top"
    /\ pc' = "read"
    /\ UNCHANGED <<client, toServer, buffered, after, verb, remaining, session,
                   pending, toClient, misread>>

\* Nothing is buffered: flush before the read that may block.
Top ==
    /\ pc = "top"
    /\ IF buffered = <<>> THEN pc' = "flush" /\ after' = "read"
       ELSE pc' = "read" /\ UNCHANGED after
    /\ UNCHANGED <<client, toServer, buffered, verb, remaining, session, pending,
                   toClient, misread>>

\* The context has ended: run returns and the connection is closed.
ContextDone ==
    /\ pc = "top"
    /\ pc' = "closed"
    /\ UNCHANGED <<client, toServer, buffered, after, verb, remaining, session, pending,
                   toClient, misread>>

\* bufio.Writer.Flush, one reply at a time, as far as the window allows.
FlushOne ==
    /\ pc = "flush"
    /\ pending # <<>>
    /\ Len(toClient) < ReplyWindow
    /\ toClient' = Append(toClient, Head(pending))
    /\ pending' = Tail(pending)
    /\ UNCHANGED <<client, toServer, buffered, pc, after, verb, remaining, session, misread>>

Flushed ==
    /\ pc = "flush"
    /\ pending = <<>>
    /\ pc' = after
    /\ UNCHANGED <<client, toServer, buffered, after, verb, remaining, session, pending,
                   toClient, misread>>

\* What the read in progress still lacks.
Starved ==
    CASE pc = "read"    -> Len(buffered) < 2 /\ \A i \in DOMAIN buffered : buffered[i][1] = "part"
      [] pc = "chunk"   -> buffered = <<>> /\ remaining > 0
      [] pc = "content" -> buffered = <<>>
      [] OTHER          -> FALSE

\* One read from the connection, of any length.
Fill(n) ==
    /\ Starved
    /\ n <= Len(toServer)
    /\ buffered' = buffered \o SubSeq(toServer, 1, n)
    /\ toServer' = SubSeq(toServer, n + 1, Len(toServer))
    /\ UNCHANGED <<client, pc, after, verb, remaining, session, pending, toClient, misread>>

\* writeReply, then what the loop does with the commandAction: a full
\* writer flushes by itself.
Reply(v, code, sync, next) ==
    /\ pending' = Append(pending, <<v, code>>)
    /\ IF sync \/ Len(pending) >= ReplyBuffer
       THEN pc' = "flush" /\ after' = next
       ELSE pc' = next /\ UNCHANGED after

Transaction(p, s, a) == phase' = p /\ spool' = s /\ acked' = a /\ UNCHANGED lost

\* MAIL resets an open transaction before it is decided.
handleMail ==
    \/ phase = "failed" /\ Reply("MAIL", 503, FALSE, "top") /\ UNCHANGED session
    \/ phase # "failed" /\ Reply("MAIL", 501, TRUE, "top") /\ UNCHANGED session
    \/ phase # "failed" /\ Reply("MAIL", 250, FALSE, "top") /\ Transaction("mail", 0, 0)
    \/ phase # "failed" /\ Reply("MAIL", 451, FALSE, "top") /\ Transaction("ready", 0, 0)

handleRcpt ==
    IF phase \in {"mail", "recipients"}
    THEN \/ Reply("RCPT", 250, FALSE, "top") /\ Transaction("recipients", spool, acked)
         \/ Reply("RCPT", 451, FALSE, "top") /\ UNCHANGED session
         \/ Reply("RCPT", 501, TRUE, "top") /\ UNCHANGED session
    ELSE Reply("RCPT", 503, FALSE, "top") /\ UNCHANGED session

\* Mutant: RSET is carried out and not answered.
handleRSETSilent ==
    pc' = "top" /\ Transaction("ready", 0, 0) /\ UNCHANGED <<after, pending>>

handleRSET == Reply("RSET", 250, FALSE, "top") /\ Transaction("ready", 0, 0)

handleNOOP == Reply("NOOP", 250, TRUE, "top") /\ UNCHANGED session

handleQUIT == Reply("QUIT", 221, TRUE, "closed") /\ UNCHANGED session

\* Mutant: the spool is dropped and the transaction goes on.
handleCommandReadErrorGoesOn ==
    IF spool > 0
    THEN Reply("BAD", 500, TRUE, "top") /\ Transaction(phase, 0, acked)
    ELSE pc' = "closed" /\ UNCHANGED <<after, pending, session>>

\* A malformed line: answered while chunks are spooled, else the end.
handleCommandReadError ==
    IF spool > 0
    THEN Reply("BAD", 500, TRUE, "top") /\ Transaction("failed", 0, 0)
    ELSE pc' = "closed" /\ UNCHANGED <<after, pending, session>>

handleDATA ==
    IF phase = "recipients" THEN Reply("DATA", 354, TRUE, "content") /\ UNCHANGED session
    ELSE Reply("DATA", 503, TRUE, "top") /\ UNCHANGED session

\* Mutant: a chunk nobody wants is refused at once.
handleBDATAtOnce ==
    IF phase = "recipients" THEN pc' = "chunk" /\ UNCHANGED <<after, pending, session>>
    ELSE Reply("BDAT", 503, TRUE, "top") /\ UNCHANGED session

\* BDAT: whatever the verdict, the announced octets are read first.
handleBDAT == pc' = "chunk" /\ UNCHANGED <<after, pending, session>>

execute(v) ==
    CASE v = "MAIL"   -> handleMail
      [] v = "RCPT"   -> handleRcpt
      [] v = "RSET"   -> handleRSET
      [] v = "NOOP"   -> handleNOOP
      [] v = "QUIT"   -> handleQUIT
      [] v = "DATA"   -> handleDATA
      [] v = "BAD"    -> handleCommandReadError
      [] v \in Chunks -> handleBDAT

\* ReadCommand has a whole line, or the start of one that is no command.
ReadCommand ==
    /\ pc = "read"
    /\ ~Starved
    /\ IF buffered[1][1] = "part"
       THEN LET v == buffered[2][2]
            IN  /\ buffered' = SubSeq(buffered, 3, Len(buffered))
                /\ verb' = v
                /\ remaining' = ChunkSize
                /\ execute(v)
                /\ UNCHANGED misread
       ELSE /\ misread' = TRUE
            /\ pc' = "closed"
            /\ UNCHANGED <<buffered, verb, remaining, after, pending, session>>
    /\ UNCHANGED <<client, toServer, toClient>>

\* ReadBDATChunk and DotUnstuffReader read on in the LineReader's buffer.
ReadOctet ==
    /\ buffered # <<>>
    /\ \/ pc = "chunk" /\ remaining > 0 /\ remaining' = remaining - 1
       \/ pc = "content" /\ Head(buffered)[1] # "dot" /\ UNCHANGED remaining
    /\ buffered' = Tail(buffered)
    /\ UNCHANGED <<client, toServer, pc, after, verb, session, pending, toClient, misread>>

\* The chunk is read: refused, failed, spooled, or the last one.
chunkDone ==
    /\ pc = "chunk"
    /\ remaining = 0
    /\ \/ /\ phase \in {"ready", "mail"}
          /\ Reply(verb, 503, TRUE, "top")
          /\ UNCHANGED session
       \/ /\ phase = "failed"
          /\ Reply(verb, 503, FALSE, "top")
          /\ UNCHANGED session
       \/ /\ phase = "recipients"
          /\ Reply(verb, 452, FALSE, "top")
          /\ Transaction("failed", 0, 0)
       \/ /\ phase = "recipients"
          /\ verb = "BDAT"
          /\ Reply(verb, 250, FALSE, "top")
          /\ Transaction(phase, spool + 1, acked + 1)
       \/ /\ phase = "recipients"
          /\ verb = "LAST"
          /\ Reply(verb, 451, TRUE, "top")
          /\ Transaction("ready", 0, 0)
       \/ /\ phase = "recipients"
          /\ verb = "LAST"
          /\ Reply(verb, 250, TRUE, "top")
          /\ phase' = "ready" /\ spool' = 0 /\ acked' = 0
          /\ lost' = (lost \/ spool # acked)
    /\ UNCHANGED <<client, toServer, buffered, verb, remaining, toClient, misread>>

\* DATA content has been read to its dot and judged.
contentDone ==
    /\ pc = "content"
    /\ buffered # <<>>
    /\ Head(buffered)[1] = "dot"
    /\ buffered' = Tail(buffered)
    /\ \E code \in {250, 451} :
          /\ Reply("content", code, TRUE, "top")
          /\ phase' = "ready" /\ spool' = 0 /\ acked' = 0
          /\ lost' = (lost \/ (code = 250 /\ acked # 0))
    /\ UNCHANGED <<client, toServer, verb, remaining, toClient, misread>>

Init ==
    /\ style \in Styles
    /\ issued = 0 /\ owed = <<>> /\ chunked = FALSE /\ unsent = <<>>
    /\ group = 0 /\ draining = FALSE /\ answer = <<>>
    /\ toServer = <<>> /\ buffered = <<>>
    /\ pc = "top" /\ after = "top" /\ verb = "none" /\ remaining = 0
    /\ phase \in {"ready", "recipients"} /\ spool = 0 /\ acked = 0 /\ lost = FALSE
    /\ pending = <<>> /\ toClient = <<>>
    /\ misread = FALSE

Server ==
    \/ Top \/ FlushOne \/ Flushed
    \/ \E n \in 1..Window : Fill(n)
    \/ ReadCommand \/ ReadOctet \/ chunkDone \/ contentDone

Next ==
    \/ \E v \in Verbs \union {"content"} : Begin(v)
    \/ WritePart
    \/ ReadReply
    \/ ContextDone
    \/ Server

(***************************************************************************)
(* The client finishes the command and the content it has begun, since one *)
(* call writes them, and reads the replies it is owed; the server's        *)
(* goroutine runs.                                                         *)
(***************************************************************************)
Fairness ==
    /\ WF_vars(WritePart)
    /\ WF_vars(Begin("content"))
    /\ WF_vars(ReadReply)
    /\ WF_vars(Server)

Spec == Init /\ [][Next]_vars /\ Fairness

(***************************************************************************)
(* Properties.                                                             *)
(***************************************************************************)
Codes == {221, 250, 354, 451, 452, 500, 501, 503}
Replies == (Verbs \union {"content"}) \X Codes

\* The type of the two ends: windows and the reply buffer are within bounds.
TypeOK ==
    /\ style \in Styles
    /\ issued \in 0..MaxCommands
    /\ owed \in Seq(Verbs \union {"content"})
    /\ group \in Nat
    /\ draining \in BOOLEAN
    /\ Len(toServer) <= Window
    /\ pc \in {"top", "flush", "read", "chunk", "content", "closed"}
    /\ remaining \in 0..ChunkSize
    /\ phase \in {"ready", "mail", "recipients", "failed"}
    /\ spool \in Nat
    /\ pending \in Seq(Replies) /\ Len(pending) <= ReplyBuffer + 1
    /\ toClient \in Seq(Replies) /\ Len(toClient) <= ReplyWindow
    /\ acked \in Nat
    /\ lost \in BOOLEAN
    /\ misread \in BOOLEAN

(***************************************************************************)
(* Replies come in the order of the commands, one for each: the replies in *)
(* the network and in the writer's buffer answer, in this order, the first *)
(* of the commands that have no reply yet (loop.go, pipeline.go:116-131).  *)
(* What decides a message or ends the session does not wait in the buffer: *)
(* the replies of synchronisation points have been handed to the network   *)
(* before the next command is read.                                        *)
(***************************************************************************)
RepliesInOrder ==
    LET all == toClient \o pending
    IN  /\ Len(all) <= Len(owed)
        /\ \A i \in DOMAIN all : all[i][1] = owed[i]
        /\ pc \in {"top", "read", "chunk"} =>
              \A i \in DOMAIN pending :
                  ~(isSyncPoint(pending[i][1]) \/ pending[i] = <<"LAST", 250>>)

(***************************************************************************)
(* Content is never taken for a command, and no command for content,       *)
(* however the stream is cut and whatever was decided about the            *)
(* transaction (handleBDAT reads the announced octets first).              *)
(***************************************************************************)
ContentIsNoCommand == ~misread

(***************************************************************************)
(* A message is accepted only with every chunk of it that was answered     *)
(* 250, by a peer that does not mix DATA and BDAT in a transaction.        *)
(***************************************************************************)
ChunksDelivered == ~lost

(***************************************************************************)
(* loop.go:37-39 and docs/SERVER-DESIGN.md:1391: no read blocks while a    *)
(* reply is pending.                                                       *)
(***************************************************************************)
FlushBeforeBlock ==
    pc = "read" /\ Starved /\ toServer = <<>> => pending = <<>>

(***************************************************************************)
(* Every command is answered, or the connection is closed: client and      *)
(* server never wait for each other, and none of them for a reply that     *)
(* nobody flushes.                                                         *)
(***************************************************************************)
AllAnswered == []<>(owed = <<>> \/ pc = "closed")
=============================================================================
