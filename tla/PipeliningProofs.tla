-------------------------- MODULE PipeliningProofs --------------------------
(***************************************************************************)
(* Proofs about Pipelining, for windows, buffers, chunks and groups of any *)
(* size and any number of commands.                                        *)
(*                                                                         *)
(* The three properties speak of the server's end, and depend on what the  *)
(* client has put on the wire long before.  So the invariant follows the   *)
(* stream from the client's unsent parts to the server's buffer: where the *)
(* loop reads commands, the stream is the commands not executed yet, each  *)
(* in full and in order; where it reads a chunk, they follow the octets    *)
(* that remain; where it reads DATA content, there is nothing but content. *)
(***************************************************************************)
EXTENDS Pipelining, SequenceTheorems, TLAPS

\* What may be without a reply, and the parts of the stream.
Items == Verbs \union {"content"}
PartSet == {"part", "line", "octet", "dot"} \X Items

\* Where the loop is, or will be when the flush is done.
at == IF pc = "flush" THEN after ELSE pc

\* The replies under way: in the network, then in the writer's buffer.
Replied == toClient \o pending

\* The parts the server has still to read, wherever they are.
Stream == (buffered \o toServer) \o unsent

\* The type of the two ends.
Types ==
    /\ owed \in Seq(Items) /\ chunked \in BOOLEAN
    /\ unsent \in Seq(PartSet) /\ toServer \in Seq(PartSet) /\ buffered \in Seq(PartSet)
    /\ toClient \in Seq(Replies) /\ pending \in Seq(Replies)
    /\ pc \in {"top", "flush", "read", "chunk", "content", "closed"}
    /\ after \in {"top", "read", "content", "closed"}
    /\ remaining \in Nat
    /\ phase \in {"ready", "mail", "recipients", "failed"} /\ spool \in Nat /\ acked \in Nat

\* The parts of a command on the wire.
Size(v) == IF v \in Chunks THEN 2 + ChunkSize ELSE 2

\* After skip parts the stream s holds the commands of q past the first base,
\* each in full and in order: f[k] parts come before the end of the k-th.
Laid(s, q, base, skip) ==
    \E f \in [base..Len(q) -> 0..Len(s)] :
        /\ f[base] = skip /\ f[Len(q)] = Len(s)
        /\ \A k, l \in base..Len(q) : k <= l => f[k] <= f[l]
        /\ \A k \in (base + 1)..Len(q) :
              /\ q[k] \in Verbs
              /\ f[k] = f[k - 1] + Size(q[k])
              /\ s[f[k - 1] + 1] = <<"part", q[k]>> /\ s[f[k - 1] + 2] = <<"line", q[k]>>

\* The loop reads the chunk of the first command that has no reply.
InChunk ==
    /\ Len(Replied) < Len(owed) /\ verb = owed[Len(Replied) + 1] /\ verb \in Chunks
    /\ Laid(Stream, owed, Len(Replied) + 1, remaining)

\* The client has not read the 354 or not begun the content; or the content,
\* up to its dot, is all there is.
InContent ==
    \/ Stream = <<>> /\ owed = <<>> /\ answer = <<"DATA", 354>>
    \/ /\ Stream = <<>> /\ owed # <<>> /\ Len(Replied) = Len(owed)
       /\ Replied[Len(owed)] = <<"DATA", 354>>
    \/ /\ Replied = <<>> /\ Len(owed) = 1 /\ owed[1] = "content" /\ Stream # <<>>
       /\ \A i \in 1..Len(Stream) : Stream[i][1] = "dot" <=> i = Len(Stream)

\* The stream is what the place where the loop is expects.
StreamInv ==
    /\ at \in {"top", "read"} => Laid(Stream, owed, Len(Replied), 0)
    /\ at = "chunk" => InChunk
    /\ at = "content" => InContent

\* The replies answer the first of the owed commands; a synchronisation
\* point is the last of its group; a 354 that is under way or was read last
\* finds the loop at the content.
OrderInv ==
    /\ Len(Replied) <= Len(owed)
    /\ \A i \in 1..Len(Replied) : Replied[i][1] = owed[i]
    /\ \A i \in 1..(Len(owed) - 1) : ~isSyncPoint(owed[i])
    /\ \A i \in 1..Len(Replied) : Replied[i] = <<"DATA", 354>> => at \in {"content", "closed"}
    /\ owed = <<>> /\ answer = <<"DATA", 354>> => at \in {"content", "closed"}

\* A reply that may wait in the buffer.
Waits(r) == ~(isSyncPoint(r[1]) \/ r = <<"LAST", 250>>)

\* The buffer holds only such replies, but for one that is being flushed.
FlushInv ==
    pc \notin {"flush", "closed"} => \A i \in 1..Len(pending) : Waits(pending[i])

\* Of the commands q the first n have been executed: where the d-th is, no
\* chunk is left of the transaction before it, of which a are spooled now.
Fresh(q, n, a, d) ==
    /\ a > 0 => \E r \in (n + 1)..(d - 1) : q[r] \in {"RSET", "LAST"}
    /\ \A b \in (n + 1)..(d - 1) :
          q[b] = "BDAT" => \E r \in (b + 1)..(d - 1) : q[r] \in {"RSET", "LAST"}

\* The spool holds the acknowledged chunks.  Neither a DATA under way nor one
\* the client may still begin meets a spooled chunk: RSET or LAST comes first.
\* A MAIL whose 250 is under way has emptied the spool.
ChunkInv ==
    /\ spool = acked /\ ~lost
    /\ acked > 0 => phase = "recipients"
    /\ at = "content" => acked = 0
    /\ \A i \in 1..Len(Replied) :
          Replied[i] = <<"MAIL", 250>> /\ acked > 0 =>
              \E j \in (i + 1)..Len(Replied) : owed[j] = "BDAT"
    /\ at # "closed" =>
          /\ \A d \in (Len(Replied) + 1)..Len(owed) : owed[d] = "DATA" => Fresh(owed, Len(Replied), acked, d)
          /\ ~chunked => Fresh(owed, Len(Replied), acked, Len(owed) + 1)

\* The inductive invariant.
Inv == Types /\ StreamInv /\ OrderInv /\ FlushInv /\ ChunkInv /\ ~misread

\* One command is answered: the reply, and what the transaction is then.
Answered(v, code, sync, next) ==
    /\ Reply(v, code, sync, next)
    /\ sync \/ Waits(<<v, code>>)
    /\ next = "content" <=> v = "DATA" /\ code = 354
    /\ acked' \in Nat /\ spool' = acked' /\ ~lost'
    /\ phase' \in {"ready", "mail", "recipients", "failed"}
    /\ acked' > 0 => phase' = "recipients"
    /\ next = "content" => acked' = 0
    /\ v \in {"RSET", "LAST"} => acked' = 0
    /\ v = "MAIL" /\ code = 250 => acked' = 0
    /\ acked' > 0 => acked > 0 \/ v = "BDAT"

\* A command's parts: its line in two, then the octets of a chunk.
LEMMA PartsAre ==
    ASSUME NEW v \in Verbs
    PROVE  /\ Parts(v) \in Seq(PartSet) /\ Len(Parts(v)) = Size(v)
           /\ Parts(v)[1] = <<"part", v>> /\ Parts(v)[2] = <<"line", v>>
           /\ Size(v) \in Nat /\ Size(v) >= 2
<1>. DEFINE h == <<<<"part", v>>, <<"line", v>>>>
            r == Repeat(<<"octet", v>>, ChunkSize)
<1>1. ChunkSize \in Nat /\ v # "content"
  BY WindowAssumption DEF Verbs
<1>2. h \in Seq(PartSet) /\ Len(h) = 2 /\ h[1] = <<"part", v>> /\ h[2] = <<"line", v>>
  BY DEF PartSet, Items
<1>3. r \in Seq(PartSet) /\ Len(r) = ChunkSize
  BY <1>1 DEF PartSet, Items, Repeat
<1>4. Parts(v) = IF v \in Chunks THEN h \o r ELSE h
  BY <1>1, Zenon DEF Parts
<1>. HIDE DEF h, r
<1>5. /\ h \o r \in Seq(PartSet) /\ Len(h \o r) = 2 + ChunkSize
      /\ (h \o r)[1] = h[1] /\ (h \o r)[2] = h[2]
  <2>1. /\ h \o r \in Seq(PartSet) /\ Len(h \o r) = Len(h) + Len(r)
        /\ \A i \in 1..(Len(h) + Len(r)) : (h \o r)[i] = IF i <= Len(h) THEN h[i] ELSE r[i - Len(h)]
    BY Zenon, <1>2, <1>3, ConcatProperties
  <2>. QED  BY <1>1, <1>2, <1>3, <2>1
<1>6. CASE v \in Chunks
  BY <1>1, <1>2, <1>4, <1>5, <1>6 DEF Size
<1>7. CASE v \notin Chunks
  BY <1>2, <1>4, <1>7 DEF Size
<1>. QED  BY <1>6, <1>7

\* Content ends at its only dot.
LEMMA ContentParts ==
    LET p == Parts("content")
    IN  p \in Seq(PartSet) /\ p # <<>> /\ \A i \in 1..Len(p) : p[i][1] = "dot" <=> i = Len(p)
<1>. DEFINE r == Repeat(<<"octet", "content">>, ChunkSize)
<1>1. r \in Seq(PartSet) /\ Len(r) = ChunkSize /\ \A i \in 1..ChunkSize : r[i] = <<"octet", "content">>
  BY WindowAssumption DEF PartSet, Items, Repeat
<1>2. ChunkSize \in Nat /\ <<"dot", "content">> \in PartSet
  BY WindowAssumption DEF PartSet, Items
<1>3. Parts("content") = Append(r, <<"dot", "content">>)
  BY DEF Parts, Chunks
<1>. DEFINE p == Append(r, <<"dot", "content">>)
<1>4. /\ p \in Seq(PartSet) /\ p # <<>> /\ Len(p) = ChunkSize + 1 /\ p[ChunkSize + 1] = <<"dot", "content">>
      /\ \A i \in 1..ChunkSize : p[i] = r[i]
  <2>. HIDE DEF r
  <2>. QED  BY <1>1, <1>2, AppendProperties
<1>. HIDE DEF r, p
<1>5. ASSUME NEW i \in 1..Len(p) PROVE p[i][1] = "dot" <=> i = Len(p)
  <2>1. CASE i = ChunkSize + 1
    BY <1>2, <1>4, <2>1
  <2>2. CASE i # ChunkSize + 1
    <3>1. i \in 1..ChunkSize
      BY <1>2, <1>4, <2>2
    <3>. QED  BY <1>1, <1>4, <2>2, <3>1
  <2>. QED  BY <2>1, <2>2
<1>6. Parts("content") = p
  BY <1>3 DEF p
<1>. QED  BY <1>4, <1>5, <1>6

\* An empty stream holds no command.
LEMMA LaidNone ==
    ASSUME NEW q \in Seq(Items)
    PROVE  Laid(<<>>, q, Len(q), 0)
<1>. DEFINE f == [k \in Len(q)..Len(q) |-> 0]
<1>1. Len(q) \in Nat
  OBVIOUS
<1>2. f \in [Len(q)..Len(q) -> 0..Len(<<>>)] /\ f[Len(q)] = 0 /\ Len(<<>>) = 0
  BY <1>1
<1>. HIDE DEF f
<1>3. \A k, l \in Len(q)..Len(q) : k <= l => f[k] <= f[l]
  BY <1>1, <1>2
<1>4. ~\E k \in (Len(q) + 1)..Len(q) : TRUE
  BY <1>1
<1>. QED  BY <1>2, <1>3, <1>4 DEF Laid

\* Begin: a command the client appends is laid after the others.
LEMMA LaidBegins ==
    ASSUME NEW s \in Seq(PartSet), NEW q \in Seq(Items), NEW base \in Nat, base <= Len(q), NEW skip \in Nat,
           NEW v \in Verbs, Laid(s, q, base, skip)
    PROVE  Laid(s \o Parts(v), Append(q, v), base, skip)
<1>. DEFINE n == Len(q)
            p == Parts(v)
            z == s \o p
            w == Append(q, v)
<1>1. PICK f \in [base..n -> 0..Len(s)] :
        /\ f[base] = skip /\ f[n] = Len(s)
        /\ \A k, l \in base..n : k <= l => f[k] <= f[l]
        /\ \A k \in (base + 1)..n :
              /\ q[k] \in Verbs
              /\ f[k] = f[k - 1] + Size(q[k])
              /\ s[f[k - 1] + 1] = <<"part", q[k]>> /\ s[f[k - 1] + 2] = <<"line", q[k]>>
  BY Zenon DEF Laid
<1>a. \A k \in base..n : f[k] \in 0..Len(s)
  BY Zenon, <1>1
<1>b. f[base] = skip /\ f[n] = Len(s)
  BY Zenon, <1>1
<1>c. \A k, l \in base..n : k <= l => f[k] <= f[l]
  BY Zenon, <1>1
<1>d. \A k \in (base + 1)..n :
         /\ q[k] \in Verbs
         /\ f[k] = f[k - 1] + Size(q[k])
         /\ s[f[k - 1] + 1] = <<"part", q[k]>> /\ s[f[k - 1] + 2] = <<"line", q[k]>>
  BY Zenon, <1>1
<1>2. /\ p \in Seq(PartSet) /\ Len(p) = Size(v) /\ p[1] = <<"part", v>> /\ p[2] = <<"line", v>>
      /\ Size(v) \in Nat /\ Size(v) >= 2
  BY PartsAre
<1>. HIDE DEF p
<1>3. /\ z \in Seq(PartSet) /\ Len(z) = Len(s) + Size(v)
      /\ \A i \in 1..Len(s) : z[i] = s[i]
      /\ z[Len(s) + 1] = <<"part", v>> /\ z[Len(s) + 2] = <<"line", v>>
  <2>1. /\ z \in Seq(PartSet) /\ Len(z) = Len(s) + Len(p)
        /\ \A i \in 1..(Len(s) + Len(p)) : z[i] = IF i <= Len(s) THEN s[i] ELSE p[i - Len(s)]
    BY Zenon, <1>2, ConcatProperties
  <2>2. Len(s) \in Nat
    OBVIOUS
  <2>. HIDE DEF z
  <2>3. \A i \in 1..Len(s) : z[i] = s[i]
    BY <1>2, <2>1, <2>2
  <2>4. z[Len(s) + 1] = p[(Len(s) + 1) - Len(s)] /\ z[Len(s) + 2] = p[(Len(s) + 2) - Len(s)]
    BY <1>2, <2>1, <2>2
  <2>5. (Len(s) + 1) - Len(s) = 1 /\ (Len(s) + 2) - Len(s) = 2
    BY <2>2
  <2>. QED  BY <1>2, <2>1, <2>3, <2>4, <2>5
<1>4. v \in Items /\ w \in Seq(Items) /\ Len(w) = n + 1 /\ w[n + 1] = v /\ \A i \in 1..n : w[i] = q[i]
  BY DEF Items
<1>. HIDE DEF z, w
<1>. DEFINE g == [k \in base..(n + 1) |-> IF k = n + 1 THEN Len(z) ELSE f[k]]
<1>5. n \in Nat /\ Len(s) \in Nat
  OBVIOUS
<1>6. \A k \in base..n : k \in base..(n + 1) /\ k # n + 1 /\ f[k] \in 0..Len(s) /\ g[k] = f[k]
  BY <1>a, <1>5
<1>7. n + 1 \in base..(n + 1) /\ g[n + 1] = Len(z) /\ n \in base..n /\ base \in base..n
  BY <1>5
<1>8. \A k \in base..(n + 1) : k = n + 1 \/ k \in base..n
  BY <1>5
<1>9. g \in [base..(n + 1) -> 0..Len(z)]
  <2>1. \A k \in base..(n + 1) : g[k] \in 0..Len(z)
    <3>. SUFFICES ASSUME NEW k \in base..(n + 1) PROVE g[k] \in 0..Len(z)
      OBVIOUS
    <3>. HIDE DEF g
    <3>1. CASE k = n + 1
      BY <1>2, <1>3, <1>5, <1>7, <3>1
    <3>2. CASE k \in base..n
      BY <1>2, <1>3, <1>5, <1>6, <3>2
    <3>. QED  BY <1>8, <3>1, <3>2
  <2>. QED  BY <2>1
<1>. HIDE DEF g
<1>10. \A k, l \in base..(n + 1) : k <= l => g[k] <= g[l]
  <2>. SUFFICES ASSUME NEW k \in base..(n + 1), NEW l \in base..(n + 1), k <= l PROVE g[k] <= g[l]
    OBVIOUS
  <2>1. CASE l = n + 1
    BY <1>2, <1>3, <1>5, <1>7, <1>9, <2>1
  <2>2. CASE l # n + 1
    <3>1. l \in base..n /\ k \in base..n
      BY <1>5, <1>8, <2>2
    <3>. QED  BY <1>c, <1>6, <3>1
  <2>. QED  BY <2>1, <2>2
<1>11. ASSUME NEW k \in (base + 1)..(n + 1)
       PROVE  /\ w[k] \in Verbs
              /\ g[k] = g[k - 1] + Size(w[k])
              /\ z[g[k - 1] + 1] = <<"part", w[k]>> /\ z[g[k - 1] + 2] = <<"line", w[k]>>
  <2>1. k - 1 \in base..n /\ g[k - 1] = f[k - 1]
    BY <1>5, <1>6
  <2>2. CASE k = n + 1
    <3>1. k - 1 = n /\ g[k] = Len(s) + Size(v) /\ w[k] = v
      BY <1>3, <1>4, <1>5, <1>7, <2>2
    <3>2. g[k - 1] = Len(s)
      BY Zenon, <1>b, <2>1, <3>1
    <3>. QED  BY <1>3, <3>1, <3>2
  <2>3. CASE k # n + 1
    <3>1. k \in (base + 1)..n /\ k \in base..n /\ k \in 1..n
      BY <1>5, <2>3
    <3>2. g[k] = f[k] /\ w[k] = q[k] /\ q[k] \in Verbs /\ f[k] = f[k - 1] + Size(q[k])
      BY Zenon, <1>d, <1>4, <1>6, <3>1
    <3>3. Size(q[k]) \in Nat /\ Size(q[k]) >= 2
      BY <3>2, PartsAre
    <3>4. f[k - 1] + 1 \in 1..Len(s) /\ f[k - 1] + 2 \in 1..Len(s)
      <4>1. f[k - 1] \in 0..Len(s) /\ f[k] \in 0..Len(s)
        BY <1>a, <2>1, <3>1
      <4>. QED  BY <1>5, <3>2, <3>3, <4>1
    <3>5. s[f[k - 1] + 1] = <<"part", q[k]>> /\ s[f[k - 1] + 2] = <<"line", q[k]>>
      BY Zenon, <1>d, <3>1
    <3>6. z[f[k - 1] + 1] = s[f[k - 1] + 1] /\ z[f[k - 1] + 2] = s[f[k - 1] + 2]
      BY <1>3, <3>4
    <3>. QED  BY Zenon, <2>1, <3>2, <3>5, <3>6
  <2>. QED  BY <2>2, <2>3
<1>12. g[base] = skip
  BY <1>b, <1>6, <1>7
<1>13. Laid(z, w, base, skip)
  BY Zenon, <1>4, <1>7, <1>9, <1>10, <1>11, <1>12 DEF Laid
<1>. QED  BY <1>13 DEF z, w, p

\* ReadReply: the list of the owed commands loses its head, the stream
\* does not change.
LEMMA LaidRead ==
    ASSUME NEW s \in Seq(PartSet), NEW q \in Seq(Items), NEW base \in Nat, base <= Len(q), NEW skip \in Nat,
           base > 0, Laid(s, q, base, skip)
    PROVE  Laid(s, Tail(q), base - 1, skip)
<1>. DEFINE n == Len(q)
            w == Tail(q)
<1>1. PICK f \in [base..n -> 0..Len(s)] :
        /\ f[base] = skip /\ f[n] = Len(s)
        /\ \A k, l \in base..n : k <= l => f[k] <= f[l]
        /\ \A k \in (base + 1)..n :
              /\ q[k] \in Verbs
              /\ f[k] = f[k - 1] + Size(q[k])
              /\ s[f[k - 1] + 1] = <<"part", q[k]>> /\ s[f[k - 1] + 2] = <<"line", q[k]>>
  BY Zenon DEF Laid
<1>a. \A k \in base..n : f[k] \in 0..Len(s)
  BY Zenon, <1>1
<1>b. f[base] = skip /\ f[n] = Len(s)
  BY Zenon, <1>1
<1>c. \A k, l \in base..n : k <= l => f[k] <= f[l]
  BY Zenon, <1>1
<1>d. \A k \in (base + 1)..n :
         /\ q[k] \in Verbs
         /\ f[k] = f[k - 1] + Size(q[k])
         /\ s[f[k - 1] + 1] = <<"part", q[k]>> /\ s[f[k - 1] + 2] = <<"line", q[k]>>
  BY Zenon, <1>1
<1>2. n \in Nat /\ q # <<>> /\ Len(s) \in Nat
  OBVIOUS
<1>3. w \in Seq(Items) /\ Len(w) = n - 1 /\ \A i \in 1..(n - 1) : w[i] = q[i + 1]
  BY <1>2
<1>. HIDE DEF w
<1>. DEFINE g == [k \in (base - 1)..(n - 1) |-> f[k + 1]]
<1>4. \A k \in (base - 1)..(n - 1) : k + 1 \in base..n /\ g[k] = f[k + 1]
  BY <1>2
<1>5. g \in [(base - 1)..(n - 1) -> 0..Len(s)]
  BY <1>a, <1>4
<1>. HIDE DEF g
<1>6. g[base - 1] = skip /\ g[n - 1] = Len(s)
  BY <1>b, <1>2, <1>4
<1>7. \A k, l \in (base - 1)..(n - 1) : k <= l => g[k] <= g[l]
  BY <1>c, <1>2, <1>4
<1>8. ASSUME NEW k \in ((base - 1) + 1)..(n - 1)
      PROVE  /\ w[k] \in Verbs
             /\ g[k] = g[k - 1] + Size(w[k])
             /\ s[g[k - 1] + 1] = <<"part", w[k]>> /\ s[g[k - 1] + 2] = <<"line", w[k]>>
  <2>1. k + 1 \in (base + 1)..n /\ k \in 1..(n - 1) /\ k \in (base - 1)..(n - 1) /\ k - 1 \in (base - 1)..(n - 1)
        /\ (k + 1) - 1 = k /\ (k - 1) + 1 = k
    BY <1>2
  <2>2. w[k] = q[k + 1] /\ g[k] = f[k + 1] /\ g[k - 1] = f[k]
    BY Zenon, <1>3, <1>4, <2>1
  <2>3. /\ q[k + 1] \in Verbs /\ f[k + 1] = f[k] + Size(q[k + 1])
        /\ s[f[k] + 1] = <<"part", q[k + 1]>> /\ s[f[k] + 2] = <<"line", q[k + 1]>>
    BY Zenon, <1>d, <2>1
  <2>. QED  BY <2>2, <2>3
<1>9. Laid(s, w, base - 1, skip)
  BY Zenon, <1>3, <1>5, <1>6, <1>7, <1>8 DEF Laid
<1>. QED  BY <1>9 DEF w

\* A stream that is not empty has a command to be executed.
LEMMA LaidNext ==
    ASSUME NEW s \in Seq(PartSet), NEW q \in Seq(Items), NEW base \in Nat, base <= Len(q),
           s # <<>>, Laid(s, q, base, 0)
    PROVE  base < Len(q)
  BY DEF Laid

\* ReadCommand: the stream begins with the two parts of the first command that
\* is not executed; past them are its octets, if any, and the next command.
LEMMA LaidTaken ==
    ASSUME NEW s \in Seq(PartSet), NEW q \in Seq(Items), NEW base \in Nat, base < Len(q),
           Laid(s, q, base, 0)
    PROVE  LET v == q[base + 1]
               skip == IF v \in Chunks THEN ChunkSize ELSE 0
           IN  /\ v \in Verbs /\ Len(s) >= 2 /\ s[1] = <<"part", v>> /\ s[2] = <<"line", v>>
               /\ Laid(SubSeq(s, 3, Len(s)), q, base + 1, skip)
<1>. DEFINE n == Len(q)
            v == q[base + 1]
            z == SubSeq(s, 3, Len(s))
<1>1. PICK f \in [base..n -> 0..Len(s)] :
        /\ f[base] = 0 /\ f[n] = Len(s)
        /\ \A k, l \in base..n : k <= l => f[k] <= f[l]
        /\ \A k \in (base + 1)..n :
              /\ q[k] \in Verbs
              /\ f[k] = f[k - 1] + Size(q[k])
              /\ s[f[k - 1] + 1] = <<"part", q[k]>> /\ s[f[k - 1] + 2] = <<"line", q[k]>>
  BY Zenon DEF Laid
<1>a. \A k \in base..n : f[k] \in 0..Len(s)
  BY Zenon, <1>1
<1>b. f[base] = 0 /\ f[n] = Len(s)
  BY Zenon, <1>1
<1>c. \A k, l \in base..n : k <= l => f[k] <= f[l]
  BY Zenon, <1>1
<1>d. \A k \in (base + 1)..n :
         /\ q[k] \in Verbs
         /\ f[k] = f[k - 1] + Size(q[k])
         /\ s[f[k - 1] + 1] = <<"part", q[k]>> /\ s[f[k - 1] + 2] = <<"line", q[k]>>
  BY Zenon, <1>1
<1>2. n \in Nat /\ Len(s) \in Nat /\ ChunkSize \in Nat
  BY WindowAssumption
<1>3. base + 1 \in (base + 1)..n /\ base + 1 \in base..n /\ (base + 1) - 1 = base /\ n \in base..n
  BY <1>2
<1>4. /\ v \in Verbs /\ f[base + 1] = Size(v) /\ s[1] = <<"part", v>> /\ s[2] = <<"line", v>>
  <2>1. /\ v \in Verbs /\ f[base + 1] = f[base] + Size(v)
        /\ s[f[base] + 1] = <<"part", v>> /\ s[f[base] + 2] = <<"line", v>>
    BY Zenon, <1>d, <1>3
  <2>2. Size(v) \in Nat
    BY <2>1, PartsAre
  <2>. QED  BY <1>b, <2>1, <2>2
<1>5. Size(v) \in Nat /\ Size(v) >= 2 /\ Size(v) - 2 = (IF v \in Chunks THEN ChunkSize ELSE 0)
  BY <1>2 DEF Size
<1>. HIDE DEF v
<1>6. \A k \in (base + 1)..n : k \in base..n /\ f[k] \in 0..Len(s) /\ f[k] >= Size(v)
  <2>. SUFFICES ASSUME NEW k \in (base + 1)..n
                PROVE  k \in base..n /\ f[k] \in 0..Len(s) /\ f[k] >= Size(v)
    OBVIOUS
  <2>1. k \in base..n /\ base + 1 <= k
    BY <1>2
  <2>2. f[base + 1] <= f[k] /\ f[k] \in 0..Len(s)
    BY <1>a, <1>c, <1>3, <2>1
  <2>. QED  BY <1>2, <1>4, <1>5, <2>1, <2>2
<1>7. Len(s) >= 2 /\ z \in Seq(PartSet) /\ Len(z) = Len(s) - 2 /\ \A i \in 1..(Len(s) - 2) : z[i] = s[i + 2]
  <2>1. Len(s) >= 2
    BY <1>2, <1>3, <1>5, <1>6
  <2>2. \A i \in 3..Len(s) : s[i] \in PartSet
    OBVIOUS
  <2>3. /\ z \in Seq(PartSet) /\ Len(z) = IF 3 <= Len(s) THEN Len(s) - 3 + 1 ELSE 0
        /\ \A i \in 1..(Len(s) - 3 + 1) : z[i] = s[3 + i - 1]
    BY <1>2, <2>2, SubSeqProperties
  <2>. HIDE DEF z
  <2>4. \A i \in 1..(Len(s) - 2) : i \in 1..(Len(s) - 3 + 1) /\ 3 + i - 1 = i + 2
    BY <1>2
  <2>5. Len(z) = Len(s) - 2
    <3>1. Len(z) = IF 3 <= Len(s) THEN Len(s) - 3 + 1 ELSE 0
      BY <2>3
    <3>2. CASE Len(s) >= 3
      BY <1>2, <3>1, <3>2
    <3>3. CASE Len(s) = 2
      BY <3>1, <3>3
    <3>4. \A m \in Nat : m >= 2 => m >= 3 \/ m = 2
      OBVIOUS
    <3>. QED  BY Zenon, <1>2, <2>1, <3>2, <3>3, <3>4
  <2>6. \A i \in 1..(Len(s) - 2) : z[i] = s[i + 2]
    BY <2>3, <2>4
  <2>. QED  BY <2>1, <2>3, <2>5, <2>6
<1>. HIDE DEF z
<1>. DEFINE g == [k \in (base + 1)..n |-> f[k] - 2]
<1>8. \A k \in (base + 1)..n : g[k] = f[k] - 2 /\ g[k] \in 0..Len(z)
  BY <1>2, <1>5, <1>6, <1>7
<1>9. g \in [(base + 1)..n -> 0..Len(z)]
  BY <1>8
<1>. HIDE DEF g
<1>10. g[base + 1] = (IF v \in Chunks THEN ChunkSize ELSE 0) /\ g[n] = Len(z)
  BY <1>b, <1>2, <1>3, <1>4, <1>5, <1>7, <1>8
<1>11. \A k, l \in (base + 1)..n : k <= l => g[k] <= g[l]
  BY <1>c, <1>2, <1>6, <1>8
<1>12. ASSUME NEW k \in ((base + 1) + 1)..n
       PROVE  /\ q[k] \in Verbs
              /\ g[k] = g[k - 1] + Size(q[k])
              /\ z[g[k - 1] + 1] = <<"part", q[k]>> /\ z[g[k - 1] + 2] = <<"line", q[k]>>
  <2>1. k \in (base + 1)..n /\ k - 1 \in (base + 1)..n
    BY <1>2
  <2>2. /\ q[k] \in Verbs /\ f[k] = f[k - 1] + Size(q[k])
        /\ s[f[k - 1] + 1] = <<"part", q[k]>> /\ s[f[k - 1] + 2] = <<"line", q[k]>>
    BY Zenon, <1>d, <2>1
  <2>3. Size(q[k]) \in Nat /\ Size(q[k]) >= 2
    BY <2>2, PartsAre
  <2>4. f[k - 1] \in Nat /\ f[k - 1] >= 2 /\ f[k - 1] + 2 <= Len(s)
    BY <1>2, <1>5, <1>6, <2>1, <2>2, <2>3
  <2>5. g[k - 1] + 1 \in 1..(Len(s) - 2) /\ g[k - 1] + 2 \in 1..(Len(s) - 2)
        /\ (g[k - 1] + 1) + 2 = f[k - 1] + 1 /\ (g[k - 1] + 2) + 2 = f[k - 1] + 2
    <3>1. f[k] <= Len(s)
      BY <1>2, <1>6, <2>1
    <3>2. f[k - 1] + 2 <= Len(s) - 0 /\ g[k - 1] = f[k - 1] - 2
      BY <1>8, <2>1, <2>4
    <3>. QED  BY <1>2, <2>4, <3>1, <3>2
  <2>6. z[g[k - 1] + 1] = s[f[k - 1] + 1] /\ z[g[k - 1] + 2] = s[f[k - 1] + 2]
    <3>1. /\ z[g[k - 1] + 1] = s[(g[k - 1] + 1) + 2]
          /\ z[g[k - 1] + 2] = s[(g[k - 1] + 2) + 2]
      BY Zenon, <1>7, <2>5
    <3>. QED  BY Zenon, <2>5, <3>1
  <2>7. g[k] = f[k] - 2 /\ g[k - 1] = f[k - 1] - 2
    BY <1>8, <2>1
  <2>. QED  BY <2>2, <2>3, <2>4, <2>6, <2>7
<1>13. Laid(z, q, base + 1, IF v \in Chunks THEN ChunkSize ELSE 0)
  BY Zenon, <1>9, <1>10, <1>11, <1>12 DEF Laid
<1>. QED  BY <1>4, <1>7, <1>13 DEF v, z

\* ReadBDATChunk: one octet of those to be skipped.
LEMMA LaidSkips ==
    ASSUME NEW s \in Seq(PartSet), NEW q \in Seq(Items), NEW base \in Nat, base <= Len(q), NEW skip \in Nat,
           skip > 0, Laid(s, q, base, skip)
    PROVE  s # <<>> /\ Laid(Tail(s), q, base, skip - 1)
<1>. DEFINE n == Len(q)
            z == Tail(s)
<1>1. PICK f \in [base..n -> 0..Len(s)] :
        /\ f[base] = skip /\ f[n] = Len(s)
        /\ \A k, l \in base..n : k <= l => f[k] <= f[l]
        /\ \A k \in (base + 1)..n :
              /\ q[k] \in Verbs
              /\ f[k] = f[k - 1] + Size(q[k])
              /\ s[f[k - 1] + 1] = <<"part", q[k]>> /\ s[f[k - 1] + 2] = <<"line", q[k]>>
  BY Zenon DEF Laid
<1>a. \A k \in base..n : f[k] \in 0..Len(s)
  BY Zenon, <1>1
<1>b. f[base] = skip /\ f[n] = Len(s)
  BY Zenon, <1>1
<1>c. \A k, l \in base..n : k <= l => f[k] <= f[l]
  BY Zenon, <1>1
<1>d. \A k \in (base + 1)..n :
         /\ q[k] \in Verbs
         /\ f[k] = f[k - 1] + Size(q[k])
         /\ s[f[k - 1] + 1] = <<"part", q[k]>> /\ s[f[k - 1] + 2] = <<"line", q[k]>>
  BY Zenon, <1>1
<1>2. n \in Nat /\ Len(s) \in Nat /\ base \in base..n /\ n \in base..n
  OBVIOUS
<1>3. s # <<>> /\ Len(s) > 0
  BY <1>a, <1>b, <1>2
<1>4. z \in Seq(PartSet) /\ Len(z) = Len(s) - 1 /\ \A i \in 1..(Len(s) - 1) : z[i] = s[i + 1]
  BY <1>3, HeadTailProperties
<1>. HIDE DEF z
<1>5. \A k \in base..n : f[k] \in 0..Len(s) /\ f[k] >= skip
  BY <1>a, <1>b, <1>c, <1>2
<1>. DEFINE g == [k \in base..n |-> f[k] - 1]
<1>6. \A k \in base..n : g[k] = f[k] - 1 /\ g[k] \in 0..Len(z)
  BY <1>2, <1>4, <1>5
<1>7. g \in [base..n -> 0..Len(z)]
  BY <1>6
<1>. HIDE DEF g
<1>8. g[base] = skip - 1 /\ g[n] = Len(z)
  BY <1>b, <1>2, <1>4, <1>6
<1>9. \A k, l \in base..n : k <= l => g[k] <= g[l]
  BY <1>c, <1>2, <1>5, <1>6
<1>10. ASSUME NEW k \in (base + 1)..n
       PROVE  /\ q[k] \in Verbs
              /\ g[k] = g[k - 1] + Size(q[k])
              /\ z[g[k - 1] + 1] = <<"part", q[k]>> /\ z[g[k - 1] + 2] = <<"line", q[k]>>
  <2>1. k \in base..n /\ k - 1 \in base..n
    BY <1>2
  <2>2. /\ q[k] \in Verbs /\ f[k] = f[k - 1] + Size(q[k])
        /\ s[f[k - 1] + 1] = <<"part", q[k]>> /\ s[f[k - 1] + 2] = <<"line", q[k]>>
    BY Zenon, <1>d
  <2>3. Size(q[k]) \in Nat /\ Size(q[k]) >= 2
    BY <2>2, PartsAre
  <2>4. f[k - 1] \in Nat /\ f[k - 1] >= 1 /\ f[k - 1] + 2 <= Len(s) /\ g[k - 1] = f[k - 1] - 1
    <3>1. f[k - 1] \in 0..Len(s) /\ f[k - 1] >= skip /\ f[k] \in 0..Len(s) /\ g[k - 1] = f[k - 1] - 1
      BY <1>5, <1>6, <2>1
    <3>. QED  BY <1>2, <2>2, <2>3, <3>1
  <2>5. g[k - 1] + 1 \in 1..(Len(s) - 1) /\ g[k - 1] + 2 \in 1..(Len(s) - 1)
        /\ (g[k - 1] + 1) + 1 = f[k - 1] + 1 /\ (g[k - 1] + 2) + 1 = f[k - 1] + 2
    BY <1>2, <2>4
  <2>6. z[g[k - 1] + 1] = s[f[k - 1] + 1] /\ z[g[k - 1] + 2] = s[f[k - 1] + 2]
    <3>1. \A i \in 1..(Len(s) - 1) : z[i] = s[i + 1]
      BY <1>4
    <3>2. z[g[k - 1] + 1] = s[(g[k - 1] + 1) + 1] /\ z[g[k - 1] + 2] = s[(g[k - 1] + 2) + 1]
      BY Zenon, <2>5, <3>1
    <3>. QED  BY <2>5, <3>2
  <2>7. g[k] = f[k] - 1
    BY <1>6, <2>1
  <2>. QED  BY <2>2, <2>3, <2>4, <2>6, <2>7
<1>11. Laid(z, q, base, skip - 1)
  BY Zenon, <1>7, <1>8, <1>9, <1>10 DEF Laid
<1>. QED  BY <1>3, <1>11 DEF z

\* When all commands are executed, the stream is empty.
LEMMA LaidEnd ==
    ASSUME NEW s \in Seq(PartSet), NEW q \in Seq(Items), Laid(s, q, Len(q), 0)
    PROVE  s = <<>>
<1>1. Len(s) = 0
  BY DEF Laid
<1>. QED  BY <1>1, EmptySeq

\* Moving the head of one queue to the end of the queue before it changes
\* nothing for the two together (WritePart, FlushOne).
LEMMA MoveHead ==
    ASSUME NEW S, NEW t \in Seq(S), NEW u \in Seq(S), u # <<>>
    PROVE  /\ Append(t, Head(u)) \in Seq(S) /\ Tail(u) \in Seq(S)
           /\ Append(t, Head(u)) \o Tail(u) = t \o u
<1>. DEFINE a == Append(t, Head(u))
            b == Tail(u)
<1>1. /\ Head(u) \in S /\ b \in Seq(S) /\ Len(b) = Len(u) - 1
      /\ \A i \in 1..Len(b) : b[i] = u[i + 1]
  BY HeadTailProperties
<1>2. Head(u) = u[1] /\ Len(u) \in Nat /\ Len(t) \in Nat /\ Len(u) > 0
  OBVIOUS
<1>3. /\ a \in Seq(S) /\ Len(a) = Len(t) + 1 /\ a[Len(t) + 1] = u[1]
      /\ \A i \in 1..Len(t) : a[i] = t[i]
  BY <1>1, <1>2, AppendProperties
<1>. HIDE DEF a, b
<1>4. /\ a \o b \in Seq(S) /\ Len(a \o b) = Len(a) + Len(b)
      /\ \A i \in 1..(Len(a) + Len(b)) : (a \o b)[i] = IF i <= Len(a) THEN a[i] ELSE b[i - Len(a)]
  BY Zenon, <1>1, <1>3, ConcatProperties
<1>5. /\ t \o u \in Seq(S) /\ Len(t \o u) = Len(t) + Len(u)
      /\ \A i \in 1..(Len(t) + Len(u)) : (t \o u)[i] = IF i <= Len(t) THEN t[i] ELSE u[i - Len(t)]
  BY ConcatProperties
<1>6. Len(a \o b) = Len(t \o u)
  BY <1>1, <1>2, <1>3, <1>4, <1>5
<1>7. ASSUME NEW i \in 1..Len(a \o b) PROVE (a \o b)[i] = (t \o u)[i]
  <2>0. i \in 1..(Len(a) + Len(b)) /\ i \in 1..(Len(t) + Len(u))
    BY <1>4, <1>5, <1>6
  <2>1. CASE i <= Len(t)
    BY <1>2, <1>3, <1>4, <1>5, <2>0, <2>1
  <2>2. CASE i = Len(t) + 1
    <3>1. i - Len(t) = 1 /\ ~(i <= Len(t)) /\ i <= Len(a)
      BY <1>2, <1>3, <2>2
    <3>2. (t \o u)[i] = u[1]
      BY <1>5, <2>0, <3>1
    <3>. QED  BY <1>3, <1>4, <2>0, <2>2, <3>1, <3>2
  <2>3. CASE i > Len(t) + 1
    <3>1. /\ i - Len(a) \in 1..Len(b) /\ (i - Len(a)) + 1 = i - Len(t)
          /\ ~(i <= Len(t)) /\ ~(i <= Len(a))
      BY <1>1, <1>2, <1>3, <2>0, <2>3
    <3>2. (a \o b)[i] = b[i - Len(a)] /\ (t \o u)[i] = u[i - Len(t)]
      BY <1>4, <1>5, <2>0, <3>1
    <3>. QED  BY Zenon, <1>1, <3>1, <3>2
  <2>. QED  BY <1>2, <2>0, <2>1, <2>2, <2>3
<1>8. a \o b = t \o u
  BY <1>4, <1>5, <1>6, <1>7, SeqEqual
<1>. QED  BY <1>1, <1>3, <1>8 DEF a, b

\* Taking the head of the first of two queues takes the head of both together.
LEMMA ConcatTail ==
    ASSUME NEW S, NEW s \in Seq(S), NEW t \in Seq(S), s # <<>>
    PROVE  s \o t # <<>> /\ Tail(s) \o t = Tail(s \o t) /\ (s \o t)[1] = s[1]
<1>. DEFINE a == Tail(s)
            z == s \o t
            y == Tail(z)
<1>1. a \in Seq(S) /\ Len(a) = Len(s) - 1 /\ \A i \in 1..Len(a) : a[i] = s[i + 1]
  BY HeadTailProperties
<1>2. Len(s) \in Nat /\ Len(t) \in Nat /\ Len(s) > 0
  OBVIOUS
<1>3. /\ z \in Seq(S) /\ Len(z) = Len(s) + Len(t)
      /\ \A i \in 1..(Len(s) + Len(t)) : z[i] = IF i <= Len(s) THEN s[i] ELSE t[i - Len(s)]
  BY ConcatProperties
<1>4. z # <<>> /\ z[1] = s[1]
  <2>. HIDE DEF z
  <2>1. Len(z) > 0
    BY <1>2, <1>3
  <2>2. Len(<<>>) = 0
    OBVIOUS
  <2>3. z # <<>>
    BY <2>1, <2>2
  <2>. QED  BY <1>2, <1>3, <2>3
<1>5. y \in Seq(S) /\ Len(y) = Len(z) - 1 /\ \A i \in 1..Len(y) : y[i] = z[i + 1]
  <2>. HIDE DEF z
  <2>. QED  BY <1>3, <1>4, HeadTailProperties
<1>. HIDE DEF a, y, z
<1>6. /\ a \o t \in Seq(S) /\ Len(a \o t) = Len(a) + Len(t)
      /\ \A i \in 1..(Len(a) + Len(t)) : (a \o t)[i] = IF i <= Len(a) THEN a[i] ELSE t[i - Len(a)]
  BY Zenon, <1>1, ConcatProperties
<1>7. Len(a \o t) = Len(y)
  BY <1>1, <1>2, <1>3, <1>5, <1>6
<1>8. ASSUME NEW i \in 1..Len(a \o t) PROVE (a \o t)[i] = y[i]
  <2>1. i \in 1..(Len(a) + Len(t)) /\ i + 1 \in 1..(Len(s) + Len(t)) /\ i \in 1..Len(y)
    BY <1>1, <1>2, <1>6, <1>7
  <2>2. CASE i <= Len(a)
    <3>1. i + 1 <= Len(s) /\ i \in 1..Len(a)
      BY <1>1, <1>2, <2>2
    <3>. QED  BY <1>1, <1>3, <1>5, <1>6, <2>1, <2>2, <3>1
  <2>3. CASE ~(i <= Len(a))
    <3>1. ~(i + 1 <= Len(s)) /\ i - Len(a) = (i + 1) - Len(s)
      BY <1>1, <1>2, <2>3
    <3>2. (a \o t)[i] = t[i - Len(a)] /\ z[i + 1] = t[(i + 1) - Len(s)] /\ y[i] = z[i + 1]
      BY <1>3, <1>5, <1>6, <2>1, <2>3, <3>1
    <3>. QED  BY <3>1, <3>2
  <2>. QED  BY <2>2, <2>3
<1>9. a \o t = y
  BY Zenon, <1>5, <1>6, <1>7, <1>8, SeqEqual
<1>. QED  BY <1>4, <1>9 DEF a, y, z

\* The same for the two parts of a command line.
LEMMA ConcatDrop ==
    ASSUME NEW S, NEW s \in Seq(S), NEW t \in Seq(S), Len(s) >= 2
    PROVE  SubSeq(s, 3, Len(s)) \o t = SubSeq(s \o t, 3, Len(s \o t)) /\ SubSeq(s, 3, Len(s)) \in Seq(S)
<1>1. s # <<>> /\ Tail(s) \in Seq(S) /\ Len(Tail(s)) = Len(s) - 1
  <2>1. s # <<>>
    OBVIOUS
  <2>. QED  BY <2>1, HeadTailProperties
<1>2. Tail(s) # <<>>
  <2>1. Len(Tail(s)) > 0
    BY <1>1
  <2>. QED  BY <2>1
<1>3. ASSUME NEW z \in Seq(S), Len(z) >= 2 PROVE Tail(Tail(z)) = SubSeq(z, 3, Len(z))
  <2>1. z # <<>> /\ Len(z) \in Nat /\ 1 \in 1..Len(z) /\ 2 \in 1..Len(z) /\ Len(z) \in 2..Len(z)
    BY <1>3
  <2>2. Tail(z) = SubSeq(z, 2, Len(z))
    BY <1>3, <2>1, TailIsSubSeq
  <2>3. Tail(SubSeq(z, 2, Len(z))) = SubSeq(z, 2 + 1, Len(z))
    BY <1>3, <2>1, HeadTailOfSubSeq
  <2>. QED  BY <2>2, <2>3
<1>4. Tail(s) \o t = Tail(s \o t)
  BY <1>1, ConcatTail
<1>5. Tail(Tail(s)) \o t = Tail(Tail(s) \o t)
  BY Zenon, <1>1, <1>2, ConcatTail
<1>6. s \o t \in Seq(S) /\ Len(s \o t) = Len(s) + Len(t) /\ Len(s) \in Nat /\ Len(t) \in Nat
  BY ConcatProperties
<1>7. Tail(Tail(s \o t)) = SubSeq(s \o t, 3, Len(s \o t))
  BY <1>3, <1>6
<1>8. Tail(Tail(s)) \in Seq(S)
  BY <1>1, <1>2, HeadTailProperties
<1>. QED  BY Zenon, <1>3, <1>4, <1>5, <1>7, <1>8

\* Concatenation of parts is associative.
LEMMA PartsAssociate ==
    \A s, t, u \in Seq(PartSet) : (s \o t) \o u = s \o (t \o u)
  BY ConcatAssociative

\* The stream and the replies are sequences.
LEMMA Sequences ==
    ASSUME Types
    PROVE  /\ Stream \in Seq(PartSet) /\ Replied \in Seq(Replies)
           /\ Len(Stream) \in Nat /\ Len(Replied) \in Nat /\ Len(owed) \in Nat
           /\ Len(Replied) = Len(toClient) + Len(pending)
  BY ConcatProperties DEF Types, Stream, Replied

\* The stream begins with what LineReader has buffered.
LEMMA StreamBegins ==
    ASSUME Types, buffered # <<>>
    PROVE  /\ Stream # <<>> /\ Stream[1] = buffered[1]
           /\ (Tail(buffered) \o toServer) \o unsent = Tail(Stream) /\ Tail(buffered) \in Seq(PartSet)
<1>1. buffered \in Seq(PartSet) /\ toServer \in Seq(PartSet) /\ unsent \in Seq(PartSet)
  BY DEF Types
<1>2. /\ buffered \o toServer # <<>> /\ (buffered \o toServer)[1] = buffered[1]
      /\ Tail(buffered) \o toServer = Tail(buffered \o toServer)
      /\ buffered \o toServer \in Seq(PartSet)
  BY <1>1, ConcatTail, ConcatProperties
<1>3. /\ Stream # <<>> /\ Stream[1] = buffered[1]
      /\ Tail(buffered \o toServer) \o unsent = Tail(Stream)
  BY <1>1, <1>2, ConcatTail DEF Stream
<1>4. Tail(buffered) \in Seq(PartSet)
  BY <1>1, HeadTailProperties
<1>. QED  BY Zenon, <1>2, <1>3, <1>4

\* ReadCommand takes the first two parts of the stream.
LEMMA StreamDrops ==
    ASSUME Types, Len(buffered) >= 2, buffered' = SubSeq(buffered, 3, Len(buffered)),
           UNCHANGED <<toServer, unsent>>
    PROVE  Stream[2] = buffered[2] /\ Stream' = SubSeq(Stream, 3, Len(Stream)) /\ buffered' \in Seq(PartSet)
<1>1. buffered \in Seq(PartSet) /\ toServer \in Seq(PartSet) /\ unsent \in Seq(PartSet)
  BY DEF Types
<1>. DEFINE bt == buffered \o toServer
<1>2. /\ bt \in Seq(PartSet) /\ Len(bt) = Len(buffered) + Len(toServer)
      /\ \A i \in 1..(Len(buffered) + Len(toServer)) :
            bt[i] = IF i <= Len(buffered) THEN buffered[i] ELSE toServer[i - Len(buffered)]
  BY <1>1, ConcatProperties
<1>3. /\ SubSeq(buffered, 3, Len(buffered)) \o toServer = SubSeq(bt, 3, Len(bt))
      /\ SubSeq(buffered, 3, Len(buffered)) \in Seq(PartSet)
  BY Zenon, <1>1, ConcatDrop
<1>4. Stream' = SubSeq(bt, 3, Len(bt)) \o unsent
  BY Zenon, <1>3 DEF Stream
<1>5. Stream = bt \o unsent
  BY DEF Stream
<1>. HIDE DEF bt
<1>6. Len(buffered) \in Nat /\ Len(toServer) \in Nat /\ Len(unsent) \in Nat
  BY <1>1
<1>7. Len(bt) >= 2 /\ bt[2] = buffered[2]
  BY <1>2, <1>6
<1>8. Stream' = SubSeq(Stream, 3, Len(Stream))
  BY Zenon, <1>1, <1>2, <1>4, <1>5, <1>7, ConcatDrop
<1>9. \A i \in 1..(Len(bt) + Len(unsent)) : Stream[i] = IF i <= Len(bt) THEN bt[i] ELSE unsent[i - Len(bt)]
  BY <1>1, <1>2, <1>5, ConcatProperties
<1>10. 2 \in 1..(Len(bt) + Len(unsent)) /\ 2 <= Len(bt)
  BY <1>2, <1>6, <1>7
<1>. QED  BY <1>3, <1>7, <1>8, <1>9, <1>10

\* A step that moves no part across the two ends and decides nothing, or that
\* closes the connection.
LEMMA QuietKeeps ==
    ASSUME Inv, at' = at \/ (at = "top" /\ at' = "read") \/ at' = "closed",
           Stream' = Stream \/ at' = "closed", Replied' = Replied, misread' = misread,
           UNCHANGED <<owed, answer, verb, remaining, spool, acked, lost, phase, chunked>>
    PROVE  (StreamInv /\ OrderInv /\ ChunkInv /\ ~misread)'
<1>1. StreamInv'
  BY DEF Inv, StreamInv, InChunk, InContent
<1>2. OrderInv'
  BY DEF Inv, OrderInv
<1>3. ChunkInv'
  <2>1. at' # "closed" => at # "closed" \/ at' = at
    OBVIOUS
  <2>. QED  BY <2>1 DEF Inv, ChunkInv
<1>. QED  BY <1>1, <1>2, <1>3 DEF Inv

\* WritePart preserves the invariant: the stream does not change.
LEMMA WritePartKeeps ==
    ASSUME Inv, WritePart
    PROVE  Inv'
<1>1. unsent \in Seq(PartSet) /\ toServer \in Seq(PartSet) /\ buffered \in Seq(PartSet) /\ unsent # <<>>
  BY DEF Inv, Types, WritePart
<1>2. /\ toServer' \in Seq(PartSet) /\ unsent' \in Seq(PartSet)
      /\ toServer' \o unsent' = toServer \o unsent
  BY <1>1, MoveHead DEF WritePart
<1>3. Stream' = Stream
  <2>1. Stream = buffered \o (toServer \o unsent)
    BY <1>1, ConcatAssociative DEF Stream
  <2>2. (buffered \o toServer') \o unsent' = buffered \o (toServer' \o unsent')
    BY Zenon, <1>1, <1>2, PartsAssociate
  <2>3. Stream' = (buffered \o toServer') \o unsent'
    BY DEF Stream, WritePart
  <2>. QED  BY <1>2, <2>1, <2>2, <2>3
<1>4. at' = at /\ Replied' = Replied
  BY DEF at, Replied, WritePart
<1>5. UNCHANGED <<owed, answer, verb, remaining, spool, acked, lost, phase, chunked, misread>>
  BY DEF WritePart, session
<1>6. Types'
  BY <1>2 DEF Inv, Types, WritePart, session
<1>7. FlushInv'
  BY DEF Inv, FlushInv, Waits, isSyncPoint, WritePart
<1>. QED  BY <1>3, <1>4, <1>5, <1>6, <1>7, QuietKeeps DEF Inv

\* So does one read from the connection, of any length.
LEMMA FillKeeps ==
    ASSUME Inv, NEW n \in 1..Window, Fill(n)
    PROVE  Inv'
<1>1. unsent \in Seq(PartSet) /\ toServer \in Seq(PartSet) /\ buffered \in Seq(PartSet)
  BY DEF Inv, Types
<1>. DEFINE a == SubSeq(toServer, 1, n)
            b == SubSeq(toServer, n + 1, Len(toServer))
<1>2. n \in Nat /\ n >= 1 /\ n <= Len(toServer) /\ Len(toServer) \in Nat
  BY <1>1, WindowAssumption DEF Fill
<1>3. a \in Seq(PartSet) /\ b \in Seq(PartSet) /\ a \o b = toServer
  <2>1. a \in Seq(PartSet) /\ b \in Seq(PartSet)
    <3>1. (\A i \in 1..n : toServer[i] \in PartSet) /\ (\A i \in (n + 1)..Len(toServer) : toServer[i] \in PartSet)
      BY <1>1, <1>2
    <3>. QED  BY <1>2, <3>1, SubSeqProperties
  <2>2. 1 \in 1..(Len(toServer) + 1) /\ n \in (1 - 1)..Len(toServer) /\ Len(toServer) \in n..Len(toServer)
    BY <1>2
  <2>3. a \o b = SubSeq(toServer, 1, Len(toServer))
    BY <1>1, <2>2, ConcatAdjacentSubSeq
  <2>. QED  BY <1>1, <2>1, <2>3, SubSeqFull
<1>4. buffered' = buffered \o a /\ toServer' = b /\ unsent' = unsent
  BY DEF Fill, client
<1>. HIDE DEF a, b
<1>5. buffered' \in Seq(PartSet) /\ buffered' \o toServer' = buffered \o toServer
  <2>1. (buffered \o a) \o b = buffered \o (a \o b)
    BY Zenon, <1>1, <1>3, PartsAssociate
  <2>2. buffered \o a \in Seq(PartSet)
    BY <1>1, <1>3, ConcatProperties
  <2>. QED  BY <1>3, <1>4, <2>1, <2>2
<1>6. Stream' = Stream
  BY <1>4, <1>5 DEF Stream
<1>7. at' = at /\ Replied' = Replied
  BY DEF at, Replied, Fill
<1>8. UNCHANGED <<owed, answer, verb, remaining, spool, acked, lost, phase, chunked, misread, pc, after, pending, toClient>>
  BY DEF Fill, client, session
<1>9. Types'
  BY <1>3, <1>4, <1>5, <1>8 DEF Inv, Types
<1>10. FlushInv'
  BY <1>8 DEF Inv, FlushInv, Waits, isSyncPoint
<1>. QED  BY <1>6, <1>7, <1>8, <1>9, <1>10, QuietKeeps DEF Inv

\* So does the top of the loop, and the end of the context.
LEMMA TopKeeps ==
    ASSUME Inv, Top \/ ContextDone
    PROVE  Inv'
<1>1. /\ UNCHANGED <<owed, answer, verb, remaining, spool, acked, lost, phase, chunked, misread>>
      /\ UNCHANGED <<buffered, toServer, unsent, toClient, pending>>
  BY DEF Top, ContextDone, client, session
<1>2. /\ pc = "top" /\ after' \in {after, "read"} /\ pc' \in {"flush", "read", "closed"}
      /\ at = "top" /\ at' \in {"read", "closed"}
  BY DEF Top, ContextDone, at
<1>3. Stream' = Stream /\ Replied' = Replied
  BY <1>1 DEF Stream, Replied
<1>4. Types'
  BY <1>1, <1>2 DEF Inv, Types
<1>5. FlushInv'
  BY <1>1, <1>2 DEF Inv, FlushInv, Waits, isSyncPoint
<1>. QED  BY <1>1, <1>2, <1>3, <1>4, <1>5, QuietKeeps DEF Inv

\* So does a reply that leaves the buffer.
LEMMA FlushOneKeeps ==
    ASSUME Inv, FlushOne
    PROVE  Inv'
<1>1. /\ UNCHANGED <<owed, answer, verb, remaining, spool, acked, lost, phase, chunked, misread>>
      /\ UNCHANGED <<buffered, toServer, unsent, pc, after>> /\ pc = "flush"
  BY DEF FlushOne, client, session
<1>2. /\ toClient' \in Seq(Replies) /\ pending' \in Seq(Replies) /\ Replied' = Replied
  <2>1. /\ toClient \in Seq(Replies) /\ pending \in Seq(Replies) /\ pending # <<>>
        /\ toClient' = Append(toClient, Head(pending)) /\ pending' = Tail(pending)
    BY Zenon DEF Inv, Types, FlushOne
  <2>. QED  BY <2>1, MoveHead DEF Replied
<1>3. Stream' = Stream /\ at' = at
  BY <1>1 DEF Stream, at
<1>4. Types'
  BY <1>1, <1>2 DEF Inv, Types
<1>5. FlushInv'
  BY <1>1 DEF FlushInv
<1>. QED  BY <1>1, <1>2, <1>3, <1>4, <1>5, QuietKeeps DEF Inv

\* So does the end of Flush: the buffer is empty.
LEMMA FlushedKeeps ==
    ASSUME Inv, Flushed
    PROVE  Inv'
<1>1. /\ UNCHANGED <<owed, answer, verb, remaining, spool, acked, lost, phase, chunked, misread>>
      /\ UNCHANGED <<buffered, toServer, unsent, toClient, pending, after>> /\ pending = <<>>
  BY DEF Flushed, client, session
<1>2. Stream' = Stream /\ Replied' = Replied
  BY <1>1 DEF Stream, Replied
<1>3. pc = "flush" /\ pc' = after /\ after \in {"top", "read", "content", "closed"}
  BY DEF Inv, Types, Flushed
<1>4. at' = at
  BY <1>1, <1>3 DEF at
<1>5. Types'
  BY <1>1, <1>3 DEF Inv, Types
<1>6. FlushInv'
  BY <1>1 DEF FlushInv
<1>. QED  BY <1>1, <1>2, <1>4, <1>5, <1>6, QuietKeeps DEF Inv

\* Begin: what comes before the d-th command stays the same.
LEMMA FreshBegins ==
    ASSUME NEW q \in Seq(Items), NEW v \in Items, NEW n \in Nat, NEW a, NEW d \in 1..(Len(q) + 1),
           Fresh(q, n, a, d)
    PROVE  Fresh(Append(q, v), n, a, d)
<1>1. Len(q) \in Nat /\ \A i \in 1..Len(q) : Append(q, v)[i] = q[i]
  BY AppendProperties
<1>2. \A b \in (n + 1)..(d - 1) : Append(q, v)[b] = q[b]
  BY <1>1
<1>3. \A b \in (n + 1)..(d - 1) : \A r \in (b + 1)..(d - 1) : Append(q, v)[r] = q[r]
  BY <1>1
<1>. QED  BY <1>2, <1>3 DEF Fresh

\* Begin: a command that is no chunk leaves no chunk behind, and RSET and LAST
\* take away the ones before.
LEMMA FreshGrows ==
    ASSUME NEW q \in Seq(Items), NEW v \in Items, NEW n \in Nat, n <= Len(q), NEW a \in Nat, v # "BDAT",
           v \in {"RSET", "LAST"} \/ Fresh(q, n, a, Len(q) + 1)
    PROVE  Fresh(Append(q, v), n, a, Len(Append(q, v)) + 1)
<1>. DEFINE w == Append(q, v)
            e == Len(q) + 1
<1>1. /\ Len(q) \in Nat /\ \A i \in 1..Len(q) : w[i] = q[i]
      /\ w[e] = v /\ (Len(w) + 1) - 1 = e /\ e \in Nat /\ e >= n + 1 /\ e \in (n + 1)..e
  BY AppendProperties
<1>2. CASE v \in {"RSET", "LAST"}
  <2>1. ASSUME NEW b \in (n + 1)..e, w[b] = "BDAT" PROVE e \in (b + 1)..e
    <3>1. b # e
      BY <1>1, <2>1
    <3>. QED  BY <1>1, <3>1
  <2>2. w[e] \in {"RSET", "LAST"}
    BY <1>1, <1>2
  <2>. HIDE DEF e, w
  <2>. QED  BY <1>1, <2>1, <2>2 DEF Fresh, w
<1>3. CASE Fresh(q, n, a, Len(q) + 1)
  <2>1. Fresh(w, n, a, e)
    BY <1>1, <1>3, FreshBegins
  <2>2. w[e] # "BDAT" /\ \A b \in (n + 1)..e : b = e \/ b \in (n + 1)..(e - 1)
    BY <1>1
  <2>3. /\ \A r \in (n + 1)..(e - 1) : r \in (n + 1)..e
        /\ \A b \in (n + 1)..(e - 1) : \A r \in (b + 1)..(e - 1) : r \in (b + 1)..e
    BY <1>1
  <2>. HIDE DEF e, w
  <2>. QED  BY <1>1, <2>1, <2>2, <2>3 DEF Fresh, w
<1>. QED  BY <1>2, <1>3

\* A command or a content begun by the client preserves the invariant.
LEMMA BeginKeeps ==
    ASSUME Inv, NEW v \in Verbs \union {"content"}, Begin(v)
    PROVE  Inv'
<1>1. /\ UNCHANGED <<answer, toServer, buffered, pc, after, verb, remaining, spool, acked, lost, phase,
                     pending, toClient, misread>>
      /\ unsent = <<>> /\ unsent' = Parts(v) /\ owed' = Append(owed, v) /\ chunked' = chunkedAfter(v)
      /\ owed # <<>> => ~isSyncPoint(owed[Len(owed)])
      /\ IF owed = <<>> /\ answer = <<"DATA", 354>> THEN v = "content" ELSE v \in Verbs /\ (v = "DATA" => ~chunked)
  BY DEF Begin, GroupRoom, session
<1>2. /\ owed \in Seq(Items) /\ v \in Items /\ Len(owed) \in Nat /\ Stream \in Seq(PartSet)
      /\ Replied \in Seq(Replies) /\ Len(Replied) \in Nat /\ Len(Replied) <= Len(owed) /\ Types
  BY Sequences DEF Inv, Types, Items, OrderInv
<1>3. /\ owed' \in Seq(Items) /\ Len(owed') = Len(owed) + 1 /\ owed' # <<>>
      /\ owed'[Len(owed) + 1] = v /\ \A i \in 1..Len(owed) : owed'[i] = owed[i]
  BY <1>1, <1>2, AppendProperties
<1>4. Parts(v) \in Seq(PartSet)
  BY PartsAre, ContentParts
<1>5. Stream' = Stream \o Parts(v)
  <2>1. buffered \in Seq(PartSet) /\ toServer \in Seq(PartSet)
    BY DEF Inv, Types
  <2>2. buffered \o toServer \in Seq(PartSet)
    BY <2>1, ConcatProperties
  <2>3. Stream = buffered \o toServer
    BY <1>1, <2>2, ConcatEmptySeq DEF Stream
  <2>. QED  BY <1>1, <2>3 DEF Stream
<1>6. Replied' = Replied /\ at' = at
  BY <1>1 DEF Replied, at
<1>7. Types'
  <2>1. chunked' \in BOOLEAN
    BY <1>1 DEF chunkedAfter
  <2>. QED  BY <1>1, <1>3, <1>4, <2>1 DEF Inv, Types
<1>8. StreamInv'
  <2>1. ASSUME at \in {"top", "read"} PROVE Laid(Stream', owed', Len(Replied'), 0)
    <3>1. v \in Verbs /\ Laid(Stream, owed, Len(Replied), 0)
      BY <1>1, <2>1 DEF Inv, StreamInv, OrderInv
    <3>. QED  BY <1>1, <1>2, <1>5, <1>6, <3>1, LaidBegins
  <2>2. ASSUME at = "chunk" PROVE InChunk'
    <3>1. v \in Verbs /\ InChunk
      BY <1>1, <2>2 DEF Inv, StreamInv, OrderInv
    <3>2. remaining \in Nat /\ Len(Replied) + 1 \in Nat /\ Len(Replied) + 1 <= Len(owed)
      BY <1>2, <3>1 DEF InChunk, Types
    <3>3. Laid(Stream', owed', Len(Replied) + 1, remaining)
      BY <1>1, <1>2, <1>5, <3>1, <3>2, LaidBegins DEF InChunk
    <3>4. owed'[Len(Replied) + 1] = owed[Len(Replied) + 1] /\ Len(Replied) < Len(owed')
      BY <1>2, <1>3, <3>2
    <3>. QED  BY <1>1, <1>6, <3>1, <3>3, <3>4 DEF InChunk
  <2>3. ASSUME at = "content" PROVE InContent'
    <3>1. InContent
      BY <2>3 DEF Inv, StreamInv
    <3>2. owed = <<>> /\ Stream = <<>> /\ answer = <<"DATA", 354>>
      BY <1>1, <1>2, <3>1 DEF InContent, isSyncPoint, Inv, OrderInv
    <3>3. v = "content" /\ Replied = <<>> /\ Len(owed') = 1 /\ owed'[1] = "content"
      <4>1. Len(owed) = 0 /\ Len(Replied) = 0
        BY <1>2, <3>2
      <4>2. Replied = <<>>
        BY <1>2, <4>1, EmptySeq
      <4>. QED  BY <1>1, <1>3, <3>2, <4>1, <4>2
    <3>4. Stream' = Parts("content")
      BY <1>4, <1>5, <3>2, <3>3, ConcatEmptySeq
    <3>. QED  BY <1>6, <3>3, <3>4, ContentParts DEF InContent
  <2>. QED  BY <1>6, <2>1, <2>2, <2>3 DEF StreamInv
<1>9. OrderInv'
  <2>1. \A i \in 1..Len(Replied) : i \in 1..Len(owed)
    BY <1>2
  <2>2. \A i \in 1..(Len(owed') - 1) : ~isSyncPoint(owed'[i])
    <3>. SUFFICES ASSUME NEW i \in 1..(Len(owed') - 1) PROVE ~isSyncPoint(owed'[i])
      OBVIOUS
    <3>1. i \in 1..Len(owed) /\ owed # <<>> /\ owed'[i] = owed[i]
      BY <1>2, <1>3
    <3>2. i = Len(owed) \/ i \in 1..(Len(owed) - 1)
      BY <1>2, <3>1
    <3>. QED  BY <1>1, <3>1, <3>2 DEF Inv, OrderInv
  <2>3. Len(Replied) <= Len(owed')
    BY <1>2, <1>3
  <2>. QED  BY <1>3, <1>6, <2>1, <2>2, <2>3 DEF Inv, OrderInv, isSyncPoint
<1>10. FlushInv'
  BY <1>1 DEF Inv, FlushInv, Waits, isSyncPoint
<1>11. ChunkInv'
  <2>1. ASSUME NEW d \in 1..(Len(owed) + 1), Fresh(owed, Len(Replied), acked, d)
        PROVE  Fresh(owed', Len(Replied), acked, d)
    BY <1>1, <1>2, <2>1, FreshBegins
  <2>2. ASSUME at # "closed", NEW d \in (Len(Replied) + 1)..Len(owed'), owed'[d] = "DATA"
        PROVE  Fresh(owed', Len(Replied), acked, d)
    <3>1. CASE d = Len(owed) + 1
      <4>1. Fresh(owed, Len(Replied), acked, Len(owed) + 1)
        BY <1>1, <1>3, <2>2, <3>1 DEF Inv, ChunkInv
      <4>. QED  BY <1>2, <2>1, <3>1, <4>1
    <3>2. CASE d # Len(owed) + 1
      <4>1. d \in (Len(Replied) + 1)..Len(owed) /\ d \in 1..(Len(owed) + 1) /\ owed'[d] = owed[d]
        BY <1>2, <1>3, <3>2
      <4>2. Fresh(owed, Len(Replied), acked, d)
        BY <2>2, <4>1 DEF Inv, ChunkInv
      <4>. QED  BY <2>1, <4>1, <4>2
    <3>. QED  BY <3>1, <3>2
  <2>3. ASSUME at # "closed", ~chunked'
        PROVE  Fresh(owed', Len(Replied), acked, Len(owed') + 1)
    <3>1. v # "BDAT" /\ (v \in {"RSET", "LAST"} \/ ~chunked)
      BY Zenon, <1>1, <2>3 DEF chunkedAfter
    <3>2. v \in {"RSET", "LAST"} \/ Fresh(owed, Len(Replied), acked, Len(owed) + 1)
      BY <2>3, <3>1 DEF Inv, ChunkInv
    <3>3. acked \in Nat
      BY <1>2 DEF Types
    <3>. QED  BY <1>1, <1>2, <3>1, <3>2, <3>3, FreshGrows
  <2>4. \A i \in 1..Len(Replied) : \A j \in (i + 1)..Len(Replied) : owed'[j] = owed[j]
    BY <1>2, <1>3
  <2>5. spool' = acked' /\ ~lost' /\ (acked' > 0 => phase' = "recipients") /\ (at' = "content" => acked' = 0)
    BY <1>1, <1>6 DEF Inv, ChunkInv
  <2>6. ASSUME NEW i \in 1..Len(Replied), Replied[i] = <<"MAIL", 250>>, acked > 0
        PROVE  \E j \in (i + 1)..Len(Replied) : owed'[j] = "BDAT"
    BY <2>4, <2>6 DEF Inv, ChunkInv
  <2>. QED  BY Zenon, <1>1, <1>6, <2>2, <2>3, <2>5, <2>6 DEF ChunkInv
<1>. QED  BY <1>1, <1>7, <1>8, <1>9, <1>10, <1>11 DEF Inv

\* ReadReply: the positions move by one.
LEMMA FreshRead ==
    ASSUME NEW q \in Seq(Items), q # <<>>, NEW n \in Nat, n >= 1, n <= Len(q), NEW a,
           NEW d \in 0..Len(q), Fresh(q, n, a, d + 1)
    PROVE  Fresh(Tail(q), n - 1, a, d)
<1>. DEFINE w == Tail(q)
<1>1. Len(q) \in Nat /\ Len(w) = Len(q) - 1 /\ \A i \in 1..Len(w) : w[i] = q[i + 1]
  BY HeadTailProperties
<1>. HIDE DEF w
<1>2. \A r \in (n + 1)..((d + 1) - 1) : r - 1 \in ((n - 1) + 1)..(d - 1) /\ w[r - 1] = q[r]
  BY <1>1
<1>3. ASSUME a > 0 PROVE \E r \in ((n - 1) + 1)..(d - 1) : w[r] \in {"RSET", "LAST"}
  BY <1>2, <1>3 DEF Fresh
<1>4. ASSUME NEW b \in ((n - 1) + 1)..(d - 1), w[b] = "BDAT"
      PROVE  \E r \in (b + 1)..(d - 1) : w[r] \in {"RSET", "LAST"}
  <2>1. b + 1 \in (n + 1)..((d + 1) - 1) /\ q[b + 1] = "BDAT"
    <3>1. b \in 1..Len(w) /\ b + 1 \in (n + 1)..((d + 1) - 1)
      BY <1>1
    <3>. QED  BY Zenon, <1>1, <1>4, <3>1
  <2>2. PICK r \in ((b + 1) + 1)..((d + 1) - 1) : q[r] \in {"RSET", "LAST"}
    BY <2>1 DEF Fresh
  <2>3. r \in (n + 1)..((d + 1) - 1) /\ r - 1 \in (b + 1)..(d - 1)
    BY <2>1
  <2>. QED  BY Zenon, <1>2, <2>2, <2>3
<1>5. Fresh(w, n - 1, a, d)
  BY <1>3, <1>4 DEF Fresh
<1>. QED  BY <1>5 DEF w

\* A reply read by the client preserves the invariant.  The case that matters
\* is MAIL's 250, upon which the client takes the transaction for a new one.
LEMMA ReadReplyKeeps ==
    ASSUME Inv, ReadReply
    PROVE  Inv'
<1>. DEFINE n == Len(Replied)
<1>1. /\ UNCHANGED <<toServer, buffered, unsent, pc, after, verb, remaining, spool, acked, lost, phase,
                     pending, misread>>
      /\ toClient # <<>> /\ answer' = Head(toClient) /\ owed' = Tail(owed) /\ toClient' = Tail(toClient)
      /\ chunked' = chunkedUpon(Head(toClient), Tail(owed))
  BY DEF ReadReply, session
<1>2. /\ owed \in Seq(Items) /\ toClient \in Seq(Replies) /\ pending \in Seq(Replies)
      /\ Stream \in Seq(PartSet) /\ Replied \in Seq(Replies) /\ n \in Nat /\ Len(owed) \in Nat
      /\ n <= Len(owed) /\ Types /\ acked \in Nat
  BY Sequences DEF Inv, Types, OrderInv
<1>3. Replied # <<>> /\ Replied' = Tail(Replied) /\ Replied[1] = Head(toClient) /\ toClient' \in Seq(Replies)
  <2>1. /\ toClient \o pending # <<>> /\ Tail(toClient) \o pending = Tail(toClient \o pending)
        /\ (toClient \o pending)[1] = toClient[1]
    BY Zenon, <1>1, <1>2, ConcatTail
  <2>2. Tail(toClient) \in Seq(Replies) /\ Head(toClient) = toClient[1]
    BY <1>1, <1>2, HeadTailProperties
  <2>. QED  BY <1>1, <2>1, <2>2 DEF Replied
<1>4. n >= 1 /\ Len(Replied') = n - 1 /\ \A i \in 1..(n - 1) : Replied'[i] = Replied[i + 1]
  <2>1. n >= 1
    BY <1>2, <1>3
  <2>. QED  BY <1>2, <1>3, <2>1, HeadTailProperties
<1>5. /\ owed # <<>> /\ owed' \in Seq(Items) /\ Len(owed') = Len(owed) - 1
      /\ \A i \in 1..(Len(owed) - 1) : owed'[i] = owed[i + 1]
  <2>1. owed # <<>>
    BY <1>2, <1>4
  <2>. QED  BY <1>1, <1>2, <2>1, HeadTailProperties
<1>6. at' = at /\ Stream' = Stream
  BY <1>1 DEF at, Stream
<1>7. Types'
  <2>1. chunked' \in BOOLEAN
    BY <1>1, <1>2 DEF chunkedUpon, Types
  <2>. QED  BY <1>1, <1>2, <1>3, <1>5, <2>1 DEF Types
<1>8. StreamInv'
  <2>1. ASSUME at \in {"top", "read"} PROVE Laid(Stream', owed', Len(Replied'), 0)
    BY <1>1, <1>2, <1>4, <1>6, <2>1, LaidRead DEF Inv, StreamInv
  <2>2. ASSUME at = "chunk" PROVE InChunk'
    <3>1. InChunk
      BY <2>2 DEF Inv, StreamInv
    <3>2. n + 1 \in Nat /\ n + 1 <= Len(owed) /\ n + 1 > 0 /\ remaining \in Nat /\ (n + 1) - 1 = n
      BY <1>2, <3>1 DEF InChunk, Types
    <3>3. Laid(Stream, Tail(owed), (n + 1) - 1, remaining)
      BY <1>2, <3>1, <3>2, LaidRead DEF InChunk
    <3>4. Len(Replied') + 1 = n /\ Len(Replied') < Len(owed') /\ owed'[n] = owed[n + 1]
      BY <1>2, <1>4, <1>5, <3>2
    <3>. QED  BY <1>1, <1>6, <3>1, <3>2, <3>3, <3>4 DEF InChunk
  <2>3. ASSUME at = "content" PROVE InContent'
    <3>1. InContent
      BY <2>3 DEF Inv, StreamInv
    <3>2. Stream = <<>> /\ n = Len(owed) /\ Replied[Len(owed)] = <<"DATA", 354>>
      BY <1>3, <1>5, <3>1 DEF InContent
    <3>3. CASE Len(owed) = 1
      <4>1. Len(owed') = 0 /\ answer' = <<"DATA", 354>>
        BY <1>1, <1>3, <1>5, <3>2, <3>3
      <4>2. owed' = <<>>
        BY <1>5, <4>1, EmptySeq
      <4>. QED  BY <1>6, <3>2, <4>1, <4>2 DEF InContent
    <3>4. CASE Len(owed) # 1
      <4>1. Len(owed') \in 1..(n - 1) /\ Len(owed') = Len(Replied') /\ Len(owed') + 1 = Len(owed)
        BY <1>2, <1>4, <1>5, <3>2, <3>4
      <4>2. owed' # <<>>
        BY <4>1
      <4>. QED  BY <1>4, <1>6, <3>2, <4>1, <4>2 DEF InContent
    <3>. QED  BY <3>3, <3>4
  <2>. QED  BY <1>6, <2>1, <2>2, <2>3 DEF StreamInv
<1>9. OrderInv'
  <2>1. \A i \in 1..(n - 1) : i + 1 \in 1..n /\ i \in 1..(Len(owed) - 1)
    BY <1>2
  <2>2. \A i \in 1..Len(Replied') : Replied'[i][1] = owed'[i]
    BY <1>4, <1>5, <2>1 DEF Inv, OrderInv
  <2>3. \A i \in 1..Len(Replied') : Replied'[i] = <<"DATA", 354>> => at \in {"content", "closed"}
    BY <1>4, <2>1 DEF Inv, OrderInv
  <2>4. answer' = <<"DATA", 354>> => at \in {"content", "closed"}
    <3>1. 1 \in 1..Len(Replied) /\ answer' = Replied[1]
      BY <1>1, <1>2, <1>3, <1>4
    <3>. QED  BY Zenon, <3>1 DEF Inv, OrderInv
  <2>5. \A i \in 1..(Len(owed') - 1) : ~isSyncPoint(owed'[i])
    <3>1. \A i \in 1..(Len(owed') - 1) : i \in 1..(Len(owed) - 1) /\ i + 1 \in 1..(Len(owed) - 1)
      BY <1>2, <1>5
    <3>. QED  BY <1>5, <3>1 DEF Inv, OrderInv
  <2>6. Len(Replied') <= Len(owed')
    BY <1>2, <1>4, <1>5
  <2>. QED  BY <1>6, <2>2, <2>3, <2>4, <2>5, <2>6 DEF OrderInv, isSyncPoint
<1>10. FlushInv'
  BY <1>1 DEF Inv, FlushInv, Waits, isSyncPoint
<1>11. ChunkInv'
  <2>1. ASSUME NEW d \in 0..Len(owed), Fresh(owed, n, acked, d + 1)
        PROVE  Fresh(owed', n - 1, acked, d)
    BY Zenon, <1>1, <1>2, <1>4, <1>5, <2>1, FreshRead
  <2>2. ASSUME at # "closed", NEW d \in ((n - 1) + 1)..Len(owed'), owed'[d] = "DATA"
        PROVE  Fresh(owed', n - 1, acked, d)
    <3>1. d + 1 \in (n + 1)..Len(owed) /\ d \in 0..Len(owed) /\ owed'[d] = owed[d + 1]
      BY <1>2, <1>4, <1>5
    <3>2. Fresh(owed, n, acked, d + 1)
      BY <2>2, <3>1 DEF Inv, ChunkInv
    <3>. QED  BY <2>1, <3>1, <3>2
  <2>3. ASSUME at # "closed", ~chunked' PROVE Fresh(owed', n - 1, acked, Len(owed') + 1)
    <3>1. CASE ~chunked
      <4>1. Fresh(owed, n, acked, Len(owed) + 1) /\ Len(owed') + 1 = Len(owed) /\ Len(owed) \in 0..Len(owed)
        BY <1>2, <1>5, <2>3, <3>1 DEF Inv, ChunkInv
      <4>. QED  BY <2>1, <4>1
    <3>2. CASE chunked
      <4>1. Replied[1] = <<"MAIL", 250>> /\ \A i \in DOMAIN owed' : owed'[i] # "BDAT"
        BY Zenon, <1>1, <1>3, <2>3, <3>2 DEF chunkedUpon
      <4>2. \A i \in 1..(Len(owed) - 1) : owed'[i] # "BDAT"
        BY <1>5, <4>1
      <4>3. acked = 0
        <5>1. SUFFICES ASSUME acked > 0 PROVE FALSE
          BY <1>2
        <5>2. PICK j \in (1 + 1)..n : owed[j] = "BDAT"
          BY <1>2, <1>4, <4>1, <5>1 DEF Inv, ChunkInv
        <5>3. j - 1 \in 1..(Len(owed) - 1) /\ (j - 1) + 1 = j
          BY <1>2
        <5>. QED  BY Zenon, <1>5, <4>2, <5>2, <5>3
      <4>4. \A b \in ((n - 1) + 1)..((Len(owed') + 1) - 1) : b \in 1..(Len(owed) - 1)
        BY <1>2, <1>4, <1>5
      <4>. QED  BY <4>2, <4>3, <4>4 DEF Fresh
    <3>. QED  BY <1>2, <3>1, <3>2
  <2>4. ASSUME NEW i \in 1..(n - 1), Replied'[i] = <<"MAIL", 250>>, acked > 0
        PROVE  \E j \in (i + 1)..(n - 1) : owed'[j] = "BDAT"
    <3>1. Replied[i + 1] = <<"MAIL", 250>> /\ i + 1 \in 1..n
      BY <1>2, <1>4, <2>4
    <3>2. PICK j \in ((i + 1) + 1)..n : owed[j] = "BDAT"
      BY <2>4, <3>1 DEF Inv, ChunkInv
    <3>3. j - 1 \in (i + 1)..(n - 1) /\ j - 1 \in 1..(Len(owed) - 1) /\ (j - 1) + 1 = j
      BY <1>2
    <3>. QED  BY Zenon, <1>5, <3>2, <3>3
  <2>5. spool' = acked' /\ ~lost' /\ (acked' > 0 => phase' = "recipients") /\ (at' = "content" => acked' = 0)
    BY <1>1, <1>6 DEF Inv, ChunkInv
  <2>. QED  BY Zenon, <1>1, <1>4, <1>6, <2>2, <2>3, <2>4, <2>5 DEF ChunkInv
<1>. QED  BY <1>1, <1>7, <1>8, <1>9, <1>10, <1>11 DEF Inv

\* writeReply: what decides a message, or ends the session, is flushed.
LEMMA ReplyIs ==
    ASSUME Types, FlushInv, pc \in {"read", "chunk", "content"}, UNCHANGED toClient,
           NEW v \in Items, NEW code \in Codes, NEW sync \in BOOLEAN, sync \/ Waits(<<v, code>>),
           NEW next \in {"top", "content", "closed"}, Reply(v, code, sync, next)
    PROVE  /\ at' = next /\ pc' \in {"flush", "top", "content", "closed"} /\ after' \in {after, next}
           /\ pending' \in Seq(Replies) /\ Replied' = Append(Replied, <<v, code>>) /\ FlushInv'
<1>1. <<v, code>> \in Replies
  BY DEF Items, Replies
<1>2. /\ pending' = Append(pending, <<v, code>>)
      /\ \/ pc' = "flush" /\ after' = next
         \/ pc' = next /\ after' = after /\ ~sync
  BY DEF Reply
<1>3. at' = next
  BY <1>2 DEF at
<1>4. /\ pending' \in Seq(Replies) /\ Len(pending') = Len(pending) + 1 /\ Len(pending) \in Nat
      /\ \A i \in 1..Len(pending) : pending'[i] = pending[i]
      /\ pending'[Len(pending) + 1] = <<v, code>>
  BY <1>1, <1>2, AppendProperties DEF Types
<1>5. Replied' = Append(Replied, <<v, code>>)
  <2>1. toClient \in Seq(Replies) /\ pending \in Seq(Replies) /\ <<<<v, code>>>> \in Seq(Replies)
    BY <1>1 DEF Types
  <2>2. pending' = pending \o <<<<v, code>>>>
    BY Zenon, <1>1, <1>2, <2>1, AppendIsConcat
  <2>3. toClient \o (pending \o <<<<v, code>>>>) = (toClient \o pending) \o <<<<v, code>>>>
    BY <2>1, ConcatAssociative
  <2>4. toClient \o pending \in Seq(Replies)
    BY <2>1, ConcatProperties
  <2>5. (toClient \o pending) \o <<<<v, code>>>> = Append(toClient \o pending, <<v, code>>)
    BY <1>1, <2>4, AppendIsConcat
  <2>. QED  BY <2>2, <2>3, <2>5 DEF Replied
<1>6. FlushInv'
  <2>1. CASE pc' = "flush"
    BY <2>1 DEF FlushInv
  <2>2. CASE ~sync
    <3>1. ASSUME NEW i \in 1..Len(pending') PROVE Waits(pending'[i])
      <4>1. i = Len(pending) + 1 \/ i \in 1..Len(pending)
        BY <1>4
      <4>. QED  BY <1>4, <2>2, <4>1 DEF FlushInv
    <3>. QED  BY <3>1 DEF FlushInv, Waits, isSyncPoint
  <2>. QED  BY <1>2, <2>1, <2>2
<1>. QED  BY <1>2, <1>3, <1>4, <1>5, <1>6

\* The first command without a reply gets one: the order and the chunks.
LEMMA AnswerKeeps ==
    ASSUME Inv, at # "closed", at = "content" => Len(Replied) = 0, Len(Replied) < Len(owed),
           NEW v \in Items, v = owed[Len(Replied) + 1], NEW code \in Codes,
           UNCHANGED <<owed, chunked, answer>>, Replied' = Append(Replied, <<v, code>>),
           v = "DATA" /\ code = 354 => at' = "content",
           acked' \in Nat, spool' = acked', ~lost', acked' > 0 => phase' = "recipients",
           at' = "content" => acked' = 0,
           v \in {"RSET", "LAST"} => acked' = 0, <<v, code>> = <<"MAIL", 250>> => acked' = 0,
           acked' > 0 => acked > 0 \/ v = "BDAT"
    PROVE  OrderInv' /\ ChunkInv'
<1>. DEFINE n == Len(Replied)
<1>1. /\ owed \in Seq(Items) /\ Replied \in Seq(Replies) /\ n \in Nat /\ Len(owed) \in Nat /\ acked \in Nat
      /\ <<v, code>> \in Replies
  BY Sequences DEF Inv, Types, Items, Replies
<1>2. /\ Len(Replied') = n + 1 /\ Replied'[n + 1] = <<v, code>>
      /\ \A i \in 1..n : Replied'[i] = Replied[i]
  BY <1>1, AppendProperties
<1>3. \A i \in 1..Len(Replied') : i = n + 1 \/ i \in 1..n
  BY <1>1, <1>2
<1>4. OrderInv'
  <2>1. \A i \in 1..Len(Replied') : Replied'[i][1] = owed'[i]
    BY <1>2, <1>3 DEF Inv, OrderInv
  <2>2. \A i \in 1..n : Replied[i] # <<"DATA", 354>>
    BY <1>1 DEF Inv, OrderInv
  <2>3. \A i \in 1..Len(Replied') : Replied'[i] = <<"DATA", 354>> => at' \in {"content", "closed"}
    BY <1>2, <1>3, <2>2
  <2>4. Len(Replied') <= Len(owed') /\ owed' # <<>>
    BY <1>1, <1>2
  <2>. QED  BY Zenon, <2>1, <2>3, <2>4 DEF Inv, OrderInv, isSyncPoint
<1>5. ASSUME NEW d \in (n + 2)..(Len(owed) + 1), Fresh(owed, n, acked, d)
      PROVE  Fresh(owed, n + 1, acked', d)
  <2>1. ASSUME acked' > 0 PROVE \E r \in ((n + 1) + 1)..(d - 1) : owed[r] \in {"RSET", "LAST"}
    <3>1. v \notin {"RSET", "LAST"}
      BY <2>1
    <3>2. CASE acked > 0
      <4>1. PICK r \in (n + 1)..(d - 1) : owed[r] \in {"RSET", "LAST"}
        BY <1>5, <3>2 DEF Fresh
      <4>2. r # n + 1
        BY <3>1, <4>1
      <4>3. r \in ((n + 1) + 1)..(d - 1)
        BY <1>1, <4>2
      <4>. QED  BY <4>1, <4>3
    <3>3. CASE v = "BDAT"
      <4>1. n + 1 \in (n + 1)..(d - 1)
        BY <1>1
      <4>. QED  BY Zenon, <1>5, <3>3, <4>1 DEF Fresh
    <3>. QED  BY <2>1, <3>2, <3>3
  <2>2. \A b \in ((n + 1) + 1)..(d - 1) : b \in (n + 1)..(d - 1)
    BY <1>1
  <2>. QED  BY <1>5, <2>1, <2>2 DEF Fresh
<1>6. ASSUME NEW d \in (Len(Replied') + 1)..Len(owed), owed[d] = "DATA"
      PROVE  Fresh(owed, n + 1, acked', d)
  <2>1. d \in (n + 1)..Len(owed) /\ d \in (n + 2)..(Len(owed) + 1)
    BY <1>1, <1>2
  <2>2. Fresh(owed, n, acked, d)
    BY <1>6, <2>1 DEF Inv, ChunkInv
  <2>. QED  BY <1>5, <2>1, <2>2
<1>7. ASSUME ~chunked PROVE Fresh(owed, n + 1, acked', Len(owed) + 1)
  <2>1. Fresh(owed, n, acked, Len(owed) + 1) /\ Len(owed) + 1 \in (n + 2)..(Len(owed) + 1)
    BY <1>1, <1>7 DEF Inv, ChunkInv
  <2>. QED  BY <1>5, <2>1
<1>8. ASSUME NEW i \in 1..Len(Replied'), Replied'[i] = <<"MAIL", 250>>, acked' > 0
      PROVE  \E j \in (i + 1)..Len(Replied') : owed[j] = "BDAT"
  <2>1. i # n + 1
    BY <1>2, <1>8
  <2>2. i \in 1..n /\ Replied[i] = <<"MAIL", 250>>
    BY <1>2, <1>3, <1>8, <2>1
  <2>3. CASE acked > 0
    <3>1. PICK j \in (i + 1)..n : owed[j] = "BDAT"
      BY <2>2, <2>3 DEF Inv, ChunkInv
    <3>2. j \in (i + 1)..Len(Replied')
      BY <1>1, <1>2
    <3>. QED  BY <3>1, <3>2
  <2>4. CASE v = "BDAT"
    <3>1. n + 1 \in (i + 1)..Len(Replied')
      BY <1>1, <1>2, <2>2
    <3>. QED  BY Zenon, <2>4, <3>1
  <2>. QED  BY <1>8, <2>3, <2>4
<1>9. ChunkInv'
  BY Zenon, <1>2, <1>6, <1>7, <1>8 DEF ChunkInv
<1>. QED  BY <1>4, <1>9

\* The same for the whole invariant.
LEMMA AnsweredKeeps ==
    ASSUME Inv, pc \in {"read", "chunk", "content"}, pc = "content" => Len(Replied) = 0,
           Len(Replied) < Len(owed),
           NEW v \in Items, v = owed[Len(Replied) + 1], NEW code \in Codes, NEW sync \in BOOLEAN,
           NEW next \in {"top", "content", "closed"}, Answered(v, code, sync, next),
           UNCHANGED <<owed, chunked, answer, toClient, unsent, toServer, misread>>,
           buffered' \in Seq(PartSet), remaining' \in Nat,
           Laid(Stream', owed, Len(Replied) + 1, 0)
    PROVE  Inv'
<1>. DEFINE n == Len(Replied)
<1>1. Types /\ FlushInv /\ at = pc
  BY DEF Inv, at
<1>2. /\ owed \in Seq(Items) /\ Replied \in Seq(Replies) /\ n \in Nat /\ Len(owed) \in Nat
      /\ <<v, code>> \in Replies
  BY <1>1, Sequences DEF Types, Items, Replies
<1>3. Reply(v, code, sync, next) /\ (sync \/ Waits(<<v, code>>)) /\ toClient' = toClient
  BY DEF Answered
<1>4. /\ at' = next /\ pc' \in {"flush", "top", "content", "closed"} /\ after' \in {after, next}
      /\ pending' \in Seq(Replies) /\ Replied' = Append(Replied, <<v, code>>) /\ FlushInv'
  BY <1>1, <1>3, ReplyIs
<1>5. Types'
  BY <1>1, <1>4 DEF Types, Answered
<1>6. /\ at # "closed" /\ (at = "content" => n = 0)
      /\ v = "DATA" /\ code = 354 => at' = "content"
      /\ acked' \in Nat /\ spool' = acked' /\ ~lost'
      /\ acked' > 0 => phase' = "recipients"
      /\ at' = "content" => acked' = 0
      /\ v \in {"RSET", "LAST"} => acked' = 0
      /\ <<v, code>> = <<"MAIL", 250>> => acked' = 0
      /\ acked' > 0 => acked > 0 \/ v = "BDAT"
  BY <1>1, <1>4 DEF Answered
<1>7. OrderInv' /\ ChunkInv'
  BY <1>4, <1>6, AnswerKeeps
<1>8. StreamInv'
  <2>1. Len(Replied') = n + 1 /\ Replied'[n + 1] = <<v, code>>
    BY <1>2, <1>4, AppendProperties
  <2>2. ASSUME at' = "content" PROVE InContent'
    <3>1. v = "DATA" /\ code = 354
      BY <1>4, <2>2 DEF Answered
    <3>2. n + 1 = Len(owed)
      <4>1. SUFFICES ASSUME n + 1 # Len(owed) PROVE FALSE
        OBVIOUS
      <4>2. n + 1 \in 1..(Len(owed) - 1)
        BY <1>2, <4>1
      <4>. QED  BY Zenon, <3>1, <4>2 DEF Inv, OrderInv, isSyncPoint
    <3>3. Stream' = <<>>
      <4>1. Stream' \in Seq(PartSet)
        <5>1. buffered' \in Seq(PartSet) /\ toServer \in Seq(PartSet) /\ unsent \in Seq(PartSet)
          BY Zenon, <1>1 DEF Types
        <5>2. buffered' \o toServer \in Seq(PartSet)
          BY <5>1, ConcatProperties
        <5>. QED  BY <5>1, <5>2, ConcatProperties DEF Stream
      <4>2. Laid(Stream', owed, Len(owed), 0)
        BY Zenon, <3>2
      <4>. QED  BY Zenon, <1>2, <4>1, <4>2, LaidEnd
    <3>4. owed # <<>>
      BY <1>2, <3>2
    <3>. QED  BY <2>1, <3>1, <3>2, <3>3, <3>4 DEF InContent
  <2>3. ASSUME at' \in {"top", "read"} PROVE Laid(Stream', owed', Len(Replied'), 0)
    BY <2>1
  <2>4. at' # "chunk"
    BY <1>4
  <2>. QED  BY <2>2, <2>3, <2>4 DEF StreamInv
<1>. QED  BY <1>4, <1>5, <1>7, <1>8 DEF Inv

\* Every handler but that of BDAT answers its command.
LEMMA Answering ==
    ASSUME Types, ChunkInv, NEW v \in Verbs \ Chunks, v = "BAD" => spool > 0, v = "DATA" => acked = 0,
           execute(v)
    PROVE  \E code \in Codes, sync \in BOOLEAN, next \in {"top", "content", "closed"} :
              Answered(v, code, sync, next)
<1>1. /\ acked \in Nat /\ spool = acked /\ ~lost /\ phase \in {"ready", "mail", "recipients", "failed"}
      /\ acked > 0 => phase = "recipients"
  BY DEF Types, ChunkInv
<1>2. ASSUME NEW code \in Codes, NEW sync \in BOOLEAN, NEW next \in {"top", "content", "closed"},
             Answered(v, code, sync, next)
      PROVE  \E c \in Codes, y \in BOOLEAN, x \in {"top", "content", "closed"} : Answered(v, c, y, x)
  BY <1>2, Zenon
<1>a. ASSUME UNCHANGED session
      PROVE  phase' = phase /\ spool' = spool /\ acked' = acked /\ ~lost'
  BY <1>1, <1>a, Zenon DEF session
<1>b. ASSUME NEW p, NEW s, NEW a, Transaction(p, s, a)
      PROVE  phase' = p /\ spool' = s /\ acked' = a /\ ~lost'
  BY <1>1, <1>b, Zenon DEF Transaction
<1>3. CASE v = "MAIL"
  <2>1. handleMail
    BY <1>3 DEF execute
  <2>2. CASE Reply("MAIL", 503, FALSE, "top") /\ UNCHANGED session
    <3>1. phase' = phase /\ spool' = spool /\ acked' = acked /\ ~lost'
      BY <2>2, <1>a
    <3>2. 503 \in Codes /\ FALSE \in BOOLEAN /\ "top" \in {"top", "content", "closed"}
      BY DEF Codes
    <3>3. Reply(v, 503, FALSE, "top")
      BY <1>3, <2>2, Zenon
    <3>4. /\ "top" = "content" <=> v = "DATA" /\ 503 = 354
          /\ v = "MAIL" /\ 503 = 250 => acked' = 0
          /\ v \in {"RSET", "LAST"} => acked' = 0
      BY <1>3, <3>1
    <3>5. /\ acked' \in Nat /\ spool' = acked' /\ (acked' > 0 => acked > 0 \/ v = "BDAT")
          /\ phase' \in {"ready", "mail", "recipients", "failed"} /\ (acked' > 0 => phase' = "recipients")
      BY <1>1, <3>1
    <3>6. "top" # "content"
      OBVIOUS
    <3>7. Waits(<<v, 503>>)
      BY <1>3 DEF Waits, isSyncPoint
    <3>8. Answered(v, 503, FALSE, "top")
      BY <3>1, <3>3, <3>4, <3>5, <3>6, <3>7, Zenon DEF Answered
    <3>. QED  BY Zenon, <1>2, <3>2, <3>8
  <2>3. CASE Reply("MAIL", 501, TRUE, "top") /\ UNCHANGED session
    <3>1. phase' = phase /\ spool' = spool /\ acked' = acked /\ ~lost'
      BY <2>3, <1>a
    <3>2. 501 \in Codes /\ TRUE \in BOOLEAN /\ "top" \in {"top", "content", "closed"}
      BY DEF Codes
    <3>3. Reply(v, 501, TRUE, "top")
      BY <1>3, <2>3, Zenon
    <3>4. /\ "top" = "content" <=> v = "DATA" /\ 501 = 354
          /\ v = "MAIL" /\ 501 = 250 => acked' = 0
          /\ v \in {"RSET", "LAST"} => acked' = 0
      BY <1>3, <3>1
    <3>5. /\ acked' \in Nat /\ spool' = acked' /\ (acked' > 0 => acked > 0 \/ v = "BDAT")
          /\ phase' \in {"ready", "mail", "recipients", "failed"} /\ (acked' > 0 => phase' = "recipients")
      BY <1>1, <3>1
    <3>6. "top" # "content"
      OBVIOUS
    <3>8. Answered(v, 501, TRUE, "top")
      BY <3>1, <3>3, <3>4, <3>5, <3>6, Zenon DEF Answered
    <3>. QED  BY Zenon, <1>2, <3>2, <3>8
  <2>4. CASE Reply("MAIL", 250, FALSE, "top") /\ Transaction("mail", 0, 0)
    <3>1. phase' = "mail" /\ spool' = 0 /\ acked' = 0 /\ ~lost'
      BY <2>4, <1>b
    <3>2. 250 \in Codes /\ FALSE \in BOOLEAN /\ "top" \in {"top", "content", "closed"}
      BY DEF Codes
    <3>3. Reply(v, 250, FALSE, "top")
      BY <1>3, <2>4, Zenon
    <3>4. /\ "top" = "content" <=> v = "DATA" /\ 250 = 354
          /\ v = "MAIL" /\ 250 = 250 => acked' = 0
          /\ v \in {"RSET", "LAST"} => acked' = 0
      BY <1>3, <3>1
    <3>5. /\ acked' \in Nat /\ spool' = acked' /\ (acked' > 0 => acked > 0 \/ v = "BDAT")
          /\ phase' \in {"ready", "mail", "recipients", "failed"} /\ (acked' > 0 => phase' = "recipients")
      BY <1>1, <3>1
    <3>6. "top" # "content"
      OBVIOUS
    <3>7. Waits(<<v, 250>>)
      BY <1>3 DEF Waits, isSyncPoint
    <3>8. Answered(v, 250, FALSE, "top")
      BY <3>1, <3>3, <3>4, <3>5, <3>6, <3>7, Zenon DEF Answered
    <3>. QED  BY Zenon, <1>2, <3>2, <3>8
  <2>5. CASE Reply("MAIL", 451, FALSE, "top") /\ Transaction("ready", 0, 0)
    <3>1. phase' = "ready" /\ spool' = 0 /\ acked' = 0 /\ ~lost'
      BY <2>5, <1>b
    <3>2. 451 \in Codes /\ FALSE \in BOOLEAN /\ "top" \in {"top", "content", "closed"}
      BY DEF Codes
    <3>3. Reply(v, 451, FALSE, "top")
      BY <1>3, <2>5, Zenon
    <3>4. /\ "top" = "content" <=> v = "DATA" /\ 451 = 354
          /\ v = "MAIL" /\ 451 = 250 => acked' = 0
          /\ v \in {"RSET", "LAST"} => acked' = 0
      BY <1>3, <3>1
    <3>5. /\ acked' \in Nat /\ spool' = acked' /\ (acked' > 0 => acked > 0 \/ v = "BDAT")
          /\ phase' \in {"ready", "mail", "recipients", "failed"} /\ (acked' > 0 => phase' = "recipients")
      BY <1>1, <3>1
    <3>6. "top" # "content"
      OBVIOUS
    <3>7. Waits(<<v, 451>>)
      BY <1>3 DEF Waits, isSyncPoint
    <3>8. Answered(v, 451, FALSE, "top")
      BY <3>1, <3>3, <3>4, <3>5, <3>6, <3>7, Zenon DEF Answered
    <3>. QED  BY Zenon, <1>2, <3>2, <3>8
  <2>. QED  BY Zenon, <2>1, <2>2, <2>3, <2>4, <2>5 DEF handleMail
<1>4. CASE v = "RCPT"
  <2>1. handleRcpt
    BY <1>4 DEF execute
  <2>2. CASE Reply("RCPT", 250, FALSE, "top") /\ Transaction("recipients", spool, acked)
    <3>1. phase' = "recipients" /\ spool' = spool /\ acked' = acked /\ ~lost'
      BY <2>2, <1>b
    <3>2. 250 \in Codes /\ FALSE \in BOOLEAN /\ "top" \in {"top", "content", "closed"}
      BY DEF Codes
    <3>3. Reply(v, 250, FALSE, "top")
      BY <1>4, <2>2, Zenon
    <3>4. /\ "top" = "content" <=> v = "DATA" /\ 250 = 354
          /\ v = "MAIL" /\ 250 = 250 => acked' = 0
          /\ v \in {"RSET", "LAST"} => acked' = 0
      BY <1>4, <3>1
    <3>5. /\ acked' \in Nat /\ spool' = acked' /\ (acked' > 0 => acked > 0 \/ v = "BDAT")
          /\ phase' \in {"ready", "mail", "recipients", "failed"} /\ (acked' > 0 => phase' = "recipients")
      BY <1>1, <3>1
    <3>6. "top" # "content"
      OBVIOUS
    <3>7. Waits(<<v, 250>>)
      BY <1>4 DEF Waits, isSyncPoint
    <3>8. Answered(v, 250, FALSE, "top")
      BY <3>1, <3>3, <3>4, <3>5, <3>6, <3>7, Zenon DEF Answered
    <3>. QED  BY Zenon, <1>2, <3>2, <3>8
  <2>3. CASE Reply("RCPT", 451, FALSE, "top") /\ UNCHANGED session
    <3>1. phase' = phase /\ spool' = spool /\ acked' = acked /\ ~lost'
      BY <2>3, <1>a
    <3>2. 451 \in Codes /\ FALSE \in BOOLEAN /\ "top" \in {"top", "content", "closed"}
      BY DEF Codes
    <3>3. Reply(v, 451, FALSE, "top")
      BY <1>4, <2>3, Zenon
    <3>4. /\ "top" = "content" <=> v = "DATA" /\ 451 = 354
          /\ v = "MAIL" /\ 451 = 250 => acked' = 0
          /\ v \in {"RSET", "LAST"} => acked' = 0
      BY <1>4, <3>1
    <3>5. /\ acked' \in Nat /\ spool' = acked' /\ (acked' > 0 => acked > 0 \/ v = "BDAT")
          /\ phase' \in {"ready", "mail", "recipients", "failed"} /\ (acked' > 0 => phase' = "recipients")
      BY <1>1, <3>1
    <3>6. "top" # "content"
      OBVIOUS
    <3>7. Waits(<<v, 451>>)
      BY <1>4 DEF Waits, isSyncPoint
    <3>8. Answered(v, 451, FALSE, "top")
      BY <3>1, <3>3, <3>4, <3>5, <3>6, <3>7, Zenon DEF Answered
    <3>. QED  BY Zenon, <1>2, <3>2, <3>8
  <2>4. CASE Reply("RCPT", 501, TRUE, "top") /\ UNCHANGED session
    <3>1. phase' = phase /\ spool' = spool /\ acked' = acked /\ ~lost'
      BY <2>4, <1>a
    <3>2. 501 \in Codes /\ TRUE \in BOOLEAN /\ "top" \in {"top", "content", "closed"}
      BY DEF Codes
    <3>3. Reply(v, 501, TRUE, "top")
      BY <1>4, <2>4, Zenon
    <3>4. /\ "top" = "content" <=> v = "DATA" /\ 501 = 354
          /\ v = "MAIL" /\ 501 = 250 => acked' = 0
          /\ v \in {"RSET", "LAST"} => acked' = 0
      BY <1>4, <3>1
    <3>5. /\ acked' \in Nat /\ spool' = acked' /\ (acked' > 0 => acked > 0 \/ v = "BDAT")
          /\ phase' \in {"ready", "mail", "recipients", "failed"} /\ (acked' > 0 => phase' = "recipients")
      BY <1>1, <3>1
    <3>6. "top" # "content"
      OBVIOUS
    <3>8. Answered(v, 501, TRUE, "top")
      BY <3>1, <3>3, <3>4, <3>5, <3>6, Zenon DEF Answered
    <3>. QED  BY Zenon, <1>2, <3>2, <3>8
  <2>5. CASE Reply("RCPT", 503, FALSE, "top") /\ UNCHANGED session
    <3>1. phase' = phase /\ spool' = spool /\ acked' = acked /\ ~lost'
      BY <2>5, <1>a
    <3>2. 503 \in Codes /\ FALSE \in BOOLEAN /\ "top" \in {"top", "content", "closed"}
      BY DEF Codes
    <3>3. Reply(v, 503, FALSE, "top")
      BY <1>4, <2>5, Zenon
    <3>4. /\ "top" = "content" <=> v = "DATA" /\ 503 = 354
          /\ v = "MAIL" /\ 503 = 250 => acked' = 0
          /\ v \in {"RSET", "LAST"} => acked' = 0
      BY <1>4, <3>1
    <3>5. /\ acked' \in Nat /\ spool' = acked' /\ (acked' > 0 => acked > 0 \/ v = "BDAT")
          /\ phase' \in {"ready", "mail", "recipients", "failed"} /\ (acked' > 0 => phase' = "recipients")
      BY <1>1, <3>1
    <3>6. "top" # "content"
      OBVIOUS
    <3>7. Waits(<<v, 503>>)
      BY <1>4 DEF Waits, isSyncPoint
    <3>8. Answered(v, 503, FALSE, "top")
      BY <3>1, <3>3, <3>4, <3>5, <3>6, <3>7, Zenon DEF Answered
    <3>. QED  BY Zenon, <1>2, <3>2, <3>8
  <2>. QED  BY Zenon, <2>1, <2>2, <2>3, <2>4, <2>5 DEF handleRcpt
<1>5. CASE v = "RSET"
  <2>1. handleRSET
    BY <1>5 DEF execute
  <2>2. CASE Reply("RSET", 250, FALSE, "top") /\ Transaction("ready", 0, 0)
    <3>1. phase' = "ready" /\ spool' = 0 /\ acked' = 0 /\ ~lost'
      BY <2>2, <1>b
    <3>2. 250 \in Codes /\ FALSE \in BOOLEAN /\ "top" \in {"top", "content", "closed"}
      BY DEF Codes
    <3>3. Reply(v, 250, FALSE, "top")
      BY <1>5, <2>2, Zenon
    <3>4. /\ "top" = "content" <=> v = "DATA" /\ 250 = 354
          /\ v = "MAIL" /\ 250 = 250 => acked' = 0
          /\ v \in {"RSET", "LAST"} => acked' = 0
      BY <1>5, <3>1
    <3>5. /\ acked' \in Nat /\ spool' = acked' /\ (acked' > 0 => acked > 0 \/ v = "BDAT")
          /\ phase' \in {"ready", "mail", "recipients", "failed"} /\ (acked' > 0 => phase' = "recipients")
      BY <1>1, <3>1
    <3>6. "top" # "content"
      OBVIOUS
    <3>7. Waits(<<v, 250>>)
      BY <1>5 DEF Waits, isSyncPoint
    <3>8. Answered(v, 250, FALSE, "top")
      BY <3>1, <3>3, <3>4, <3>5, <3>6, <3>7, Zenon DEF Answered
    <3>. QED  BY Zenon, <1>2, <3>2, <3>8
  <2>. QED  BY <2>1, <2>2 DEF handleRSET
<1>6. CASE v = "NOOP"
  <2>1. handleNOOP
    BY <1>6 DEF execute
  <2>2. CASE Reply("NOOP", 250, TRUE, "top") /\ UNCHANGED session
    <3>1. phase' = phase /\ spool' = spool /\ acked' = acked /\ ~lost'
      BY <2>2, <1>a
    <3>2. 250 \in Codes /\ TRUE \in BOOLEAN /\ "top" \in {"top", "content", "closed"}
      BY DEF Codes
    <3>3. Reply(v, 250, TRUE, "top")
      BY <1>6, <2>2, Zenon
    <3>4. /\ "top" = "content" <=> v = "DATA" /\ 250 = 354
          /\ v = "MAIL" /\ 250 = 250 => acked' = 0
          /\ v \in {"RSET", "LAST"} => acked' = 0
      BY <1>6, <3>1
    <3>5. /\ acked' \in Nat /\ spool' = acked' /\ (acked' > 0 => acked > 0 \/ v = "BDAT")
          /\ phase' \in {"ready", "mail", "recipients", "failed"} /\ (acked' > 0 => phase' = "recipients")
      BY <1>1, <3>1
    <3>6. "top" # "content"
      OBVIOUS
    <3>8. Answered(v, 250, TRUE, "top")
      BY <3>1, <3>3, <3>4, <3>5, <3>6, Zenon DEF Answered
    <3>. QED  BY Zenon, <1>2, <3>2, <3>8
  <2>. QED  BY <2>1, <2>2 DEF handleNOOP
<1>7. CASE v = "QUIT"
  <2>1. handleQUIT
    BY <1>7 DEF execute
  <2>2. CASE Reply("QUIT", 221, TRUE, "closed") /\ UNCHANGED session
    <3>1. phase' = phase /\ spool' = spool /\ acked' = acked /\ ~lost'
      BY <2>2, <1>a
    <3>2. 221 \in Codes /\ TRUE \in BOOLEAN /\ "closed" \in {"top", "content", "closed"}
      BY DEF Codes
    <3>3. Reply(v, 221, TRUE, "closed")
      BY <1>7, <2>2, Zenon
    <3>4. /\ "closed" = "content" <=> v = "DATA" /\ 221 = 354
          /\ v = "MAIL" /\ 221 = 250 => acked' = 0
          /\ v \in {"RSET", "LAST"} => acked' = 0
      BY <1>7, <3>1
    <3>5. /\ acked' \in Nat /\ spool' = acked' /\ (acked' > 0 => acked > 0 \/ v = "BDAT")
          /\ phase' \in {"ready", "mail", "recipients", "failed"} /\ (acked' > 0 => phase' = "recipients")
      BY <1>1, <3>1
    <3>6. "closed" # "content"
      OBVIOUS
    <3>8. Answered(v, 221, TRUE, "closed")
      BY <3>1, <3>3, <3>4, <3>5, <3>6, Zenon DEF Answered
    <3>. QED  BY Zenon, <1>2, <3>2, <3>8
  <2>. QED  BY <2>1, <2>2 DEF handleQUIT
<1>8. CASE v = "DATA"
  <2>1. handleDATA
    BY <1>8 DEF execute
  <2>2. CASE Reply("DATA", 354, TRUE, "content") /\ UNCHANGED session
    <3>1. phase' = phase /\ spool' = spool /\ acked' = acked /\ ~lost'
      BY <2>2, <1>a
    <3>2. 354 \in Codes /\ TRUE \in BOOLEAN /\ "content" \in {"top", "content", "closed"}
      BY DEF Codes
    <3>3. Reply(v, 354, TRUE, "content")
      BY <1>8, <2>2, Zenon
    <3>4. /\ "content" = "content" <=> v = "DATA" /\ 354 = 354
          /\ v = "MAIL" /\ 354 = 250 => acked' = 0
          /\ v \in {"RSET", "LAST"} => acked' = 0
      BY <1>8, <3>1
    <3>5. /\ acked' \in Nat /\ spool' = acked' /\ (acked' > 0 => acked > 0 \/ v = "BDAT")
          /\ phase' \in {"ready", "mail", "recipients", "failed"} /\ (acked' > 0 => phase' = "recipients")
      BY <1>1, <3>1
    <3>6. acked' = 0
      BY <1>8, <3>1
    <3>8. Answered(v, 354, TRUE, "content")
      BY <3>1, <3>3, <3>4, <3>5, <3>6, Zenon DEF Answered
    <3>. QED  BY Zenon, <1>2, <3>2, <3>8
  <2>3. CASE Reply("DATA", 503, TRUE, "top") /\ UNCHANGED session
    <3>1. phase' = phase /\ spool' = spool /\ acked' = acked /\ ~lost'
      BY <2>3, <1>a
    <3>2. 503 \in Codes /\ TRUE \in BOOLEAN /\ "top" \in {"top", "content", "closed"}
      BY DEF Codes
    <3>3. Reply(v, 503, TRUE, "top")
      BY <1>8, <2>3, Zenon
    <3>4. /\ "top" = "content" <=> v = "DATA" /\ 503 = 354
          /\ v = "MAIL" /\ 503 = 250 => acked' = 0
          /\ v \in {"RSET", "LAST"} => acked' = 0
      BY <1>8, <3>1
    <3>5. /\ acked' \in Nat /\ spool' = acked' /\ (acked' > 0 => acked > 0 \/ v = "BDAT")
          /\ phase' \in {"ready", "mail", "recipients", "failed"} /\ (acked' > 0 => phase' = "recipients")
      BY <1>1, <3>1
    <3>6. "top" # "content"
      OBVIOUS
    <3>8. Answered(v, 503, TRUE, "top")
      BY <3>1, <3>3, <3>4, <3>5, <3>6, Zenon DEF Answered
    <3>. QED  BY Zenon, <1>2, <3>2, <3>8
  <2>. QED  BY Zenon, <2>1, <2>2, <2>3 DEF handleDATA
<1>9. CASE v = "BAD"
  <2>1. handleCommandReadError
    BY <1>9 DEF execute
  <2>2. CASE Reply("BAD", 500, TRUE, "top") /\ Transaction("failed", 0, 0)
    <3>1. phase' = "failed" /\ spool' = 0 /\ acked' = 0 /\ ~lost'
      BY <2>2, <1>b
    <3>2. 500 \in Codes /\ TRUE \in BOOLEAN /\ "top" \in {"top", "content", "closed"}
      BY DEF Codes
    <3>3. Reply(v, 500, TRUE, "top")
      BY <1>9, <2>2, Zenon
    <3>4. /\ "top" = "content" <=> v = "DATA" /\ 500 = 354
          /\ v = "MAIL" /\ 500 = 250 => acked' = 0
          /\ v \in {"RSET", "LAST"} => acked' = 0
      BY <1>9, <3>1
    <3>5. /\ acked' \in Nat /\ spool' = acked' /\ (acked' > 0 => acked > 0 \/ v = "BDAT")
          /\ phase' \in {"ready", "mail", "recipients", "failed"} /\ (acked' > 0 => phase' = "recipients")
      BY <1>1, <3>1
    <3>6. "top" # "content"
      OBVIOUS
    <3>8. Answered(v, 500, TRUE, "top")
      BY <3>1, <3>3, <3>4, <3>5, <3>6, Zenon DEF Answered
    <3>. QED  BY Zenon, <1>2, <3>2, <3>8
  <2>. QED  BY <1>9, <2>1, <2>2 DEF handleCommandReadError
<1>. QED  BY <1>3, <1>4, <1>5, <1>6, <1>7, <1>8, <1>9 DEF Verbs, Chunks

\* A malformed line is handled by handleCommandReadError.
LEMMA MalformedIs ==
    ASSUME NEW v, v = "BAD", execute(v)
    PROVE  handleCommandReadError
BY DEF execute, Chunks

\* ReadCommand preserves the invariant: the parts in the buffer are those of
\* the first command without a reply.
LEMMA ReadCommandKeeps ==
    ASSUME Inv, ReadCommand
    PROVE  Inv'
<1>. DEFINE n == Len(Replied)
            v == owed[n + 1]
<1>1. /\ Types /\ pc = "read" /\ at = "read" /\ Laid(Stream, owed, n, 0) /\ FlushInv /\ OrderInv
      /\ ChunkInv /\ ~misread
  BY DEF Inv, StreamInv, at, ReadCommand
<1>2. /\ owed \in Seq(Items) /\ Replied \in Seq(Replies) /\ n \in Nat /\ Len(owed) \in Nat
      /\ Stream \in Seq(PartSet) /\ buffered \in Seq(PartSet) /\ Len(buffered) \in Nat /\ n <= Len(owed)
      /\ pending \in Seq(Replies)
  BY <1>1, Sequences DEF Types, OrderInv
<1>3. buffered # <<>>
  <2>1. ~Starved
    BY DEF ReadCommand
  <2>. QED  BY <1>1, <2>1 DEF Starved
<1>4. n < Len(owed)
  BY <1>1, <1>2, <1>3, StreamBegins, LaidNext
<1>5. /\ v \in Verbs /\ Stream[1] = <<"part", v>> /\ Stream[2] = <<"line", v>>
      /\ Laid(SubSeq(Stream, 3, Len(Stream)), owed, n + 1, IF v \in Chunks THEN ChunkSize ELSE 0)
  BY <1>1, <1>2, <1>4, LaidTaken
<1>6. buffered[1] = <<"part", v>> /\ buffered[1][1] = "part"
  BY <1>1, <1>3, <1>5, StreamBegins
<1>7. Len(buffered) >= 2
  <2>1. SUFFICES ASSUME Len(buffered) < 2 PROVE Starved
    BY <1>2 DEF ReadCommand
  <2>2. \A i \in DOMAIN buffered : i = 1
    BY <1>2, <2>1
  <2>. QED  BY <1>1, <1>6, <2>1, <2>2 DEF Starved
<1>8. /\ buffered' = SubSeq(buffered, 3, Len(buffered)) /\ verb' = buffered[2][2] /\ remaining' = ChunkSize
      /\ execute(buffered[2][2]) /\ misread' = misread
      /\ UNCHANGED <<client, toServer, toClient>>
  BY <1>6 DEF ReadCommand
<1>9. UNCHANGED <<owed, chunked, answer, unsent, toServer, toClient>>
  BY Zenon, <1>8 DEF client
<1>10. /\ Stream[2] = buffered[2] /\ Stream' = SubSeq(Stream, 3, Len(Stream)) /\ buffered' \in Seq(PartSet)
  BY <1>1, <1>7, <1>8, <1>9, StreamDrops
<1>11. verb' = v /\ execute(v) /\ ChunkSize \in Nat
  <2>1. buffered[2][2] = v
    BY <1>5, <1>10
  <2>. QED  BY <1>8, <2>1, WindowAssumption
<1>. HIDE DEF n, v
<1>12. CASE v \in Chunks
  <2>1. pc' = "chunk" /\ UNCHANGED <<after, pending, session>>
    BY Zenon, <1>11, <1>12 DEF execute, handleBDAT, Chunks
  <2>2. at' = "chunk" /\ Replied' = Replied /\ UNCHANGED <<phase, spool, acked, lost>>
    BY <1>9, <2>1 DEF at, Replied, session
  <2>3. Types'
    BY <1>1, <1>8, <1>9, <1>10, <1>11, <2>1, <2>2 DEF Types
  <2>4. InChunk'
    BY <1>4, <1>5, <1>8, <1>9, <1>10, <1>11, <1>12, <2>2 DEF InChunk, n, v
  <2>5. StreamInv'
    BY <2>2, <2>4 DEF StreamInv
  <2>6. OrderInv'
    BY <1>1, <1>9, <2>2 DEF OrderInv, isSyncPoint
  <2>7. FlushInv'
    BY <1>1, <2>1 DEF FlushInv, Waits, isSyncPoint
  <2>8. ChunkInv'
    BY <1>1, <1>9, <2>2 DEF ChunkInv
  <2>. QED  BY <1>1, <1>8, <2>3, <2>5, <2>6, <2>7, <2>8 DEF Inv
<1>13. CASE v = "BAD" /\ ~(spool > 0)
  <2>1. pc' = "closed" /\ UNCHANGED <<after, pending, session>>
    <3>1. handleCommandReadError
      BY <1>11, <1>13, MalformedIs
    <3>. QED  BY <1>13, <3>1 DEF handleCommandReadError
  <2>2. at' = "closed" /\ Replied' = Replied /\ UNCHANGED <<phase, spool, acked, lost>>
    BY <1>9, <2>1 DEF at, Replied, session
  <2>3. Types'
    BY <1>1, <1>8, <1>9, <1>10, <1>11, <2>1, <2>2 DEF Types
  <2>4. StreamInv'
    BY <2>2 DEF StreamInv
  <2>5. OrderInv'
    BY <1>1, <1>9, <2>2 DEF OrderInv, isSyncPoint
  <2>6. FlushInv'
    BY <2>1 DEF FlushInv
  <2>7. ChunkInv'
    BY <1>1, <1>9, <2>2 DEF ChunkInv
  <2>. QED  BY <1>1, <1>8, <2>3, <2>4, <2>5, <2>6, <2>7 DEF Inv
<1>14. CASE v \notin Chunks /\ (v = "BAD" => spool > 0)
  <2>1. v = "DATA" => acked = 0
    <3>1. SUFFICES ASSUME v = "DATA" PROVE acked = 0
      OBVIOUS
    <3>2. n + 1 \in (n + 1)..Len(owed)
      <4>1. n \in Nat /\ Len(owed) \in Nat /\ n < Len(owed)
        BY Zenon, <1>2, <1>4 DEF n
      <4>. QED  BY ONLY <4>1
    <3>3. Fresh(owed, n, acked, n + 1)
      BY <1>1, <3>1, <3>2 DEF ChunkInv, n, v
    <3>4. ~(acked > 0)
      BY <1>2, <3>3 DEF Fresh, n
    <3>. QED  BY <1>1, <3>4 DEF Types
  <2>2. v \in Verbs \ Chunks
    BY <1>5, <1>14
  <2>3. PICK code \in Codes, sync \in BOOLEAN, next \in {"top", "content", "closed"} :
          Answered(v, code, sync, next)
    BY <1>1, <1>11, <1>14, <2>1, <2>2, Answering
  <2>4. v \in Items /\ v = owed[Len(Replied) + 1] /\ Len(Replied) < Len(owed)
    BY <1>4, <1>5 DEF Items, n, v
  <2>5. Laid(Stream', owed, Len(Replied) + 1, 0)
    BY <1>5, <1>10, <1>14 DEF n
  <2>6. pc \in {"read", "chunk", "content"} /\ (pc = "content" => Len(Replied) = 0)
    BY <1>1
  <2>7. UNCHANGED <<owed, chunked, answer, toClient, unsent, toServer, misread>> /\ remaining' \in Nat
    BY <1>8, <1>9, <1>11
  <2>. QED  BY Zenon, <1>10, <2>3, <2>4, <2>5, <2>6, <2>7, AnsweredKeeps
<1>. QED  BY <1>12, <1>13, <1>14 DEF Chunks

\* So does an octet of a chunk or of DATA content.
LEMMA ReadOctetKeeps ==
    ASSUME Inv, ReadOctet
    PROVE  Inv'
<1>. DEFINE n == Len(Replied)
<1>1. /\ UNCHANGED <<owed, chunked, answer, unsent, toServer, toClient, pending>>
      /\ UNCHANGED <<pc, after, verb, misread>> /\ UNCHANGED <<phase, spool, acked>> /\ UNCHANGED lost
      /\ buffered # <<>> /\ buffered' = Tail(buffered)
  BY DEF ReadOctet, client, session
<1>2. Types /\ FlushInv /\ OrderInv /\ ChunkInv /\ ~misread
  BY DEF Inv
<1>3. /\ owed \in Seq(Items) /\ n \in Nat /\ Len(owed) \in Nat /\ Stream \in Seq(PartSet)
      /\ buffered \in Seq(PartSet) /\ Len(Stream) \in Nat
  BY <1>2, Sequences DEF Types
<1>4. /\ Stream # <<>> /\ Stream[1] = buffered[1] /\ Stream' = Tail(Stream) /\ buffered' \in Seq(PartSet)
  BY <1>1, <1>2, StreamBegins DEF Stream
<1>5. at' = at /\ Replied' = Replied
  BY <1>1 DEF at, Replied
<1>6. ASSUME pc = "chunk", remaining > 0, remaining' = remaining - 1
      PROVE  StreamInv' /\ remaining' \in Nat
  <2>1. at = "chunk" /\ InChunk
    BY <1>6 DEF at, Inv, StreamInv
  <2>2. remaining \in Nat /\ n + 1 \in Nat /\ n + 1 <= Len(owed) /\ Laid(Stream, owed, n + 1, remaining)
    BY <1>2, <1>3, <2>1 DEF InChunk, Types
  <2>3. Laid(Tail(Stream), owed, n + 1, remaining - 1)
    BY <1>3, <1>6, <2>2, LaidSkips
  <2>4. InChunk'
    BY <1>1, <1>4, <1>5, <1>6, <2>1, <2>3 DEF InChunk
  <2>5. StreamInv' /\ remaining' \in Nat
    BY <1>5, <1>6, <2>1, <2>2, <2>4 DEF StreamInv
  <2>. QED  BY <2>5
<1>7. ASSUME pc = "content", Head(buffered)[1] # "dot", UNCHANGED remaining
      PROVE  StreamInv' /\ remaining' \in Nat
  <2>1. at = "content" /\ InContent /\ remaining' \in Nat
    BY <1>2, <1>7 DEF at, Inv, StreamInv, Types
  <2>2. /\ Replied = <<>> /\ Len(owed) = 1 /\ owed[1] = "content"
        /\ \A i \in 1..Len(Stream) : Stream[i][1] = "dot" <=> i = Len(Stream)
    BY <1>4, <2>1 DEF InContent
  <2>3. Stream[1][1] # "dot"
    <3>1. Head(buffered) = buffered[1]
      BY <1>1, <1>3, HeadTailProperties
    <3>. QED  BY <1>4, <1>7, <3>1
  <2>4. Len(Stream) > 1
    <3>1. Len(Stream) >= 1 /\ 1 \in 1..Len(Stream)
      BY <1>3, <1>4
    <3>. QED  BY <1>3, <2>2, <2>3, <3>1
  <2>5. Len(Stream') = Len(Stream) - 1 /\ \A i \in 1..Len(Stream') : Stream'[i] = Stream[i + 1]
    BY <1>3, <1>4, HeadTailProperties
  <2>6. Stream' # <<>>
    BY <1>3, <2>4, <2>5
  <2>7. ASSUME NEW i \in 1..Len(Stream') PROVE Stream'[i][1] = "dot" <=> i = Len(Stream')
    <3>1. i + 1 \in 1..Len(Stream) /\ (i + 1 = Len(Stream) <=> i = Len(Stream'))
      BY <1>3, <2>5
    <3>. QED  BY <2>2, <2>5, <3>1
  <2>8. InContent'
    BY <1>1, <1>5, <2>2, <2>6, <2>7 DEF InContent
  <2>9. StreamInv'
    BY <1>5, <2>1, <2>8 DEF StreamInv
  <2>. QED  BY <2>1, <2>9
<1>8. StreamInv' /\ remaining' \in Nat
  BY <1>6, <1>7 DEF ReadOctet
<1>9. Types'
  BY <1>1, <1>2, <1>4, <1>8 DEF Types
<1>10. OrderInv'
  BY <1>1, <1>2, <1>5 DEF OrderInv, isSyncPoint
<1>11. FlushInv'
  BY <1>1, <1>2 DEF FlushInv, Waits, isSyncPoint
<1>12. ChunkInv'
  BY <1>1, <1>2, <1>5 DEF ChunkInv
<1>. QED  BY <1>1, <1>2, <1>8, <1>9, <1>10, <1>11, <1>12 DEF Inv

\* A chunk that has been read is answered.
LEMMA ChunkAnswering ==
    ASSUME Types, ChunkInv, verb \in Chunks, chunkDone
    PROVE  \E code \in Codes, sync \in BOOLEAN, next \in {"top", "content", "closed"} :
              Answered(verb, code, sync, next)
<1>1. /\ acked \in Nat /\ spool = acked /\ ~lost /\ phase \in {"ready", "mail", "recipients", "failed"}
      /\ acked > 0 => phase = "recipients"
  BY DEF Types, ChunkInv
<1>. DEFINE Done(code, sync) ==
               /\ Reply(verb, code, sync, "top")
               /\ sync \/ Waits(<<verb, code>>)
               /\ \/ UNCHANGED session /\ acked = 0
                  \/ ~lost' /\ spool' = 0 /\ acked' = 0 /\ phase' \in {"ready", "failed"}
                  \/ verb = "BDAT" /\ Transaction(phase, spool + 1, acked + 1) /\ phase = "recipients"
<1>2. SUFFICES ASSUME NEW code \in Codes, NEW sync \in BOOLEAN, Done(code, sync)
               PROVE  Answered(verb, code, sync, "top")
  <2>1. 250 \in Codes /\ 451 \in Codes /\ 452 \in Codes /\ 503 \in Codes /\ TRUE \in BOOLEAN /\ FALSE \in BOOLEAN
    BY DEF Codes
  <2>2. Waits(<<verb, 503>>) /\ Waits(<<verb, 452>>) /\ (verb = "BDAT" => Waits(<<verb, 250>>))
    BY DEF Waits, isSyncPoint, Chunks
  <2>3. ASSUME phase \in {"ready", "mail"}, Reply(verb, 503, TRUE, "top"), UNCHANGED session
        PROVE  Done(503, TRUE)
    <3>1. acked = 0
      BY <1>1, <2>3
    <3>. QED  BY <2>3, <3>1, Zenon
  <2>4. ASSUME phase = "failed", Reply(verb, 503, FALSE, "top"), UNCHANGED session
        PROVE  Done(503, FALSE)
    <3>1. acked = 0
      BY <1>1, <2>4
    <3>. QED  BY <2>2, <2>4, <3>1, Zenon
  <2>5. ASSUME Reply(verb, 452, FALSE, "top"), Transaction("failed", 0, 0)
        PROVE  Done(452, FALSE)
    <3>1. ~lost' /\ spool' = 0 /\ acked' = 0 /\ phase' \in {"ready", "failed"}
      BY <1>1, <2>5, Zenon DEF Transaction
    <3>. QED  BY <2>2, <2>5, <3>1, Zenon
  <2>6. ASSUME phase = "recipients", verb = "BDAT", Reply(verb, 250, FALSE, "top"),
               Transaction(phase, spool + 1, acked + 1)
        PROVE  Done(250, FALSE)
    BY <2>2, <2>6, Zenon
  <2>7. ASSUME Reply(verb, 451, TRUE, "top"), Transaction("ready", 0, 0)
        PROVE  Done(451, TRUE)
    <3>1. ~lost' /\ spool' = 0 /\ acked' = 0 /\ phase' \in {"ready", "failed"}
      BY <1>1, <2>7, Zenon DEF Transaction
    <3>. QED  BY <2>7, <3>1, Zenon
  <2>8. ASSUME Reply(verb, 250, TRUE, "top"), phase' = "ready", spool' = 0, acked' = 0,
               lost' = (lost \/ spool # acked)
        PROVE  Done(250, TRUE)
    <3>1. ~lost'
      BY <1>1, <2>8, Zenon
    <3>. QED  BY <2>8, <3>1, Zenon
  <2>. HIDE DEF Done
  <2>9. Done(503, TRUE) \/ Done(503, FALSE) \/ Done(452, FALSE) \/ Done(250, FALSE) \/ Done(451, TRUE) \/ Done(250, TRUE)
    BY <2>3, <2>4, <2>5, <2>6, <2>7, <2>8, Zenon DEF chunkDone
  <2>10. PICK code \in Codes, sync \in BOOLEAN : Done(code, sync)
    BY <2>1, <2>9, Zenon
  <2>11. Answered(verb, code, sync, "top")
    BY <1>2, <2>10, Zenon
  <2>. QED  BY <2>11, Zenon
<1>3. verb \notin {"DATA", "MAIL", "RSET"} /\ "top" # "content"
  BY DEF Chunks
<1>4. /\ ~lost' /\ acked' \in Nat /\ spool' = acked' /\ phase' \in {"ready", "mail", "recipients", "failed"}
      /\ acked' > 0 => phase' = "recipients"
      /\ verb = "LAST" => acked' = 0
      /\ acked' > 0 => verb = "BDAT"
  <2>1. CASE UNCHANGED session /\ acked = 0
    <3>1. phase' = phase /\ spool' = spool /\ acked' = acked /\ ~lost'
      BY <1>1, <2>1, Zenon DEF session
    <3>. QED  BY <1>1, <2>1, <3>1
  <2>2. CASE ~lost' /\ spool' = 0 /\ acked' = 0 /\ phase' \in {"ready", "failed"}
    BY <2>2
  <2>3. CASE verb = "BDAT" /\ Transaction(phase, spool + 1, acked + 1) /\ phase = "recipients"
    <3>1. phase' = phase /\ spool' = spool + 1 /\ acked' = acked + 1 /\ ~lost'
      BY <1>1, <2>3, Zenon DEF Transaction
    <3>. QED  BY <1>1, <2>3, <3>1
  <2>. QED  BY <1>2, <2>1, <2>2, <2>3, Zenon
<1>5. /\ "top" = "content" <=> verb = "DATA" /\ code = 354
      /\ verb = "MAIL" /\ code = 250 => acked' = 0
      /\ verb \in {"RSET", "LAST"} => acked' = 0
  BY <1>3, <1>4
<1>. QED  BY <1>2, <1>3, <1>4, <1>5, Zenon DEF Answered

\* So does the end of a chunk.
LEMMA chunkDoneKeeps ==
    ASSUME Inv, chunkDone
    PROVE  Inv'
<1>1. /\ pc = "chunk" /\ at = "chunk" /\ InChunk /\ Types /\ ChunkInv /\ remaining = 0
  BY DEF chunkDone, Inv, at, StreamInv
<1>2. /\ UNCHANGED <<owed, chunked, answer, toClient, unsent, toServer, misread>>
      /\ UNCHANGED <<buffered, remaining>>
  BY DEF chunkDone, client
<1>3. /\ Len(Replied) < Len(owed) /\ verb = owed[Len(Replied) + 1] /\ verb \in Chunks
      /\ Laid(Stream, owed, Len(Replied) + 1, 0) /\ Stream' = Stream
  BY <1>1, <1>2 DEF InChunk, Stream
<1>4. PICK code \in Codes, sync \in BOOLEAN, next \in {"top", "content", "closed"} :
        Answered(verb, code, sync, next)
  BY <1>1, <1>3, ChunkAnswering
<1>5. verb \in Items /\ buffered' \in Seq(PartSet) /\ remaining' \in Nat
  BY <1>1, <1>2, <1>3 DEF Items, Verbs, Chunks, Types
<1>6. pc \in {"read", "chunk", "content"} /\ (pc = "content" => Len(Replied) = 0)
  BY <1>1
<1>7. Laid(Stream', owed, Len(Replied) + 1, 0)
  BY <1>3
<1>. QED  BY <1>2, <1>3, <1>4, <1>5, <1>6, <1>7, AnsweredKeeps

\* So does the end of DATA content.
LEMMA contentDoneKeeps ==
    ASSUME Inv, contentDone
    PROVE  Inv'
<1>1. pc = "content" /\ at = "content" /\ InContent /\ Types /\ ChunkInv
  BY DEF contentDone, Inv, at, StreamInv
<1>2. /\ UNCHANGED <<owed, chunked, answer, toClient, unsent, toServer, misread>>
      /\ UNCHANGED remaining /\ buffered # <<>> /\ Head(buffered)[1] = "dot" /\ buffered' = Tail(buffered)
  BY DEF contentDone, client
<1>3. Stream \in Seq(PartSet) /\ Len(Stream) \in Nat /\ buffered \in Seq(PartSet) /\ owed \in Seq(Items)
  BY <1>1, Sequences DEF Types
<1>4. /\ Stream # <<>> /\ Stream[1] = buffered[1] /\ Stream' = Tail(Stream) /\ buffered' \in Seq(PartSet)
  BY <1>1, <1>2, StreamBegins DEF Stream
<1>5. /\ Replied = <<>> /\ Len(owed) = 1 /\ owed[1] = "content"
      /\ \A i \in 1..Len(Stream) : Stream[i][1] = "dot" <=> i = Len(Stream)
  BY <1>1, <1>4 DEF InContent
<1>6. Stream' = <<>>
  <2>1. Stream[1][1] = "dot" /\ 1 \in 1..Len(Stream)
    <3>1. Head(buffered) = buffered[1]
      BY <1>2, <1>3, HeadTailProperties
    <3>. QED  BY <1>2, <1>3, <1>4, <3>1
  <2>2. Len(Stream) = 1
    BY <1>5, <2>1
  <2>3. Tail(Stream) \in Seq(PartSet) /\ Len(Tail(Stream)) = 0
    BY <1>3, <1>4, <2>2, HeadTailProperties
  <2>. QED  BY <1>4, <2>3, EmptySeq
<1>7. Len(Replied) = 0 /\ Len(Replied) + 1 = Len(owed)
  BY <1>5
<1>8. Laid(Stream', owed, Len(Replied) + 1, 0)
  BY Zenon, <1>3, <1>6, <1>7, LaidNone
<1>9. PICK code \in {250, 451} :
        /\ Reply("content", code, TRUE, "top")
        /\ phase' = "ready" /\ spool' = 0 /\ acked' = 0
        /\ lost' = (lost \/ (code = 250 /\ acked # 0))
  BY Zenon DEF contentDone
<1>10. ~lost'
  <2>1. acked = 0 /\ ~lost
    BY <1>1 DEF ChunkInv
  <2>. QED  BY Zenon, <1>9, <2>1
<1>11. code \in Codes /\ "content" \in Items /\ TRUE \in BOOLEAN /\ "top" \in {"top", "content", "closed"}
  BY DEF Codes, Items
<1>12. Answered("content", code, TRUE, "top")
  <2>1. acked' \in Nat /\ spool' = acked' /\ ~(acked' > 0) /\ acked' = 0
    BY <1>9
  <2>2. "top" # "content" /\ "content" # "DATA" /\ phase' \in {"ready", "mail", "recipients", "failed"}
    BY <1>9
  <2>. QED  BY <1>9, <1>10, <2>1, <2>2, Zenon DEF Answered
<1>13. "content" = owed[Len(Replied) + 1] /\ Len(Replied) < Len(owed) /\ remaining' \in Nat
  BY <1>1, <1>2, <1>5, <1>7 DEF Types
<1>14. pc \in {"read", "chunk", "content"} /\ (pc = "content" => Len(Replied) = 0)
  BY <1>1, <1>7
<1>. QED  BY Zenon, <1>2, <1>4, <1>8, <1>11, <1>12, <1>13, <1>14, AnsweredKeeps

\* The invariant holds at the start of a session.
LEMMA InitEstablishes ==
    ASSUME Init
    PROVE  Inv
<1>1. /\ owed = <<>> /\ chunked = FALSE /\ unsent = <<>> /\ answer = <<>> /\ toServer = <<>>
      /\ buffered = <<>> /\ pc = "top" /\ after = "top" /\ remaining = 0
      /\ phase \in {"ready", "recipients"} /\ spool = 0 /\ acked = 0 /\ pending = <<>> /\ toClient = <<>>
      /\ ~lost /\ ~misread
  BY DEF Init
<1>2. /\ <<>> \in Seq(Items) /\ <<>> \in Seq(PartSet) /\ <<>> \in Seq(Replies) /\ Len(<<>>) = 0
  OBVIOUS
<1>3. Types
  BY Zenon, <1>1, <1>2 DEF Types
<1>4. Stream = <<>> /\ Replied = <<>> /\ at = "top"
  BY <1>1 DEF Stream, Replied, at
<1>5. StreamInv
  <2>1. Laid(<<>>, owed, Len(owed), 0)
    BY Zenon, <1>1, <1>2, LaidNone
  <2>2. Len(owed) = Len(Replied)
    BY <1>1, <1>4
  <2>. QED  BY <1>4, <2>1, <2>2 DEF StreamInv
<1>6. OrderInv
  <2>1. answer # <<"DATA", 354>>
    BY <1>1
  <2>. QED  BY <1>1, <1>2, <1>4, <2>1 DEF OrderInv
<1>7. FlushInv
  BY <1>1, <1>2 DEF FlushInv
<1>8. ChunkInv
  <2>1. Fresh(<<>>, 0, 0, 1)
    BY DEF Fresh
  <2>. QED  BY <1>1, <1>2, <1>4, <2>1 DEF ChunkInv
<1>. QED  BY <1>1, <1>3, <1>5, <1>6, <1>7, <1>8 DEF Inv

\* Every step preserves the invariant.
LEMMA NextKeeps ==
    Inv /\ [Next]_vars => Inv'
<1>. SUFFICES ASSUME Inv, [Next]_vars PROVE Inv'
  OBVIOUS
<1>1. CASE \E v \in Verbs \union {"content"} : Begin(v)
  BY <1>1, BeginKeeps
<1>2. CASE WritePart
  BY <1>2, WritePartKeeps
<1>3. CASE ReadReply
  BY <1>3, ReadReplyKeeps
<1>4. CASE Top \/ ContextDone
  BY <1>4, TopKeeps
<1>5. CASE FlushOne
  BY <1>5, FlushOneKeeps
<1>6. CASE Flushed
  BY <1>6, FlushedKeeps
<1>7. CASE \E n \in 1..Window : Fill(n)
  BY <1>7, FillKeeps
<1>8. CASE ReadCommand
  BY <1>8, ReadCommandKeeps
<1>9. CASE ReadOctet
  BY <1>9, ReadOctetKeeps
<1>10. CASE chunkDone
  BY <1>10, chunkDoneKeeps
<1>11. CASE contentDone
  BY <1>11, contentDoneKeeps
<1>12. CASE UNCHANGED vars
  <2>1. /\ UNCHANGED <<owed, answer, verb, remaining, spool, acked, lost, phase, chunked, misread>>
        /\ UNCHANGED <<buffered, toServer, unsent, toClient, pending, pc, after>>
    BY <1>12, Zenon DEF vars, client, session
  <2>2. at' = at /\ Stream' = Stream /\ Replied' = Replied
    BY <2>1 DEF at, Stream, Replied
  <2>3. StreamInv' /\ OrderInv' /\ ChunkInv' /\ ~misread'
    BY <2>1, <2>2, QuietKeeps
  <2>4. Types' /\ FlushInv'
    BY <2>1 DEF Inv, Types, FlushInv, Waits, isSyncPoint
  <2>. QED  BY <2>3, <2>4 DEF Inv
<1>. QED  BY <1>1, <1>2, <1>3, <1>4, <1>5, <1>6, <1>7, <1>8, <1>9, <1>10, <1>11, <1>12, Zenon DEF Next, Server

\* The invariant always holds.
THEOREM PipeliningInvariance == Spec => []Inv
<1>1. Init => Inv
  BY InitEstablishes
<1>2. Inv /\ [Next]_vars => Inv'
  BY NextKeeps
<1>. QED  BY <1>1, <1>2, PTL DEF Spec

\* Replies come in the order of the commands, one for each, and those that
\* decide a message or end the session do not wait in the writer's buffer
\* (commandLoop.run, executeLocked), for any windows and any chunk size.
THEOREM RepliesComeInOrder == Spec => []RepliesInOrder
<1>1. Inv => RepliesInOrder
  <2>1. SUFFICES ASSUME Inv PROVE RepliesInOrder
    OBVIOUS
  <2>2. Replied \in Seq(Replies) /\ pending \in Seq(Replies)
    BY <2>1, Sequences DEF Inv, Types
  <2>3. DOMAIN Replied = 1..Len(Replied) /\ DOMAIN pending = 1..Len(pending)
    BY <2>2
  <2>4. Len(Replied) <= Len(owed) /\ \A i \in DOMAIN Replied : Replied[i][1] = owed[i]
    BY <2>1, <2>3 DEF Inv, OrderInv
  <2>5. pc \in {"top", "read", "chunk"} => \A i \in DOMAIN pending : Waits(pending[i])
    BY <2>1, <2>3 DEF Inv, FlushInv
  <2>. QED  BY <2>4, <2>5, Zenon DEF RepliesInOrder, Replied, Waits
<1>. QED  BY <1>1, PipeliningInvariance, PTL

\* Content is never read as a command line: handleBDAT reads the announced
\* octets whatever the verdict, and DATA ends its group.
THEOREM ContentIsNeverCommand == Spec => []ContentIsNoCommand
<1>1. Inv => ContentIsNoCommand
  BY Zenon DEF Inv, ContentIsNoCommand
<1>. QED  BY <1>1, PipeliningInvariance, PTL

\* No message is accepted without an acknowledged chunk of it, by a peer that
\* does not mix DATA and BDAT in a transaction (handleBDAT, handleMail).
THEOREM ChunksAreDelivered == Spec => []ChunksDelivered
<1>1. Inv => ChunksDelivered
  BY DEF Inv, ChunkInv, ChunksDelivered
<1>. QED  BY <1>1, PipeliningInvariance, PTL
=============================================================================
