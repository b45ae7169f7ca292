-------------------------- MODULE TransparencyProofs --------------------------
(***************************************************************************)
(* Proofs about Transparency, for content, chunks, buffers and foreign     *)
(* streams of any length.  First sequences and what un-stuffing and        *)
(* normalising do to one more octet, then the iterations of Read and of    *)
(* Write, then the actions, and last what the invariant implies.  Loops    *)
(* and texts are reasoned about by induction, over sets of naturals.       *)
(***************************************************************************)
EXTENDS Transparency, SequenceTheorems, WellFoundedInduction, TLAPS

\* What the octet at position i of a stream un-stuffs to.
Piece(s, i) == IF i \in StartDots(s) THEN <<>> ELSE <<s[i]>>

\* The un-stuffed text of the first c octets of t.
Upto(t, c) == Unstuffed(SubSeq(t, 1, c))

\* No line-start dot among the first c octets of t ends the text.
Clear(t, c) ==
    \A i \in StartDots(t) : i <= c => i < Len(t) /\ t[i + 1] \notin {"CR", "LF"}

\* No CR . LF and no CR . CRLF has its dot among the first c octets of t.
Plain(t, c) ==
    \A i \in 1..(c - 1) :
        t[i] = "CR" /\ t[i + 1] = "." =>
            /\ i + 2 <= Len(t) /\ t[i + 2] # "LF"
            /\ t[i + 2] = "CR" => i + 3 <= Len(t) /\ t[i + 3] # "LF"

\* o is what the first c octets of t say, and none of them is past the end.
Got(o, t, c) == c \in 0..Len(t) /\ o = Upto(t, c) /\ Clear(t, c) /\ Plain(t, c)

\* The terminator follows the first c octets of t.
EndsAt(t, c) ==
    /\ c \in Nat /\ c + 3 <= Len(t)
    /\ LineStart(t, c + 1)
    /\ t[c + 1] = "." /\ t[c + 2] = "CR" /\ t[c + 3] = "LF"

\* What Read's loop keeps true of the reader r while it adds to o, when the
\* first a octets of t have arrived.
ReaderAt(r, o, t, a) ==
    /\ r \in Readers
    /\ r.consumed <= a
    /\ ~r.done =>
          /\ r.err = "none"
          /\ Got(o \o r.p, t, r.consumed)
          /\ r.atLineStart <=> LineStart(t, r.consumed + 1)
          /\ r.previousCR <=> (r.consumed > 0 /\ t[r.consumed] = "CR")
    /\ r.done =>
          /\ r.err # "none"
          /\ \E c \in Nat : Got(o \o r.p, t, c)
    /\ r.err = "EOF" =>
          Got(o \o r.p, t, r.consumed - 3) /\ EndsAt(t, r.consumed - 3)
    /\ r.err = "bareLFTerminator" =>
          \E i \in StartDots(t) : i < Len(t) /\ t[i + 1] = "LF"
    /\ r.err = "malformedTerminator" =>
          \/ \E i \in StartDots(t) : i + 2 <= Len(t) /\ t[i + 1] = "CR" /\ t[i + 2] # "LF"
          \/ \E i \in Nat \ {0} : i < Len(t) /\ t[i] = "CR" /\ t[i + 1] = "."

ReaderOK(r, o) == ReaderAt(r, o, raw, arrived)

Writers ==
    [w : Seq(Octets), pendingCR : BOOLEAN, atLineStart : BOOLEAN,
     wroteAny : BOOLEAN, lastByte : {"none"} \union Octets, closed : BOOLEAN]

\* Every line-start dot of w is doubled and every CR of it is part of a CRLF.
Stuffed(w) ==
    /\ \A i \in StartDots(w) : i < Len(w) /\ w[i + 1] = "."
    /\ \A i \in 1..Len(w) : w[i] = "CR" => i < Len(w) /\ w[i + 1] = "LF"

\* The writer d has put n, stuffed, on the wire and holds no CR.
Wrote(d, n) ==
    /\ d \in Writers
    /\ ~d.closed
    /\ ~d.pendingCR
    /\ Unstuffed(d.w) = n
    /\ Stuffed(d.w)
    /\ d.atLineStart <=> LineStart(d.w, Len(d.w) + 1)
    /\ d.wroteAny <=> d.w # <<>>
    /\ d.w # <<>> => d.lastByte = d.w[Len(d.w)]

EndsCR(c) == c # <<>> /\ c[Len(c)] = "CR"

\* What Write's loop keeps true of the writer d that was given c.
WriterOpen(d, c) ==
    /\ d \in Writers
    /\ d.pendingCR <=> EndsCR(c)
    /\ \E n \in Seq(Octets) :
          /\ Wrote([d EXCEPT !.pendingCR = FALSE], n)
          /\ Normalised(c) = IF d.pendingCR THEN n \o CRLF ELSE n

\* ... and Close, and the command x after it, of the stream it has ended.
WriterClosed(d, c, x) ==
    /\ d \in Writers
    /\ \E b \in Seq(Octets) :
          /\ d.w = b \o Terminator \o x
          /\ Stuffed(b)
          /\ LineStart(b, Len(b) + 1)
          /\ Unstuffed(b) = Complete(c)

Types ==
    /\ sender \in {"writer", "foreign"}
    /\ content \in Seq(Octets)
    /\ writer \in Writers
    /\ following \in {<<>>, <<".">>, <<"x">>}
    /\ arrived \in 0..Len(raw)
    /\ cut \in BOOLEAN
    /\ out \in Seq(Octets)
    /\ status \in {"more"} \union Errors

WriterInv ==
    sender = "writer" =>
        IF writer.closed THEN WriterClosed(writer, content, following)
                         ELSE following = <<>> /\ WriterOpen(writer, content)

ReaderInv ==
    /\ ReaderOK(reader, out)
    /\ reader.p = <<>>
    /\ ~reader.blocked
    /\ status # "more" => reader.done /\ status = reader.err

\* The inductive invariant.
Inv == Types /\ text = Text(raw) /\ WriterInv /\ ReaderInv


\* A set of naturals that is not empty has a least element.  (The induction
\* principles of the library have an operator for a parameter; here a set
\* takes its place.)
LEMMA NatLeast ==
    ASSUME NEW T \in SUBSET Nat, T # {}
    PROVE  \E x \in T : \A y \in T : x <= y
<1>. DEFINE R == {ss \in Nat \X Nat : ss[1] < ss[2]}
<1>1. IsWellFoundedOn(R, Nat)
  BY NatLessThanWellFounded DEF OpToRel
<1>. HIDE DEF R
<1>2. \E x \in T : \A y \in T : ~ (<<y, x>> \in R)
  BY Zenon, <1>1, WFMin
<1>3. ASSUME NEW x \in Nat, NEW y \in Nat, ~ (<<y, x>> \in R)
      PROVE  x <= y
  <2>1. <<y, x>> \in Nat \X Nat /\ <<y, x>>[1] = y /\ <<y, x>>[2] = x
    OBVIOUS
  <2>2. ~(y < x)
    BY <1>3, <2>1 DEF R
  <2>. QED  BY <2>2
<1>. QED  BY Zenon, <1>2, <1>3

\* Induction over the naturals.
LEMMA SetInduction ==
    ASSUME NEW T, 0 \in T, \A n \in Nat : n \in T => n + 1 \in T
    PROVE  Nat \subseteq T
<1>1. SUFFICES ASSUME Nat \ T # {}
               PROVE  FALSE
  OBVIOUS
<1>2. PICK x \in Nat \ T : \A y \in Nat \ T : x <= y
  BY Zenon, <1>1, NatLeast
<1>3. x - 1 \in Nat /\ x - 1 \in T
  BY <1>2
<1>. QED  BY <1>2, <1>3

\* f holds the concatenations of the first sequences of ss.
Runs(f, ss) ==
    f = [k \in 0..Len(ss) |-> IF k = 0 THEN <<>> ELSE f[k - 1] \o ss[k]]

\* There is one such function ...
LEMMA RunsUnique ==
    ASSUME NEW ss, Len(ss) \in Nat, NEW f, NEW g, Runs(f, ss), Runs(g, ss)
    PROVE  f = g
<1>. DEFINE T == {n \in Nat : n \in 0..Len(ss) => f[n] = g[n]}
<1>1. \A k \in 0..Len(ss) : f[k] = IF k = 0 THEN <<>> ELSE f[k - 1] \o ss[k]
  BY Zenon DEF Runs
<1>2. \A k \in 0..Len(ss) : g[k] = IF k = 0 THEN <<>> ELSE g[k - 1] \o ss[k]
  BY Zenon DEF Runs
<1>3. 0 \in T
  BY <1>1, <1>2
<1>4. ASSUME NEW n \in Nat, n \in T
      PROVE  n + 1 \in T
  <2>1. CASE n + 1 \in 0..Len(ss)
    <3>1. f[n] = g[n]
      BY <1>4, <2>1
    <3>. QED  BY <1>1, <1>2, <2>1, <3>1
  <2>. QED  BY <2>1
<1>. HIDE DEF T
<1>5. Nat \subseteq T
  BY <1>3, <1>4, SetInduction
<1>6. ASSUME NEW k \in 0..Len(ss)
      PROVE  f[k] = g[k]
  <2>1. k \in T
    BY <1>5
  <2>. QED  BY <2>1 DEF T
<1>7. f = [k \in 0..Len(ss) |-> f[k]] /\ g = [k \in 0..Len(ss) |-> g[k]]
  BY DEF Runs
<1>. QED  BY <1>6, <1>7

\* ... which Joined takes its value from.
LEMMA JoinedIs ==
    ASSUME NEW ss, Len(ss) \in Nat, NEW f, Runs(f, ss)
    PROVE  Joined(ss) = f[Len(ss)]
<1>. DEFINE g == CHOOSE g : Runs(g, ss)
<1>1. Runs(g, ss)
  OBVIOUS
<1>2. Joined(ss) = g[Len(ss)]
  BY DEF Joined, Runs
<1>3. f = g
  BY <1>1, RunsUnique
<1>. QED  BY <1>2, <1>3

\* Every sequence of sequences has running concatenations.
LEMMA RunsExist ==
    ASSUME NEW S, NEW ss \in Seq(Seq(S))
    PROVE  \E f \in [0..Len(ss) -> Seq(S)] : Runs(f, ss)
<1>. DEFINE Flat(n) == \E f \in [0..n -> Seq(S)] :
                          \A k \in 0..n : f[k] = IF k = 0 THEN <<>> ELSE f[k - 1] \o ss[k]
            T == {n \in Nat : n <= Len(ss) => Flat(n)}
<1>1. 0 \in T
  <2>. DEFINE f == [k \in 0..0 |-> <<>>]
  <2>1. f \in [0..0 -> Seq(S)]
    OBVIOUS
  <2>2. \A k \in 0..0 : f[k] = IF k = 0 THEN <<>> ELSE f[k - 1] \o ss[k]
    OBVIOUS
  <2>3. Flat(0)
    BY <2>1, <2>2, Zenon
  <2>. QED  BY Zenon, <2>3
<1>2. ASSUME NEW n \in Nat, n \in T
      PROVE  n + 1 \in T
  <2>1. SUFFICES ASSUME n + 1 <= Len(ss)
                 PROVE  Flat(n + 1)
    <3>. HIDE DEF Flat
    <3>. QED  OBVIOUS
  <2>2. PICK f \in [0..n -> Seq(S)] :
               \A k \in 0..n : f[k] = IF k = 0 THEN <<>> ELSE f[k - 1] \o ss[k]
    <3>1. Flat(n)
      <4>. HIDE DEF Flat
      <4>. QED  BY <1>2, <2>1
    <3>. QED  BY Zenon, <3>1
  <2>. DEFINE last == f[n] \o ss[n + 1]
              g == [k \in 0..(n + 1) |-> IF k = n + 1 THEN last ELSE f[k]]
  <2>3. last \in Seq(S)
    BY <2>1, <2>2
  <2>4. g \in [0..(n + 1) -> Seq(S)]
    BY <2>2, <2>3
  <2>5. ASSUME NEW k \in 0..(n + 1)
        PROVE  g[k] = IF k = 0 THEN <<>> ELSE g[k - 1] \o ss[k]
    <3>1. CASE k = n + 1
      <4>1. g[n + 1] = last /\ n \in 0..(n + 1) /\ n # n + 1
        OBVIOUS
      <4>2. g[n] = f[n] /\ k - 1 = n /\ k # 0
        BY <3>1, <4>1
      <4>. QED  BY Zenon, <3>1, <4>1, <4>2
    <3>2. CASE k # n + 1
      <4>1. k \in 0..n /\ g[k] = f[k] /\ (k # 0 => g[k - 1] = f[k - 1])
        BY <3>2
      <4>2. f[k] = IF k = 0 THEN <<>> ELSE f[k - 1] \o ss[k]
        BY Zenon, <2>2, <4>1
      <4>. QED  BY <4>1, <4>2, Zenon
    <3>. QED  BY <3>1, <3>2
  <2>. QED  BY Zenon, <2>4, <2>5
<1>. HIDE DEF T
<1>3. Nat \subseteq T
  BY <1>1, <1>2, SetInduction
<1>4. Flat(Len(ss))
  <2>. HIDE DEF Flat
  <2>. QED  BY <1>3 DEF T
<1>5. PICK f \in [0..Len(ss) -> Seq(S)] :
             \A k \in 0..Len(ss) : f[k] = IF k = 0 THEN <<>> ELSE f[k - 1] \o ss[k]
  BY Zenon, <1>4
<1>6. Runs(f, ss)
  BY Zenon, <1>5 DEF Runs
<1>. QED  BY <1>6

\* Nothing, joined, is nothing.
LEMMA JoinedEmpty == Joined(<<>>) = <<>>
<1>1. <<>> \in Seq(Seq({})) /\ Len(<<>>) = 0
  OBVIOUS
<1>2. PICK f \in [0..Len(<<>>) -> Seq({})] : Runs(f, <<>>)
  BY Zenon, <1>1, RunsExist
<1>3. f[0] = <<>>
  BY <1>1, <1>2 DEF Runs
<1>4. Joined(<<>>) = f[Len(<<>>)]
  BY <1>1, <1>2, JoinedIs
<1>. QED  BY <1>1, <1>3, <1>4

\* Joining keeps the kind of element.
LEMMA JoinedType ==
    ASSUME NEW S, NEW ss \in Seq(Seq(S))
    PROVE  Joined(ss) \in Seq(S)
<1>1. PICK f \in [0..Len(ss) -> Seq(S)] : Runs(f, ss)
  BY Zenon, RunsExist
<1>2. Joined(ss) = f[Len(ss)]
  BY <1>1, JoinedIs
<1>. QED  BY <1>1, <1>2

\* One sequence more.
LEMMA JoinedAppend ==
    ASSUME NEW S, NEW ss \in Seq(Seq(S)), NEW x \in Seq(S)
    PROVE  Joined(Append(ss, x)) = Joined(ss) \o x
<1>. DEFINE tt == Append(ss, x)
<1>0. tt \in Seq(Seq(S)) /\ Len(tt) = Len(ss) + 1 /\ tt[Len(tt)] = x
      /\ \A i \in 1..Len(ss) : tt[i] = ss[i]
  OBVIOUS
<1>. HIDE DEF tt
<1>1. PICK f \in [0..Len(tt) -> Seq(S)] : Runs(f, tt)
  BY Zenon, <1>0, RunsExist
<1>2. Joined(tt) = f[Len(tt)]
  BY <1>0, <1>1, JoinedIs
<1>3. \A k \in 0..Len(tt) : f[k] = IF k = 0 THEN <<>> ELSE f[k - 1] \o tt[k]
  BY Zenon, <1>1 DEF Runs
<1>. DEFINE g == [k \in 0..Len(ss) |-> f[k]]
<1>4. Runs(g, ss)
  <2>1. \A k \in 0..Len(ss) : g[k] = IF k = 0 THEN <<>> ELSE g[k - 1] \o ss[k]
    <3>1. SUFFICES ASSUME NEW k \in 0..Len(ss)
                   PROVE  g[k] = IF k = 0 THEN <<>> ELSE g[k - 1] \o ss[k]
      BY Zenon
    <3>2. /\ k \in 0..Len(tt) /\ g[k] = f[k]
          /\ k # 0 => tt[k] = ss[k] /\ g[k - 1] = f[k - 1]
      BY <1>0
    <3>3. f[k] = IF k = 0 THEN <<>> ELSE f[k - 1] \o tt[k]
      BY Zenon, <1>3, <3>2
    <3>. QED  BY <3>2, <3>3, Zenon
  <2>. QED  BY Zenon, <2>1 DEF Runs
<1>5. Joined(ss) = f[Len(ss)]
  <2>1. Len(ss) \in Nat /\ g[Len(ss)] = f[Len(ss)]
    OBVIOUS
  <2>2. Joined(ss) = g[Len(ss)]
    <3>. HIDE DEF g
    <3>. QED  BY <1>4, <2>1, JoinedIs
  <2>. QED  BY <2>1, <2>2
<1>6. f[Len(tt)] = f[Len(ss)] \o x
  <2>1. Len(tt) \in 0..Len(tt) /\ Len(tt) # 0 /\ Len(tt) - 1 = Len(ss) /\ tt[Len(tt)] = x
    BY <1>0
  <2>. QED  BY <1>3, <2>1, Zenon
<1>. QED  BY <1>2, <1>5, <1>6 DEF tt

\* The beginning of a beginning is a beginning.
LEMMA BeginsTransitive ==
    ASSUME NEW s \in Seq(Octets), NEW t \in Seq(Octets), NEW u \in Seq(Octets),
           IsPrefix(s, t), IsPrefix(t, u)
    PROVE  IsPrefix(s, u)
BY DEF IsPrefix

\* What is appended to leaves a beginning.
LEMMA BeginsConcat ==
    ASSUME NEW s \in Seq(Octets), NEW t \in Seq(Octets)
    PROVE  IsPrefix(s, s \o t)
BY DEF IsPrefix

\* ... as the content channel says it.
LEMMA BeginsIs ==
    ASSUME NEW s \in Seq(Octets), NEW t \in Seq(Octets), IsPrefix(s, t)
    PROVE  Channel!Extends(t, s)
<1>1. Len(s) \in Nat /\ Len(s) <= Len(t)
  BY DEF IsPrefix
<1>2. SubSeq(t, 1, Len(s)) \in Seq(Octets) /\ Len(SubSeq(t, 1, Len(s))) = Len(s)
      /\ \A i \in 1..Len(s) : SubSeq(t, 1, Len(s))[i] = t[i]
  BY <1>1
<1>3. \A i \in 1..Len(s) : s[i] = SubSeq(t, 1, Len(s))[i]
  BY <1>2 DEF IsPrefix
<1>4. s = SubSeq(t, 1, Len(s))
  BY <1>2, <1>3, SeqEqual
<1>. QED  BY <1>1, <1>4 DEF Channel!Extends

\* The first octets of a stream.
LEMMA First ==
    ASSUME NEW t \in Seq(Octets), NEW c \in 0..Len(t)
    PROVE  /\ SubSeq(t, 1, c) \in Seq(Octets)
           /\ Len(SubSeq(t, 1, c)) = c
           /\ \A i \in 1..c : SubSeq(t, 1, c)[i] = t[i]
OBVIOUS

\* The first c + 1 octets are the first c and the next one.
LEMMA FirstNext ==
    ASSUME NEW t \in Seq(Octets), NEW c \in 0..Len(t), c < Len(t)
    PROVE  SubSeq(t, 1, c + 1) = Append(SubSeq(t, 1, c), t[c + 1])
<1>1. SubSeq(t, 1, c) \in Seq(Octets) /\ Len(SubSeq(t, 1, c)) = c
      /\ \A i \in 1..c : SubSeq(t, 1, c)[i] = t[i]
  BY First
<1>2. SubSeq(t, 1, c + 1) \in Seq(Octets) /\ Len(SubSeq(t, 1, c + 1)) = c + 1
      /\ \A i \in 1..(c + 1) : SubSeq(t, 1, c + 1)[i] = t[i]
  BY First
<1>3. t[c + 1] \in Octets
  BY ElementOfSeq
<1>. DEFINE l == SubSeq(t, 1, c + 1)
            r == Append(SubSeq(t, 1, c), t[c + 1])
<1>4. r \in Seq(Octets) /\ Len(r) = c + 1 /\ r[c + 1] = t[c + 1]
      /\ \A i \in 1..c : r[i] = t[i]
  BY <1>1, <1>3, AppendProperties
<1>5. \A i \in 1..(c + 1) : l[i] = r[i]
  <2>1. SUFFICES ASSUME NEW i \in 1..(c + 1)
                 PROVE  l[i] = r[i]
    OBVIOUS
  <2>2. i = c + 1 \/ i \in 1..c
    OBVIOUS
  <2>. QED  BY <1>2, <1>4, <2>1, <2>2
<1>. HIDE DEF l, r
<1>6. l \in Seq(Octets) /\ Len(l) = Len(r) /\ \A i \in 1..Len(l) : l[i] = r[i]
  BY <1>2, <1>4, <1>5 DEF l
<1>7. l = r
  BY <1>4, <1>6, SeqEqual
<1>. QED  BY <1>7 DEF l, r

\* The dots at line starts among the first octets of a stream are those of
\* any stream that begins with them.
LEMMA StartDotsBegins ==
    ASSUME NEW s \in Seq(Octets), NEW t \in Seq(Octets), IsPrefix(s, t), NEW i \in 1..Len(s)
    PROVE  i \in StartDots(s) <=> i \in StartDots(t)
<1>1. i \in DOMAIN s /\ i \in DOMAIN t /\ s[i] = t[i]
  BY DEF IsPrefix
<1>2. i # 1 => s[i - 1] = t[i - 1]
  BY DEF IsPrefix
<1>. QED  BY <1>1, <1>2, Zenon DEF StartDots, LineStart

\* A piece is a text.
LEMMA PieceType ==
    ASSUME NEW s \in Seq(Octets), NEW i \in 1..Len(s)
    PROVE  Piece(s, i) \in Seq(Octets)
<1>1. s[i] \in Octets
  OBVIOUS
<1>. QED  BY <1>1 DEF Piece

\* Un-stuffing joins the pieces.
LEMMA UnstuffedPieces ==
    ASSUME NEW s \in Seq(Octets)
    PROVE  /\ [i \in 1..Len(s) |-> Piece(s, i)] \in Seq(Seq(Octets))
           /\ Unstuffed(s) = Joined([i \in 1..Len(s) |-> Piece(s, i)])
<1>1. DOMAIN s = 1..Len(s) /\ Len(s) \in Nat
  OBVIOUS
<1>2. \A i \in 1..Len(s) : Piece(s, i) \in Seq(Octets)
  BY PieceType
<1>3. [i \in 1..Len(s) |-> Piece(s, i)] \in [1..Len(s) -> Seq(Octets)]
  BY <1>2
<1>4. [i \in 1..Len(s) |-> Piece(s, i)] \in Seq(Seq(Octets))
  BY <1>1, <1>3, SeqDef
<1>. QED  BY <1>1, <1>4, Zenon DEF Unstuffed, Piece

\* Un-stuffed octets are octets.
LEMMA UnstuffedType ==
    ASSUME NEW s \in Seq(Octets)
    PROVE  Unstuffed(s) \in Seq(Octets)
BY Zenon, UnstuffedPieces, JoinedType

\* The empty stream un-stuffs to nothing.
LEMMA UnstuffedEmpty == Unstuffed(<<>>) = <<>>
<1>1. [i \in DOMAIN <<>> |-> IF i \in StartDots(<<>>) THEN <<>> ELSE <<(<<>>)[i]>>] = <<>>
  OBVIOUS
<1>. QED  BY <1>1, JoinedEmpty DEF Unstuffed

\* One octet more: a dot at a line start goes, any other octet stays.
LEMMA UnstuffedAppend ==
    ASSUME NEW s \in Seq(Octets), NEW b \in Octets
    PROVE  Unstuffed(Append(s, b)) =
              Unstuffed(s) \o (IF b = "." /\ LineStart(s, Len(s) + 1) THEN <<>> ELSE <<b>>)
<1>. DEFINE t == Append(s, b)
            x == IF b = "." /\ LineStart(s, Len(s) + 1) THEN <<>> ELSE <<b>>
            ps == [i \in 1..Len(s) |-> Piece(s, i)]
            pt == [i \in 1..Len(t) |-> Piece(t, i)]
<1>1. t \in Seq(Octets) /\ Len(t) = Len(s) + 1 /\ t[Len(s) + 1] = b
      /\ (\A i \in 1..Len(s) : t[i] = s[i])
  BY AppendProperties
<1>2. IsPrefix(s, t)
  BY <1>1 DEF IsPrefix
<1>3. x \in Seq(Octets)
  OBVIOUS
<1>4. Piece(t, Len(s) + 1) = x
  <2>1. LineStart(t, Len(s) + 1) <=> LineStart(s, Len(s) + 1)
    BY <1>1 DEF LineStart
  <2>2. Len(s) + 1 \in StartDots(t) <=> (b = "." /\ LineStart(s, Len(s) + 1))
    <3>1. Len(s) + 1 \in DOMAIN t
      BY <1>1
    <3>. QED  BY <1>1, <2>1, <3>1, Zenon DEF StartDots
  <2>. QED  BY <1>1, <2>2, Zenon DEF Piece
<1>. HIDE DEF t, x
<1>5. ps \in Seq(Seq(Octets)) /\ Unstuffed(s) = Joined(ps)
  BY UnstuffedPieces
<1>6. pt \in Seq(Seq(Octets)) /\ Unstuffed(t) = Joined(pt)
  BY <1>1, UnstuffedPieces
<1>7. pt = Append(ps, x)
  <2>1. Len(ps) = Len(s) /\ \A i \in 1..Len(s) : ps[i] = Piece(s, i)
    OBVIOUS
  <2>2. Len(pt) = Len(s) + 1 /\ \A i \in 1..(Len(s) + 1) : pt[i] = Piece(t, i)
    BY <1>1
  <2>3. \A i \in 1..Len(s) : Piece(t, i) = Piece(s, i)
    <3>1. SUFFICES ASSUME NEW i \in 1..Len(s)
                   PROVE  Piece(t, i) = Piece(s, i)
      OBVIOUS
    <3>2. i \in StartDots(s) <=> i \in StartDots(t)
      BY <1>1, <1>2, StartDotsBegins
    <3>3. t[i] = s[i]
      BY <1>1
    <3>. QED  BY <3>2, <3>3, Zenon DEF Piece
  <2>. HIDE DEF ps, pt
  <2>. DEFINE r == Append(ps, x)
  <2>4. r \in Seq(Seq(Octets)) /\ Len(r) = Len(s) + 1 /\ r[Len(s) + 1] = x
        /\ \A i \in 1..Len(s) : r[i] = ps[i]
    BY SMTT(20), <1>3, <1>5, <2>1, AppendProperties
  <2>. HIDE DEF r
  <2>5. ASSUME NEW i \in 1..(Len(s) + 1)
        PROVE  pt[i] = r[i]
    <3>1. CASE i = Len(s) + 1
      BY <1>4, <2>2, <2>4, <3>1
    <3>2. CASE i \in 1..Len(s)
      BY Zenon, <2>1, <2>2, <2>3, <2>4, <3>2
    <3>3. i = Len(s) + 1 \/ i \in 1..Len(s)
      OBVIOUS
    <3>. QED  BY <3>1, <3>2, <3>3
  <2>6. Len(pt) = Len(r) /\ \A i \in 1..Len(pt) : pt[i] = r[i]
    BY <2>2, <2>4, <2>5
  <2>7. pt = r
    BY <1>6, <2>4, <2>6, SeqEqual
  <2>. QED  BY <2>7 DEF r
<1>8. Joined(pt) = Joined(ps) \o x
  BY Zenon, <1>3, <1>5, <1>7, JoinedAppend
<1>. QED  BY Zenon, <1>5, <1>6, <1>8 DEF t, x

\* Upto is a text,
LEMMA UptoType ==
    ASSUME NEW t \in Seq(Octets), NEW c \in 0..Len(t)
    PROVE  Upto(t, c) \in Seq(Octets)
BY Zenon, First, UnstuffedType DEF Upto

\* ... empty when nothing was consumed,
LEMMA UptoZero ==
    ASSUME NEW t \in Seq(Octets)
    PROVE  Upto(t, 0) = <<>>
<1>1. SubSeq(t, 1, 0) = <<>>
  BY SubSeqEmpty
<1>. QED  BY Zenon, <1>1, UnstuffedEmpty DEF Upto

\* ... and the whole text when everything was.
LEMMA UptoAll ==
    ASSUME NEW t \in Seq(Octets)
    PROVE  Upto(t, Len(t)) = Unstuffed(t)
BY Zenon, SubSeqFull DEF Upto

\* What follows an octet does not decide whether it starts a line.
LEMMA LineStartBegins ==
    ASSUME NEW s \in Seq(Octets), NEW t \in Seq(Octets), IsPrefix(s, t), NEW i \in 1..(Len(s) + 1)
    PROVE  LineStart(s, i) <=> LineStart(t, i)
BY DEF LineStart, IsPrefix

\* The first c octets are a beginning.
LEMMA FirstBegins ==
    ASSUME NEW t \in Seq(Octets), NEW c \in 0..Len(t)
    PROVE  IsPrefix(SubSeq(t, 1, c), t)
BY First DEF IsPrefix

\* One octet more of a stream.
LEMMA UptoNext ==
    ASSUME NEW t \in Seq(Octets), NEW c \in Nat, c < Len(t)
    PROVE  Upto(t, c + 1) = Upto(t, c) \o Piece(t, c + 1)
<1>. DEFINE s == SubSeq(t, 1, c)
<1>1. s \in Seq(Octets) /\ Len(s) = c
  BY First
<1>2. t[c + 1] \in Octets
  OBVIOUS
<1>3. SubSeq(t, 1, c + 1) = Append(s, t[c + 1])
  BY FirstNext
<1>4. IsPrefix(s, t)
  BY FirstBegins
<1>. HIDE DEF s
<1>5. LineStart(s, c + 1) <=> LineStart(t, c + 1)
  BY <1>1, <1>4, LineStartBegins
<1>6. (t[c + 1] = "." /\ LineStart(s, c + 1)) <=> c + 1 \in StartDots(t)
  <2>1. c + 1 \in DOMAIN t
    OBVIOUS
  <2>. QED  BY <1>5, <2>1, Zenon DEF StartDots
<1>7. Unstuffed(Append(s, t[c + 1])) =
        Unstuffed(s) \o (IF t[c + 1] = "." /\ LineStart(s, c + 1) THEN <<>> ELSE <<t[c + 1]>>)
  BY <1>1, <1>2, UnstuffedAppend
<1>8. (IF t[c + 1] = "." /\ LineStart(s, c + 1) THEN <<>> ELSE <<t[c + 1]>>) = Piece(t, c + 1)
  BY <1>6, Zenon DEF Piece
<1>. QED  BY <1>3, <1>7, <1>8, Zenon DEF Upto, s

\* Who consumes more octets has got a longer text with the same beginning.
LEMMA UptoBegins ==
    ASSUME NEW t \in Seq(Octets), NEW d \in 0..Len(t), NEW c \in 0..d
    PROVE  IsPrefix(Upto(t, c), Upto(t, d))
<1>. DEFINE T == {n \in Nat : c + n <= Len(t) => IsPrefix(Upto(t, c), Upto(t, c + n))}
<1>0. Upto(t, c) \in Seq(Octets)
  BY UptoType
<1>1. 0 \in T
  BY <1>0 DEF IsPrefix
<1>2. ASSUME NEW n \in Nat, n \in T
      PROVE  n + 1 \in T
  <2>1. SUFFICES ASSUME c + (n + 1) <= Len(t)
                 PROVE  IsPrefix(Upto(t, c), Upto(t, c + (n + 1)))
    OBVIOUS
  <2>2. IsPrefix(Upto(t, c), Upto(t, c + n))
    BY <1>2, <2>1
  <2>3. Upto(t, (c + n) + 1) = Upto(t, c + n) \o Piece(t, (c + n) + 1)
    BY <2>1, UptoNext
  <2>4. Upto(t, c + n) \in Seq(Octets) /\ Piece(t, (c + n) + 1) \in Seq(Octets)
    BY <2>1, UptoType, PieceType
  <2>5. IsPrefix(Upto(t, c + n), Upto(t, (c + n) + 1))
    BY Zenon, <2>3, <2>4, BeginsConcat
  <2>6. Upto(t, (c + n) + 1) \in Seq(Octets)
    BY <2>1, UptoType
  <2>7. IsPrefix(Upto(t, c), Upto(t, (c + n) + 1))
    BY <1>0, <2>2, <2>4, <2>5, <2>6, BeginsTransitive
  <2>8. c + (n + 1) = (c + n) + 1
    OBVIOUS
  <2>. QED  BY <2>7, <2>8
<1>. HIDE DEF T
<1>3. Nat \subseteq T
  BY <1>1, <1>2, SetInduction
<1>4. d - c \in T /\ c + (d - c) = d
  BY <1>3
<1>. QED  BY <1>4 DEF T

\* What the first octets say does not depend on the octets after them.
LEMMA UptoOf ==
    ASSUME NEW s \in Seq(Octets), NEW t \in Seq(Octets), IsPrefix(s, t), NEW c \in 0..Len(s)
    PROVE  SubSeq(t, 1, c) = SubSeq(s, 1, c) /\ Upto(t, c) = Upto(s, c)
<1>. DEFINE a == SubSeq(s, 1, c)
            b == SubSeq(t, 1, c)
<1>1. c \in 0..Len(t) /\ \A i \in 1..c : s[i] = t[i]
  BY DEF IsPrefix
<1>2. a \in Seq(Octets) /\ Len(a) = c /\ \A i \in 1..c : a[i] = s[i]
  BY First
<1>3. b \in Seq(Octets) /\ Len(b) = c /\ \A i \in 1..c : b[i] = t[i]
  BY <1>1, First
<1>. HIDE DEF a, b
<1>4. \A i \in 1..Len(a) : a[i] = b[i]
  BY <1>1, <1>2, <1>3
<1>5. a = b
  BY <1>2, <1>3, <1>4, SeqEqual
<1>. QED  BY Zenon, <1>5 DEF a, b, Upto

(***************************************************************************)
(* Where the text of a stream ends.                                        *)
(***************************************************************************)
LEMMA EndDotsIn ==
    ASSUME NEW s \in Seq(Octets)
    PROVE  /\ EndDots(s) \subseteq 1..Len(s)
           /\ StartDots(s) \subseteq 1..Len(s)
           /\ \A i \in EndDots(s) : i < Len(s) /\ s[i + 1] \in {"CR", "LF"} /\ i \in StartDots(s)
BY DEF EndDots, StartDots

\* A stream without a dot that ends it is all body.
LEMMA BodyWhole ==
    ASSUME NEW s \in Seq(Octets), EndDots(s) = {}
    PROVE  Body(s) = s /\ ~Terminated(s)
BY DEF Body, Terminated

\* Otherwise the body is what precedes the first such dot.
LEMMA BodyAt ==
    ASSUME NEW s \in Seq(Octets), NEW m \in EndDots(s), \A y \in EndDots(s) : m <= y
    PROVE  /\ Body(s) = SubSeq(s, 1, m - 1)
           /\ Terminated(s) <=> m + 2 <= Len(s) /\ s[m + 1] = "CR" /\ s[m + 2] = "LF"
<1>1. m \in 1..Len(s) /\ m < Len(s) /\ EndDots(s) \subseteq Nat /\ m \in StartDots(s)
  BY EndDotsIn
<1>2. Min(EndDots(s)) = m
  <2>. DEFINE E == EndDots(s)
              z == Min(E)
  <2>. HIDE DEF E
  <2>1. \E x \in E : \A y \in E : x =< y
    BY DEF E
  <2>2. z \in E /\ \A y \in E : z =< y
    BY <2>1 DEF Min
  <2>. HIDE DEF z
  <2>3. z <= m /\ m <= z /\ z \in Nat
    BY <1>1, <2>2 DEF E
  <2>. QED  BY <1>1, <2>3 DEF z, E
<1>3. Body(s) = SubSeq(s, 1, m - 1)
  BY Zenon, <1>2 DEF Body
<1>4. Len(Body(s)) = m - 1
  BY <1>1, <1>3, First
<1>5. Body(s) # s
  BY <1>1, <1>4
<1>6. Len(Body(s)) + 1 = m /\ s[m] = "."
  BY <1>1, <1>4 DEF StartDots
<1>7. Len(Terminator) = 3 /\ Terminator[1] = "." /\ Terminator[2] = "CR" /\ Terminator[3] = "LF"
      /\ Terminator \in Seq(Octets)
  BY DEF Terminator, Octets
<1>8. Matches(s, m, Terminator) <=> m + 2 <= Len(s) /\ s[m + 1] = "CR" /\ s[m + 2] = "LF"
  <2>1. CASE m + 2 <= Len(s)
    <3>. DEFINE u == SubSeq(s, m, m + 2)
    <3>1. u \in Seq(Octets) /\ Len(u) = 3 /\ u[1] = s[m] /\ u[2] = s[m + 1] /\ u[3] = s[m + 2]
      <4>1. \A i \in m..(m + 2) : s[i] \in Octets
        BY <1>1, <2>1
      <4>. QED  BY <1>1, <4>1, SubSeqProperties
    <3>2. Matches(s, m, Terminator) <=> u = Terminator
      <4>1. m + Len(Terminator) - 1 = m + 2
        BY <1>1, <1>7
      <4>. QED  BY <2>1, <4>1 DEF Matches
    <3>. HIDE DEF u
    <3>3. ASSUME u[2] = "CR", u[3] = "LF"
          PROVE  u = Terminator
      <4>1. \A i \in 1..Len(u) : u[i] = Terminator[i]
        BY <1>6, <1>7, <3>1, <3>3
      <4>. QED  BY Zenon, <1>7, <3>1, <4>1, SeqEqual
    <3>4. u = Terminator => u[2] = "CR" /\ u[3] = "LF"
      BY <1>7
    <3>. QED  BY <2>1, <3>1, <3>2, <3>3, <3>4
  <2>2. CASE ~(m + 2 <= Len(s))
    <3>1. m + Len(Terminator) - 1 = m + 2
      BY <1>1, <1>7
    <3>. QED  BY <2>2, <3>1 DEF Matches
  <2>. QED  BY <2>1, <2>2
<1>. QED  BY Zenon, <1>3, <1>5, <1>6, <1>8 DEF Terminated

\* There is a first one.
LEMMA EndDotsLeast ==
    ASSUME NEW s \in Seq(Octets), EndDots(s) # {}
    PROVE  \E m \in EndDots(s) : \A y \in EndDots(s) : m <= y
<1>1. EndDots(s) \in SUBSET Nat
  BY EndDotsIn
<1>. QED  BY <1>1, NatLeast

\* The text of a stream that is clear up to c begins with what the first c
\* octets say.
LEMMA TextBeyond ==
    ASSUME NEW t \in Seq(Octets), NEW c \in 0..Len(t), Clear(t, c)
    PROVE  IsPrefix(Upto(t, c), Text(t).sent)
<1>1. CASE EndDots(t) = {}
  <2>1. Text(t).sent = Upto(t, Len(t))
    BY <1>1, BodyWhole, UptoAll DEF Text
  <2>. QED  BY <2>1, UptoBegins
<1>2. CASE EndDots(t) # {}
  <2>1. PICK m \in EndDots(t) : \A y \in EndDots(t) : m <= y
    BY <1>2, EndDotsLeast
  <2>2. m \in StartDots(t) /\ m \in 1..Len(t) /\ t[m + 1] \in {"CR", "LF"}
    BY EndDotsIn
  <2>3. c <= m - 1
    BY <2>2 DEF Clear
  <2>4. Text(t).sent = Upto(t, m - 1)
    BY Zenon, <2>1, BodyAt DEF Text, Upto
  <2>5. m - 1 \in 0..Len(t) /\ c \in 0..(m - 1)
    BY <2>2, <2>3
  <2>. QED  BY <2>4, <2>5, UptoBegins
<1>. QED  BY <1>1, <1>2

\* ... and is just that, complete, when the terminator follows.
LEMMA TextEnds ==
    ASSUME NEW t \in Seq(Octets), NEW c \in 0..Len(t), Clear(t, c), EndsAt(t, c)
    PROVE  /\ Text(t) = [sent |-> Upto(t, c), complete |-> TRUE]
           /\ Body(t) = SubSeq(t, 1, c)
<1>1. c + 1 \in EndDots(t)
  BY DEF EndsAt, EndDots, StartDots
<1>2. \A y \in EndDots(t) : c + 1 <= y
  BY EndDotsIn DEF Clear
<1>3. Body(t) = SubSeq(t, 1, (c + 1) - 1) /\ Terminated(t)
  <2>1. (c + 1) + 2 <= Len(t) /\ t[(c + 1) + 1] = "CR" /\ t[(c + 1) + 2] = "LF"
    BY DEF EndsAt
  <2>. QED  BY <1>1, <1>2, <2>1, BodyAt
<1>4. (c + 1) - 1 = c
  OBVIOUS
<1>. QED  BY <1>3, <1>4, Zenon DEF Text, Upto

\* One octet more takes nothing back from the text, and adds nothing to a
\* text that has ended.
Grows(a, b) == IsPrefix(a.sent, b.sent) /\ (a.complete => b = a)

\* The text of a stream has the types the channel expects.
LEMMA TextType ==
    ASSUME NEW s \in Seq(Octets)
    PROVE  Text(s).sent \in Seq(Octets) /\ Text(s).complete \in BOOLEAN
<1>1. Text(s).sent = Unstuffed(Body(s)) /\ Text(s).complete = Terminated(s)
  BY DEF Text
<1>2. Body(s) \in Seq(Octets)
  <2>1. CASE EndDots(s) = {}
    BY <2>1, BodyWhole
  <2>2. CASE EndDots(s) # {}
    <3>1. PICK m \in EndDots(s) : \A y \in EndDots(s) : m <= y
      BY <2>2, EndDotsLeast
    <3>2. m - 1 \in 0..Len(s)
      BY EndDotsIn
    <3>. QED  BY Zenon, <3>1, <3>2, BodyAt, First
  <2>. QED  BY <2>1, <2>2
<1>3. Terminated(s) \in BOOLEAN
  BY Zenon DEF Terminated
<1>. QED  BY <1>1, <1>2, <1>3, UnstuffedType

\* One more octet on the wire makes the text grow, or leaves it.
LEMMA TextAppend ==
    ASSUME NEW s \in Seq(Octets), NEW b \in Octets
    PROVE  Grows(Text(s), Text(Append(s, b)))
<1>. DEFINE t == Append(s, b)
<1>1. t \in Seq(Octets) /\ Len(t) = Len(s) + 1 /\ t[Len(s) + 1] = b
      /\ (\A i \in 1..Len(s) : t[i] = s[i])
  BY AppendProperties
<1>. HIDE DEF t
<1>2. IsPrefix(s, t)
  BY <1>1 DEF IsPrefix
<1>3. \A i \in 1..Len(s) : i \in StartDots(s) <=> i \in StartDots(t)
  BY <1>1, <1>2, StartDotsBegins
<1>4. \A i \in EndDots(s) : i \in EndDots(t)
  <2>1. SUFFICES ASSUME NEW i \in EndDots(s)
                 PROVE  i \in EndDots(t)
    OBVIOUS
  <2>2. i \in 1..Len(s) /\ i < Len(s) /\ s[i + 1] \in {"CR", "LF"} /\ i \in StartDots(s)
    BY EndDotsIn
  <2>3. i \in StartDots(t) /\ i < Len(t) /\ t[i + 1] = s[i + 1]
    BY <1>1, <1>3, <2>2
  <2>. QED  BY <2>2, <2>3 DEF EndDots
<1>5. \A i \in EndDots(t) : i \in EndDots(s) \/ (i = Len(s) /\ i \in StartDots(s) /\ b \in {"CR", "LF"})
  <2>1. SUFFICES ASSUME NEW i \in EndDots(t)
                 PROVE  i \in EndDots(s) \/ (i = Len(s) /\ i \in StartDots(s) /\ b \in {"CR", "LF"})
    OBVIOUS
  <2>2. i \in 1..Len(t) /\ i < Len(t) /\ t[i + 1] \in {"CR", "LF"} /\ i \in StartDots(t)
    BY <1>1, EndDotsIn
  <2>3. i \in 1..Len(s) /\ i \in StartDots(s)
    BY <1>1, <1>3, <2>2
  <2>4. CASE i = Len(s)
    BY <1>1, <2>2, <2>3, <2>4
  <2>5. CASE i # Len(s)
    <3>1. i < Len(s) /\ t[i + 1] = s[i + 1]
      BY <1>1, <2>3, <2>5
    <3>. QED  BY <2>2, <2>3, <3>1 DEF EndDots
  <2>. QED  BY <2>4, <2>5
<1>6. \A c \in 0..Len(s) : SubSeq(t, 1, c) = SubSeq(s, 1, c) /\ Upto(t, c) = Upto(s, c)
  BY <1>1, <1>2, UptoOf
<1>7. CASE EndDots(s) # {}
  <2>1. PICK m \in EndDots(s) : \A y \in EndDots(s) : m <= y
    BY <1>7, EndDotsLeast
  <2>2. m \in 1..Len(s) /\ m < Len(s)
    BY EndDotsIn
  <2>3. m \in EndDots(t) /\ \A y \in EndDots(t) : m <= y
    BY <1>4, <1>5, <2>1, <2>2
  <2>4. /\ Body(s) = SubSeq(s, 1, m - 1)
        /\ Terminated(s) <=> m + 2 <= Len(s) /\ s[m + 1] = "CR" /\ s[m + 2] = "LF"
    BY <2>1, BodyAt
  <2>5. /\ Body(t) = SubSeq(t, 1, m - 1)
        /\ Terminated(t) <=> m + 2 <= Len(t) /\ t[m + 1] = "CR" /\ t[m + 2] = "LF"
    BY <1>1, <2>3, BodyAt
  <2>6. Body(t) = Body(s)
    BY <1>6, <2>2, <2>4, <2>5
  <2>7. Terminated(s) => Terminated(t)
    BY <1>1, <2>2, <2>4, <2>5
  <2>8. Text(s).sent = Text(t).sent /\ Text(s).complete = Terminated(s)
    BY <2>6 DEF Text
  <2>9. Terminated(s) => Text(t) = Text(s)
    <3>1. Terminated(s) \in BOOLEAN /\ Terminated(t) \in BOOLEAN
      BY Zenon DEF Terminated
    <3>. QED  BY <2>6, <2>7, <3>1, Zenon DEF Text
  <2>10. IsPrefix(Text(s).sent, Text(t).sent)
    <3>1. Text(s).sent \in Seq(Octets)
      BY TextType
    <3>. QED  BY <2>8, <3>1 DEF IsPrefix
  <2>. QED  BY <2>8, <2>9, <2>10 DEF Grows, t
<1>8. CASE EndDots(s) = {}
  <2>1. Body(s) = s /\ ~Terminated(s)
    BY <1>8, BodyWhole
  <2>2. Text(s).sent = Upto(s, Len(s)) /\ ~Text(s).complete
    BY <2>1, UptoAll DEF Text
  <2>3. CASE EndDots(t) = {}
    <3>1. Text(t).sent = Upto(t, Len(t))
      BY <1>1, <2>3, BodyWhole, UptoAll DEF Text
    <3>2. IsPrefix(Upto(t, Len(s)), Upto(t, Len(t)))
      BY <1>1, UptoBegins
    <3>. QED  BY <1>6, <2>2, <3>1, <3>2 DEF Grows, t
  <2>4. CASE EndDots(t) # {}
    <3>1. PICK m \in EndDots(t) : \A y \in EndDots(t) : m <= y
      BY <1>1, <2>4, EndDotsLeast
    <3>2. m = Len(s) /\ m \in StartDots(s) /\ m \in StartDots(t) /\ m \in Nat \ {0}
      BY <1>3, <1>5, <1>8, EndDotsIn
    <3>3. Text(t).sent = Upto(t, m - 1)
      BY Zenon, <1>1, <3>1, BodyAt DEF Text, Upto
    <3>4. Upto(s, (m - 1) + 1) = Upto(s, m - 1) \o Piece(s, (m - 1) + 1)
      BY <3>2, UptoNext
    <3>5. (m - 1) + 1 = m /\ Piece(s, m) = <<>>
      BY <3>2 DEF Piece
    <3>6. Upto(s, m - 1) \in Seq(Octets)
      BY <3>2, UptoType
    <3>7. Upto(s, m) = Upto(s, m - 1)
      BY <3>4, <3>5, <3>6, ConcatEmptySeq
    <3>8. Upto(t, m - 1) = Upto(s, m - 1)
      BY <1>6, <3>2
    <3>9. Text(t).sent = Text(s).sent
      BY <2>2, <3>2, <3>3, <3>7, <3>8
    <3>10. IsPrefix(Text(s).sent, Text(t).sent)
      BY <3>9, TextType DEF IsPrefix
    <3>. QED  BY <2>2, <3>10 DEF Grows, t
  <2>. QED  BY <2>3, <2>4
<1>. QED  BY <1>7, <1>8

\* The same of any longer stream.
LEMMA TextGrows ==
    ASSUME NEW s \in Seq(Octets), NEW t \in Seq(Octets), IsPrefix(s, t)
    PROVE  Grows(Text(s), Text(t))
<1>. DEFINE F(n) == SubSeq(t, 1, Len(s) + n)
            T == {n \in Nat : Len(s) + n <= Len(t) => Grows(Text(s), Text(F(n)))}
<1>0. Text(s).sent \in Seq(Octets)
  BY TextType
<1>1. 0 \in T
  <2>1. Len(s) \in 0..Len(s) /\ Len(s) + 0 = Len(s)
    OBVIOUS
  <2>2. SubSeq(t, 1, Len(s)) = s
    BY <2>1, UptoOf, SubSeqFull
  <2>3. F(0) = s
    BY <2>1, <2>2
  <2>4. Grows(Text(s), Text(s))
    BY <1>0 DEF Grows, IsPrefix
  <2>. QED  BY Zenon, <2>3, <2>4
<1>2. ASSUME NEW n \in Nat, n \in T
      PROVE  n + 1 \in T
  <2>1. SUFFICES ASSUME Len(s) + (n + 1) <= Len(t)
                 PROVE  Grows(Text(s), Text(F(n + 1)))
    OBVIOUS
  <2>2. Grows(Text(s), Text(F(n)))
    BY <1>2, <2>1
  <2>3. F(n) \in Seq(Octets) /\ F(n + 1) \in Seq(Octets)
    BY <2>1, First
  <2>4. t[(Len(s) + n) + 1] \in Octets
    BY <2>1
  <2>5. F(n + 1) = Append(F(n), t[(Len(s) + n) + 1])
    <3>1. Len(s) + (n + 1) = (Len(s) + n) + 1 /\ Len(s) + n \in 0..Len(t) /\ Len(s) + n < Len(t)
      BY <2>1
    <3>2. SubSeq(t, 1, (Len(s) + n) + 1) = Append(SubSeq(t, 1, Len(s) + n), t[(Len(s) + n) + 1])
      BY <3>1, FirstNext
    <3>. QED  BY <3>1, <3>2
  <2>6. Grows(Text(F(n)), Text(F(n + 1)))
    BY Zenon, <2>3, <2>4, <2>5, TextAppend
  <2>7. Text(F(n)).sent \in Seq(Octets) /\ Text(F(n + 1)).sent \in Seq(Octets)
    BY Zenon, <2>3, TextType
  <2>. HIDE DEF F
  <2>8. IsPrefix(Text(s).sent, Text(F(n + 1)).sent)
    BY <1>0, <2>2, <2>6, <2>7, BeginsTransitive DEF Grows
  <2>9. Text(s).complete => Text(F(n + 1)) = Text(s)
    BY <2>2, <2>6 DEF Grows
  <2>. QED  BY <2>8, <2>9 DEF Grows
<1>. HIDE DEF T
<1>3. Nat \subseteq T
  BY <1>1, <1>2, SetInduction
<1>4. Len(t) - Len(s) \in T /\ Len(s) + (Len(t) - Len(s)) = Len(t)
  BY <1>3 DEF IsPrefix
<1>5. F(Len(t) - Len(s)) = t
  BY <1>4, SubSeqFull
<1>6. Grows(Text(s), Text(F(Len(t) - Len(s))))
  <2>. HIDE DEF F
  <2>. QED  BY <1>4 DEF T
<1>. QED  BY Zenon, <1>5, <1>6

(***************************************************************************)
(* The reader.                                                             *)
(***************************************************************************)
\* A stuffed dot adds nothing to the text ...
LEMMA GotDrop ==
    ASSUME NEW t \in Seq(Octets), NEW c \in Nat, NEW o, Got(o, t, c),
           c + 1 \in StartDots(t), c + 2 <= Len(t), t[c + 2] \notin {"CR", "LF"}
    PROVE  Got(o, t, c + 1)
<1>1. c + 1 \in 0..Len(t)
  OBVIOUS
<1>2. Upto(t, c + 1) = Upto(t, c)
  <2>1. Upto(t, c + 1) = Upto(t, c) \o Piece(t, c + 1)
    BY <1>1, UptoNext
  <2>2. Piece(t, c + 1) = <<>>
    BY DEF Piece
  <2>3. Upto(t, c) \in Seq(Octets)
    BY <1>1, UptoType
  <2>. QED  BY <2>1, <2>2, <2>3, ConcatEmptySeq
<1>3. Clear(t, c + 1)
  <2>1. SUFFICES ASSUME NEW i \in StartDots(t), i <= c + 1
                 PROVE  i < Len(t) /\ t[i + 1] \notin {"CR", "LF"}
    BY DEF Clear
  <2>2. i \in 1..Len(t)
    BY EndDotsIn
  <2>3. CASE i = c + 1
    BY <2>3
  <2>4. CASE i # c + 1
    <3>1. i <= c
      BY <2>1, <2>2, <2>4
    <3>. QED  BY <3>1 DEF Got, Clear
  <2>. QED  BY <2>3, <2>4
<1>4. Plain(t, c + 1)
  <2>1. c = 0 \/ t[c] # "CR"
    BY DEF StartDots, LineStart
  <2>2. SUFFICES ASSUME NEW i \in 1..c, t[i] = "CR", t[i + 1] = "."
                 PROVE  /\ i + 2 <= Len(t) /\ t[i + 2] # "LF"
                        /\ t[i + 2] = "CR" => i + 3 <= Len(t) /\ t[i + 3] # "LF"
    BY DEF Plain
  <2>3. i \in 1..(c - 1)
    BY <2>1, <2>2
  <2>. QED  BY <2>2, <2>3 DEF Got, Plain
<1>. QED  BY <1>1, <1>2, <1>3, <1>4 DEF Got

\* ... and any other octet adds itself.
LEMMA GotTake ==
    ASSUME NEW t \in Seq(Octets), NEW c \in Nat, NEW o, Got(o, t, c), c < Len(t),
           c + 1 \notin StartDots(t),
           c > 0 /\ t[c] = "CR" /\ t[c + 1] = "." =>
              /\ c + 2 <= Len(t) /\ t[c + 2] # "LF"
              /\ t[c + 2] = "CR" => c + 3 <= Len(t) /\ t[c + 3] # "LF"
    PROVE  Got(Append(o, t[c + 1]), t, c + 1)
<1>1. c + 1 \in 0..Len(t)
  OBVIOUS
<1>2. Upto(t, c + 1) = Append(o, t[c + 1])
  <2>1. Upto(t, c + 1) = Upto(t, c) \o Piece(t, c + 1)
    BY <1>1, UptoNext
  <2>2. Piece(t, c + 1) = <<t[c + 1]>>
    BY DEF Piece
  <2>3. o = Upto(t, c) /\ o \in Seq(Octets) /\ t[c + 1] \in Octets
    BY <1>1, UptoType DEF Got
  <2>. QED  BY Zenon, <2>1, <2>2, <2>3, AppendIsConcat
<1>3. Clear(t, c + 1)
  <2>1. SUFFICES ASSUME NEW i \in StartDots(t), i <= c + 1
                 PROVE  i < Len(t) /\ t[i + 1] \notin {"CR", "LF"}
    BY DEF Clear
  <2>2. i \in 1..Len(t) /\ i # c + 1
    BY EndDotsIn
  <2>3. i <= c
    BY <2>1, <2>2
  <2>. QED  BY <2>3 DEF Got, Clear
<1>4. Plain(t, c + 1)
  <2>2. SUFFICES ASSUME NEW i \in 1..c, t[i] = "CR", t[i + 1] = "."
                 PROVE  /\ i + 2 <= Len(t) /\ t[i + 2] # "LF"
                        /\ t[i + 2] = "CR" => i + 3 <= Len(t) /\ t[i + 3] # "LF"
    BY DEF Plain
  <2>3. CASE i = c
    BY <2>2, <2>3
  <2>4. CASE i # c
    <3>1. i \in 1..(c - 1)
      BY <2>4
    <3>. QED  BY <2>2, <3>1 DEF Got, Plain
  <2>. QED  BY <2>3, <2>4
<1>. QED  BY <1>1, <1>2, <1>3, <1>4 DEF Got

\* The wire as the reader finds it.
Wire == raw \in Seq(Octets) /\ arrived \in 0..Len(raw) /\ cut \in BOOLEAN

\* An octet can be read once it has arrived; before that Read waits or meets the end.
LEMMA OctetIs ==
    ASSUME Wire, NEW i \in Nat \ {0}
    PROVE  /\ i <= arrived => Octet(i) = raw[i] /\ raw[i] \in Octets /\ i <= Len(raw)
           /\ i > arrived => Octet(i) \in {"EOF", "wait"}
<1>1. arrived \in Nat /\ arrived <= Len(raw) /\ raw \in Seq(Octets) /\ cut \in BOOLEAN
  BY DEF Wire
<1>2. CASE i <= arrived
  <2>1. raw[i] \in Octets
    BY <1>1, <1>2
  <2>2. Octet(i) = raw[i]
    BY <1>1, <1>2 DEF Octet
  <2>. QED  BY <1>1, <1>2, <2>1, <2>2
<1>3. CASE i > arrived
  <2>1. CASE cut
    BY <1>1, <1>3, <2>1 DEF Octet
  <2>2. CASE ~cut
    BY <1>1, <1>3, <2>2 DEF Octet
  <2>. QED  BY <1>1, <1>3, <2>1, <2>2
<1>4. arrived \in Int /\ i \in Int
  BY <1>1
<1>5. i <= arrived \/ i > arrived
  BY <1>4
<1>6. ~(i <= arrived /\ i > arrived)
  BY <1>4
<1>. QED  BY <1>2, <1>3, <1>5, <1>6

\* A Read that waits keeps the reader right.
LEMMA BlockOK ==
    ASSUME NEW r, NEW o, ReaderOK(r, o)
    PROVE  ReaderOK(Block(r), o)
<1>. DEFINE q == Block(r)
<1>1. r \in Readers
  BY DEF ReaderOK, ReaderAt
<1>2. q \in Readers
  BY Zenon, <1>1 DEF Block, Readers
<1>3. /\ q.consumed = r.consumed /\ q.atLineStart = r.atLineStart
      /\ q.previousCR = r.previousCR /\ q.done = r.done /\ q.err = r.err /\ q.p = r.p
  BY <1>1 DEF Block, Readers
<1>. HIDE DEF q
<1>4. ReaderOK(q, o)
  BY <1>2, <1>3, Zenon DEF ReaderOK, ReaderAt
<1>. QED  BY <1>4 DEF q

\* The fields of a reader that has failed.
LEMMA FailIs ==
    ASSUME NEW r \in Readers, NEW used \in 0..3, NEW e \in Errors
    PROVE  /\ fail(r, used, e) \in Readers
           /\ fail(r, used, e).consumed = r.consumed + used
           /\ fail(r, used, e).done
           /\ fail(r, used, e).err = e
           /\ fail(r, used, e).p = r.p
<1>. DEFINE x == [r EXCEPT !.consumed = @ + used]
            y == [x EXCEPT !.done = TRUE]
            z == [y EXCEPT !.err = e]
<1>1. x \in Readers /\ x.consumed = r.consumed + used /\ x.p = r.p
  BY DEF Readers
<1>. HIDE DEF x
<1>2. y \in Readers /\ y.consumed = x.consumed /\ y.p = x.p /\ y.done
  BY Zenon, <1>1 DEF Readers
<1>. HIDE DEF y
<1>3. z \in Readers /\ z.consumed = y.consumed /\ z.p = y.p /\ z.done = y.done /\ z.err = e
  BY Zenon, <1>2 DEF Readers
<1>4. fail(r, used, e) = z
  BY DEF x, y, z, fail
<1>. QED  BY <1>1, <1>2, <1>3, <1>4

\* The fields of a reader that has dropped a stuffed dot.
LEMMA DropIs ==
    ASSUME NEW r \in Readers, NEW q, q = [r EXCEPT !.consumed = @ + 1, !.atLineStart = FALSE]
    PROVE  /\ q \in Readers
           /\ q.consumed = r.consumed + 1
           /\ q.atLineStart = FALSE
           /\ q.previousCR = r.previousCR
           /\ q.done = r.done /\ q.err = r.err /\ q.p = r.p
<1>. DEFINE x == [r EXCEPT !.consumed = @ + 1]
            y == [x EXCEPT !.atLineStart = FALSE]
<1>1. x \in Readers /\ x.consumed = r.consumed + 1 /\ x.p = r.p /\ x.done = r.done
      /\ x.err = r.err /\ x.previousCR = r.previousCR
  BY DEF Readers
<1>. HIDE DEF x
<1>2. y \in Readers /\ y.consumed = x.consumed /\ y.p = x.p /\ y.done = x.done
      /\ y.err = x.err /\ y.previousCR = x.previousCR /\ y.atLineStart = FALSE
  BY Zenon, <1>1 DEF Readers
<1>3. q = y
  BY DEF x, y
<1>. QED  BY Zenon, <1>1, <1>2, <1>3

\* The fields of a reader that has returned an octet.
LEMMA TakeIs ==
    ASSUME NEW r \in Readers, NEW b \in Octets
    PROVE  /\ take(r, b) \in Readers
           /\ take(r, b).consumed = r.consumed + 1
           /\ take(r, b).p = Append(r.p, b)
           /\ take(r, b).atLineStart = (b = "LF")
           /\ take(r, b).previousCR = (b = "CR")
           /\ take(r, b).done = r.done
           /\ take(r, b).err = r.err
<1>. DEFINE x == [r EXCEPT !.consumed = @ + 1]
            n == Append(x.p, b)
            y == [x EXCEPT !.p = n]
            z == [y EXCEPT !.atLineStart = (b = "LF")]
            q == [z EXCEPT !.previousCR = (b = "CR")]
<1>1. x \in Readers /\ x.consumed = r.consumed + 1 /\ x.p = r.p /\ x.done = r.done /\ x.err = r.err
  BY DEF Readers
<1>. HIDE DEF x
<1>0. n \in Seq(Octets)
  BY <1>1 DEF Readers
<1>. HIDE DEF n
<1>2. y \in Readers /\ y.consumed = x.consumed /\ y.p = n /\ y.done = x.done
      /\ y.err = x.err
  BY <1>0, <1>1 DEF Readers
<1>. HIDE DEF y
<1>3. z \in Readers /\ z.consumed = y.consumed /\ z.p = y.p /\ z.done = y.done
      /\ z.err = y.err /\ z.atLineStart = (b = "LF")
  BY Zenon, <1>2 DEF Readers
<1>. HIDE DEF z
<1>4. q \in Readers /\ q.consumed = z.consumed /\ q.p = z.p /\ q.done = z.done
      /\ q.err = z.err /\ q.atLineStart = z.atLineStart /\ q.previousCR = (b = "CR")
  BY Zenon, <1>3 DEF Readers
<1>5. take(r, b) = q
  BY DEF n, x, y, z, q, take
<1>. HIDE DEF q
<1>. QED  BY <1>1, <1>2, <1>3, <1>4, <1>5, Zenon DEF n

\* Read may end with an error, or with EOF, where the stream says so.
LEMMA FailOK ==
    ASSUME NEW r, NEW o, ReaderOK(r, o), ~r.done, NEW used \in 0..3, NEW e \in Errors, Wire,
           r.consumed + used <= arrived,
           e = "EOF" => used = 3 /\ EndsAt(raw, r.consumed),
           e = "bareLFTerminator" =>
              \E i \in StartDots(raw) : i < Len(raw) /\ raw[i + 1] = "LF",
           e = "malformedTerminator" =>
              \/ \E i \in StartDots(raw) :
                    i + 2 <= Len(raw) /\ raw[i + 1] = "CR" /\ raw[i + 2] # "LF"
              \/ \E i \in Nat \ {0} : i < Len(raw) /\ raw[i] = "CR" /\ raw[i + 1] = "."
    PROVE  ReaderOK(fail(r, used, e), o)
<1>. DEFINE q == fail(r, used, e)
<1>1. r \in Readers /\ r.consumed \in Nat /\ r.p \in Seq(Octets)
  BY DEF ReaderOK, ReaderAt, Readers
<1>3. q \in Readers
  BY Zenon, <1>1, FailIs
<1>4. q.consumed = r.consumed + used /\ q.done /\ q.err = e /\ q.p = r.p
  <2>1. r \in Readers /\ used \in 0..3 /\ e \in Errors
    BY <1>1
  <2>. QED  BY ONLY <2>1, FailIs, Zenon
<1>. HIDE DEF q
<1>5. Got(o \o r.p, raw, r.consumed)
  BY DEF ReaderOK, ReaderAt
<1>6. e # "none"
  BY DEF Errors
<1>7. e = "EOF" => q.consumed - 3 = r.consumed
  BY <1>1, <1>4
<1>8. ReaderOK(q, o)
  BY <1>1, <1>3, <1>4, <1>5, <1>6, <1>7, Zenon DEF ReaderOK, ReaderAt
<1>. QED  BY <1>8 DEF q

\* Read may drop a line-start dot that a further octet of the line follows.
LEMMA DropOK ==
    ASSUME NEW r, NEW o, ReaderOK(r, o), ~r.done, Wire,
           r.consumed + 2 <= arrived,
           r.consumed + 1 \in StartDots(raw), raw[r.consumed + 2] \notin {"CR", "LF"}
    PROVE  ReaderOK([r EXCEPT !.consumed = @ + 1, !.atLineStart = FALSE], o)
<1>. DEFINE q == [r EXCEPT !.consumed = @ + 1, !.atLineStart = FALSE]
            c == r.consumed
<1>1. r \in Readers /\ c \in Nat /\ r.p \in Seq(Octets) /\ r.err = "none"
  BY DEF ReaderOK, ReaderAt, Readers
<1>3. q \in Readers
  BY Zenon, <1>1, DropIs
<1>4. q.consumed = c + 1 /\ q.done = r.done /\ q.err = r.err /\ q.p = r.p
      /\ q.atLineStart = FALSE /\ q.previousCR = r.previousCR
  BY Zenon, <1>1, DropIs
<1>5. Got(o \o r.p, raw, c) /\ raw \in Seq(Octets) /\ arrived \in Nat /\ arrived <= Len(raw)
      /\ (r.previousCR <=> (c > 0 /\ raw[c] = "CR"))
  BY DEF ReaderOK, ReaderAt, Wire
<1>6. Got(o \o r.p, raw, c + 1)
  BY <1>1, <1>5, GotDrop
<1>7. raw[c + 1] = "." /\ (c = 0 \/ raw[c] = "LF")
  BY <1>1 DEF StartDots, LineStart
<1>8. ~LineStart(raw, (c + 1) + 1)
  BY <1>1, <1>7 DEF LineStart
<1>9. r.previousCR = FALSE
  BY <1>1, <1>5, <1>7 DEF Readers
<1>10. c + 1 <= arrived
  BY <1>1, <1>5
<1>. HIDE DEF q, c
<1>11. ReaderOK(q, o)
  BY <1>1, <1>3, <1>4, <1>6, <1>7, <1>8, <1>9, <1>10 DEF ReaderOK, ReaderAt
<1>. QED  BY <1>11 DEF q, c

\* Read may return an octet that is neither a line-start dot nor the dot of a bare CR.
LEMMA TakeOK ==
    ASSUME NEW r, NEW o \in Seq(Octets), ReaderOK(r, o), ~r.done, Wire,
           r.consumed + 1 <= arrived,
           r.consumed + 1 \notin StartDots(raw),
           r.consumed > 0 /\ raw[r.consumed] = "CR" /\ raw[r.consumed + 1] = "." =>
              /\ r.consumed + 2 <= Len(raw) /\ raw[r.consumed + 2] # "LF"
              /\ raw[r.consumed + 2] = "CR" =>
                    r.consumed + 3 <= Len(raw) /\ raw[r.consumed + 3] # "LF"
    PROVE  ReaderOK(take(r, raw[r.consumed + 1]), o)
<1>. DEFINE c == r.consumed
            b == raw[c + 1]
            q == take(r, b)
<1>1. r \in Readers /\ c \in Nat /\ r.p \in Seq(Octets) /\ r.err = "none"
  BY DEF ReaderOK, ReaderAt, Readers
<1>5. Got(o \o r.p, raw, c) /\ raw \in Seq(Octets) /\ arrived \in Nat /\ arrived <= Len(raw)
  BY DEF ReaderOK, ReaderAt, Wire
<1>6. b \in Octets
  BY <1>1, <1>5
<1>3. q \in Readers
  BY <1>1, <1>6, TakeIs
<1>4. /\ q.consumed = c + 1 /\ q.done = r.done /\ q.err = r.err /\ q.p = Append(r.p, b)
      /\ q.atLineStart = (b = "LF") /\ q.previousCR = (b = "CR")
  BY Zenon, <1>1, <1>6, TakeIs
<1>7. Got(Append(o \o r.p, b), raw, c + 1)
  BY SMTT(20), <1>1, <1>5, GotTake
<1>8. Append(o \o r.p, b) = o \o Append(r.p, b)
  <2>1. o \o r.p \in Seq(Octets) /\ <<b>> \in Seq(Octets)
    BY <1>1, <1>6
  <2>2. Append(o \o r.p, b) = (o \o r.p) \o <<b>> /\ Append(r.p, b) = r.p \o <<b>>
    BY Zenon, <1>1, <1>6, <2>1, AppendIsConcat
  <2>3. (o \o r.p) \o <<b>> = o \o (r.p \o <<b>>)
    <3>. DEFINE u == <<b>>
                p == r.p
    <3>1. p \in Seq(Octets) /\ u \in Seq(Octets)
      BY <1>1, <2>1
    <3>. HIDE DEF u, p
    <3>2. (o \o p) \o u = o \o (p \o u)
      BY <3>1, ConcatAssociative
    <3>. QED  BY <3>2, Zenon DEF u, p
  <2>. QED  BY <2>2, <2>3, Zenon
<1>9. LineStart(raw, (c + 1) + 1) <=> b = "LF"
  <2>1. ((c + 1) + 1) - 1 = c + 1 /\ (c + 1) + 1 # 1
    BY <1>1
  <2>. QED  BY <2>1 DEF LineStart
<1>10. c + 1 <= arrived /\ c + 1 > 0
  BY <1>1, <1>5
<1>. HIDE DEF q, c
<1>11. ReaderOK(q, o)
  BY <1>1, <1>3, <1>4, <1>7, <1>8, <1>9, <1>10, Zenon DEF ReaderOK, ReaderAt
<1>. QED  BY <1>11 DEF q, c

\* The terminator's last octet.
LEMMA TailOK ==
    ASSUME NEW r, NEW o, ReaderOK(r, o), ~r.done, Wire,
           r.consumed + 2 <= arrived, r.consumed + 1 \in StartDots(raw),
           raw[r.consumed + 2] = "CR"
    PROVE  ReaderOK(consumeTerminatorTail(r, Octet(r.consumed + 3)), o)
<1>. DEFINE c == r.consumed
            tail == Octet(c + 3)
<1>1. c \in Nat /\ arrived \in Nat /\ arrived <= Len(raw) /\ raw \in Seq(Octets)
  BY DEF ReaderOK, ReaderAt, Readers, Wire
<1>2. /\ c + 3 <= arrived => tail = raw[c + 3] /\ raw[c + 3] \in Octets
      /\ c + 3 > arrived => tail \in {"EOF", "wait"}
  BY <1>1, OctetIs
<1>. HIDE DEF tail
<1>3. CASE tail = "wait"
  <2>1. consumeTerminatorTail(r, tail) = Block(r)
    BY <1>3 DEF consumeTerminatorTail
  <2>. QED  BY <2>1, BlockOK DEF tail
<1>4. CASE tail = "EOF"
  <2>1. consumeTerminatorTail(r, tail) = fail(r, 2, "unexpectedEOF")
    BY <1>4 DEF consumeTerminatorTail
  <2>2. ReaderOK(fail(r, 2, "unexpectedEOF"), o)
    BY FailOK DEF Errors
  <2>. QED  BY <2>1, <2>2 DEF tail
<1>5. CASE tail \notin {"wait", "EOF"}
  <2>1. c + 3 <= arrived /\ tail = raw[c + 3]
    <3>1. ~(c + 3 > arrived)
      BY <1>2, <1>5
    <3>. QED  BY <1>1, <1>2, <3>1
  <2>2. CASE tail = "LF"
    <3>1. consumeTerminatorTail(r, tail) = fail(r, 3, "EOF")
      BY <2>2 DEF consumeTerminatorTail
    <3>2. EndsAt(raw, c)
      <4>1. raw[c + 1] = "." /\ LineStart(raw, c + 1)
        BY DEF StartDots
      <4>. QED  BY <1>1, <2>1, <2>2, <4>1 DEF EndsAt
    <3>3. ReaderOK(fail(r, 3, "EOF"), o)
      BY <2>1, <3>2, FailOK DEF Errors
    <3>. QED  BY <3>1, <3>3 DEF tail
  <2>3. CASE tail # "LF"
    <3>1. consumeTerminatorTail(r, tail) = fail(r, 3, "malformedTerminator")
      BY <1>5, <2>3 DEF consumeTerminatorTail
    <3>2. (c + 1) + 2 <= Len(raw) /\ raw[(c + 1) + 1] = "CR" /\ raw[(c + 1) + 2] # "LF"
      BY <1>1, <2>1, <2>3
    <3>3. \E i \in StartDots(raw) : i + 2 <= Len(raw) /\ raw[i + 1] = "CR" /\ raw[i + 2] # "LF"
      BY <3>2
    <3>4. ReaderOK(fail(r, 3, "malformedTerminator"), o)
      BY <2>1, <3>3, FailOK DEF Errors
    <3>. QED  BY <3>1, <3>4 DEF tail
  <2>. QED  BY <2>2, <2>3
<1>. QED  BY <1>3, <1>4, <1>5

\* A dot at the start of a line.
LEMMA LineStartDotOK ==
    ASSUME NEW r, NEW o, ReaderOK(r, o), ~r.done, Wire,
           r.consumed + 1 <= arrived, r.consumed + 1 \in StartDots(raw)
    PROVE  ReaderOK(LineStartDot(r, Octet(r.consumed + 2), Octet(r.consumed + 3)), o)
<1>. DEFINE c == r.consumed
            peek == Octet(c + 2)
            tail == Octet(c + 3)
<1>1. c \in Nat /\ arrived \in Nat /\ arrived <= Len(raw) /\ raw \in Seq(Octets)
  BY DEF ReaderOK, ReaderAt, Readers, Wire
<1>2. /\ c + 2 <= arrived => peek = raw[c + 2] /\ raw[c + 2] \in Octets
      /\ c + 2 > arrived => peek \in {"EOF", "wait"}
  BY <1>1, OctetIs
<1>. HIDE DEF peek
<1>3. CASE peek = "wait"
  <2>1. LineStartDot(r, peek, tail) = Block(r)
    BY <1>3 DEF LineStartDot
  <2>. QED  BY <2>1, BlockOK DEF peek
<1>4. CASE peek = "EOF"
  <2>1. LineStartDot(r, peek, tail) = fail(r, 1, "unexpectedEOF")
    BY <1>4 DEF LineStartDot
  <2>2. ReaderOK(fail(r, 1, "unexpectedEOF"), o)
    BY FailOK DEF Errors
  <2>. QED  BY <2>1, <2>2 DEF peek
<1>5. CASE peek \notin {"wait", "EOF"}
  <2>1. c + 2 <= arrived /\ peek = raw[c + 2]
    <3>1. ~(c + 2 > arrived)
      BY <1>2, <1>5
    <3>. QED  BY <1>1, <1>2, <3>1
  <2>2. CASE peek = "CR"
    <3>1. LineStartDot(r, peek, tail) = consumeTerminatorTail(r, tail)
      BY <2>2 DEF LineStartDot
    <3>2. ReaderOK(consumeTerminatorTail(r, tail), o)
      BY Zenon, <2>1, <2>2, TailOK
    <3>. QED  BY <3>1, <3>2 DEF peek
  <2>3. CASE peek = "LF"
    <3>1. LineStartDot(r, peek, tail) = fail(r, 1, "bareLFTerminator")
      BY <2>3 DEF LineStartDot
    <3>2. c + 1 < Len(raw) /\ raw[(c + 1) + 1] = "LF"
      <4>1. (c + 1) + 1 = c + 2 /\ c + 1 < Len(raw)
        BY <1>1, <2>1
      <4>. QED  BY Zenon, <2>1, <2>3, <4>1
    <3>3. \E i \in StartDots(raw) : i < Len(raw) /\ raw[i + 1] = "LF"
      BY <3>2
    <3>4. ReaderOK(fail(r, 1, "bareLFTerminator"), o)
      BY <3>3, FailOK DEF Errors
    <3>. QED  BY <3>1, <3>4 DEF peek
  <2>4. CASE peek \notin {"CR", "LF"}
    <3>1. LineStartDot(r, peek, tail) = [r EXCEPT !.consumed = @ + 1, !.atLineStart = FALSE]
      BY <1>5, <2>4 DEF LineStartDot
    <3>2. ReaderOK([r EXCEPT !.consumed = @ + 1, !.atLineStart = FALSE], o)
      BY Zenon, <2>1, <2>4, DropOK
    <3>. QED  BY <3>1, <3>2 DEF peek
  <2>. QED  BY <2>2, <2>3, <2>4
<1>. QED  BY <1>3, <1>4, <1>5

\* A dot after a bare CR.
LEMMA BareCRDotOK ==
    ASSUME NEW r, NEW o \in Seq(Octets), ReaderOK(r, o), ~r.done, Wire,
           r.consumed + 1 <= arrived, r.consumed + 1 \notin StartDots(raw),
           raw[r.consumed + 1] = ".", r.consumed > 0, raw[r.consumed] = "CR"
    PROVE  ReaderOK(BareCRDot(r, Octet(r.consumed + 2), Octet(r.consumed + 3)), o)
<1>. DEFINE c == r.consumed
            peek == Octet(c + 2)
            tail == Octet(c + 3)
<1>1. c \in Nat /\ arrived \in Nat /\ arrived <= Len(raw) /\ raw \in Seq(Octets)
  BY DEF ReaderOK, ReaderAt, Readers, Wire
<1>2. /\ c + 2 <= arrived => peek = raw[c + 2] /\ raw[c + 2] \in Octets
      /\ c + 2 > arrived => peek \in {"EOF", "wait"}
  BY <1>1, OctetIs
<1>3. /\ c + 3 <= arrived => tail = raw[c + 3] /\ raw[c + 3] \in Octets
      /\ c + 3 > arrived => tail \in {"EOF", "wait"}
  BY <1>1, OctetIs
<1>. HIDE DEF peek, tail
<1>4. ReaderOK(Block(r), o)
  BY BlockOK
<1>5. ReaderOK(fail(r, 1, "unexpectedEOF"), o)
  BY FailOK DEF Errors
<1>6. ReaderOK(fail(r, 1, "malformedTerminator"), o)
  <2>1. c \in Nat \ {0} /\ c < Len(raw)
    BY <1>1
  <2>2. \E i \in Nat \ {0} : i < Len(raw) /\ raw[i] = "CR" /\ raw[i + 1] = "."
    BY <2>1
  <2>. QED  BY <2>2, FailOK DEF Errors
<1>7. CASE peek \in {"wait", "EOF", "LF"}
  <2>1. BareCRDot(r, peek, tail) \in {Block(r), fail(r, 1, "unexpectedEOF"),
                                      fail(r, 1, "malformedTerminator")}
    BY <1>7 DEF BareCRDot
  <2>. QED  BY <1>4, <1>5, <1>6, <2>1, Zenon DEF peek, tail
<1>8. CASE peek = "CR" /\ tail \in {"wait", "EOF", "LF"}
  <2>1. BareCRDot(r, peek, tail) \in {Block(r), fail(r, 1, "unexpectedEOF"),
                                      fail(r, 1, "malformedTerminator")}
    BY <1>8 DEF BareCRDot
  <2>. QED  BY <1>4, <1>5, <1>6, <2>1, Zenon DEF peek, tail
<1>9. CASE peek \notin {"wait", "EOF", "LF"} /\ (peek = "CR" => tail \notin {"wait", "EOF", "LF"})
  <2>1. BareCRDot(r, peek, tail) = take(r, ".")
    BY <1>9 DEF BareCRDot
  <2>2. c + 2 <= Len(raw) /\ raw[c + 2] # "LF" /\ peek = raw[c + 2]
    <3>1. ~(c + 2 > arrived)
      BY <1>2, <1>9
    <3>2. c + 2 <= arrived
      BY <1>1, <3>1
    <3>. QED  BY <1>1, <1>2, <1>9, <3>2
  <2>3. ASSUME raw[c + 2] = "CR"
        PROVE  c + 3 <= Len(raw) /\ raw[c + 3] # "LF"
    <3>1. ~(c + 3 > arrived)
      BY <1>3, <1>9, <2>2, <2>3
    <3>2. c + 3 <= arrived
      BY <1>1, <3>1
    <3>. QED  BY SMTT(20), <1>1, <1>3, <1>9, <2>2, <2>3, <3>2
  <2>4. ReaderOK(take(r, raw[c + 1]), o)
    BY <2>2, <2>3, TakeOK
  <2>. QED  BY <2>1, <2>4 DEF peek, tail
<1>. QED  BY <1>7, <1>8, <1>9

\* Every iteration of Read's loop keeps the reader right.
LEMMA IterationOK ==
    ASSUME NEW r, NEW o \in Seq(Octets), ReaderOK(r, o), ~r.done, Wire
    PROVE  ReaderOK(ReadIteration(r), o)
<1>. DEFINE c == r.consumed
            b == Octet(c + 1)
            peek == Octet(c + 2)
            tail == Octet(c + 3)
<1>1. c \in Nat /\ arrived \in Nat /\ arrived <= Len(raw) /\ raw \in Seq(Octets) /\ c <= arrived
      /\ r.atLineStart \in BOOLEAN /\ r.previousCR \in BOOLEAN
  BY DEF ReaderOK, ReaderAt, Readers, Wire
<1>2. /\ c + 1 <= arrived => b = raw[c + 1] /\ raw[c + 1] \in Octets
      /\ c + 1 > arrived => b \in {"EOF", "wait"}
  BY <1>1, OctetIs
<1>3. (r.atLineStart <=> LineStart(raw, c + 1)) /\ (r.previousCR <=> (c > 0 /\ raw[c] = "CR"))
  BY DEF ReaderOK, ReaderAt
<1>. HIDE DEF b, peek, tail
<1>4. ReadIteration(r) =
        CASE b = "wait" -> Block(r)
          [] b = "EOF"  -> fail(r, 0, "unexpectedEOF")
          [] b = "." /\ r.atLineStart -> LineStartDot(r, peek, tail)
          [] b = "." /\ ~r.atLineStart /\ r.previousCR -> BareCRDot(r, peek, tail)
          [] OTHER      -> take(r, b)
  BY DEF ReadIteration, b, peek, tail
<1>5. CASE b = "wait"
  <2>1. ReadIteration(r) = Block(r)
    BY <1>4, <1>5
  <2>. QED  BY <2>1, BlockOK
<1>6. CASE b = "EOF"
  <2>1. ReadIteration(r) = fail(r, 0, "unexpectedEOF")
    BY <1>4, <1>6
  <2>2. ReaderOK(fail(r, 0, "unexpectedEOF"), o)
    <3>1. r.consumed + 0 <= arrived
      BY <1>1
    <3>. QED  BY <3>1, FailOK DEF Errors
  <2>. QED  BY <2>1, <2>2
<1>7. CASE b \notin {"wait", "EOF"}
  <2>1. c + 1 <= arrived /\ b = raw[c + 1] /\ c + 1 \in DOMAIN raw
    <3>1. ~(c + 1 > arrived)
      BY <1>2, <1>7
    <3>. QED  BY <1>1, <1>2, <3>1
  <2>2. c + 1 \in StartDots(raw) <=> (b = "." /\ r.atLineStart)
    BY <1>3, <2>1, Zenon DEF StartDots
  <2>3. CASE b = "." /\ r.atLineStart
    <3>1. ReadIteration(r) = LineStartDot(r, peek, tail)
      BY <1>4, <2>3
    <3>2. ReaderOK(LineStartDot(r, peek, tail), o)
      BY <2>1, <2>2, <2>3, LineStartDotOK DEF peek, tail
    <3>. QED  BY <3>1, <3>2
  <2>4. CASE b = "." /\ ~r.atLineStart /\ r.previousCR
    <3>1. ReadIteration(r) = BareCRDot(r, peek, tail)
      BY <1>4, <2>4
    <3>2. ReaderOK(BareCRDot(r, peek, tail), o)
      BY Zenon, <1>3, <2>1, <2>2, <2>4, BareCRDotOK DEF peek, tail
    <3>. QED  BY <3>1, <3>2
  <2>5. CASE ~(b = "." /\ r.atLineStart) /\ ~(b = "." /\ ~r.atLineStart /\ r.previousCR)
    <3>1. ReadIteration(r) = take(r, b)
      BY <1>4, <1>7, <2>5
    <3>2. ReaderOK(take(r, raw[c + 1]), o)
      <4>1. ~(r.consumed > 0 /\ raw[r.consumed] = "CR" /\ raw[r.consumed + 1] = ".")
        BY <1>3, <2>1, <2>5
      <4>. QED  BY <2>1, <2>2, <2>5, <4>1, TakeOK
    <3>. QED  BY <2>1, <3>1, <3>2
  <2>. QED  BY <2>3, <2>4, <2>5
<1>. QED  BY <1>5, <1>6, <1>7

(***************************************************************************)
(* Loops.                                                                  *)
(***************************************************************************)
\* f holds the states of m turns of g from r.
Turns(f, g, r, m) == f = [k \in 0..m |-> IF k = 0 THEN r ELSE g[f[k - 1]]]

\* Iterating a function as often as wanted has a result.
LEMMA TurnsExist ==
    ASSUME NEW g, NEW r, NEW m \in Nat
    PROVE  \E f : Turns(f, g, r, m)
<1>. DEFINE Run(n) == \E f : /\ f = [k \in 0..n |-> f[k]]
                             /\ \A k \in 0..n : f[k] = IF k = 0 THEN r ELSE g[f[k - 1]]
            T == {n \in Nat : Run(n)}
<1>1. 0 \in T
  <2>. DEFINE f == [k \in 0..0 |-> r]
  <2>1. f = [k \in 0..0 |-> f[k]]
    OBVIOUS
  <2>2. \A k \in 0..0 : f[k] = IF k = 0 THEN r ELSE g[f[k - 1]]
    OBVIOUS
  <2>3. Run(0)
    <3>. HIDE DEF f
    <3>. QED  BY <2>1, <2>2, Zenon
  <2>. QED  BY <2>3
<1>2. ASSUME NEW n \in Nat, n \in T
      PROVE  n + 1 \in T
  <2>1. PICK f : /\ f = [k \in 0..n |-> f[k]]
                 /\ \A k \in 0..n : f[k] = IF k = 0 THEN r ELSE g[f[k - 1]]
    BY <1>2
  <2>. DEFINE h == [k \in 0..(n + 1) |-> IF k = n + 1 THEN g[f[n]] ELSE f[k]]
  <2>2. h = [k \in 0..(n + 1) |-> h[k]]
    OBVIOUS
  <2>3. ASSUME NEW k \in 0..(n + 1)
        PROVE  h[k] = IF k = 0 THEN r ELSE g[h[k - 1]]
    <3>1. CASE k = n + 1
      <4>1. h[k] = g[f[n]] /\ k # 0 /\ k - 1 = n /\ h[n] = f[n]
        BY <3>1
      <4>. HIDE DEF h
      <4>. QED  BY <4>1
    <3>2. CASE k # n + 1
      <4>1. k \in 0..n /\ h[k] = f[k] /\ (k # 0 => h[k - 1] = f[k - 1])
        BY <3>2
      <4>2. f[k] = IF k = 0 THEN r ELSE g[f[k - 1]]
        BY Zenon, <2>1, <4>1
      <4>. HIDE DEF h
      <4>. QED  BY <4>1, <4>2, Zenon
    <3>. QED  BY <3>1, <3>2
  <2>. HIDE DEF h
  <2>4. Run(n + 1)
    BY <2>2, <2>3, Zenon
  <2>. HIDE DEF Run
  <2>. QED  BY <2>4
<1>. HIDE DEF T
<1>3. Nat \subseteq T
  BY <1>1, <1>2, SetInduction
<1>4. Run(m)
  <2>. HIDE DEF Run
  <2>. QED  BY <1>3 DEF T
<1>5. PICK f : /\ f = [k \in 0..m |-> f[k]]
               /\ \A k \in 0..m : f[k] = IF k = 0 THEN r ELSE g[f[k - 1]]
  BY Zenon, <1>4
<1>6. Turns(f, g, r, m)
  BY <1>5, Zenon DEF Turns
<1>. QED  BY <1>6

\* What holds at the start and is kept by every turn holds at the end.
LEMMA TurnsKeep ==
    ASSUME NEW f, NEW g, NEW r, NEW m \in Nat, Turns(f, g, r, m),
           NEW S, r \in S, \A q \in S : g[q] \in S
    PROVE  \A k \in 0..m : f[k] \in S
<1>. DEFINE T == {n \in Nat : n \in 0..m => f[n] \in S}
<1>1. \A k \in 0..m : f[k] = IF k = 0 THEN r ELSE g[f[k - 1]]
  BY DEF Turns
<1>2. 0 \in T
  BY <1>1
<1>3. ASSUME NEW n \in Nat, n \in T
      PROVE  n + 1 \in T
  <2>1. CASE n + 1 \in 0..m
    <3>1. f[n] \in S
      BY <1>3, <2>1
    <3>2. (n + 1) - 1 = n /\ n + 1 # 0
      OBVIOUS
    <3>3. f[n + 1] = g[f[n]]
      BY <1>1, <2>1, <3>2
    <3>. QED  BY <3>1, <3>3
  <2>. QED  BY <2>1
<1>. HIDE DEF T
<1>4. Nat \subseteq T
  BY <1>2, <1>3, SetInduction
<1>5. ASSUME NEW k \in 0..m
      PROVE  f[k] \in S
  <2>1. k \in T
    BY <1>4
  <2>. QED  BY <2>1 DEF T
<1>. QED  BY <1>5

\* One turn of Read's loop.
Turn(n) == [q \in Readers |->
               IF q.done \/ q.blocked \/ Len(q.p) = n THEN q ELSE ReadIteration(q)]

\* Read's loop is that many turns.
LEMMA ReadLoopIs ==
    ASSUME NEW r, NEW n, arrived - r.consumed + 1 \in Nat
    PROVE  \E f : /\ Turns(f, Turn(n), r, arrived - r.consumed + 1)
                  /\ ReadLoop(r, n) = f[arrived - r.consumed + 1]
<1>. DEFINE m == arrived - r.consumed + 1
            g == Turn(n)
            h == CHOOSE h : h = [k \in 0..m |-> IF k = 0 THEN r ELSE g[h[k - 1]]]
<1>1. \E f : f = [k \in 0..m |-> IF k = 0 THEN r ELSE g[f[k - 1]]]
  <2>. HIDE DEF m, g
  <2>1. m \in Nat
    BY DEF m
  <2>2. \E f : Turns(f, g, r, m)
    BY <2>1, TurnsExist
  <2>. QED  BY <2>2, Zenon DEF Turns
<1>2. h = [k \in 0..m |-> IF k = 0 THEN r ELSE g[h[k - 1]]]
  <2>. HIDE DEF m, g
  <2>. QED  BY <1>1, Zenon
<1>3. Turns(h, g, r, m)
  <2>. HIDE DEF h, m, g
  <2>. QED  BY Zenon, <1>2 DEF Turns
<1>4. ReadLoop(r, n) = h[m]
  BY Zenon DEF ReadLoop, Turn
<1>. HIDE DEF h
<1>. QED  BY <1>3, <1>4, Zenon

\* So what the loop keeps true of the reader is true when Read returns.
LEMMA ReadLoopOK ==
    ASSUME NEW r, NEW o \in Seq(Octets), NEW n, ReaderOK(r, o), Wire
    PROVE  ReaderOK(ReadLoop(r, n), o)
<1>. DEFINE m == arrived - r.consumed + 1
            S == {q \in Readers : ReaderOK(q, o)}
<1>1. m \in Nat
  BY DEF ReaderOK, ReaderAt, Readers, Wire
<1>. HIDE DEF m
<1>2. PICK f : Turns(f, Turn(n), r, m) /\ ReadLoop(r, n) = f[m]
  BY <1>1, ReadLoopIs DEF m
<1>3. r \in S
  BY DEF ReaderOK, ReaderAt
<1>4. ASSUME NEW q \in S
      PROVE  Turn(n)[q] \in S
  <2>1. q \in Readers /\ ReaderOK(q, o)
    OBVIOUS
  <2>2. Turn(n)[q] = IF q.done \/ q.blocked \/ Len(q.p) = n THEN q ELSE ReadIteration(q)
    BY <2>1 DEF Turn
  <2>3. ~q.done => ReaderOK(ReadIteration(q), o)
    BY <2>1, IterationOK
  <2>4. ReaderOK(Turn(n)[q], o)
    <3>1. CASE q.done \/ q.blocked \/ Len(q.p) = n
      BY <2>1, <2>2, <3>1
    <3>2. CASE ~(q.done \/ q.blocked \/ Len(q.p) = n)
      BY SMTT(20), <2>2, <2>3, <3>2
    <3>. QED  BY <3>1, <3>2
  <2>5. Turn(n)[q] \in Readers
    BY <2>4 DEF ReaderOK, ReaderAt
  <2>. QED  BY <2>4, <2>5
<1>. HIDE DEF S
<1>5. f[m] \in S
  <2>1. \A k \in 0..m : f[k] \in S
    BY <1>1, <1>2, <1>3, <1>4, TurnsKeep
  <2>. QED  BY <1>1, <2>1
<1>. QED  BY <1>2, <1>5 DEF S

(***************************************************************************)
(* The writer.                                                             *)
(***************************************************************************)
\* What the octet at position i of the content is normalised to.
LinePiece(s, i) ==
    IF s[i] = "LF" /\ i > 1 /\ s[i - 1] = "CR" THEN <<>>
    ELSE IF s[i] \in {"CR", "LF"} THEN CRLF
    ELSE <<s[i]>>

\* What an octet is normalised to is a text.
LEMMA LinePieceType ==
    ASSUME NEW s \in Seq(Octets), NEW i \in 1..Len(s)
    PROVE  LinePiece(s, i) \in Seq(Octets)
<1>1. s[i] \in Octets /\ CRLF \in Seq(Octets)
  BY DEF CRLF, Octets
<1>. QED  BY <1>1 DEF LinePiece

\* Normalising line endings joins what the octets are normalised to.
LEMMA NormalisedPieces ==
    ASSUME NEW s \in Seq(Octets)
    PROVE  /\ [i \in 1..Len(s) |-> LinePiece(s, i)] \in Seq(Seq(Octets))
           /\ Normalised(s) = Joined([i \in 1..Len(s) |-> LinePiece(s, i)])
<1>1. DOMAIN s = 1..Len(s) /\ Len(s) \in Nat
  OBVIOUS
<1>2. \A i \in 1..Len(s) : LinePiece(s, i) \in Seq(Octets)
  BY LinePieceType
<1>3. [i \in 1..Len(s) |-> LinePiece(s, i)] \in [1..Len(s) -> Seq(Octets)]
  BY <1>2
<1>4. [i \in 1..Len(s) |-> LinePiece(s, i)] \in Seq(Seq(Octets))
  BY <1>1, <1>3, SeqDef
<1>. QED  BY <1>1, <1>4, Zenon DEF Normalised, LinePiece

\* Normalised octets are octets.
LEMMA NormalisedType ==
    ASSUME NEW s \in Seq(Octets)
    PROVE  Normalised(s) \in Seq(Octets)
BY Zenon, NormalisedPieces, JoinedType

\* Empty content is normal.
LEMMA NormalisedEmpty == Normalised(<<>>) = <<>>
<1>1. [i \in DOMAIN <<>> |->
          IF (<<>>)[i] = "LF" /\ i > 1 /\ (<<>>)[i - 1] = "CR" THEN <<>>
          ELSE IF (<<>>)[i] \in {"CR", "LF"} THEN CRLF
          ELSE <<(<<>>)[i]>>] = <<>>
  OBVIOUS
<1>. QED  BY <1>1, JoinedEmpty DEF Normalised

\* One octet more of the content.
LEMMA NormalisedAppend ==
    ASSUME NEW s \in Seq(Octets), NEW b \in Octets
    PROVE  Normalised(Append(s, b)) =
              Normalised(s) \o (IF b = "LF" /\ EndsCR(s) THEN <<>>
                                ELSE IF b \in {"CR", "LF"} THEN CRLF ELSE <<b>>)
<1>. DEFINE t == Append(s, b)
            x == IF b = "LF" /\ EndsCR(s) THEN <<>>
                 ELSE IF b \in {"CR", "LF"} THEN CRLF ELSE <<b>>
            ps == [i \in 1..Len(s) |-> LinePiece(s, i)]
            pt == [i \in 1..Len(t) |-> LinePiece(t, i)]
<1>1. t \in Seq(Octets) /\ Len(t) = Len(s) + 1 /\ t[Len(s) + 1] = b
      /\ (\A i \in 1..Len(s) : t[i] = s[i])
  BY AppendProperties
<1>3. x \in Seq(Octets)
  <2>1. CRLF \in Seq(Octets) /\ <<b>> \in Seq(Octets) /\ <<>> \in Seq(Octets)
    BY DEF CRLF, Octets
  <2>. QED  BY <2>1, Zenon
<1>. HIDE DEF t
<1>4. LinePiece(t, Len(s) + 1) = x
  <2>1. (Len(s) + 1 > 1 /\ t[(Len(s) + 1) - 1] = "CR") <=> EndsCR(s)
    <3>1. CASE s = <<>>
      BY <3>1 DEF EndsCR
    <3>2. CASE s # <<>>
      <4>1. Len(s) \in 1..Len(s) /\ (Len(s) + 1) - 1 = Len(s) /\ Len(s) + 1 > 1
        BY SMTT(20), <3>2
      <4>. QED  BY <1>1, <3>2, <4>1 DEF EndsCR
    <3>. QED  BY <3>1, <3>2
  <2>. QED  BY <1>1, <2>1, Zenon DEF LinePiece
<1>. HIDE DEF x
<1>5. ps \in Seq(Seq(Octets)) /\ Normalised(s) = Joined(ps)
  BY NormalisedPieces
<1>6. pt \in Seq(Seq(Octets)) /\ Normalised(t) = Joined(pt)
  BY <1>1, NormalisedPieces
<1>7. pt = Append(ps, x)
  <2>1. Len(ps) = Len(s) /\ \A i \in 1..Len(s) : ps[i] = LinePiece(s, i)
    OBVIOUS
  <2>2. Len(pt) = Len(s) + 1 /\ \A i \in 1..(Len(s) + 1) : pt[i] = LinePiece(t, i)
    BY <1>1
  <2>3. \A i \in 1..Len(s) : LinePiece(t, i) = LinePiece(s, i)
    <3>1. SUFFICES ASSUME NEW i \in 1..Len(s)
                   PROVE  LinePiece(t, i) = LinePiece(s, i)
      OBVIOUS
    <3>2. t[i] = s[i] /\ (i > 1 => t[i - 1] = s[i - 1])
      BY <1>1
    <3>. QED  BY <3>2, Zenon DEF LinePiece
  <2>. HIDE DEF ps, pt
  <2>. DEFINE r == Append(ps, x)
  <2>4. r \in Seq(Seq(Octets)) /\ Len(r) = Len(s) + 1 /\ r[Len(s) + 1] = x
        /\ \A i \in 1..Len(s) : r[i] = ps[i]
    BY <1>3, <1>5, <2>1, AppendProperties
  <2>. HIDE DEF r
  <2>5. ASSUME NEW i \in 1..(Len(s) + 1)
        PROVE  pt[i] = r[i]
    <3>1. CASE i = Len(s) + 1
      BY <1>4, <2>2, <2>4, <3>1
    <3>2. CASE i \in 1..Len(s)
      BY Zenon, <2>1, <2>2, <2>3, <2>4, <3>2
    <3>3. i = Len(s) + 1 \/ i \in 1..Len(s)
      OBVIOUS
    <3>. QED  BY <3>1, <3>2, <3>3
  <2>6. Len(pt) = Len(r) /\ \A i \in 1..Len(pt) : pt[i] = r[i]
    BY <2>2, <2>4, <2>5
  <2>7. pt = r
    BY <1>6, <2>4, <2>6, SeqEqual
  <2>. QED  BY <2>7 DEF r
<1>8. Joined(pt) = Joined(ps) \o x
  BY Zenon, <1>3, <1>5, <1>7, JoinedAppend
<1>. QED  BY Zenon, <1>5, <1>6, <1>8 DEF t, x

\* A stuffed stream stays stuffed with a literal octet after it ...
LEMMA StuffedOne ==
    ASSUME NEW w \in Seq(Octets), Stuffed(w), NEW b \in {".", "x", "LF"},
           ~(b = "." /\ LineStart(w, Len(w) + 1))
    PROVE  Stuffed(Append(w, b))
<1>. DEFINE t == Append(w, b)
<1>1. t \in Seq(Octets) /\ Len(t) = Len(w) + 1 /\ t[Len(w) + 1] = b
      /\ (\A i \in 1..Len(w) : t[i] = w[i])
  BY AppendProperties DEF Octets
<1>. HIDE DEF t
<1>2. IsPrefix(w, t)
  BY <1>1 DEF IsPrefix
<1>3. Len(w) + 1 \notin StartDots(t)
  <2>1. LineStart(w, Len(w) + 1) <=> LineStart(t, Len(w) + 1)
    BY <1>1, <1>2, LineStartBegins
  <2>. QED  BY <1>1, <2>1 DEF StartDots
<1>4. ASSUME NEW i \in StartDots(t)
      PROVE  i < Len(t) /\ t[i + 1] = "."
  <2>1. i \in 1..Len(w)
    BY <1>1, <1>3, EndDotsIn
  <2>2. i \in StartDots(w)
    BY <1>1, <1>2, <2>1, StartDotsBegins
  <2>3. i < Len(w) /\ w[i + 1] = "."
    BY <2>2 DEF Stuffed
  <2>. QED  BY <1>1, <2>1, <2>3
<1>5. ASSUME NEW i \in 1..Len(t), t[i] = "CR"
      PROVE  i < Len(t) /\ t[i + 1] = "LF"
  <2>1. i \in 1..Len(w) /\ w[i] = "CR"
    BY <1>1, <1>5
  <2>2. i < Len(w) /\ w[i + 1] = "LF"
    BY <2>1 DEF Stuffed
  <2>. QED  BY <1>1, <2>1, <2>2
<1>. QED  BY Zenon, <1>4, <1>5 DEF Stuffed, t

\* ... and with a CRLF, or a doubled dot at the start of a line.
LEMMA StuffedTwo ==
    ASSUME NEW w \in Seq(Octets), Stuffed(w), NEW x, NEW y,
           (x = "CR" /\ y = "LF") \/ (x = "." /\ y = ".")
    PROVE  Stuffed(Append(Append(w, x), y))
<1>. DEFINE v == Append(w, x)
            t == Append(v, y)
<1>0. x \in Octets /\ y \in Octets
  BY DEF Octets
<1>1. v \in Seq(Octets) /\ Len(v) = Len(w) + 1 /\ v[Len(w) + 1] = x
      /\ (\A i \in 1..Len(w) : v[i] = w[i])
  BY <1>0, AppendProperties
<1>. HIDE DEF v
<1>2. t \in Seq(Octets) /\ Len(t) = Len(v) + 1 /\ t[Len(v) + 1] = y
      /\ (\A i \in 1..Len(v) : t[i] = v[i])
  BY <1>0, <1>1, AppendProperties
<1>. HIDE DEF t
<1>3. Len(t) = Len(w) + 2 /\ t[Len(w) + 1] = x /\ t[Len(w) + 2] = y
      /\ (\A i \in 1..Len(w) : t[i] = w[i])
  BY <1>1, <1>2
<1>4. IsPrefix(w, t)
  BY <1>3 DEF IsPrefix
<1>5. ASSUME NEW i \in StartDots(t)
      PROVE  i < Len(t) /\ t[i + 1] = "."
  <2>1. i \in 1..Len(t) /\ t[i] = "." /\ (i = 1 \/ t[i - 1] = "LF")
    BY <1>2 DEF StartDots, LineStart
  <2>2. CASE i \in 1..Len(w)
    <3>1. i \in StartDots(w)
      BY <1>2, <1>4, <2>2, StartDotsBegins
    <3>2. i < Len(w) /\ w[i + 1] = "."
      BY <3>1 DEF Stuffed
    <3>. QED  BY <1>3, <2>2, <3>2
  <2>3. CASE i = Len(w) + 1
    <3>1. i + 1 = Len(w) + 2 /\ i < Len(t) /\ x = "."
      BY <1>3, <2>1, <2>3
    <3>. QED  BY <1>3, <3>1
  <2>4. CASE i = Len(w) + 2
    <3>1. i - 1 = Len(w) + 1 /\ i # 1
      BY <2>4
    <3>2. y = "." /\ x = "LF"
      BY <1>3, <2>1, <2>4, <3>1
    <3>. QED  BY <3>2
  <2>5. i \in 1..Len(w) \/ i = Len(w) + 1 \/ i = Len(w) + 2
    BY <1>3, <2>1
  <2>. QED  BY <2>2, <2>3, <2>4, <2>5
<1>6. ASSUME NEW i \in 1..Len(t), t[i] = "CR"
      PROVE  i < Len(t) /\ t[i + 1] = "LF"
  <2>2. CASE i \in 1..Len(w)
    <3>2. i < Len(w) /\ w[i + 1] = "LF"
      BY <1>3, <1>6, <2>2 DEF Stuffed
    <3>. QED  BY <1>3, <2>2, <3>2
  <2>3. CASE i = Len(w) + 1
    <3>1. i + 1 = Len(w) + 2 /\ i < Len(t) /\ x = "CR"
      BY <1>3, <1>6, <2>3
    <3>. QED  BY <1>3, <3>1
  <2>4. CASE i = Len(w) + 2
    BY <1>3, <1>6, <2>4
  <2>5. i \in 1..Len(w) \/ i = Len(w) + 1 \/ i = Len(w) + 2
    BY <1>3
  <2>. QED  BY <2>2, <2>3, <2>4, <2>5
<1>. QED  BY Zenon, <1>5, <1>6 DEF Stuffed, t, v

\* The last octet of a stuffed stream is the last octet of its text.
LEMMA StuffedLast ==
    ASSUME NEW w \in Seq(Octets), Stuffed(w), w # <<>>
    PROVE  Unstuffed(w) # <<>> /\ Last(Unstuffed(w)) = w[Len(w)]
<1>. DEFINE c == Len(w) - 1
            o == Upto(w, c)
<1>1. c \in Nat /\ c < Len(w) /\ c + 1 = Len(w) /\ w[Len(w)] \in Octets
  OBVIOUS
<1>2. Len(w) \notin StartDots(w)
  BY DEF Stuffed
<1>3. Piece(w, Len(w)) = <<w[Len(w)]>>
  BY <1>2 DEF Piece
<1>4. Upto(w, Len(w)) = o \o <<w[Len(w)]>>
  BY Zenon, <1>1, <1>3, UptoNext
<1>5. o \in Seq(Octets)
  BY <1>1, UptoType
<1>6. Unstuffed(w) = o \o <<w[Len(w)]>>
  BY <1>4, UptoAll
<1>. HIDE DEF o
<1>7. Len(o \o <<w[Len(w)]>>) = Len(o) + 1 /\ (o \o <<w[Len(w)]>>)[Len(o) + 1] = w[Len(w)]
  <2>1. <<w[Len(w)]>> \in Seq(Octets) /\ Len(<<w[Len(w)]>>) = 1 /\ <<w[Len(w)]>>[1] = w[Len(w)]
    BY <1>1
  <2>. QED  BY <1>5, <2>1, ConcatProperties
<1>8. Len(o) + 1 # 0
  BY <1>5
<1>. QED  BY <1>6, <1>7, <1>8 DEF Last

\* The fields of a writer that has put octets on the wire.
LEMMA EmitIs ==
    ASSUME NEW d \in Writers, NEW octets \in Seq(Octets), octets # <<>>, NEW starts \in BOOLEAN
    PROVE  /\ Emit(d, octets, starts) \in Writers
           /\ Emit(d, octets, starts).w = d.w \o octets
           /\ Emit(d, octets, starts).atLineStart = starts
           /\ Emit(d, octets, starts).wroteAny
           /\ Emit(d, octets, starts).lastByte = Last(octets)
           /\ Emit(d, octets, starts).pendingCR = d.pendingCR
           /\ Emit(d, octets, starts).closed = d.closed
<1>. DEFINE n == d.w \o octets
            l == Last(octets)
            x == [d EXCEPT !.w = n]
            y == [x EXCEPT !.atLineStart = starts]
            z == [y EXCEPT !.wroteAny = TRUE]
            q == [z EXCEPT !.lastByte = l]
<1>0. n \in Seq(Octets) /\ l \in {"none"} \union Octets
  <2>1. d.w \in Seq(Octets)
    BY DEF Writers
  <2>2. octets[Len(octets)] \in Octets
    OBVIOUS
  <2>. QED  BY <2>1, <2>2 DEF Last
<1>. HIDE DEF n, l
<1>1. x \in Writers /\ x.w = n /\ x.pendingCR = d.pendingCR /\ x.closed = d.closed
  BY SMTT(20), <1>0 DEF Writers
<1>. HIDE DEF x
<1>2. y \in Writers /\ y.w = x.w /\ y.pendingCR = x.pendingCR /\ y.closed = x.closed
      /\ y.atLineStart = starts
  BY Zenon, <1>1 DEF Writers
<1>. HIDE DEF y
<1>3. z \in Writers /\ z.w = y.w /\ z.pendingCR = y.pendingCR /\ z.closed = y.closed
      /\ z.atLineStart = y.atLineStart /\ z.wroteAny
  BY Zenon, <1>2 DEF Writers
<1>. HIDE DEF z
<1>4. q \in Writers /\ q.w = z.w /\ q.pendingCR = z.pendingCR /\ q.closed = z.closed
      /\ q.atLineStart = z.atLineStart /\ q.lastByte = l
  BY Zenon, <1>0, <1>3 DEF Writers
<1>5. q.wroteAny
  BY <1>3 DEF Writers
<1>6. Emit(d, octets, starts) = q
  BY DEF n, l, x, y, z, q, Emit
<1>. HIDE DEF q
<1>. QED  BY <1>1, <1>2, <1>3, <1>4, <1>5, <1>6, Zenon DEF n, l

\* What a writer emits is added to what it wrote.
LEMMA EmitOK ==
    ASSUME NEW d, NEW n, Wrote(d, n), NEW octets \in Seq(Octets), octets # <<>>,
           NEW starts \in BOOLEAN, starts <=> Last(octets) = "LF", NEW x,
           Unstuffed(d.w \o octets) = n \o x, Stuffed(d.w \o octets)
    PROVE  Wrote(Emit(d, octets, starts), n \o x)
<1>. DEFINE e == Emit(d, octets, starts)
            v == d.w \o octets
<1>1. d \in Writers /\ ~d.closed /\ ~d.pendingCR
  BY DEF Wrote
<1>2. e \in Writers /\ e.w = v /\ e.lastByte = Last(octets)
  BY <1>1, EmitIs
<1>3. e.wroteAny /\ e.atLineStart = starts /\ e.pendingCR = d.pendingCR /\ e.closed = d.closed
  BY <1>1, EmitIs
<1>4. Len(v) = Len(d.w) + Len(octets) /\ Len(octets) \in Nat \ {0} /\ Len(d.w) \in Nat
      /\ v[Len(v)] = Last(octets) /\ v \in Seq(Octets)
  <2>1. d.w \in Seq(Octets) /\ Len(octets) \in Nat \ {0}
    BY <1>1 DEF Writers
  <2>2. v \in Seq(Octets) /\ Len(v) = Len(d.w) + Len(octets)
    BY <2>1
  <2>3. v[Len(d.w) + Len(octets)] = octets[(Len(d.w) + Len(octets)) - Len(d.w)]
    BY <2>1, ConcatProperties
  <2>4. (Len(d.w) + Len(octets)) - Len(d.w) = Len(octets)
    BY <2>1
  <2>. QED  BY <2>1, <2>2, <2>3, <2>4 DEF Last
<1>. HIDE DEF v, e
<1>5. v # <<>> /\ (Len(v) + 1) - 1 = Len(v) /\ Len(v) + 1 # 1
  BY <1>4
<1>6. starts <=> LineStart(v, Len(v) + 1)
  BY <1>4, <1>5, Zenon DEF LineStart
<1>7. Unstuffed(v) = n \o x /\ Stuffed(v)
  BY DEF v
<1>8. Wrote(e, n \o x)
  BY <1>1, <1>2, <1>3, <1>4, <1>5, <1>6, <1>7, Zenon DEF Wrote
<1>. QED  BY <1>8 DEF e

\* Two octets appended at once.
LEMMA TwoMore ==
    ASSUME NEW w \in Seq(Octets), NEW x \in Octets, NEW y \in Octets
    PROVE  w \o <<x, y>> = Append(Append(w, x), y) /\ <<x, y>> \in Seq(Octets)
<1>. DEFINE l == w \o <<x, y>>
            v == Append(w, x)
            r == Append(v, y)
<1>1. <<x, y>> \in Seq(Octets) /\ Len(<<x, y>>) = 2 /\ <<x, y>>[1] = x /\ <<x, y>>[2] = y
  OBVIOUS
<1>2. l \in Seq(Octets) /\ Len(l) = Len(w) + 2
      /\ \A i \in 1..(Len(w) + 2) : l[i] = IF i <= Len(w) THEN w[i] ELSE <<x, y>>[i - Len(w)]
  BY <1>1, ConcatProperties
<1>3. v \in Seq(Octets) /\ Len(v) = Len(w) + 1 /\ v[Len(w) + 1] = x
      /\ (\A i \in 1..Len(w) : v[i] = w[i])
  BY AppendProperties
<1>. HIDE DEF v
<1>4. r \in Seq(Octets) /\ Len(r) = Len(v) + 1 /\ r[Len(v) + 1] = y
      /\ (\A i \in 1..Len(v) : r[i] = v[i])
  BY <1>3, AppendProperties
<1>. HIDE DEF l, r
<1>5. ASSUME NEW i \in 1..Len(l)
      PROVE  l[i] = r[i]
  <2>1. CASE i \in 1..Len(w)
    BY <1>2, <1>3, <1>4, <2>1
  <2>2. CASE i = Len(w) + 1
    <3>1. i - Len(w) = 1 /\ ~(i <= Len(w)) /\ i \in 1..(Len(w) + 2)
      BY <2>2
    <3>2. l[i] = x
      BY <1>1, <1>2, <3>1
    <3>3. r[i] = x
      BY <1>3, <1>4, <2>2
    <3>. QED  BY <3>2, <3>3
  <2>3. CASE i = Len(w) + 2
    <3>1. i - Len(w) = 2 /\ ~(i <= Len(w)) /\ i \in 1..(Len(w) + 2) /\ i = Len(v) + 1
      BY <1>3, <2>3
    <3>2. l[i] = y
      BY <1>1, <1>2, <3>1
    <3>. QED  BY <1>4, <3>1, <3>2
  <2>4. i \in 1..Len(w) \/ i = Len(w) + 1 \/ i = Len(w) + 2
    BY <1>2
  <2>. QED  BY <2>1, <2>2, <2>3, <2>4
<1>6. Len(l) = Len(r)
  BY <1>2, <1>3, <1>4
<1>7. l = r
  BY <1>2, <1>4, <1>5, <1>6, SeqEqual
<1>. QED  BY <1>1, <1>7 DEF l, r, v

\* emitCRLF puts one line ending on the wire.
LEMMA EmitCRLFOK ==
    ASSUME NEW d, NEW n, Wrote(d, n)
    PROVE  Wrote(Emit(d, CRLF, TRUE), n \o CRLF)
<1>. DEFINE w == d.w
            v == Append(w, "CR")
<1>1. w \in Seq(Octets) /\ Stuffed(w) /\ Unstuffed(w) = n /\ "CR" \in Octets /\ "LF" \in Octets
  BY DEF Wrote, Writers, Octets
<1>2. n \in Seq(Octets)
  BY <1>1, UnstuffedType
<1>3. w \o CRLF = Append(v, "LF") /\ CRLF \in Seq(Octets)
  BY <1>1, TwoMore DEF CRLF
<1>4. Stuffed(w \o CRLF)
  BY <1>1, <1>3, StuffedTwo
<1>5. v \in Seq(Octets)
  BY <1>1
<1>6. Unstuffed(v) = n \o <<"CR">>
  BY <1>1, UnstuffedAppend
<1>7. Unstuffed(Append(v, "LF")) = (n \o <<"CR">>) \o <<"LF">>
  BY Zenon, <1>1, <1>5, <1>6, UnstuffedAppend
<1>8. (n \o <<"CR">>) \o <<"LF">> = n \o CRLF
  <2>1. n \o CRLF = Append(Append(n, "CR"), "LF")
    BY <1>1, <1>2, TwoMore DEF CRLF
  <2>2. Append(n, "CR") = n \o <<"CR">> /\ Append(n, "CR") \in Seq(Octets)
    BY <1>1, <1>2, AppendIsConcat
  <2>3. Append(Append(n, "CR"), "LF") = Append(n, "CR") \o <<"LF">>
    BY <1>1, <2>2, AppendIsConcat
  <2>. QED  BY <2>1, <2>2, <2>3
<1>9. CRLF # <<>> /\ Last(CRLF) = "LF"
  BY DEF CRLF, Last
<1>10. Unstuffed(w \o CRLF) = n \o CRLF
  BY <1>3, <1>7, <1>8, Zenon
<1>. HIDE DEF v
<1>. QED  BY Zenon, <1>3, <1>4, <1>9, <1>10, EmitOK

\* emitLiteral puts one octet on the wire, a line-start dot twice.
LEMMA EmitLiteralOK ==
    ASSUME NEW d, NEW n, Wrote(d, n), NEW b \in {".", "x"}
    PROVE  Wrote(emitLiteral(d, b), n \o <<b>>)
<1>. DEFINE w == d.w
<1>1. w \in Seq(Octets) /\ Stuffed(w) /\ Unstuffed(w) = n /\ b \in Octets
      /\ (d.atLineStart <=> LineStart(w, Len(w) + 1))
  BY DEF Wrote, Writers, Octets
<1>2. n \in Seq(Octets)
  BY <1>1, UnstuffedType
<1>3. CASE d.atLineStart /\ b = "."
  <2>. DEFINE v == Append(w, ".")
  <2>1. emitLiteral(d, b) = Emit(d, <<".", ".">>, FALSE)
    BY <1>3 DEF emitLiteral
  <2>2. w \o <<".", ".">> = Append(v, ".") /\ <<".", ".">> \in Seq(Octets)
    BY <1>1, <1>3, TwoMore
  <2>3. Stuffed(w \o <<".", ".">>)
    BY Zenon, <1>1, <2>2, StuffedTwo
  <2>4. v \in Seq(Octets) /\ Len(v) = Len(w) + 1 /\ v[Len(w) + 1] = "."
    BY <1>1, <1>3, AppendProperties
  <2>5. Unstuffed(v) = n
    <3>1. Unstuffed(v) = n \o <<>>
      BY Zenon, <1>1, <1>3, UnstuffedAppend
    <3>. QED  BY <1>2, <3>1, ConcatEmptySeq
  <2>. HIDE DEF v
  <2>6. ~LineStart(v, Len(v) + 1)
    BY <1>1, <2>4 DEF LineStart
  <2>7. Unstuffed(Append(v, ".")) = n \o <<".">>
    BY <1>1, <1>3, <2>4, <2>5, <2>6, UnstuffedAppend
  <2>8. <<".", ".">> # <<>> /\ Last(<<".", ".">>) = "."
    BY DEF Last
  <2>9. Unstuffed(w \o <<".", ".">>) = n \o <<b>>
    BY Zenon, <1>3, <2>2, <2>7
  <2>10. Wrote(Emit(d, <<".", ".">>, FALSE), n \o <<b>>)
    BY Zenon, <2>2, <2>3, <2>8, <2>9, EmitOK
  <2>. QED  BY Zenon, <2>1, <2>10
<1>4. CASE ~(d.atLineStart /\ b = ".")
  <2>1. emitLiteral(d, b) = Emit(d, <<b>>, FALSE)
    BY Zenon, <1>4 DEF emitLiteral
  <2>2. w \o <<b>> = Append(w, b) /\ <<b>> \in Seq(Octets)
    BY <1>1, AppendIsConcat
  <2>3. ~(b = "." /\ LineStart(w, Len(w) + 1))
    BY <1>1, <1>4
  <2>4. Stuffed(w \o <<b>>)
    BY Zenon, <1>1, <2>2, <2>3, StuffedOne
  <2>5. Unstuffed(w \o <<b>>) = n \o <<b>>
    BY Zenon, <1>1, <2>2, <2>3, UnstuffedAppend
  <2>6. <<b>> # <<>> /\ Last(<<b>>) = b /\ b # "LF"
    BY DEF Last
  <2>7. Wrote(Emit(d, <<b>>, FALSE), n \o <<b>>)
    BY Zenon, <2>2, <2>4, <2>5, <2>6, EmitOK
  <2>. QED  BY Zenon, <2>1, <2>7
<1>. QED  BY <1>3, <1>4

\* A writer that holds no CR has none to let go,
LEMMA NoHeldCR ==
    ASSUME NEW d \in Writers, ~d.pendingCR
    PROVE  [d EXCEPT !.pendingCR = FALSE] = d
<1>1. d.pendingCR = FALSE
  BY DEF Writers
<1>2. d = [f \in DOMAIN d |-> d[f]]
  BY DEF Writers
<1>. QED  BY <1>1, <1>2

\* ... and one that takes a CR back is as it was.
LEMMA HoldCR ==
    ASSUME NEW d \in Writers, ~d.pendingCR
    PROVE  /\ [d EXCEPT !.pendingCR = TRUE] \in Writers
           /\ [d EXCEPT !.pendingCR = TRUE].pendingCR
           /\ [d EXCEPT !.pendingCR = TRUE].w = d.w
           /\ [[d EXCEPT !.pendingCR = TRUE] EXCEPT !.pendingCR = FALSE] = d
<1>. DEFINE e == [d EXCEPT !.pendingCR = TRUE]
<1>1. e \in Writers /\ e.w = d.w
  BY Zenon DEF Writers
<1>2. e.pendingCR
  BY DEF Writers
<1>3. [e EXCEPT !.pendingCR = FALSE] = [d EXCEPT !.pendingCR = FALSE]
  BY Zenon DEF Writers
<1>. QED  BY Zenon, <1>1, <1>2, <1>3, NoHeldCR

\* The writer only appends to the wire.
LEMMA EmitBegins ==
    ASSUME NEW d \in Writers, NEW octets \in Seq(Octets), octets # <<>>, NEW starts \in BOOLEAN
    PROVE  IsPrefix(d.w, Emit(d, octets, starts).w)
<1>1. d.w \in Seq(Octets)
  BY DEF Writers
<1>2. Emit(d, octets, starts).w = d.w \o octets
  BY EmitIs
<1>. QED  BY <1>1, <1>2, BeginsConcat

\* The types of a writer that has written n.
LEMMA WroteTypes ==
    ASSUME NEW d, NEW n, Wrote(d, n)
    PROVE  d \in Writers /\ d.w \in Seq(Octets) /\ n \in Seq(Octets) /\ ~d.pendingCR /\ ~d.closed
<1>1. d \in Writers /\ Unstuffed(d.w) = n /\ ~d.pendingCR /\ ~d.closed
  BY DEF Wrote
<1>2. d.w \in Seq(Octets)
  BY <1>1 DEF Writers
<1>. QED  BY <1>1, <1>2, UnstuffedType

\* Once a held CR is out, everything is.
LEMMA ReleaseOK ==
    ASSUME NEW d, NEW c \in Seq(Octets), WriterOpen(d, c), NEW e,
           e = IF d.pendingCR THEN emitCRLF(d) ELSE d
    PROVE  Wrote(e, Normalised(c)) /\ IsPrefix(d.w, e.w)
<1>1. d \in Writers /\ d.w \in Seq(Octets)
  BY DEF WriterOpen, Writers
<1>2. PICK n \in Seq(Octets) :
             /\ Wrote([d EXCEPT !.pendingCR = FALSE], n)
             /\ Normalised(c) = IF d.pendingCR THEN n \o CRLF ELSE n
  BY DEF WriterOpen
<1>3. CASE d.pendingCR
  <2>. DEFINE f == [d EXCEPT !.pendingCR = FALSE]
  <2>1. f \in Writers /\ f.w = d.w
    BY Zenon, <1>1 DEF Writers
  <2>2. e = Emit(f, CRLF, TRUE) /\ Normalised(c) = n \o CRLF
    BY <1>2, <1>3 DEF emitCRLF
  <2>3. CRLF \in Seq(Octets) /\ CRLF # <<>>
    BY DEF CRLF, Octets
  <2>. HIDE DEF f
  <2>4. IsPrefix(f.w, e.w)
    BY Zenon, <2>1, <2>2, <2>3, EmitBegins
  <2>5. Wrote(f, n)
    BY <1>2 DEF f
  <2>6. Wrote(e, n \o CRLF)
    BY Zenon, <2>2, <2>5, EmitCRLFOK
  <2>. QED  BY <2>1, <2>2, <2>4, <2>6
<1>4. CASE ~d.pendingCR
  <2>1. e = d /\ [d EXCEPT !.pendingCR = FALSE] = d
    BY <1>1, <1>4, NoHeldCR
  <2>2. Wrote(d, n) /\ Normalised(c) = n
    BY Zenon, <1>2, <1>4, <2>1
  <2>3. IsPrefix(d.w, d.w)
    BY <1>1 DEF IsPrefix
  <2>. QED  BY <2>1, <2>2, <2>3
<1>. QED  BY <1>3, <1>4

\* A writer that has put all content on the wire holds nothing back.
LEMMA WroteIsOpen ==
    ASSUME NEW e, NEW c \in Seq(Octets), Wrote(e, Normalised(c)), ~EndsCR(c)
    PROVE  WriterOpen(e, c)
<1>1. e \in Writers /\ ~e.pendingCR /\ Normalised(c) \in Seq(Octets)
  BY WroteTypes
<1>2. [e EXCEPT !.pendingCR = FALSE] = e
  BY <1>1, NoHeldCR
<1>3. Wrote([e EXCEPT !.pendingCR = FALSE], Normalised(c))
  BY Zenon, <1>2
<1>4. Normalised(c) = IF e.pendingCR THEN Normalised(c) \o CRLF ELSE Normalised(c)
  BY <1>1
<1>5. e.pendingCR <=> EndsCR(c)
  BY <1>1
<1>. QED  BY <1>1, <1>3, <1>4, <1>5, Zenon DEF WriterOpen

\* One octet through Write's loop.
LEMMA WriteOctetOK ==
    ASSUME NEW d, NEW c \in Seq(Octets), WriterOpen(d, c), NEW b \in Octets
    PROVE  WriterOpen(WriteOctet(d, b), Append(c, b)) /\ IsPrefix(d.w, WriteOctet(d, b).w)
<1>. DEFINE e == IF d.pendingCR THEN emitCRLF(d) ELSE d
            N == Normalised(c)
            a == Append(c, b)
            r == WriteOctet(d, b)
<1>1. Wrote(e, N) /\ IsPrefix(d.w, e.w)
  BY ReleaseOK
<1>2. r = CASE d.pendingCR /\ b = "LF" -> e
            [] ~d.pendingCR /\ b = "LF" -> emitCRLF(e)
            [] b = "CR" -> [e EXCEPT !.pendingCR = TRUE]
            [] OTHER    -> emitLiteral(e, b)
  BY DEF WriteOctet
<1>. HIDE DEF e
<1>3. d \in Writers /\ d.w \in Seq(Octets) /\ (d.pendingCR <=> EndsCR(c))
  BY DEF WriterOpen, Writers
<1>4. e \in Writers /\ e.w \in Seq(Octets) /\ N \in Seq(Octets) /\ ~e.pendingCR
  BY <1>1, WroteTypes
<1>5. Normalised(a) = N \o (IF b = "LF" /\ EndsCR(c) THEN <<>>
                            ELSE IF b \in {"CR", "LF"} THEN CRLF ELSE <<b>>)
  BY NormalisedAppend
<1>6. a \in Seq(Octets) /\ (EndsCR(a) <=> b = "CR")
  <2>1. a \in Seq(Octets) /\ a # <<>> /\ Len(a) = Len(c) + 1 /\ a[Len(c) + 1] = b
    BY AppendProperties
  <2>. QED  BY <2>1 DEF EndsCR
<1>7. CRLF \in Seq(Octets) /\ CRLF # <<>>
  BY DEF CRLF, Octets
<1>8. [e EXCEPT !.pendingCR = FALSE] = e
  BY <1>4, NoHeldCR
<1>. HIDE DEF N, a, r
<1>9. CASE b = "LF" /\ d.pendingCR
  <2>1. r = e
    BY <1>2, <1>9
  <2>2. Normalised(a) = N \o <<>>
    BY <1>3, <1>5, <1>9, Zenon
  <2>3. Normalised(a) = N
    BY <1>4, <2>2, ConcatEmptySeq
  <2>4. WriterOpen(r, a)
    BY SMTT(20), <1>1, <1>6, <1>9, <2>1, <2>3, WroteIsOpen
  <2>. QED  BY <1>1, <2>1, <2>4 DEF a, r
<1>10. CASE b = "LF" /\ ~d.pendingCR
  <2>1. r = Emit(e, CRLF, TRUE)
    BY Zenon, <1>2, <1>8, <1>10 DEF emitCRLF
  <2>2. Normalised(a) = N \o CRLF
    BY <1>3, <1>5, <1>10
  <2>3. Wrote(r, N \o CRLF)
    BY Zenon, <1>1, <2>1, EmitCRLFOK
  <2>4. WriterOpen(r, a)
    BY Zenon, <1>6, <1>10, <2>2, <2>3, WroteIsOpen
  <2>5. IsPrefix(e.w, r.w)
    BY Zenon, <1>4, <1>7, <2>1, EmitBegins
  <2>6. r.w \in Seq(Octets)
    BY <2>3, WroteTypes
  <2>7. IsPrefix(d.w, r.w)
    BY SMTT(20), <1>1, <1>3, <1>4, <2>5, <2>6, BeginsTransitive
  <2>. QED  BY <2>4, <2>7 DEF a, r
<1>11. CASE b = "CR"
  <2>1. r = [e EXCEPT !.pendingCR = TRUE]
    BY <1>2, <1>11
  <2>2. r \in Writers /\ r.pendingCR /\ r.w = e.w /\ [r EXCEPT !.pendingCR = FALSE] = e
    BY Zenon, <1>4, <2>1, HoldCR
  <2>3. Normalised(a) = N \o CRLF
    BY <1>5, <1>11
  <2>4. Normalised(a) = IF r.pendingCR THEN N \o CRLF ELSE N
    BY <2>2, <2>3
  <2>5. Wrote([r EXCEPT !.pendingCR = FALSE], N)
    BY Zenon, <1>1, <2>2
  <2>6. r.pendingCR <=> EndsCR(a)
    BY <1>6, <1>11, <2>2
  <2>7. WriterOpen(r, a)
    BY <1>4, <2>2, <2>4, <2>5, <2>6, Zenon DEF WriterOpen
  <2>. QED  BY <1>1, <2>2, <2>7 DEF a, r
<1>12. CASE b \in {".", "x"}
  <2>1. r = emitLiteral(e, b)
    BY <1>2, <1>12
  <2>2. Normalised(a) = N \o <<b>>
    BY <1>5, <1>12
  <2>3. Wrote(r, N \o <<b>>)
    BY <1>1, <1>12, <2>1, EmitLiteralOK
  <2>4. WriterOpen(r, a)
    BY Zenon, <1>6, <1>12, <2>2, <2>3, WroteIsOpen
  <2>5. IsPrefix(e.w, r.w)
    <3>. DEFINE x == IF e.atLineStart /\ b = "." THEN <<".", ".">> ELSE <<b>>
    <3>1. x \in Seq(Octets) /\ x # <<>>
      <4>1. <<".", ".">> \in Seq(Octets) /\ <<b>> \in Seq(Octets) /\ <<".", ".">> # <<>> /\ <<b>> # <<>>
        BY DEF Octets
      <4>. QED  BY <4>1, Zenon
    <3>2. r = Emit(e, x, FALSE)
      BY <2>1 DEF emitLiteral
    <3>. HIDE DEF x
    <3>. QED  BY Zenon, <1>4, <3>1, <3>2, EmitBegins
  <2>6. r.w \in Seq(Octets)
    BY SMTT(20), <2>3, WroteTypes
  <2>7. IsPrefix(d.w, r.w)
    BY <1>1, <1>3, <1>4, <2>5, <2>6, BeginsTransitive
  <2>. QED  BY <2>4, <2>7 DEF a, r
<1>13. b \in {".", "x", "CR", "LF"}
  BY DEF Octets
<1>. QED  BY <1>9, <1>10, <1>11, <1>12, <1>13

\* f holds the writer's states as Write goes through p.
Writes(f, d, p) ==
    f = [i \in 0..Len(p) |-> IF i = 0 THEN d ELSE WriteOctet(f[i - 1], p[i])]

\* The loop of Write can be run over any chunk,
LEMMA WritesExist ==
    ASSUME NEW d, NEW p \in Seq(Octets)
    PROVE  \E f : Writes(f, d, p)
<1>. DEFINE Run(n) == \E f : /\ f = [i \in 0..n |-> f[i]]
                             /\ \A i \in 0..n : f[i] = IF i = 0 THEN d ELSE WriteOctet(f[i - 1], p[i])
            T == {n \in Nat : Run(n)}
<1>1. 0 \in T
  <2>. DEFINE f == [i \in 0..0 |-> d]
  <2>1. f = [i \in 0..0 |-> f[i]]
    OBVIOUS
  <2>2. \A i \in 0..0 : f[i] = IF i = 0 THEN d ELSE WriteOctet(f[i - 1], p[i])
    OBVIOUS
  <2>3. Run(0)
    <3>. HIDE DEF f
    <3>. QED  BY <2>1, <2>2, Zenon
  <2>. QED  BY <2>3
<1>2. ASSUME NEW n \in Nat, n \in T
      PROVE  n + 1 \in T
  <2>1. PICK f : /\ f = [i \in 0..n |-> f[i]]
                 /\ \A i \in 0..n : f[i] = IF i = 0 THEN d ELSE WriteOctet(f[i - 1], p[i])
    BY <1>2
  <2>. DEFINE h == [i \in 0..(n + 1) |-> IF i = n + 1 THEN WriteOctet(f[n], p[n + 1]) ELSE f[i]]
  <2>2. h = [i \in 0..(n + 1) |-> h[i]]
    OBVIOUS
  <2>3. ASSUME NEW i \in 0..(n + 1)
        PROVE  h[i] = IF i = 0 THEN d ELSE WriteOctet(h[i - 1], p[i])
    <3>1. CASE i = n + 1
      <4>1. h[i] = WriteOctet(f[n], p[i]) /\ i # 0 /\ i - 1 = n /\ h[n] = f[n]
        BY <3>1
      <4>. HIDE DEF h
      <4>. QED  BY <4>1
    <3>2. CASE i # n + 1
      <4>1. i \in 0..n /\ h[i] = f[i] /\ (i # 0 => h[i - 1] = f[i - 1])
        BY <3>2
      <4>2. f[i] = IF i = 0 THEN d ELSE WriteOctet(f[i - 1], p[i])
        BY <2>1, <4>1
      <4>. HIDE DEF h
      <4>. QED  BY <4>1, <4>2, Zenon
    <3>. QED  BY <3>1, <3>2
  <2>. HIDE DEF h
  <2>4. Run(n + 1)
    BY <2>2, <2>3, Zenon
  <2>. HIDE DEF Run
  <2>. QED  BY <2>4
<1>. HIDE DEF T
<1>3. Nat \subseteq T
  BY <1>1, <1>2, SetInduction
<1>4. Run(Len(p))
  <2>. HIDE DEF Run
  <2>. QED  BY <1>3 DEF T
<1>5. PICK f : /\ f = [i \in 0..Len(p) |-> f[i]]
               /\ \A i \in 0..Len(p) : f[i] = IF i = 0 THEN d ELSE WriteOctet(f[i - 1], p[i])
  BY <1>4
<1>6. Writes(f, d, p)
  BY <1>5, Zenon DEF Writes
<1>. QED  BY <1>6

\* ... and WriteLoop is what it ends with.
LEMMA WriteLoopIs ==
    ASSUME NEW d, NEW p \in Seq(Octets)
    PROVE  \E f : Writes(f, d, p) /\ WriteLoop(d, p) = f[Len(p)]
<1>. DEFINE h == CHOOSE h : h = [i \in 0..Len(p) |-> IF i = 0 THEN d ELSE WriteOctet(h[i - 1], p[i])]
<1>1. \E f : f = [i \in 0..Len(p) |-> IF i = 0 THEN d ELSE WriteOctet(f[i - 1], p[i])]
  <2>1. \E f : Writes(f, d, p)
    BY Zenon, WritesExist
  <2>. QED  BY <2>1, Zenon DEF Writes
<1>2. h = [i \in 0..Len(p) |-> IF i = 0 THEN d ELSE WriteOctet(h[i - 1], p[i])]
  BY <1>1, Zenon
<1>3. Writes(h, d, p)
  <2>. HIDE DEF h
  <2>. QED  BY <1>2 DEF Writes
<1>4. WriteLoop(d, p) = h[Len(p)]
  BY Zenon DEF WriteLoop
<1>. HIDE DEF h
<1>. QED  BY <1>3, <1>4, Zenon

\* What Write's loop keeps true of the writer is true when Write returns, and
\* nothing that was on the wire is taken back.
LEMMA WriteLoopOK ==
    ASSUME NEW d, NEW c \in Seq(Octets), WriterOpen(d, c), NEW p \in Seq(Octets)
    PROVE  WriterOpen(WriteLoop(d, p), c \o p) /\ IsPrefix(d.w, WriteLoop(d, p).w)
<1>1. PICK f : Writes(f, d, p) /\ WriteLoop(d, p) = f[Len(p)]
  BY WriteLoopIs
<1>2. \A i \in 0..Len(p) : f[i] = IF i = 0 THEN d ELSE WriteOctet(f[i - 1], p[i])
  BY <1>1 DEF Writes
<1>. DEFINE F(i) == c \o SubSeq(p, 1, i)
            Good(i) == WriterOpen(f[i], F(i)) /\ IsPrefix(d.w, f[i].w)
            T == {i \in Nat : i <= Len(p) => Good(i)}
<1>3. d.w \in Seq(Octets)
  BY DEF WriterOpen, Writers
<1>4. 0 \in T
  <2>1. f[0] = d
    BY <1>2
  <2>2. SubSeq(p, 1, 0) = <<>>
    BY SubSeqEmpty
  <2>3. F(0) = c
    BY <2>2, ConcatEmptySeq
  <2>4. IsPrefix(d.w, d.w)
    BY <1>3 DEF IsPrefix
  <2>. HIDE DEF F
  <2>5. Good(0)
    BY <2>1, <2>3, <2>4
  <2>. HIDE DEF Good
  <2>. QED  BY <2>5
<1>5. ASSUME NEW n \in Nat, n \in T
      PROVE  n + 1 \in T
  <2>1. SUFFICES ASSUME n + 1 <= Len(p)
                 PROVE  Good(n + 1)
    <3>. HIDE DEF Good
    <3>. QED  OBVIOUS
  <2>2. Good(n)
    <3>. HIDE DEF Good
    <3>. QED  BY <1>5, <2>1
  <2>3. f[n + 1] = WriteOctet(f[n], p[n + 1])
    <3>1. n + 1 \in 0..Len(p) /\ n + 1 # 0 /\ (n + 1) - 1 = n
      BY <2>1
    <3>. QED  BY <1>2, <3>1
  <2>4. p[n + 1] \in Octets
    BY <2>1
  <2>5. SubSeq(p, 1, n) \in Seq(Octets)
    BY <2>1, First
  <2>6. F(n) \in Seq(Octets)
    BY <2>5
  <2>7. F(n + 1) = Append(F(n), p[n + 1])
    <3>. DEFINE s == SubSeq(p, 1, n)
                b == p[n + 1]
    <3>1. SubSeq(p, 1, n + 1) = Append(s, b)
      BY <2>1, FirstNext
    <3>2. s \in Seq(Octets) /\ b \in Octets
      BY <2>4, <2>5
    <3>. HIDE DEF s, b
    <3>3. Append(s, b) = s \o <<b>> /\ <<b>> \in Seq(Octets)
      BY <3>2, AppendIsConcat
    <3>4. c \o (s \o <<b>>) = (c \o s) \o <<b>>
      <4>. DEFINE u == <<b>>
      <4>1. u \in Seq(Octets)
        BY <3>3
      <4>. HIDE DEF u
      <4>2. c \o (s \o u) = (c \o s) \o u
        BY <3>2, <4>1, ConcatAssociative
      <4>. QED  BY <4>2 DEF u
    <3>5. c \o s \in Seq(Octets)
      BY <3>2
    <3>6. Append(c \o s, b) = (c \o s) \o <<b>>
      BY <3>2, <3>5, AppendIsConcat
    <3>. QED  BY <3>1, <3>3, <3>4, <3>6, Zenon DEF s, b
  <2>. HIDE DEF F
  <2>8. WriterOpen(f[n], F(n)) /\ IsPrefix(d.w, f[n].w)
    BY <2>2
  <2>9. WriterOpen(f[n + 1], F(n + 1)) /\ IsPrefix(f[n].w, f[n + 1].w)
    BY Zenon, <2>3, <2>4, <2>6, <2>7, <2>8, WriteOctetOK
  <2>10. f[n].w \in Seq(Octets) /\ f[n + 1].w \in Seq(Octets)
    <3>1. f[n] \in Writers /\ f[n + 1] \in Writers
      BY <2>8, <2>9 DEF WriterOpen
    <3>. QED  BY <3>1 DEF Writers
  <2>11. IsPrefix(d.w, f[n + 1].w)
    BY SMTT(20), <1>3, <2>8, <2>9, <2>10, BeginsTransitive
  <2>. QED  BY <2>9, <2>11
<1>. HIDE DEF T
<1>6. Nat \subseteq T
  BY <1>4, <1>5, SetInduction
<1>7. Good(Len(p))
  <2>. HIDE DEF Good
  <2>. QED  BY <1>6 DEF T
<1>8. F(Len(p)) = c \o p
  BY SubSeqFull
<1>. HIDE DEF F
<1>. QED  BY <1>1, <1>7, <1>8

\* The fields of a writer that has sent the terminator.
LEMMA CloseIs ==
    ASSUME NEW f \in Writers, NEW r, r = [f EXCEPT !.closed = TRUE, !.w = @ \o Terminator]
    PROVE  r \in Writers /\ r.closed /\ r.w = f.w \o Terminator
<1>. DEFINE x == [f EXCEPT !.closed = TRUE]
            n == x.w \o Terminator
            y == [x EXCEPT !.w = n]
<1>1. x \in Writers /\ x.w = f.w
  BY Zenon DEF Writers
<1>2. x.closed
  BY DEF Writers
<1>. HIDE DEF x
<1>3. Terminator \in Seq(Octets) /\ x.w \in Seq(Octets)
  BY <1>1 DEF Terminator, Octets, Writers
<1>4. n \in Seq(Octets)
  BY <1>3
<1>. HIDE DEF n
<1>5. y \in Writers /\ y.w = n /\ y.closed = x.closed
  BY <1>1, <1>4 DEF Writers
<1>6. r = y
  BY DEF x, y, n
<1>. HIDE DEF y
<1>. QED  BY <1>1, <1>2, <1>5, <1>6 DEF n

\* The three steps of Close: it lets a held CR go, ends the last line and
\* writes the terminator.
Released(d) == IF d.pendingCR THEN emitCRLF(d) ELSE d
LineEnded(e) == IF e.wroteAny /\ e.lastByte # "LF" THEN emitCRLF(e) ELSE e
Ended(f) == [f EXCEPT !.closed = TRUE, !.w = @ \o Terminator]

\* Close completes the last line and appends the terminator.
LEMMA CloseOK ==
    ASSUME NEW d, NEW c \in Seq(Octets), WriterOpen(d, c), NEW r, r = Ended(LineEnded(Released(d)))
    PROVE  /\ r \in Writers /\ r.closed
           /\ IsPrefix(d.w, r.w)
           /\ \E b \in Seq(Octets) :
                 /\ r.w = b \o Terminator
                 /\ Stuffed(b)
                 /\ LineStart(b, Len(b) + 1)
                 /\ Unstuffed(b) = Complete(c)
<1>. DEFINE N == Normalised(c)
            e == Released(d)
            f == LineEnded(e)
<1>a. e = IF d.pendingCR THEN emitCRLF(d) ELSE d
  BY DEF Released
<1>b. f = IF e.wroteAny /\ e.lastByte # "LF" THEN emitCRLF(e) ELSE e
  BY DEF LineEnded
<1>c. r = [f EXCEPT !.closed = TRUE, !.w = @ \o Terminator]
  BY DEF Ended
<1>. HIDE DEF e, f
<1>1. Wrote(e, N) /\ IsPrefix(d.w, e.w)
  BY <1>a, ReleaseOK
<1>2. e \in Writers /\ e.w \in Seq(Octets) /\ ~e.pendingCR
  BY <1>1, WroteTypes
<1>3. N \in Seq(Octets)
  BY NormalisedType
<1>4. d.w \in Seq(Octets)
  BY DEF WriterOpen, Writers
<1>5. CRLF \in Seq(Octets) /\ CRLF # <<>> /\ Terminator \in Seq(Octets)
  BY DEF CRLF, Octets, Terminator
<1>. HIDE DEF N
<1>6. (e.wroteAny /\ e.lastByte # "LF") <=> (N # <<>> /\ Last(N) # "LF")
  <2>1. Unstuffed(e.w) = N /\ Stuffed(e.w) /\ (e.wroteAny <=> e.w # <<>>)
        /\ (e.w # <<>> => e.lastByte = e.w[Len(e.w)])
    BY <1>1 DEF Wrote
  <2>2. CASE e.w = <<>>
    <3>1. N = <<>>
      BY <2>1, <2>2, UnstuffedEmpty
    <3>. QED  BY <2>1, <2>2, <3>1
  <2>3. CASE e.w # <<>>
    <3>1. N # <<>> /\ Last(N) = e.w[Len(e.w)]
      BY <1>2, <2>1, <2>3, StuffedLast
    <3>. QED  BY <2>1, <2>3, <3>1
  <2>. QED  BY <2>2, <2>3
<1>7. Complete(c) = IF N # <<>> /\ Last(N) # "LF" THEN N \o CRLF ELSE N
  BY DEF Complete, N
<1>8. Wrote(f, Complete(c)) /\ IsPrefix(e.w, f.w) /\ LineStart(f.w, Len(f.w) + 1)
  <2>1. CASE e.wroteAny /\ e.lastByte # "LF"
    <3>1. [e EXCEPT !.pendingCR = FALSE] = e
      BY <1>2, NoHeldCR
    <3>2. f = Emit(e, CRLF, TRUE)
      BY Zenon, <1>b, <2>1, <3>1 DEF emitCRLF
    <3>3. Wrote(f, N \o CRLF)
      BY Zenon, <1>1, <3>2, EmitCRLFOK
    <3>4. IsPrefix(e.w, f.w)
      BY Zenon, <1>2, <1>5, <3>2, EmitBegins
    <3>5. Complete(c) = N \o CRLF
      BY <1>6, <1>7, <2>1
    <3>6. f.atLineStart
      <4>1. TRUE \in BOOLEAN
        OBVIOUS
      <4>2. f.atLineStart = TRUE
        BY ONLY <1>2, <1>5, <3>2, <4>1, EmitIs, Zenon
      <4>. QED  BY <4>2
    <3>7. LineStart(f.w, Len(f.w) + 1)
      BY <3>3, <3>6 DEF Wrote
    <3>. QED  BY <3>3, <3>4, <3>5, <3>7
  <2>2. CASE ~(e.wroteAny /\ e.lastByte # "LF")
    <3>1. f = e /\ Complete(c) = N
      BY <1>6, <1>7, <1>b, <2>2
    <3>2. IsPrefix(e.w, e.w)
      BY <1>2 DEF IsPrefix
    <3>3. e.w = <<>> \/ e.w[Len(e.w)] = "LF"
      BY <1>1, <2>2 DEF Wrote
    <3>4. LineStart(e.w, Len(e.w) + 1)
      BY <1>2, <3>3 DEF LineStart
    <3>. QED  BY <1>1, <3>1, <3>2, <3>4
  <2>. QED  BY <2>1, <2>2
<1>9. f \in Writers /\ f.w \in Seq(Octets)
  BY <1>8, WroteTypes
<1>10. r \in Writers /\ r.closed /\ r.w = f.w \o Terminator
  BY Zenon, <1>9, <1>c, CloseIs
<1>11. IsPrefix(f.w, r.w) /\ r.w \in Seq(Octets)
  BY SMTT(20), <1>5, <1>9, <1>10, BeginsConcat
<1>12. IsPrefix(d.w, r.w)
  <2>1. IsPrefix(d.w, f.w)
    BY <1>1, <1>2, <1>4, <1>8, <1>9, BeginsTransitive
  <2>. QED  BY SMTT(20), <1>4, <1>9, <1>11, <2>1, BeginsTransitive
<1>13. Stuffed(f.w) /\ Unstuffed(f.w) = Complete(c)
  BY <1>8 DEF Wrote
<1>. QED  BY Zenon, <1>8, <1>9, <1>10, <1>12, <1>13

(***************************************************************************)
(* The invariant.                                                          *)
(***************************************************************************)
LEMMA StartDotsKept ==
    ASSUME NEW s \in Seq(Octets), NEW t \in Seq(Octets), IsPrefix(s, t), NEW i \in StartDots(s)
    PROVE  i \in StartDots(t) /\ i \in 1..Len(s)
BY EndDotsIn, StartDotsBegins

\* What was read stays what the stream says as the stream grows.
LEMMA GotGrows ==
    ASSUME NEW s \in Seq(Octets), NEW t \in Seq(Octets), IsPrefix(s, t), NEW o, NEW c, Got(o, s, c)
    PROVE  Got(o, t, c)
<1>1. c \in 0..Len(s) /\ c \in 0..Len(t) /\ Len(s) <= Len(t) /\ \A i \in 1..Len(s) : t[i] = s[i]
  BY DEF Got, IsPrefix
<1>2. o = Upto(t, c)
  BY <1>1, UptoOf DEF Got
<1>3. Clear(t, c)
  <2>1. SUFFICES ASSUME NEW i \in StartDots(t), i <= c
                 PROVE  i < Len(t) /\ t[i + 1] \notin {"CR", "LF"}
    BY DEF Clear
  <2>2. i \in 1..Len(s)
    BY <1>1, <2>1, EndDotsIn
  <2>3. i \in StartDots(s)
    BY <2>2, StartDotsBegins
  <2>4. i < Len(s) /\ s[i + 1] \notin {"CR", "LF"}
    BY <2>1, <2>3 DEF Got, Clear
  <2>. QED  BY <1>1, <2>2, <2>4
<1>4. Plain(t, c)
  <2>1. SUFFICES ASSUME NEW i \in 1..(c - 1), t[i] = "CR", t[i + 1] = "."
                 PROVE  /\ i + 2 <= Len(t) /\ t[i + 2] # "LF"
                        /\ t[i + 2] = "CR" => i + 3 <= Len(t) /\ t[i + 3] # "LF"
    BY DEF Plain
  <2>2. s[i] = "CR" /\ s[i + 1] = "."
    BY <1>1, <2>1
  <2>3. /\ i + 2 <= Len(s) /\ s[i + 2] # "LF"
        /\ s[i + 2] = "CR" => i + 3 <= Len(s) /\ s[i + 3] # "LF"
    BY <2>2 DEF Got, Plain
  <2>. QED  BY <1>1, <2>3
<1>. QED  BY <1>1, <1>2, <1>3, <1>4 DEF Got

\* More octets sent or arrived leave the reader right.
LEMMA ReaderGrows ==
    ASSUME NEW s \in Seq(Octets), NEW t \in Seq(Octets), IsPrefix(s, t),
           NEW a \in Nat, NEW b \in Nat, a <= Len(s), a <= b,
           NEW r, NEW o, ReaderAt(r, o, s, a)
    PROVE  ReaderAt(r, o, t, b)
<1>1. r \in Readers /\ r.consumed \in Nat /\ r.consumed <= a
  BY DEF ReaderAt, Readers
<1>2. Len(s) <= Len(t) /\ \A i \in 1..Len(s) : t[i] = s[i]
  BY DEF IsPrefix
<1>3. \A c : Got(o \o r.p, s, c) => Got(o \o r.p, t, c)
  BY GotGrows
<1>4. ASSUME ~r.done
      PROVE  /\ r.err = "none"
             /\ Got(o \o r.p, t, r.consumed)
             /\ r.atLineStart <=> LineStart(t, r.consumed + 1)
             /\ r.previousCR <=> (r.consumed > 0 /\ t[r.consumed] = "CR")
  <2>1. /\ r.err = "none"
        /\ Got(o \o r.p, s, r.consumed)
        /\ r.atLineStart <=> LineStart(s, r.consumed + 1)
        /\ r.previousCR <=> (r.consumed > 0 /\ s[r.consumed] = "CR")
    BY <1>4 DEF ReaderAt
  <2>2. LineStart(s, r.consumed + 1) <=> LineStart(t, r.consumed + 1)
    BY <1>1, LineStartBegins
  <2>3. r.consumed > 0 => s[r.consumed] = t[r.consumed]
    BY <1>1, <1>2
  <2>. QED  BY <1>3, <2>1, <2>2, <2>3
<1>5. ASSUME r.done
      PROVE  r.err # "none" /\ \E c \in Nat : Got(o \o r.p, t, c)
  <2>1. r.err # "none" /\ \E c \in Nat : Got(o \o r.p, s, c)
    BY <1>5 DEF ReaderAt
  <2>. QED  BY <1>3, <2>1
<1>6. ASSUME r.err = "EOF"
      PROVE  Got(o \o r.p, t, r.consumed - 3) /\ EndsAt(t, r.consumed - 3)
  <2>. DEFINE c == r.consumed - 3
  <2>1. Got(o \o r.p, s, c) /\ EndsAt(s, c)
    BY <1>6 DEF ReaderAt
  <2>. HIDE DEF c
  <2>2. c \in Nat /\ c + 3 <= Len(s) /\ LineStart(s, c + 1)
        /\ s[c + 1] = "." /\ s[c + 2] = "CR" /\ s[c + 3] = "LF"
    BY <2>1 DEF EndsAt
  <2>3. t[c + 1] = "." /\ t[c + 2] = "CR" /\ t[c + 3] = "LF" /\ c + 3 <= Len(t)
    BY <1>2, <2>2
  <2>4. LineStart(t, c + 1)
    BY <2>2, LineStartBegins
  <2>5. EndsAt(t, c)
    BY <2>2, <2>3, <2>4 DEF EndsAt
  <2>. QED  BY <1>3, <2>1, <2>5 DEF c
<1>7. ASSUME r.err = "bareLFTerminator"
      PROVE  \E i \in StartDots(t) : i < Len(t) /\ t[i + 1] = "LF"
  <2>1. PICK i \in StartDots(s) : i < Len(s) /\ s[i + 1] = "LF"
    BY <1>7 DEF ReaderAt
  <2>2. i \in StartDots(t) /\ i \in 1..Len(s)
    BY StartDotsKept
  <2>3. i < Len(t) /\ t[i + 1] = "LF"
    BY <1>2, <2>1, <2>2
  <2>. QED  BY <2>2, <2>3
<1>8. ASSUME r.err = "malformedTerminator"
      PROVE  \/ \E i \in StartDots(t) : i + 2 <= Len(t) /\ t[i + 1] = "CR" /\ t[i + 2] # "LF"
             \/ \E i \in Nat \ {0} : i < Len(t) /\ t[i] = "CR" /\ t[i + 1] = "."
  <2>1. CASE \E i \in StartDots(s) : i + 2 <= Len(s) /\ s[i + 1] = "CR" /\ s[i + 2] # "LF"
    <3>1. PICK i \in StartDots(s) : i + 2 <= Len(s) /\ s[i + 1] = "CR" /\ s[i + 2] # "LF"
      BY <2>1
    <3>2. i \in StartDots(t) /\ i \in 1..Len(s)
      BY StartDotsKept
    <3>3. i + 2 <= Len(t) /\ t[i + 1] = "CR" /\ t[i + 2] # "LF"
      BY <1>2, <3>1, <3>2
    <3>. QED  BY <3>2, <3>3
  <2>2. CASE \E i \in Nat \ {0} : i < Len(s) /\ s[i] = "CR" /\ s[i + 1] = "."
    <3>1. PICK i \in Nat \ {0} : i < Len(s) /\ s[i] = "CR" /\ s[i + 1] = "."
      BY <2>2
    <3>2. i < Len(t) /\ t[i] = "CR" /\ t[i + 1] = "."
      BY <1>2, <3>1
    <3>. QED  BY <3>2
  <2>. QED  BY <1>8, <2>1, <2>2 DEF ReaderAt
<1>9. r.consumed <= b
  BY <1>1
<1>. QED  BY <1>1, <1>4, <1>5, <1>6, <1>7, <1>8, <1>9, Zenon DEF ReaderAt

\* What the invariant says of the wire.
LEMMA InvWire ==
    ASSUME Inv
    PROVE  Wire /\ raw \in Seq(Octets) /\ arrived \in Nat /\ arrived <= Len(raw)
BY DEF Inv, Types, Wire, Writers, raw

\* It holds initially,
LEMMA InvInit ==
    ASSUME Init
    PROVE  Inv
<1>1. raw = <<>> /\ <<>> \in Seq(Octets) /\ Len(<<>>) = 0
  BY DEF Init, NewDotStuffWriter, raw
<1>2. writer \in Writers /\ ~writer.closed /\ ~writer.pendingCR /\ writer.w = <<>>
      /\ writer.atLineStart /\ ~writer.wroteAny
  BY DEF Init, NewDotStuffWriter, Writers
<1>3. Types
  <2>1. arrived \in 0..Len(raw) /\ content \in Seq(Octets) /\ out \in Seq(Octets)
    BY <1>1 DEF Init
  <2>2. cut \in BOOLEAN
    BY Zenon DEF Init
  <2>3. following \in {<<>>, <<".">>, <<"x">>} /\ status \in {"more"} \union Errors
        /\ sender \in {"writer", "foreign"}
    BY Zenon DEF Init
  <2>. QED  BY <1>2, <2>1, <2>2, <2>3 DEF Types
<1>4. text = Text(raw)
  BY <1>1 DEF Init
<1>5. WriterInv
  <2>1. content = <<>> /\ following = <<>>
    BY DEF Init
  <2>2. Stuffed(<<>>) /\ LineStart(<<>>, Len(<<>>) + 1)
    <3>1. StartDots(<<>>) = {} /\ 1..Len(<<>>) = {}
      BY <1>1 DEF StartDots
    <3>. QED  BY <1>1, <3>1 DEF Stuffed, LineStart
  <2>3. Wrote(writer, <<>>)
    BY <1>2, <2>2, UnstuffedEmpty DEF Wrote
  <2>4. Normalised(content) = <<>> /\ ~EndsCR(content) /\ content \in Seq(Octets)
    BY <1>1, <2>1, NormalisedEmpty DEF EndsCR
  <2>5. WriterOpen(writer, content)
    BY <2>3, <2>4, WroteIsOpen
  <2>. QED  BY <1>2, <2>1, <2>5 DEF WriterInv
<1>6. ReaderInv
  <2>. DEFINE r == NewDotUnstuffReader
  <2>1. reader = r /\ out = <<>> /\ status = "more" /\ arrived = 0
    BY DEF Init
  <2>2. r \in Readers /\ r.consumed = 0 /\ r.err = "none" /\ r.p = <<>>
    BY DEF NewDotUnstuffReader, Readers
  <2>3. r.atLineStart /\ ~r.previousCR /\ ~r.done /\ ~r.blocked
    BY DEF NewDotUnstuffReader
  <2>. HIDE DEF r
  <2>4. out \o r.p = <<>>
    BY <1>1, <2>1, <2>2, ConcatEmptySeq
  <2>5. Got(<<>>, raw, 0)
    <3>1. Upto(raw, 0) = <<>>
      BY Zenon, <1>1, UptoZero
    <3>2. Clear(raw, 0) /\ Plain(raw, 0)
      <4>1. StartDots(raw) = {} /\ 1..(0 - 1) = {}
        BY <1>1 DEF StartDots
      <4>. QED  BY <4>1 DEF Clear, Plain
    <3>. QED  BY <1>1, <3>1, <3>2 DEF Got
  <2>6. LineStart(raw, 0 + 1) /\ 0 <= arrived
    BY <2>1 DEF LineStart
  <2>7. ReaderAt(r, out, raw, arrived)
    BY SMTT(20), <2>2, <2>3, <2>4, <2>5, <2>6 DEF ReaderAt
  <2>. QED  BY <2>1, <2>2, <2>3, <2>7 DEF ReaderInv, ReaderOK
<1>. QED  BY <1>3, <1>4, <1>5, <1>6 DEF Inv

\* The reader's part, when only the wire grows.
LEMMA ReaderInvGrows ==
    ASSUME Inv, raw' \in Seq(Octets), IsPrefix(raw, raw'), arrived' \in Nat, arrived <= arrived',
           UNCHANGED <<reader, out, status>>
    PROVE  ReaderInv'
<1>1. raw \in Seq(Octets) /\ arrived \in Nat /\ arrived <= Len(raw)
  BY InvWire
<1>2. ReaderAt(reader, out, raw, arrived)
  BY DEF Inv, ReaderInv, ReaderOK
<1>3. ReaderAt(reader, out, raw', arrived')
  BY <1>1, <1>2, ReaderGrows
<1>4. reader' = reader /\ out' = out /\ status' = status
  OBVIOUS
<1>5. ReaderOK(reader, out)'
  BY <1>3, <1>4 DEF ReaderOK
<1>. QED  BY <1>4, <1>5 DEF Inv, ReaderInv

\* Write keeps the invariant and only appends to the wire.
LEMMA WriteInv ==
    ASSUME Inv, NEW p \in Chunks, Write(p)
    PROVE  Inv' /\ IsPrefix(raw, raw')
<1>. DEFINE d == WriteLoop(writer, p)
<1>1. sender = "writer" /\ ~writer.closed /\ writer' = d /\ text' = Text(d.w)
      /\ content' = content \o p
      /\ UNCHANGED <<sender, following, arrived, cut, reader, out, status>>
  BY DEF Write, Sends
<1>2. p \in Seq(Octets)
  <2>1. PICK n \in 1..MaxChunk : p \in [1..n -> Octets]
    BY DEF Chunks
  <2>2. n \in Nat
    OBVIOUS
  <2>. QED  BY <2>1, <2>2, SeqDef
<1>3. content \in Seq(Octets) /\ following = <<>> /\ WriterOpen(writer, content)
  BY <1>1 DEF Inv, Types, WriterInv
<1>4. WriterOpen(d, content \o p) /\ IsPrefix(writer.w, d.w)
  BY <1>2, <1>3, WriteLoopOK
<1>. HIDE DEF d
<1>5. d \in Writers /\ d.w \in Seq(Octets)
  BY <1>4 DEF WriterOpen, Writers
<1>6. ~d.closed
  <2>1. PICK n \in Seq(Octets) : Wrote([d EXCEPT !.pendingCR = FALSE], n)
    BY <1>4 DEF WriterOpen
  <2>2. [d EXCEPT !.pendingCR = FALSE].closed = d.closed
    BY <1>5 DEF Writers
  <2>. QED  BY <2>1, <2>2 DEF Wrote
<1>7. raw' = d.w /\ IsPrefix(raw, raw')
  BY <1>1, <1>4 DEF raw
<1>8. raw \in Seq(Octets) /\ arrived \in Nat /\ arrived <= Len(raw)
  BY InvWire
<1>9. ReaderInv'
  BY SMTT(20), <1>1, <1>5, <1>7, <1>8, ReaderInvGrows
<1>10. Types'
  <2>1. content' \in Seq(Octets)
    BY <1>1, <1>2, <1>3
  <2>2. arrived' \in 0..Len(raw')
    BY <1>1, <1>5, <1>7, <1>8 DEF IsPrefix
  <2>. QED  BY <1>1, <1>5, <2>1, <2>2 DEF Inv, Types
<1>11. WriterInv'
  BY <1>1, <1>3, <1>4, <1>6 DEF WriterInv
<1>12. text' = Text(raw')
  BY <1>1, <1>7
<1>. QED  BY SMTT(20), <1>7, <1>9, <1>10, <1>11, <1>12 DEF Inv

\* So does Close,
LEMMA CloseInv ==
    ASSUME Inv, Close
    PROVE  Inv' /\ IsPrefix(raw, raw')
<1>. DEFINE d == Ended(LineEnded(Released(writer)))
<1>1. sender = "writer" /\ ~writer.closed /\ writer' = d /\ text' = Text(d.w)
      /\ UNCHANGED <<sender, content, following, arrived, cut, reader, out, status>>
  BY DEF Close, Sends, Ended, LineEnded, Released
<1>3. content \in Seq(Octets) /\ following = <<>> /\ WriterOpen(writer, content)
  BY <1>1 DEF Inv, Types, WriterInv
<1>4. /\ d \in Writers /\ d.closed
      /\ IsPrefix(writer.w, d.w)
      /\ \E b \in Seq(Octets) :
            /\ d.w = b \o Terminator
            /\ Stuffed(b)
            /\ LineStart(b, Len(b) + 1)
            /\ Unstuffed(b) = Complete(content)
  BY <1>3, CloseOK
<1>. HIDE DEF d
<1>5. d.w \in Seq(Octets)
  BY Zenon, <1>4 DEF Writers
<1>6. WriterClosed(d, content, <<>>)
  <2>1. PICK b \in Seq(Octets) :
            /\ d.w = b \o Terminator
            /\ Stuffed(b)
            /\ LineStart(b, Len(b) + 1)
            /\ Unstuffed(b) = Complete(content)
    BY <1>4
  <2>2. d.w = d.w \o <<>>
    BY <1>5, ConcatEmptySeq
  <2>3. d.w = b \o Terminator \o <<>>
    BY <2>1, <2>2
  <2>. QED  BY <1>4, <2>1, <2>3 DEF WriterClosed
<1>7. raw' = d.w /\ IsPrefix(raw, raw')
  BY <1>1, <1>4 DEF raw
<1>8. raw \in Seq(Octets) /\ arrived \in Nat /\ arrived <= Len(raw)
  BY InvWire
<1>9. ReaderInv'
  BY SMTT(20), <1>1, <1>5, <1>7, <1>8, ReaderInvGrows
<1>10. Types'
  <2>2. arrived' \in 0..Len(raw')
    BY <1>1, <1>5, <1>7, <1>8 DEF IsPrefix
  <2>. QED  BY <1>1, <1>4, <2>2 DEF Inv, Types
<1>11. WriterInv'
  BY <1>1, <1>3, <1>4, <1>6 DEF WriterInv
<1>12. text' = Text(raw')
  BY <1>1, <1>7
<1>. QED  BY SMTT(20), <1>7, <1>9, <1>10, <1>11, <1>12 DEF Inv

\* One octet more on the wire.
LEMMA SendOne ==
    ASSUME Inv, NEW b \in Octets, NEW d, d = [writer EXCEPT !.w = Append(@, b)]
    PROVE  /\ d \in Writers
           /\ d.w = Append(raw, b)
           /\ d.closed = writer.closed
           /\ IsPrefix(raw, d.w)
           /\ d.w \in Seq(Octets) /\ Len(d.w) = Len(raw) + 1
<1>1. writer \in Writers /\ raw \in Seq(Octets) /\ raw = writer.w
  BY InvWire DEF Inv, Types, raw
<1>. DEFINE n == Append(raw, b)
<1>2. n \in Seq(Octets) /\ Len(n) = Len(raw) + 1 /\ \A i \in 1..Len(raw) : n[i] = raw[i]
  BY <1>1, AppendProperties
<1>3. IsPrefix(raw, n)
  BY <1>1, <1>2 DEF IsPrefix
<1>4. d = [writer EXCEPT !.w = n]
  BY <1>1
<1>. HIDE DEF n
<1>5. d \in Writers /\ d.w = n /\ d.closed = writer.closed
  BY Zenon, <1>1, <1>2, <1>4 DEF Writers
<1>. QED  BY Zenon, <1>2, <1>3, <1>5 DEF n

\* ... the command sent after the message,
LEMMA NextCommandInv ==
    ASSUME Inv, NextCommand
    PROVE  Inv' /\ IsPrefix(raw, raw')
<1>1. PICK b \in {".", "x"} : following' = <<b>> /\ Sends([writer EXCEPT !.w = Append(@, b)])
  BY Zenon DEF NextCommand
<1>. DEFINE d == [writer EXCEPT !.w = Append(@, b)]
<1>2. sender = "writer" /\ writer.closed /\ following = <<>> /\ writer' = d /\ text' = Text(d.w)
      /\ UNCHANGED <<sender, content, arrived, cut, reader, out, status>>
  BY <1>1 DEF NextCommand, Sends
<1>3. b \in Octets
  BY DEF Octets
<1>4. d \in Writers /\ d.w = Append(raw, b) /\ IsPrefix(raw, d.w) /\ d.w \in Seq(Octets)
      /\ Len(d.w) = Len(raw) + 1
  BY Zenon, <1>3, SendOne
<1>5. d.closed = writer.closed
  BY <1>3, SendOne
<1>. HIDE DEF d
<1>7. raw' = d.w /\ IsPrefix(raw, raw')
  BY <1>2, <1>4 DEF raw
<1>8. raw \in Seq(Octets) /\ arrived \in Nat /\ arrived <= Len(raw)
  BY InvWire
<1>9. ReaderInv'
  BY SMTT(20), <1>2, <1>4, <1>7, <1>8, ReaderInvGrows
<1>10. Types'
  <2>1. following' \in {<<>>, <<".">>, <<"x">>}
    BY <1>1
  <2>2. arrived' \in 0..Len(raw')
    BY <1>2, <1>4, <1>7, <1>8
  <2>. QED  BY <1>2, <1>4, <2>1, <2>2 DEF Inv, Types
<1>11. WriterInv'
  <2>1. WriterClosed(writer, content, <<>>)
    BY <1>2 DEF Inv, WriterInv
  <2>2. PICK s \in Seq(Octets) :
            /\ writer.w = s \o Terminator \o <<>>
            /\ Stuffed(s)
            /\ LineStart(s, Len(s) + 1)
            /\ Unstuffed(s) = Complete(content)
    BY <2>1 DEF WriterClosed
  <2>. DEFINE u == s \o Terminator
  <2>3. u \in Seq(Octets)
    BY DEF Terminator, Octets
  <2>. HIDE DEF u
  <2>4. raw = u
    BY <2>2, <2>3, ConcatEmptySeq DEF raw, u
  <2>5. d.w = u \o <<b>>
    BY SMTT(20), <1>3, <1>4, <2>3, <2>4, AppendIsConcat
  <2>6. WriterClosed(d, content, <<b>>)
    BY <1>4, <2>2, <2>5, Zenon DEF WriterClosed, u
  <2>. QED  BY SMTT(20), <1>1, <1>2, <1>5, <2>6 DEF WriterInv
<1>12. text' = Text(raw')
  BY <1>2, <1>7
<1>. QED  BY SMTT(20), <1>7, <1>9, <1>10, <1>11, <1>12 DEF Inv

\* ... and an octet of another sender.
LEMMA ForeignOctetInv ==
    ASSUME Inv, NEW b \in Octets, ForeignOctet(b)
    PROVE  Inv' /\ IsPrefix(raw, raw')
<1>. DEFINE d == [writer EXCEPT !.w = Append(@, b)]
<1>2. sender = "foreign" /\ writer' = d /\ text' = Text(d.w) /\ arrived' = arrived + 1
      /\ UNCHANGED <<sender, content, following, cut, reader, out, status>>
  BY DEF ForeignOctet, Sends
<1>4. d \in Writers /\ d.w = Append(raw, b) /\ IsPrefix(raw, d.w) /\ d.w \in Seq(Octets)
      /\ Len(d.w) = Len(raw) + 1
  BY Zenon, SendOne
<1>. HIDE DEF d
<1>7. raw' = d.w /\ IsPrefix(raw, raw')
  BY <1>2, <1>4 DEF raw
<1>8. raw \in Seq(Octets) /\ arrived \in Nat /\ arrived <= Len(raw)
  BY InvWire
<1>9. ReaderInv'
  BY SMTT(20), <1>2, <1>4, <1>7, <1>8, ReaderInvGrows
<1>10. Types'
  <2>2. arrived' \in 0..Len(raw')
    BY <1>2, <1>4, <1>7, <1>8
  <2>. QED  BY <1>2, <1>4, <2>2 DEF Inv, Types
<1>11. WriterInv'
  BY <1>2 DEF WriterInv
<1>12. text' = Text(raw')
  BY <1>2, <1>7
<1>. QED  BY <1>7, <1>9, <1>10, <1>11, <1>12 DEF Inv

\* The arrival of an octet keeps the invariant,
LEMMA ArriveInv ==
    ASSUME Inv, Arrive
    PROVE  Inv'
<1>1. arrived < Len(raw) /\ arrived' = arrived + 1
      /\ UNCHANGED <<sender, content, writer, text, following, cut, reader, out, status>>
  BY DEF Arrive
<1>2. raw \in Seq(Octets) /\ arrived \in Nat /\ arrived <= Len(raw)
  BY InvWire
<1>3. raw' = raw
  BY <1>1 DEF raw
<1>4. IsPrefix(raw, raw')
  BY <1>2, <1>3 DEF IsPrefix
<1>5. ReaderInv'
  BY SMTT(20), <1>1, <1>2, <1>3, <1>4, ReaderInvGrows
<1>6. Types'
  <2>1. arrived' \in 0..Len(raw')
    BY <1>1, <1>2, <1>3
  <2>. QED  BY <1>1, <2>1 DEF Inv, Types
<1>7. WriterInv'
  BY <1>1 DEF Inv, WriterInv
<1>. QED  BY SMTT(20), <1>1, <1>3, <1>5, <1>6, <1>7 DEF Inv

\* ... the loss of the connection does,
LEMMA LoseInv ==
    ASSUME Inv, Lose
    PROVE  Inv'
<1>1. cut' = TRUE
      /\ UNCHANGED <<sender, content, writer, text, following, arrived, reader, out, status>>
  BY DEF Lose
<1>2. raw' = raw
  BY <1>1 DEF raw
<1>3. cut' \in BOOLEAN
  BY <1>1, Zenon
<1>4. Types'
  BY <1>1, <1>2, <1>3 DEF Inv, Types
<1>5. WriterInv'
  BY <1>1 DEF Inv, WriterInv
<1>6. ReaderOK(reader, out)'
  BY <1>1, <1>2 DEF Inv, ReaderInv, ReaderOK
<1>7. ReaderInv'
  BY <1>1, <1>6 DEF Inv, ReaderInv
<1>. QED  BY SMTT(20), <1>1, <1>2, <1>4, <1>5, <1>7 DEF Inv

\* ... a step of nobody does,
LEMMA StutterInv ==
    ASSUME Inv, UNCHANGED vars
    PROVE  Inv'
<1>1. UNCHANGED <<sender, content, writer, text, following, arrived, cut, reader, out, status>>
  BY DEF vars
<1>2. raw' = raw
  BY <1>1 DEF raw
<1>4. Types'
  BY <1>1, <1>2 DEF Inv, Types
<1>5. WriterInv'
  BY <1>1 DEF Inv, WriterInv
<1>6. ReaderOK(reader, out)'
  BY <1>1, <1>2 DEF Inv, ReaderInv, ReaderOK
<1>7. ReaderInv'
  BY <1>1, <1>6 DEF Inv, ReaderInv
<1>. QED  BY SMTT(20), <1>1, <1>2, <1>4, <1>5, <1>7 DEF Inv

\* A call of Read that returns, with what it found.
LEMMA ReadFacts ==
    ASSUME Inv, NEW n, Read(n)
    PROVE  \E r : /\ ReaderOK(r, out)
                  /\ ~r.blocked
                  /\ reader' = [r EXCEPT !.p = <<>>]
                  /\ out' = out \o r.p
                  /\ status' = IF r.done /\ r.p = <<>> THEN r.err ELSE "more"
<1>. DEFINE r == ReadLoop(reader, n)
<1>1. /\ ~r.blocked
      /\ reader' = [r EXCEPT !.p = <<>>]
      /\ out' = out \o r.p
      /\ status' = IF r.done /\ r.p = <<>> THEN r.err ELSE "more"
  BY DEF Read
<1>2. Wire /\ out \in Seq(Octets) /\ ReaderOK(reader, out)
  BY InvWire DEF Inv, Types, ReaderInv
<1>3. ReaderOK(r, out)
  BY <1>2, ReadLoopOK
<1>. HIDE DEF r
<1>. QED  BY Zenon, <1>1, <1>3

\* ... and a Read of any buffer does.
LEMMA ReadInv ==
    ASSUME Inv, NEW n, Read(n)
    PROVE  Inv'
<1>1. UNCHANGED <<sender, content, writer, text, following, arrived, cut>>
  BY DEF Read
<1>2. PICK r : /\ ReaderOK(r, out)
               /\ ~r.blocked
               /\ reader' = [r EXCEPT !.p = <<>>]
               /\ out' = out \o r.p
               /\ status' = IF r.done /\ r.p = <<>> THEN r.err ELSE "more"
  BY ReadFacts
<1>3. r \in Readers /\ r.p \in Seq(Octets) /\ r.err \in {"none"} \union Errors
      /\ (r.done => r.err # "none")
  BY <1>2 DEF ReaderOK, ReaderAt, Readers
<1>. DEFINE q == [r EXCEPT !.p = <<>>]
<1>4. q \in Readers /\ q.p = <<>> /\ q.consumed = r.consumed /\ q.err = r.err
      /\ q.atLineStart = r.atLineStart /\ q.previousCR = r.previousCR
      /\ q.done = r.done
  <2>1. <<>> \in Seq(Octets)
    OBVIOUS
  <2>2. q \in Readers
    BY Zenon, <1>3, <2>1 DEF Readers
  <2>3. q.p = <<>> /\ q.consumed = r.consumed /\ q.err = r.err
    BY <1>3 DEF Readers
  <2>4. q.atLineStart = r.atLineStart /\ q.previousCR = r.previousCR /\ q.done = r.done
    BY <1>3, Zenon DEF Readers
  <2>. QED  BY <2>2, <2>3, <2>4, Zenon
<1>5. ~q.blocked
  BY <1>2, <1>3 DEF Readers
<1>. HIDE DEF q
<1>6. reader' = q /\ raw' = raw
  BY <1>1, <1>2 DEF q, raw
<1>7. out \in Seq(Octets) /\ out' \in Seq(Octets) /\ out' \o q.p = out \o r.p
  <2>1. out \in Seq(Octets)
    BY DEF Inv, Types
  <2>2. out' \in Seq(Octets)
    BY <1>2, <1>3, <2>1
  <2>3. out' \o <<>> = out'
    BY <2>2, ConcatEmptySeq
  <2>. QED  BY SMTT(20), <1>2, <1>4, <2>1, <2>2, <2>3
<1>8. ReaderAt(q, out', raw, arrived)
  <2>1. ReaderAt(r, out, raw, arrived)
    BY <1>2 DEF ReaderOK
  <2>. QED  BY <1>4, <1>7, <2>1, Zenon DEF ReaderAt
<1>9. ReaderOK(reader, out)'
  BY <1>1, <1>6, <1>8 DEF ReaderOK
<1>10. status' \in {"more"} \union Errors /\ (status' # "more" => q.done /\ status' = q.err)
  <2>1. CASE r.done /\ r.p = <<>>
    BY <1>2, <1>3, <1>4, <2>1
  <2>2. CASE ~(r.done /\ r.p = <<>>)
    BY <1>2, <2>2
  <2>. QED  BY <2>1, <2>2
<1>11. ReaderInv'
  BY SMTT(20), <1>4, <1>5, <1>6, <1>9, <1>10 DEF ReaderInv
<1>12. Types'
  BY SMTT(20), <1>1, <1>6, <1>7, <1>10 DEF Inv, Types
<1>13. WriterInv'
  BY <1>1 DEF Inv, WriterInv
<1>. QED  BY SMTT(20), <1>1, <1>6, <1>11, <1>12, <1>13 DEF Inv

\* Every step keeps the invariant.
LEMMA InvNext ==
    ASSUME Inv, [Next]_vars
    PROVE  Inv'
<1>1. ASSUME NEW p \in Chunks, Write(p) PROVE Inv'
  BY <1>1, WriteInv
<1>2. CASE Close
  BY <1>2, CloseInv
<1>3. CASE NextCommand
  BY <1>3, NextCommandInv
<1>4. ASSUME NEW b \in Octets, ForeignOctet(b) PROVE Inv'
  BY <1>4, ForeignOctetInv
<1>5. CASE Arrive
  BY <1>5, ArriveInv
<1>6. CASE Lose
  BY <1>6, LoseInv
<1>7. ASSUME NEW n \in 1..MaxRead, Read(n) PROVE Inv'
  BY <1>7, ReadInv
<1>8. CASE UNCHANGED vars
  BY <1>8, StutterInv
<1>. QED  BY SMTT(20), <1>1, <1>2, <1>3, <1>4, <1>5, <1>6, <1>7, <1>8 DEF Next

(***************************************************************************)
(* What a stream that has been closed looks like to its reader.            *)
(***************************************************************************)
\* x is nothing, or an octet that cannot end a line.
Rest(x) == x \in Seq(Octets) /\ Len(x) \in {0, 1} /\ (Len(x) = 1 => x[1] \in {".", "x"})

\* A stream of b, the terminator and x.
Whole(t, b, x) == t = b \o Terminator \o x

\* What the model sends after a message is such a rest.
LEMMA RestIs ==
    ASSUME NEW x \in {<<>>, <<".">>, <<"x">>}
    PROVE  Rest(x)
<1>1. CASE x = <<>>
  BY <1>1 DEF Rest
<1>2. CASE x = <<".">>
  BY <1>2 DEF Rest, Octets
<1>3. CASE x = <<"x">>
  BY <1>3 DEF Rest, Octets
<1>. QED  BY <1>1, <1>2, <1>3, Zenon

\* The octets at the end of a closed stream.
LEMMA ClosedShape ==
    ASSUME NEW b \in Seq(Octets), NEW x, Rest(x), NEW t, Whole(t, b, x)
    PROVE  /\ t \in Seq(Octets) /\ IsPrefix(b, t)
           /\ Len(t) = Len(b) + 3 + Len(x) /\ Len(x) \in {0, 1}
           /\ t[Len(b) + 1] = "." /\ t[Len(b) + 2] = "CR" /\ t[Len(b) + 3] = "LF"
           /\ Len(x) = 1 => t[Len(b) + 4] = x[1] /\ x[1] \in {".", "x"}
           /\ SubSeq(t, Len(b) + 4, Len(t)) = x
<1>. DEFINE u == b \o Terminator
            L == Len(b)
<1>1. Terminator \in Seq(Octets) /\ Len(Terminator) = 3
      /\ Terminator[1] = "." /\ Terminator[2] = "CR" /\ Terminator[3] = "LF"
  BY DEF Terminator, Octets
<1>2. x \in Seq(Octets) /\ Len(x) \in {0, 1} /\ (Len(x) = 1 => x[1] \in {".", "x"})
  BY DEF Rest
<1>3. u \in Seq(Octets) /\ Len(u) = L + 3
      /\ \A i \in 1..(L + 3) : u[i] = IF i <= L THEN b[i] ELSE Terminator[i - L]
  <2>1. u \in Seq(Octets) /\ Len(u) = Len(b) + Len(Terminator)
        /\ \A i \in 1..(Len(b) + Len(Terminator)) :
              u[i] = IF i <= Len(b) THEN b[i] ELSE Terminator[i - Len(b)]
    BY Zenon, <1>1, ConcatProperties
  <2>. HIDE DEF u
  <2>. QED  BY <1>1, <2>1
<1>4. u[L + 1] = "." /\ u[L + 2] = "CR" /\ u[L + 3] = "LF" /\ \A i \in 1..L : u[i] = b[i]
  <2>1. (L + 1) - L = 1 /\ (L + 2) - L = 2 /\ (L + 3) - L = 3
    OBVIOUS
  <2>2. L + 1 \in 1..(L + 3) /\ L + 2 \in 1..(L + 3) /\ L + 3 \in 1..(L + 3)
        /\ ~(L + 1 <= L) /\ ~(L + 2 <= L) /\ ~(L + 3 <= L)
    OBVIOUS
  <2>3. u[L + 1] = "." /\ u[L + 2] = "CR" /\ u[L + 3] = "LF"
    BY SMTT(20), <1>1, <1>3, <2>1, <2>2
  <2>4. \A i \in 1..L : u[i] = b[i]
    BY <1>3
  <2>. QED  BY <2>3, <2>4
<1>. HIDE DEF u
<1>5. t = u \o x
  BY DEF u, Whole
<1>6. t \in Seq(Octets) /\ Len(t) = (L + 3) + Len(x)
      /\ \A i \in 1..((L + 3) + Len(x)) : t[i] = IF i <= L + 3 THEN u[i] ELSE x[i - (L + 3)]
  <2>1. t \in Seq(Octets) /\ Len(t) = Len(u) + Len(x)
        /\ \A i \in 1..(Len(u) + Len(x)) :
              t[i] = IF i <= Len(u) THEN u[i] ELSE x[i - Len(u)]
    BY Zenon, <1>2, <1>3, <1>5, ConcatProperties
  <2>. QED  BY <1>3, <2>1
<1>7. t[L + 1] = "." /\ t[L + 2] = "CR" /\ t[L + 3] = "LF" /\ \A i \in 1..L : t[i] = b[i]
  BY <1>2, <1>4, <1>6
<1>8. IsPrefix(b, t)
  BY <1>2, <1>6, <1>7 DEF IsPrefix
<1>9. Len(x) = 1 => t[L + 4] = x[1]
  <2>1. (L + 4) - (L + 3) = 1
    OBVIOUS
  <2>. QED  BY <1>6, <2>1
<1>10. SubSeq(t, L + 4, Len(t)) = x
  <2>. DEFINE v == SubSeq(t, L + 4, Len(t))
  <2>1. \A i \in (L + 4)..Len(t) : t[i] \in Octets
    BY <1>6
  <2>2. L + 4 \in Int /\ Len(t) \in Int
    BY <1>6
  <2>3. /\ v \in Seq(Octets)
        /\ Len(v) = IF L + 4 <= Len(t) THEN Len(t) - (L + 4) + 1 ELSE 0
        /\ \A i \in 1..(Len(t) - (L + 4) + 1) : v[i] = t[(L + 4) + i - 1]
    BY <2>1, <2>2, SubSeqProperties
  <2>. HIDE DEF v
  <2>4. Len(v) = Len(x)
    BY SMTT(20), <1>2, <1>6, <2>3
  <2>5. \A i \in 1..Len(v) : v[i] = x[i]
    <3>1. SUFFICES ASSUME NEW i \in 1..Len(v)
                   PROVE  v[i] = x[i]
      OBVIOUS
    <3>2. Len(x) = 1 /\ i = 1
      BY <1>2, <2>4, <3>1
    <3>3. Len(t) - (L + 4) + 1 = 1 /\ (L + 4) + 1 - 1 = L + 4
      BY <1>6, <3>2
    <3>4. v[1] = t[(L + 4) + 1 - 1]
      BY <2>3, <3>3
    <3>. QED  BY SMTT(20), <1>9, <3>2, <3>3, <3>4
  <2>6. v = x
    BY <1>2, <2>3, <2>4, <2>5, SeqEqual
  <2>. QED  BY <2>6 DEF v
<1>. QED  BY SMTT(20), <1>2, <1>6, <1>7, <1>8, <1>9, <1>10

\* A closed stream reads as its body, ends only at its end and is never malformed.
LEMMA ClosedReads ==
    ASSUME NEW b \in Seq(Octets), NEW x, Rest(x), NEW t, Whole(t, b, x),
           Stuffed(b), LineStart(b, Len(b) + 1)
    PROVE  /\ \A o, c : Got(o, t, c) => c <= Len(b) /\ IsPrefix(o, Unstuffed(b))
           /\ \A o, c : Got(o, t, c) /\ EndsAt(t, c) => c = Len(b) /\ o = Unstuffed(b)
           /\ ~ \E i \in StartDots(t) : i < Len(t) /\ t[i + 1] = "LF"
           /\ ~ \E i \in StartDots(t) : i + 2 <= Len(t) /\ t[i + 1] = "CR" /\ t[i + 2] # "LF"
           /\ ~ \E i \in Nat \ {0} : i < Len(t) /\ t[i] = "CR" /\ t[i + 1] = "."
<1>. DEFINE L == Len(b)
<1>1. /\ t \in Seq(Octets) /\ IsPrefix(b, t)
      /\ Len(t) = L + 3 + Len(x) /\ Len(x) \in {0, 1}
      /\ t[L + 1] = "." /\ t[L + 2] = "CR" /\ t[L + 3] = "LF"
      /\ Len(x) = 1 => t[L + 4] = x[1] /\ x[1] \in {".", "x"}
  BY ClosedShape
<1>2. L \in Nat /\ \A i \in 1..L : t[i] = b[i]
  BY <1>1 DEF IsPrefix
<1>a. Len(t) = L + 3 \/ Len(t) = L + 4
  <2>1. Len(t) = L + 3 + Len(x) /\ L \in Nat
    BY <1>1, <1>2
  <2>. HIDE DEF L
  <2>2. CASE Len(x) = 0
    BY ONLY <2>1, <2>2
  <2>3. CASE Len(x) = 1
    BY ONLY <2>1, <2>3
  <2>. QED  BY <1>1, <2>2, <2>3
<1>3. L + 1 \in StartDots(t)
  <2>1. LineStart(t, L + 1)
    BY <1>1, LineStartBegins
  <2>2. L + 1 \in DOMAIN t
    BY <1>1, <1>2
  <2>. QED  BY <1>1, <2>1, <2>2, Zenon DEF StartDots
<1>4. ASSUME NEW i \in StartDots(t)
      PROVE  \/ i \in 1..L /\ i < L /\ t[i + 1] = "."
             \/ i = L + 1
             \/ i = L + 4 /\ Len(t) = L + 4
  <2>1. i \in 1..Len(t) /\ t[i] = "."
    BY <1>1 DEF StartDots
  <2>2. CASE i \in 1..L
    <3>1. i \in StartDots(b)
      BY <1>1, <2>2, StartDotsBegins
    <3>2. i < L /\ b[i + 1] = "."
      BY <3>1 DEF Stuffed
    <3>. QED  BY <1>2, <2>2, <3>2
  <2>3. CASE i \notin 1..L
    <3>1. i = L + 1 \/ i = L + 2 \/ i = L + 3 \/ i = L + 4
      <4>1. L \in Nat
        BY <1>2
      <4>. HIDE DEF L
      <4>. QED  BY ONLY SMTT(20), <1>a, <2>1, <2>3, <4>1
    <3>2. i # L + 2 /\ i # L + 3
      BY <1>1, <2>1
    <3>3. i = L + 4 => Len(t) = L + 4
      <4>1. L \in Nat
        BY <1>2
      <4>. HIDE DEF L
      <4>. QED  BY ONLY SMTT(20), <1>a, <2>1, <4>1
    <3>. QED  BY <3>1, <3>2, <3>3
  <2>. QED  BY <2>2, <2>3
<1>5. ASSUME NEW o, NEW c, Got(o, t, c)
      PROVE  c \in 0..L /\ o = Upto(b, c) /\ IsPrefix(o, Unstuffed(b))
  <2>1. c \in 0..Len(t) /\ o = Upto(t, c) /\ Clear(t, c)
    BY <1>5 DEF Got
  <2>2. ~(L + 1 <= c)
    BY SMTT(20), <1>1, <1>2, <1>3, <2>1 DEF Clear
  <2>3. c \in 0..L
    BY <1>2, <2>1, <2>2
  <2>4. Upto(t, c) = Upto(b, c)
    BY SMTT(20), <1>1, <2>3, UptoOf
  <2>5. IsPrefix(Upto(b, c), Upto(b, L))
    BY <1>2, <2>3, UptoBegins
  <2>. QED  BY SMTT(20), <2>1, <2>3, <2>4, <2>5, UptoAll
<1>6. ASSUME NEW o, NEW c, Got(o, t, c), EndsAt(t, c)
      PROVE  c = L /\ o = Unstuffed(b)
  <2>1. c \in 0..L /\ o = Upto(b, c)
    BY <1>5, <1>6
  <2>2. c + 1 \in StartDots(t)
    <3>1. c + 1 \in DOMAIN t
      BY <1>1, <1>2, <2>1
    <3>. QED  BY <1>6, <3>1 DEF EndsAt, StartDots
  <2>3. t[(c + 1) + 1] = "CR"
    <3>1. (c + 1) + 1 = c + 2
      BY <2>1
    <3>. QED  BY <1>6, <3>1 DEF EndsAt
  <2>4. c + 1 = L + 1 \/ c + 1 = L + 4
    BY SMTT(20), <1>4, <2>2, <2>3
  <2>5. c = L
    BY SMTT(20), <1>2, <2>1, <2>4
  <2>. QED  BY <2>1, <2>5, UptoAll
<1>7. ASSUME NEW i \in StartDots(t), i < Len(t)
      PROVE  t[i + 1] # "LF" /\ (i + 2 <= Len(t) /\ t[i + 1] = "CR" => t[i + 2] = "LF")
  <2>1. CASE t[i + 1] = "."
    BY <2>1
  <2>2. CASE i = L + 1
    <3>1. i + 1 = L + 2 /\ i + 2 = L + 3
      BY <1>2, <2>2
    <3>. QED  BY <1>1, <3>1
  <2>3. CASE i = L + 4 /\ Len(t) = L + 4
    BY <1>2, <1>7, <2>3
  <2>. QED  BY <1>4, <2>1, <2>2, <2>3
<1>8. ASSUME NEW i \in Nat \ {0}, i < Len(t), t[i] = "CR"
      PROVE  t[i + 1] # "."
  <2>1. CASE i \in 1..L
    <3>1. b[i] = "CR"
      BY <1>2, <1>8, <2>1
    <3>2. i < L /\ b[i + 1] = "LF"
      BY <2>1, <3>1 DEF Stuffed
    <3>3. t[i + 1] = "LF"
      BY <1>2, <2>1, <3>2
    <3>. QED  BY <3>3
  <2>2. CASE i \notin 1..L
    <3>1. i = L + 1 \/ i = L + 2 \/ i = L + 3
      <4>1. L \in Nat /\ i \in Nat \ {0} /\ i < Len(t)
        BY <1>2, <1>8
      <4>. HIDE DEF L
      <4>. QED  BY ONLY <1>a, <2>2, <4>1
    <3>2. i = L + 2
      BY SMTT(20), <1>1, <1>8, <3>1
    <3>3. i + 1 = L + 3
      BY <1>2, <3>2
    <3>. QED  BY <1>1, <3>3
  <2>. QED  BY <2>1, <2>2
<1>9. \A i \in StartDots(t) : i \in Nat
  BY <1>1, EndDotsIn
<1>10. \A i \in StartDots(t) : i + 2 <= Len(t) => i < Len(t)
  BY <1>1, <1>9
<1>. QED  BY SMTT(20), <1>5, <1>6, <1>7, <1>8, <1>10

\* ... and one that has not been closed: nothing in it ends the text.
LEMMA OpenReads ==
    ASSUME NEW t \in Seq(Octets), Stuffed(t)
    PROVE  /\ \A o, c : Got(o, t, c) => IsPrefix(o, Unstuffed(t))
           /\ \A c : ~EndsAt(t, c)
           /\ ~ \E i \in StartDots(t) : i < Len(t) /\ t[i + 1] = "LF"
           /\ ~ \E i \in StartDots(t) : i + 2 <= Len(t) /\ t[i + 1] = "CR" /\ t[i + 2] # "LF"
           /\ ~ \E i \in Nat \ {0} : i < Len(t) /\ t[i] = "CR" /\ t[i + 1] = "."
<1>1. ASSUME NEW o, NEW c, Got(o, t, c)
      PROVE  IsPrefix(o, Unstuffed(t))
  <2>1. c \in 0..Len(t) /\ o = Upto(t, c) /\ Len(t) \in 0..Len(t)
    BY <1>1 DEF Got
  <2>. QED  BY <2>1, UptoBegins, UptoAll
<1>2. \A i \in StartDots(t) : t[i + 1] = "."
  BY DEF Stuffed
<1>3. ASSUME NEW c, EndsAt(t, c)
      PROVE  FALSE
  <2>1. c \in Nat /\ c + 3 <= Len(t) /\ LineStart(t, c + 1) /\ t[c + 1] = "." /\ t[c + 2] = "CR"
    BY <1>3 DEF EndsAt
  <2>2. c + 1 \in DOMAIN t /\ (c + 1) + 1 = c + 2
    BY <2>1
  <2>3. c + 1 \in StartDots(t)
    BY <2>1, <2>2, Zenon DEF StartDots
  <2>. QED  BY SMTT(20), <1>2, <2>1, <2>2, <2>3
<1>4. ASSUME NEW i \in Nat \ {0}, i < Len(t), t[i] = "CR"
      PROVE  t[i + 1] # "."
  <2>1. t[i + 1] = "LF"
    BY <1>4 DEF Stuffed
  <2>. QED  BY <2>1
<1>5. \A i \in StartDots(t) : t[i + 1] # "LF" /\ t[i + 1] # "CR"
  BY <1>2
<1>. QED  BY SMTT(20), <1>1, <1>3, <1>4, <1>5

\* What a DotStuffWriter's peer is told.
LEMMA ContentFromInv ==
    ASSUME Inv
    PROVE  ContentExact
<1>1. SUFFICES ASSUME sender = "writer"
               PROVE  /\ IsPrefix(out, Complete(content))
                      /\ status = "EOF" => writer.closed /\ out = Complete(content)
                      /\ status \notin {"malformedTerminator", "bareLFTerminator"}
                      /\ reader.err = "EOF" => SubSeq(raw, reader.consumed + 1, Len(raw)) = following
  BY DEF ContentExact
<1>2. raw \in Seq(Octets) /\ out \in Seq(Octets) /\ content \in Seq(Octets)
  BY SMTT(20), InvWire DEF Inv, Types
<1>3. ReaderAt(reader, out, raw, arrived) /\ reader.p = <<>> /\ reader \in Readers
      /\ (status # "more" => status = reader.err)
  BY DEF Inv, ReaderInv, ReaderOK, ReaderAt
<1>4. out \o reader.p = out
  BY <1>2, <1>3, ConcatEmptySeq
<1>5. \E c : Got(out, raw, c)
  <2>1. CASE reader.done
    BY SMTT(20), <1>3, <1>4, <2>1 DEF ReaderAt
  <2>2. CASE ~reader.done
    BY SMTT(20), <1>3, <1>4, <2>2 DEF ReaderAt
  <2>. QED  BY SMTT(20), <2>1, <2>2
<1>6. reader.err = "EOF" => Got(out, raw, reader.consumed - 3) /\ EndsAt(raw, reader.consumed - 3)
  BY SMTT(20), <1>3, <1>4 DEF ReaderAt
<1>7. reader.err = "bareLFTerminator" =>
         \E i \in StartDots(raw) : i < Len(raw) /\ raw[i + 1] = "LF"
  BY SMTT(20), <1>3 DEF ReaderAt
<1>8. reader.err = "malformedTerminator" =>
         \/ \E i \in StartDots(raw) : i + 2 <= Len(raw) /\ raw[i + 1] = "CR" /\ raw[i + 2] # "LF"
         \/ \E i \in Nat \ {0} : i < Len(raw) /\ raw[i] = "CR" /\ raw[i + 1] = "."
  BY <1>3 DEF ReaderAt
<1>9. Complete(content) = IF Normalised(content) # <<>> /\ Last(Normalised(content)) # "LF"
                          THEN Normalised(content) \o CRLF ELSE Normalised(content)
  BY DEF Complete
<1>10. Normalised(content) \in Seq(Octets) /\ CRLF \in Seq(Octets)
  BY <1>2, NormalisedType DEF CRLF, Octets
<1>11. IsPrefix(Normalised(content), Complete(content)) /\ Complete(content) \in Seq(Octets)
  <2>. DEFINE N == Normalised(content)
  <2>. HIDE DEF N
  <2>1. N \in Seq(Octets)
    BY <1>10 DEF N
  <2>2. IsPrefix(N, N) /\ IsPrefix(N, N \o CRLF) /\ N \o CRLF \in Seq(Octets)
    BY <1>10, <2>1, BeginsConcat DEF IsPrefix
  <2>3. Complete(content) = N \/ Complete(content) = N \o CRLF
    BY <1>9 DEF N
  <2>. QED  BY Zenon, <2>1, <2>2, <2>3 DEF N
<1>12. CASE writer.closed
  <2>1. WriterClosed(writer, content, following)
    BY <1>1, <1>12 DEF Inv, WriterInv
  <2>2. PICK b \in Seq(Octets) :
            /\ writer.w = b \o Terminator \o following
            /\ Stuffed(b)
            /\ LineStart(b, Len(b) + 1)
            /\ Unstuffed(b) = Complete(content)
    BY <2>1 DEF WriterClosed
  <2>3. Whole(raw, b, following)
    BY <2>2 DEF Whole, raw
  <2>4. Rest(following)
    BY RestIs DEF Inv, Types
  <2>5. /\ \A o, c : Got(o, raw, c) => c <= Len(b) /\ IsPrefix(o, Unstuffed(b))
        /\ \A o, c : Got(o, raw, c) /\ EndsAt(raw, c) => c = Len(b) /\ o = Unstuffed(b)
        /\ ~ \E i \in StartDots(raw) : i < Len(raw) /\ raw[i + 1] = "LF"
        /\ ~ \E i \in StartDots(raw) : i + 2 <= Len(raw) /\ raw[i + 1] = "CR" /\ raw[i + 2] # "LF"
        /\ ~ \E i \in Nat \ {0} : i < Len(raw) /\ raw[i] = "CR" /\ raw[i + 1] = "."
    BY SMTT(20), <2>2, <2>3, <2>4, ClosedReads
  <2>6. SubSeq(raw, Len(b) + 4, Len(raw)) = following
    BY <2>3, <2>4, ClosedShape
  <2>7. IsPrefix(out, Complete(content))
    BY <1>5, <2>2, <2>5
  <2>8. reader.err = "EOF" => reader.consumed - 3 = Len(b) /\ out = Complete(content)
    BY <1>6, <2>2, <2>5
  <2>9. ASSUME reader.err = "EOF"
        PROVE  SubSeq(raw, reader.consumed + 1, Len(raw)) = following
    <3>1. reader.consumed \in Nat /\ Len(b) \in Nat
      BY <1>3 DEF Readers
    <3>2. reader.consumed + 1 = Len(b) + 4
      BY <2>8, <2>9, <3>1
    <3>. QED  BY <2>6, <3>2
  <2>10. reader.err \notin {"malformedTerminator", "bareLFTerminator"}
    BY <1>7, <1>8, <2>5, Zenon
  <2>11. status = "EOF" => reader.err = "EOF"
    BY <1>3
  <2>12. status \notin {"malformedTerminator", "bareLFTerminator"}
    BY <1>3, <2>10
  <2>. QED  BY <1>12, <2>7, <2>8, <2>9, <2>11, <2>12
<1>13. CASE ~writer.closed
  <2>1. WriterOpen(writer, content)
    BY <1>1, <1>13 DEF Inv, WriterInv
  <2>2. PICK n \in Seq(Octets) :
             /\ Wrote([writer EXCEPT !.pendingCR = FALSE], n)
             /\ Normalised(content) = IF writer.pendingCR THEN n \o CRLF ELSE n
    BY <2>1 DEF WriterOpen
  <2>3. [writer EXCEPT !.pendingCR = FALSE].w = raw
    <3>1. writer \in Writers
      BY DEF Inv, Types
    <3>. QED  BY <3>1 DEF Writers, raw
  <2>4. Stuffed(raw) /\ Unstuffed(raw) = n
    BY <2>2, <2>3 DEF Wrote
  <2>5. /\ \A o, c : Got(o, raw, c) => IsPrefix(o, Unstuffed(raw))
        /\ \A c : ~EndsAt(raw, c)
        /\ ~ \E i \in StartDots(raw) : i < Len(raw) /\ raw[i + 1] = "LF"
        /\ ~ \E i \in StartDots(raw) : i + 2 <= Len(raw) /\ raw[i + 1] = "CR" /\ raw[i + 2] # "LF"
        /\ ~ \E i \in Nat \ {0} : i < Len(raw) /\ raw[i] = "CR" /\ raw[i + 1] = "."
    BY <1>2, <2>4, OpenReads
  <2>6. IsPrefix(out, n)
    BY <1>5, <2>4, <2>5
  <2>7. IsPrefix(n, Normalised(content))
    <3>1. IsPrefix(n, n) /\ IsPrefix(n, n \o CRLF)
      BY <1>10, BeginsConcat DEF IsPrefix
    <3>. QED  BY <2>2, <3>1
  <2>8. IsPrefix(out, Normalised(content))
    BY SMTT(20), <1>2, <1>10, <2>6, <2>7, BeginsTransitive
  <2>10. IsPrefix(out, Complete(content))
    BY SMTT(20), <1>2, <1>10, <1>11, <2>8, BeginsTransitive
  <2>11. reader.err \notin {"malformedTerminator", "bareLFTerminator", "EOF"}
    BY <1>6, <1>7, <1>8, <2>5, Zenon
  <2>12. status \notin {"malformedTerminator", "bareLFTerminator", "EOF"}
    BY SMTT(20), <1>3, <2>11
  <2>. QED  BY <2>10, <2>11, <2>12
<1>. QED  BY <1>12, <1>13

\* The octets of a match.
LEMMA MatchesIs ==
    ASSUME NEW s \in Seq(Octets), NEW i \in Nat \ {0}, NEW q \in Seq(Octets), Matches(s, i, q)
    PROVE  /\ i + Len(q) - 1 <= Len(s)
           /\ \A j \in 1..Len(q) : s[i + j - 1] = q[j]
<1>. DEFINE k == i + Len(q) - 1
            v == SubSeq(s, i, k)
<1>1. k <= Len(s) /\ v = q /\ k \in Int
  BY DEF Matches
<1>2. \A j \in i..k : s[j] \in Octets
  BY <1>1
<1>3. \A j \in 1..(k - i + 1) : v[j] = s[i + j - 1]
  BY <1>1, <1>2, SubSeqProperties
<1>4. k - i + 1 = Len(q)
  OBVIOUS
<1>. QED  BY <1>1, <1>3, <1>4

\* What the peer of any sender is told.
LEMMA FramingFromInv ==
    ASSUME Inv
    PROVE  FramingExact
<1>. DEFINE seen == SubSeq(raw, 1, reader.consumed)
<1>1. raw \in Seq(Octets) /\ out \in Seq(Octets) /\ arrived \in Nat /\ arrived <= Len(raw)
  BY InvWire DEF Inv, Types
<1>2. ReaderAt(reader, out, raw, arrived) /\ reader.p = <<>> /\ reader \in Readers
      /\ (status # "more" => status = reader.err)
  BY DEF Inv, ReaderInv, ReaderOK, ReaderAt
<1>3. out \o reader.p = out
  BY SMTT(20), <1>1, <1>2, ConcatEmptySeq
<1>4. reader.consumed \in 0..Len(raw)
  BY <1>1, <1>2 DEF ReaderAt, Readers
<1>5. seen \in Seq(Octets) /\ Len(seen) = reader.consumed /\ IsPrefix(seen, raw)
      /\ \A i \in 1..reader.consumed : seen[i] = raw[i]
  BY SMTT(20), <1>1, <1>4, First, FirstBegins
<1>6. ASSUME ~reader.done
      PROVE  out = Unstuffed(seen) /\ ~Terminated(seen)
  <2>1. Got(out, raw, reader.consumed)
    BY <1>2, <1>3, <1>6 DEF ReaderAt
  <2>2. out = Unstuffed(seen)
    BY <2>1 DEF Got, Upto
  <2>. HIDE DEF seen
  <2>3. EndDots(seen) = {}
    <3>1. SUFFICES ASSUME NEW i \in EndDots(seen)
                   PROVE  FALSE
      OBVIOUS
    <3>2. i \in 1..Len(seen) /\ i < Len(seen) /\ seen[i + 1] \in {"CR", "LF"} /\ i \in StartDots(seen)
      BY <1>5, EndDotsIn
    <3>3. i \in StartDots(raw)
      BY <1>1, <1>5, <3>2, StartDotsKept
    <3>4. raw[i + 1] = seen[i + 1] /\ i <= reader.consumed
      BY <1>4, <1>5, <3>2
    <3>. QED  BY <2>1, <3>2, <3>3, <3>4 DEF Got, Clear
  <2>. QED  BY SMTT(20), <1>5, <2>2, <2>3, BodyWhole
<1>7. ASSUME status = "EOF"
      PROVE  /\ seen = Body(seen) \o Terminator
             /\ out = Unstuffed(Body(seen))
             /\ ~Ambiguous(Body(seen))
  <2>. DEFINE k == reader.consumed - 3
  <2>1. reader.err = "EOF"
    BY SMTT(20), <1>2, <1>7
  <2>2. Got(out, raw, k) /\ EndsAt(raw, k)
    BY SMTT(20), <1>2, <1>3, <2>1 DEF ReaderAt
  <2>3. k \in Nat /\ k + 3 = reader.consumed /\ k \in 0..reader.consumed /\ k \in 0..Len(raw)
    BY <1>4, <2>2 DEF EndsAt
  <2>. HIDE DEF k, seen
  <2>4. LineStart(raw, k + 1) /\ raw[k + 1] = "." /\ raw[k + 2] = "CR" /\ raw[k + 3] = "LF"
    BY <2>2 DEF EndsAt
  <2>5. seen[k + 1] = "." /\ seen[k + 2] = "CR" /\ seen[k + 3] = "LF"
    BY <1>5, <2>3, <2>4
  <2>6. EndsAt(seen, k)
    <3>1. LineStart(seen, k + 1)
      BY SMTT(20), <1>1, <1>5, <2>3, <2>4, LineStartBegins
    <3>. QED  BY SMTT(20), <1>5, <2>3, <2>5, <3>1 DEF EndsAt
  <2>7. Clear(seen, k)
    <3>1. SUFFICES ASSUME NEW i \in StartDots(seen), i <= k
                   PROVE  i < Len(seen) /\ seen[i + 1] \notin {"CR", "LF"}
      BY DEF Clear
    <3>2. i \in StartDots(raw) /\ i \in 1..Len(seen)
      BY <1>1, <1>5, StartDotsKept
    <3>3. raw[i + 1] \notin {"CR", "LF"}
      BY SMTT(20), <2>2, <3>1, <3>2 DEF Got, Clear
    <3>. QED  BY <1>5, <2>3, <3>1, <3>2, <3>3
  <2>8. Body(seen) = SubSeq(seen, 1, k)
    BY SMTT(20), <1>5, <2>3, <2>6, <2>7, TextEnds
  <2>9. SubSeq(seen, 1, k) = SubSeq(raw, 1, k)
    BY SMTT(20), <1>1, <1>5, <2>3, UptoOf
  <2>. DEFINE body == SubSeq(raw, 1, k)
  <2>10. Body(seen) = body
    BY Zenon, <2>8, <2>9
  <2>11. body \in Seq(Octets) /\ Len(body) = k /\ \A i \in 1..k : body[i] = raw[i]
    BY <1>1, <2>3, First
  <2>12. out = Unstuffed(body)
    BY <2>2 DEF Got, Upto
  <2>. HIDE DEF body
  <2>13. seen = body \o Terminator
    <3>. DEFINE w == body \o Terminator
    <3>1. Terminator \in Seq(Octets) /\ Len(Terminator) = 3
          /\ Terminator[1] = "." /\ Terminator[2] = "CR" /\ Terminator[3] = "LF"
      BY DEF Terminator, Octets
    <3>2. w \in Seq(Octets) /\ Len(w) = Len(body) + Len(Terminator)
          /\ \A i \in 1..(Len(body) + Len(Terminator)) :
                w[i] = IF i <= Len(body) THEN body[i] ELSE Terminator[i - Len(body)]
      BY Zenon, <2>11, <3>1, ConcatProperties
    <3>. HIDE DEF w
    <3>3. Len(w) = k + 3 /\ Len(seen) = Len(w)
          /\ \A i \in 1..(k + 3) : w[i] = IF i <= k THEN body[i] ELSE Terminator[i - k]
      BY SMTT(20), <1>5, <2>3, <2>11, <3>1, <3>2
    <3>4. ASSUME NEW i \in 1..Len(seen)
          PROVE  seen[i] = w[i]
      <4>1. CASE i <= k
        BY <1>5, <2>3, <2>11, <3>3, <4>1
      <4>2. CASE i = k + 1
        <5>1. i - k = 1 /\ ~(i <= k) /\ i \in 1..(k + 3)
          BY <2>3, <4>2
        <5>. QED  BY SMTT(20), <2>5, <3>1, <3>3, <4>2, <5>1
      <4>3. CASE i = k + 2
        <5>1. i - k = 2 /\ ~(i <= k) /\ i \in 1..(k + 3)
          BY <2>3, <4>3
        <5>. QED  BY <2>5, <3>1, <3>3, <4>3, <5>1
      <4>4. CASE i = k + 3
        <5>1. i - k = 3 /\ ~(i <= k) /\ i \in 1..(k + 3)
          BY <2>3, <4>4
        <5>. QED  BY <2>5, <3>1, <3>3, <4>4, <5>1
      <4>5. i <= k \/ i = k + 1 \/ i = k + 2 \/ i = k + 3
        BY <2>3, <3>3
      <4>. QED  BY SMTT(20), <4>1, <4>2, <4>3, <4>4, <4>5
    <3>5. seen = w
      BY SMTT(20), <1>5, <3>2, <3>3, <3>4, SeqEqual
    <3>. QED  BY <3>5 DEF w
  <2>14. ~Ambiguous(body)
    <3>1. SUFFICES ASSUME NEW i \in DOMAIN body,
                          \/ Matches(body, i, <<"CR", ".", "LF">>)
                          \/ Matches(body, i, <<"CR", ".", "CR", "LF">>)
                   PROVE  FALSE
      BY DEF Ambiguous
    <3>2. i \in Nat \ {0}
      BY <2>11
    <3>3. ASSUME Matches(body, i, <<"CR", ".", "LF">>)
          PROVE  FALSE
      <4>. DEFINE q == <<"CR", ".", "LF">>
      <4>1. q \in Seq(Octets) /\ Len(q) = 3 /\ q[1] = "CR" /\ q[2] = "." /\ q[3] = "LF"
        BY DEF Octets
      <4>. HIDE DEF q
      <4>2. i + Len(q) - 1 <= Len(body) /\ \A j \in 1..Len(q) : body[i + j - 1] = q[j]
        BY Zenon, <2>11, <3>2, <3>3, <4>1, MatchesIs DEF q
      <4>3. i + 2 <= k /\ body[i + 1 - 1] = "CR" /\ body[i + 2 - 1] = "." /\ body[i + 3 - 1] = "LF"
        BY SMTT(20), <2>11, <3>2, <4>1, <4>2
      <4>4. i + 1 - 1 = i /\ i + 2 - 1 = i + 1 /\ i + 3 - 1 = i + 2
        BY <3>2
      <4>5. raw[i] = "CR" /\ raw[i + 1] = "." /\ raw[i + 2] = "LF" /\ i \in 1..(k - 1)
        BY <2>3, <2>11, <3>2, <4>3, <4>4
      <4>. QED  BY <2>2, <4>5 DEF Got, Plain
    <3>4. ASSUME Matches(body, i, <<"CR", ".", "CR", "LF">>)
          PROVE  FALSE
      <4>. DEFINE q == <<"CR", ".", "CR", "LF">>
      <4>1. q \in Seq(Octets) /\ Len(q) = 4 /\ q[1] = "CR" /\ q[2] = "." /\ q[3] = "CR" /\ q[4] = "LF"
        BY DEF Octets
      <4>. HIDE DEF q
      <4>2. i + Len(q) - 1 <= Len(body) /\ \A j \in 1..Len(q) : body[i + j - 1] = q[j]
        BY Zenon, <2>11, <3>2, <3>4, <4>1, MatchesIs DEF q
      <4>3. i + 3 <= k /\ body[i + 1 - 1] = "CR" /\ body[i + 2 - 1] = "." /\ body[i + 3 - 1] = "CR"
            /\ body[i + 4 - 1] = "LF"
        BY SMTT(20), <2>11, <3>2, <4>1, <4>2
      <4>4. i + 1 - 1 = i /\ i + 2 - 1 = i + 1 /\ i + 3 - 1 = i + 2 /\ i + 4 - 1 = i + 3
        BY <3>2
      <4>5. raw[i] = "CR" /\ raw[i + 1] = "." /\ raw[i + 2] = "CR" /\ raw[i + 3] = "LF"
            /\ i \in 1..(k - 1)
        BY <2>3, <2>11, <3>2, <4>3, <4>4
      <4>. QED  BY <2>2, <4>5 DEF Got, Plain
    <3>. QED  BY <3>1, <3>3, <3>4
  <2>. QED  BY <2>10, <2>12, <2>13, <2>14
<1>. QED  BY Zenon, <1>6, <1>7 DEF FramingExact

(***************************************************************************)
(* Read's loop runs until it may stop: the number of turns ReadLoop allows *)
(* is enough, because a turn that does not stop the loop consumes an octet *)
(* that has arrived.                                                       *)
(***************************************************************************)
\* q ends the loop or is an octet further than r.
Moves(r, q) == q.done \/ q.blocked \/ q.consumed = r.consumed + 1

\* An iteration that waits moves the reader, in the sense above.
LEMMA BlockMoves ==
    ASSUME NEW r \in Readers
    PROVE  Moves(r, Block(r))
<1>1. Block(r).blocked
  BY Zenon DEF Block, Readers
<1>. QED  BY <1>1 DEF Moves

\* One that ends the stream does,
LEMMA FailMoves ==
    ASSUME NEW r \in Readers, NEW used \in 0..3, NEW e \in Errors
    PROVE  Moves(r, fail(r, used, e))
BY SMTT(20), FailIs DEF Moves

\* ... and one that returns an octet,
LEMMA TakeMoves ==
    ASSUME NEW r \in Readers, NEW b \in Octets
    PROVE  Moves(r, take(r, b))
BY TakeIs DEF Moves

\* ... reads what follows a dot,
LEMMA TailMoves ==
    ASSUME NEW r \in Readers, NEW tail
    PROVE  Moves(r, consumeTerminatorTail(r, tail))
<1>1. consumeTerminatorTail(r, tail) \in
          {Block(r), fail(r, 2, "unexpectedEOF"), fail(r, 3, "EOF"),
           fail(r, 3, "malformedTerminator")}
  BY DEF consumeTerminatorTail
<1>2. 2 \in 0..3 /\ 3 \in 0..3 /\ {"EOF", "unexpectedEOF", "malformedTerminator"} \subseteq Errors
  BY DEF Errors
<1>3. /\ Moves(r, fail(r, 2, "unexpectedEOF"))
      /\ Moves(r, fail(r, 3, "EOF"))
      /\ Moves(r, fail(r, 3, "malformedTerminator"))
  BY <1>2, FailMoves
<1>. QED  BY <1>1, <1>3, BlockMoves, Zenon

\* ... meets a dot at the start of a line,
LEMMA LineStartDotMoves ==
    ASSUME NEW r \in Readers, NEW peek, NEW tail
    PROVE  Moves(r, LineStartDot(r, peek, tail))
<1>. DEFINE d == [r EXCEPT !.consumed = @ + 1, !.atLineStart = FALSE]
<1>1. LineStartDot(r, peek, tail) \in
          {Block(r), fail(r, 1, "unexpectedEOF"), consumeTerminatorTail(r, tail),
           fail(r, 1, "bareLFTerminator"), d}
  BY DEF LineStartDot
<1>2. 1 \in 0..3 /\ {"unexpectedEOF", "bareLFTerminator"} \subseteq Errors
  BY DEF Errors
<1>3. Moves(r, fail(r, 1, "unexpectedEOF")) /\ Moves(r, fail(r, 1, "bareLFTerminator"))
  BY <1>2, FailMoves
<1>4. Moves(r, d)
  <2>1. d.consumed = r.consumed + 1
    BY Zenon, DropIs
  <2>. QED  BY <2>1 DEF Moves
<1>. HIDE DEF d
<1>. QED  BY <1>1, <1>3, <1>4, BlockMoves, TailMoves, Zenon

\* ... or a dot after a bare CR.
LEMMA BareCRDotMoves ==
    ASSUME NEW r \in Readers, NEW peek, NEW tail
    PROVE  Moves(r, BareCRDot(r, peek, tail))
<1>1. BareCRDot(r, peek, tail) \in
          {Block(r), fail(r, 1, "unexpectedEOF"), fail(r, 1, "malformedTerminator"),
           take(r, ".")}
  BY DEF BareCRDot
<1>2. 1 \in 0..3 /\ {"unexpectedEOF", "malformedTerminator"} \subseteq Errors /\ "." \in Octets
  BY DEF Errors, Octets
<1>3. Moves(r, fail(r, 1, "unexpectedEOF")) /\ Moves(r, fail(r, 1, "malformedTerminator"))
  BY <1>2, FailMoves
<1>4. Moves(r, take(r, "."))
  BY <1>2, TakeMoves
<1>. QED  BY <1>1, <1>3, <1>4, BlockMoves, Zenon

\* Every iteration does.
LEMMA IterationMoves ==
    ASSUME NEW r \in Readers, Wire
    PROVE  Moves(r, ReadIteration(r))
<1>. DEFINE b == Octet(r.consumed + 1)
            peek == Octet(r.consumed + 2)
            tail == Octet(r.consumed + 3)
<1>1. b \in {"wait", "EOF"} \union Octets
  <2>1. r.consumed + 1 \in Nat \ {0} /\ arrived \in Nat
    BY DEF Readers, Wire
  <2>2. r.consumed + 1 <= arrived \/ r.consumed + 1 > arrived
    BY <2>1
  <2>. QED  BY <2>1, <2>2, OctetIs
<1>. HIDE DEF b, peek, tail
<1>2. ReadIteration(r) =
        CASE b = "wait" -> Block(r)
          [] b = "EOF"  -> fail(r, 0, "unexpectedEOF")
          [] b = "." /\ r.atLineStart -> LineStartDot(r, peek, tail)
          [] b = "." /\ ~r.atLineStart /\ r.previousCR -> BareCRDot(r, peek, tail)
          [] OTHER      -> take(r, b)
  BY DEF ReadIteration, b, peek, tail
<1>3. CASE b = "wait"
  <2>1. ReadIteration(r) = Block(r)
    BY <1>2, <1>3
  <2>. QED  BY <2>1, BlockMoves
<1>4. CASE b = "EOF"
  <2>1. ReadIteration(r) = fail(r, 0, "unexpectedEOF")
    BY <1>2, <1>4
  <2>2. Moves(r, fail(r, 0, "unexpectedEOF"))
    BY FailMoves DEF Errors
  <2>. QED  BY <2>1, <2>2
<1>5. CASE b \notin {"wait", "EOF"}
  <2>1. ReadIteration(r) \in {LineStartDot(r, peek, tail), BareCRDot(r, peek, tail), take(r, b)}
    BY <1>2, <1>5
  <2>2. Moves(r, take(r, b))
    BY SMTT(20), <1>1, <1>5, TakeMoves
  <2>. QED  BY <2>1, <2>2, LineStartDotMoves, BareCRDotMoves, Zenon
<1>. QED  BY <1>3, <1>4, <1>5

\* A stopped loop: the stream has ended, the call waits, or p is full.
Stopped(q, n) == q.done \/ q.blocked \/ Len(q.p) = n

\* The loop has stopped by itself when ReadLoop ends.
LEMMA ReadLoopStops ==
    ASSUME NEW r, NEW o \in Seq(Octets), NEW n, ReaderOK(r, o), Wire
    PROVE  Stopped(ReadLoop(r, n), n)
<1>. DEFINE m == arrived - r.consumed + 1
            S == {q \in Readers : ReaderOK(q, o)}
<1>1. m \in Nat /\ m # 0 /\ arrived \in Nat /\ r.consumed \in Nat
      /\ r.consumed + m = arrived + 1
  BY DEF ReaderOK, ReaderAt, Readers, Wire
<1>2. PICK f : Turns(f, Turn(n), r, m) /\ ReadLoop(r, n) = f[m]
  BY <1>1, ReadLoopIs
<1>. HIDE DEF m
<1>3. \A k \in 0..m : f[k] = IF k = 0 THEN r ELSE Turn(n)[f[k - 1]]
  BY Zenon, <1>2 DEF Turns
<1>4. \A k \in 0..m : f[k] \in S
  <2>1. r \in S
    BY DEF ReaderOK, ReaderAt
  <2>2. ASSUME NEW q \in S
        PROVE  Turn(n)[q] \in S
    <3>1. q \in Readers /\ ReaderOK(q, o)
      OBVIOUS
    <3>2. Turn(n)[q] = IF q.done \/ q.blocked \/ Len(q.p) = n THEN q ELSE ReadIteration(q)
      BY <3>1 DEF Turn
    <3>3. ~q.done => ReaderOK(ReadIteration(q), o)
      BY <3>1, IterationOK
    <3>4. ReaderOK(Turn(n)[q], o)
      <4>1. CASE q.done \/ q.blocked \/ Len(q.p) = n
        BY <3>1, <3>2, <4>1
      <4>2. CASE ~(q.done \/ q.blocked \/ Len(q.p) = n)
        BY <3>2, <3>3, <4>2
      <4>. QED  BY <4>1, <4>2
    <3>5. Turn(n)[q] \in Readers
      BY <3>4 DEF ReaderOK, ReaderAt
    <3>. QED  BY <3>4, <3>5
  <2>. HIDE DEF S
  <2>. QED  BY SMTT(20), <1>1, <1>2, <2>1, <2>2, TurnsKeep
<1>. DEFINE T == {k \in Nat : k \in 0..m =>
                     Stopped(f[k], n) \/ f[k].consumed = r.consumed + k}
<1>5. 0 \in T
  BY <1>1, <1>3
<1>6. ASSUME NEW k \in Nat, k \in T
      PROVE  k + 1 \in T
  <2>1. SUFFICES ASSUME k + 1 \in 0..m
                 PROVE  Stopped(f[k + 1], n) \/ f[k + 1].consumed = r.consumed + (k + 1)
    OBVIOUS
  <2>2. k \in 0..m /\ (k + 1) - 1 = k /\ k + 1 # 0
    BY <1>1, <2>1
  <2>3. f[k + 1] = Turn(n)[f[k]]
    BY <1>3, <2>1, <2>2
  <2>4. f[k] \in Readers
    BY <1>4, <2>2
  <2>5. Turn(n)[f[k]] = IF Stopped(f[k], n) THEN f[k] ELSE ReadIteration(f[k])
    BY <2>4 DEF Turn, Stopped
  <2>6. CASE Stopped(f[k], n)
    BY SMTT(20), <2>3, <2>5, <2>6
  <2>7. CASE ~Stopped(f[k], n)
    <3>1. f[k].consumed = r.consumed + k
      BY SMTT(20), <1>6, <2>2, <2>7
    <3>2. f[k + 1] = ReadIteration(f[k])
      BY <2>3, <2>5, <2>7
    <3>3. Moves(f[k], f[k + 1])
      BY <2>4, <3>2, IterationMoves
    <3>4. f[k].consumed + 1 = r.consumed + (k + 1)
      BY <1>1, <3>1
    <3>. QED  BY <3>3, <3>4 DEF Moves, Stopped
  <2>. QED  BY <2>6, <2>7
<1>. HIDE DEF T
<1>7. Nat \subseteq T
  BY SMTT(20), <1>5, <1>6, SetInduction
<1>8. Stopped(f[m], n) \/ f[m].consumed = r.consumed + m
  <2>1. m \in T /\ m \in 0..m
    BY SMTT(20), <1>1, <1>7
  <2>. QED  BY <2>1 DEF T
<1>9. f[m].consumed <= arrived /\ f[m].consumed \in Nat
  <2>1. f[m] \in Readers /\ ReaderOK(f[m], o)
    BY <1>1, <1>4
  <2>. QED  BY <2>1 DEF ReaderOK, ReaderAt, Readers
<1>10. f[m].consumed # r.consumed + m
  BY <1>1, <1>9
<1>. QED  BY SMTT(20), <1>2, <1>8, <1>10

(***************************************************************************)
(* A Read that returns has filled its buffer or has met the end of the     *)
(* stream: Read never returns early (dotstuff.go's loop runs while n <     *)
(* len(p)), and the model's bound on the number of turns cuts no call      *)
(* short.                                                                  *)
(***************************************************************************)
THEOREM ReadFillsOrEnds ==
    ASSUME Inv, NEW n \in 1..MaxRead, Read(n)
    PROVE  reader'.done \/ Len(out') = Len(out) + n
<1>. DEFINE r == ReadLoop(reader, n)
<1>1. Wire /\ out \in Seq(Octets) /\ ReaderOK(reader, out)
  BY InvWire DEF Inv, Types, ReaderInv
<1>2. Stopped(r, n) /\ ReaderOK(r, out)
  BY <1>1, ReadLoopStops, ReadLoopOK
<1>3. ~r.blocked /\ reader' = [r EXCEPT !.p = <<>>] /\ out' = out \o r.p
  BY SMTT(20) DEF Read
<1>. HIDE DEF r
<1>4. r \in Readers /\ r.p \in Seq(Octets)
  BY <1>2 DEF ReaderOK, ReaderAt, Readers
<1>5. CASE r.done
  <2>1. reader'.done = r.done
    BY <1>3, <1>4 DEF Readers
  <2>. QED  BY <1>5, <2>1
<1>6. CASE ~r.done
  <2>1. Len(r.p) = n
    BY <1>2, <1>3, <1>6 DEF Stopped
  <2>2. Len(out \o r.p) = Len(out) + Len(r.p)
    BY <1>1, <1>4, ConcatProperties
  <2>. QED  BY <1>3, <2>1, <2>2
<1>. QED  BY <1>5, <1>6

\* The steps of the content channel.
LEMMA SendStep ==
    ASSUME Inv, Inv', IsPrefix(raw, raw'), UNCHANGED <<out, status>>
    PROVE  [Channel!Next]_<<text.sent, text.complete, out, status>>
<1>1. raw \in Seq(Octets) /\ raw' \in Seq(Octets)
  BY DEF Inv, Types, Writers, raw
<1>2. text = Text(raw) /\ text' = Text(raw')
  BY DEF Inv
<1>3. Grows(text, text')
  BY <1>1, <1>2, TextGrows
<1>4. text.sent \in Seq(Octets) /\ text'.sent \in Seq(Octets)
      /\ text.complete \in BOOLEAN /\ text'.complete \in BOOLEAN
  BY <1>1, <1>2, TextType
<1>5. CASE text.complete
  <2>1. text' = text
    BY <1>3, <1>5 DEF Grows
  <2>. QED  BY <2>1
<1>6. CASE ~text.complete
  <2>1. Channel!Extends(text'.sent, text.sent)
    BY SMTT(20), <1>3, <1>4, BeginsIs DEF Grows
  <2>2. Channel!Send
    BY <1>4, <1>6, <2>1 DEF Channel!Send
  <2>. QED  BY <2>2 DEF Channel!Next
<1>. QED  BY <1>5, <1>6

\* A Read is a step of the channel, or none.
LEMMA ReadStep ==
    ASSUME Inv, NEW n, Read(n)
    PROVE  [Channel!Next]_<<text.sent, text.complete, out, status>>
<1>1. text' = text /\ status = "more"
  BY DEF Read
<1>2. PICK r : /\ ReaderOK(r, out)
               /\ ~r.blocked
               /\ reader' = [r EXCEPT !.p = <<>>]
               /\ out' = out \o r.p
               /\ status' = IF r.done /\ r.p = <<>> THEN r.err ELSE "more"
  BY ReadFacts
<1>3. ReaderAt(r, out, raw, arrived) /\ r.p \in Seq(Octets) /\ r.err \in {"none"} \union Errors
  BY <1>2 DEF ReaderOK, ReaderAt, Readers
<1>4. raw \in Seq(Octets) /\ out \in Seq(Octets) /\ text = Text(raw)
  BY InvWire DEF Inv, Types
<1>5. text.sent \in Seq(Octets)
  BY <1>4, TextType
<1>6. CASE r.done /\ r.p = <<>>
  <2>1. out' = out /\ status' = r.err /\ r.err # "none"
    BY SMTT(20), <1>2, <1>3, <1>4, <1>6, ConcatEmptySeq DEF ReaderAt
  <2>2. CASE r.err = "EOF"
    <3>. DEFINE k == r.consumed - 3
    <3>1. Got(out, raw, k) /\ EndsAt(raw, k)
      BY SMTT(20), <1>2, <1>3, <2>1, <2>2 DEF ReaderAt
    <3>. HIDE DEF k
    <3>2. k \in 0..Len(raw) /\ Clear(raw, k) /\ out = Upto(raw, k)
      BY <3>1 DEF Got
    <3>3. text = [sent |-> Upto(raw, k), complete |-> TRUE]
      BY SMTT(20), <1>4, <3>1, <3>2, TextEnds
    <3>4. text.complete /\ out = text.sent
      BY <3>2, <3>3
    <3>5. Channel!End
      BY SMTT(20), <1>1, <2>1, <2>2, <3>4 DEF Channel!End
    <3>. QED  BY <3>5 DEF Channel!Next
  <2>3. CASE r.err # "EOF"
    <3>1. status' \notin {"more", "EOF"}
      BY <1>3, <2>1, <2>3 DEF Errors
    <3>2. Channel!Break
      BY SMTT(20), <1>1, <2>1, <3>1 DEF Channel!Break
    <3>. QED  BY <3>2 DEF Channel!Next
  <2>. QED  BY <2>2, <2>3
<1>7. CASE ~(r.done /\ r.p = <<>>)
  <2>1. status' = "more" /\ out' = out \o r.p /\ out' \in Seq(Octets)
    BY <1>2, <1>3, <1>4, <1>7
  <2>2. Channel!Extends(out', out)
    <3>1. IsPrefix(out, out')
      BY SMTT(20), <1>3, <1>4, <2>1, BeginsConcat
    <3>. QED  BY Zenon, <1>4, <2>1, <3>1, BeginsIs
  <2>3. PICK c : Got(out', raw, c)
    <3>1. CASE r.done
      BY SMTT(20), <1>3, <2>1, <3>1 DEF ReaderAt
    <3>2. CASE ~r.done
      BY SMTT(20), <1>3, <2>1, <3>2 DEF ReaderAt
    <3>. QED  BY <3>1, <3>2
  <2>4. c \in 0..Len(raw) /\ Clear(raw, c) /\ out' = Upto(raw, c)
    BY <2>3 DEF Got
  <2>5. IsPrefix(out', text.sent)
    BY <1>4, <2>4, TextBeyond
  <2>6. Channel!Extends(text.sent, out')
    BY Zenon, <1>5, <2>1, <2>5, BeginsIs
  <2>7. Channel!Receive
    BY SMTT(20), <1>1, <2>1, <2>2, <2>6 DEF Channel!Receive
  <2>. QED  BY <2>7 DEF Channel!Next
<1>. QED  BY <1>6, <1>7

\* Every step is a step of the channel, or none.
LEMMA ChannelStep ==
    ASSUME Inv, Inv', [Next]_vars
    PROVE  [Channel!Next]_<<text.sent, text.complete, out, status>>
<1>1. ASSUME NEW p \in Chunks, Write(p)
      PROVE  [Channel!Next]_<<text.sent, text.complete, out, status>>
  <2>1. IsPrefix(raw, raw') /\ UNCHANGED <<out, status>>
    BY <1>1, WriteInv DEF Write
  <2>. QED  BY <2>1, SendStep
<1>2. CASE Close
  <2>1. IsPrefix(raw, raw') /\ UNCHANGED <<out, status>>
    BY SMTT(20), <1>2, CloseInv DEF Close
  <2>. QED  BY <2>1, SendStep
<1>3. CASE NextCommand
  <2>1. IsPrefix(raw, raw') /\ UNCHANGED <<out, status>>
    BY Zenon, <1>3, NextCommandInv DEF NextCommand
  <2>. QED  BY <2>1, SendStep
<1>4. ASSUME NEW b \in Octets, ForeignOctet(b)
      PROVE  [Channel!Next]_<<text.sent, text.complete, out, status>>
  <2>1. IsPrefix(raw, raw') /\ UNCHANGED <<out, status>>
    BY <1>4, ForeignOctetInv DEF ForeignOctet
  <2>. QED  BY <2>1, SendStep
<1>5. CASE Arrive \/ Lose \/ UNCHANGED vars
  <2>1. text' = text /\ out' = out /\ status' = status
    BY <1>5 DEF Arrive, Lose, vars
  <2>. QED  BY <2>1
<1>6. ASSUME NEW n \in 1..MaxRead, Read(n)
      PROVE  [Channel!Next]_<<text.sent, text.complete, out, status>>
  BY <1>6, ReadStep
<1>. QED  BY <1>1, <1>2, <1>3, <1>4, <1>5, <1>6 DEF Next

\* The initial states are those of the channel.
LEMMA ChannelInit ==
    ASSUME Init
    PROVE  Channel!Init
<1>1. text = Text(<<>>) /\ out = <<>> /\ status = "more"
  BY DEF Init
<1>2. <<>> \in Seq(Octets) /\ EndDots(<<>>) = {}
  BY DEF EndDots, StartDots
<1>3. Body(<<>>) = <<>> /\ ~Terminated(<<>>)
  BY Zenon, <1>2, BodyWhole
<1>4. text.sent = <<>> /\ text.complete = FALSE
  <2>1. Terminated(<<>>) = FALSE
    BY <1>3, Zenon DEF Terminated
  <2>. QED  BY <1>1, <1>3, <2>1, UnstuffedEmpty DEF Text
<1>. QED  BY <1>1, <1>4 DEF Channel!Init

\* The invariant implies type correctness.
LEMMA TypeFromInv ==
    ASSUME Inv
    PROVE  TypeOK
<1>1. reader \in Readers /\ reader.consumed <= arrived
  BY DEF Inv, ReaderInv, ReaderOK, ReaderAt
<1>2. reader.consumed \in 0..arrived
  BY <1>1, InvWire DEF Wire, Readers
<1>3. writer.w \in Seq(Octets)
  BY DEF Inv, Types, Writers
<1>4. <<>> \in Seq(Octets) /\ <<".">> \in Seq(Octets) /\ <<"x">> \in Seq(Octets)
  BY DEF Octets
<1>5. following \in Seq(Octets)
  BY <1>4, Zenon DEF Inv, Types
<1>. QED  BY <1>2, <1>3, <1>5, ZenonT(30) DEF Inv, Types, TypeOK

(***************************************************************************)
(* The invariant: the octets on the wire are the stuffing of what the      *)
(* caller wrote, and what Read has returned is the un-stuffing of what it  *)
(* consumed, between any two calls.                                        *)
(***************************************************************************)
THEOREM InvHolds == Spec => []Inv
<1>1. Init => Inv
  BY InvInit
<1>2. Inv /\ [Next]_vars => Inv'
  BY InvNext
<1>. QED  BY <1>1, <1>2, PTL DEF Spec

\* Type correctness: nothing is consumed before it arrived, and nothing
\* arrives before it was sent.
THEOREM TypeCorrect == Spec => []TypeOK
<1>1. Inv => TypeOK
  BY SMTT(20), TypeFromInv
<1>. QED  BY <1>1, InvHolds, PTL

(***************************************************************************)
(* Content is exact, for content and chunks of any length: Read returns    *)
(* the caller's content with normalised line endings, reports a clean end  *)
(* only when all of it was returned, never calls a DotStuffWriter's stream *)
(* malformed and leaves the next command unread.                           *)
(***************************************************************************)
THEOREM ContentExactHolds == Spec => []ContentExact
<1>1. Inv => ContentExact
  BY SMTT(20), ContentFromInv
<1>. QED  BY <1>1, InvHolds, PTL

(***************************************************************************)
(* Framing is a function of the octets alone, for streams of any length    *)
(* from any sender: DotUnstuffReader ends a message at the first           *)
(* line-start dot followed by CRLF, and accepts no CR . LF or CR . CRLF.   *)
(***************************************************************************)
THEOREM FramingExactHolds == Spec => []FramingExact
<1>1. Inv => FramingExact
  BY FramingFromInv
<1>. QED  BY <1>1, InvHolds, PTL

(***************************************************************************)
(* Refinement: writer, network and reader implement the content channel:   *)
(* the receiver is given a growing prefix of what was sent, and EOF only   *)
(* at its end.                                                             *)
(***************************************************************************)
THEOREM ChannelImplemented == Spec => ImplementsChannel
<1>1. Init => Channel!Init
  BY ChannelInit
<1>2. Inv /\ Inv' /\ [Next]_vars => [Channel!Next]_<<text.sent, text.complete, out, status>>
  BY ChannelStep
<1>. QED  BY <1>1, <1>2, InvHolds, PTL DEF Spec, ImplementsChannel, Channel!Spec

=============================================================================
