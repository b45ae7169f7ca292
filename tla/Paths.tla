------------------------------- MODULE Paths -------------------------------
(***************************************************************************)
(* internal/smtpwire/path.go: the arguments of MAIL and RCPT, that is the  *)
(* path in angle brackets and the parameters after it.                     *)
(***************************************************************************)
EXTENDS Encoding

CONSTANT
    MaxPath \* PathOptions.MaxPathLength, in symbols

(***************************************************************************)
(* What a scanner of quoted strings knows before each octet of s.          *)
(***************************************************************************)
Quoting(s) ==
    LET before[i \in 1..(Len(s) + 1)] ==
            IF i = 1 THEN "out"
            ELSE LET c == s[i - 1]
                     q == before[i - 1]
                 IN  CASE q = "out"     -> IF c = "\"" THEN "quoted" ELSE "out"
                       [] q = "quoted"  -> IF c = "\\" THEN "escaped" ELSE IF c = "\"" THEN "out" ELSE "quoted"
                       [] q = "escaped" -> "quoted"
    IN  before

\* Whether the last bracket among those of s at the positions in seen opens a literal.
InLiteral(s, seen) ==
    \E i \in seen : s[i] = "[" /\ \A j \in seen : s[j] = "]" => j < i

\* The position of the '>' that closes the path rest starts with; 0 if there is none.
pathClosingAngle(rest) ==
    LET q    == Quoting(rest)
        out  == {i \in 2..Len(rest) : q[i] = "out"}
        ends == {i \in out \intersect At(rest, ">") : ~InLiteral(rest, {j \in out : j < i})}
    IN  IF ends = {} THEN 0 ELSE Nth(ends, 1)

parsePathParams(suffix) ==
    LET fields == [k \in DOMAIN Fields(suffix) |-> Cut(Fields(suffix)[k], "=")]
    IN  IF suffix = <<>> THEN [ok |-> TRUE, params |-> <<>>]
        ELSE IF /\ suffix[1] = " "
                /\ ~Has(suffix, Control)
                /\ \A k \in DOMAIN fields :
                       /\ validateKeyword(fields[k].before)
                       /\ fields[k].found => validateESMTPValue(fields[k].after)
        THEN [ok |-> TRUE,
              params |-> [k \in DOMAIN fields |-> [kw |-> fields[k].before, val |-> fields[k].after]]]
        ELSE Failed

(***************************************************************************)
(* Domains and local parts.                                                *)
(***************************************************************************)
hasHighByte(s) == Has(s, High)

isAtext(c) == c \in Word \union {"+", "=", "-"}

\* A UTF-8 letter, where the session may carry one; no space and nothing broken.
Letter(c, smtpUTF8) == smtpUTF8 /\ c = "é"

validAddressLiteralTag(tag) == Within(tag, Word \union {"-"})

\* validateDomain's address literals: IPv6, IPv4, or a tag and a value.
validLiteral(domain) ==
    LET inside == SubSeq(domain, 2, Len(domain) - 1)
        tagged == Cut(inside, ":")
    IN  /\ Len(domain) >= 3
        /\ domain[Len(domain)] = "]"
        /\ IF Len(inside) >= 2 /\ ToUpper(inside)[1] = "IPV6" /\ inside[2] = ":"
           THEN From(inside, 3) = <<"::1">>
           ELSE \/ inside = <<"127.0.0.1">>
                \/ /\ tagged.found
                   /\ tagged.before # <<>>
                   /\ tagged.after # <<>>
                   /\ validAddressLiteralTag(tagged.before)
                   /\ ~Has(tagged.after, {"[", "]", "\\"} \union Control)
                   /\ ~hasHighByte(tagged.after)

validateDomain(domain, smtpUTF8) ==
    /\ domain # <<>>
    /\ IF domain[1] = "["
       THEN validLiteral(domain)
       ELSE \A k \in DOMAIN Split(domain, ".") :
                LET label == Split(domain, ".")[k]
                IN  /\ label # <<>>
                    /\ label[1] # "-"
                    /\ label[Len(label)] # "-"
                    /\ \A i \in DOMAIN label :
                           label[i] \in Word \union {"-"} \/ Letter(label[i], smtpUTF8)

\* Only the ends of the quoted string are looked at (mutant).
validQuotedEnds(local) == Len(local) >= 2 /\ Last(local) = "\"" /\ ~Has(local, Control)

\* A quoted string ends where its first octet outside quotes or escapes does.
validQuoted(local) ==
    LET n == Len(local)
        q == Quoting(local)
    IN  /\ n >= 2
        /\ \A i \in 2..n : q[i] # "out"
        /\ q[n + 1] = "out"
        /\ ~Has(local, Control)

validateLocalPart(local, smtpUTF8) ==
    /\ local # <<>>
    /\ IF local[1] = "\""
       THEN validQuoted(local)
       ELSE \A k \in DOMAIN Split(local, ".") :
                LET atom == Split(local, ".")[k]
                IN  /\ atom # <<>>
                    /\ \A i \in DOMAIN atom : isAtext(atom[i]) \/ Letter(atom[i], smtpUTF8)

(***************************************************************************)
(* The mailbox in the brackets.                                            *)
(***************************************************************************)
\* The position of the colon that ends a source route; 0 if there is none.
sourceRouteColon(mailbox) ==
    LET ends == {i \in At(mailbox, ":") : ~InLiteral(mailbox, 1..(i - 1))}
    IN  IF ends = {} THEN 0 ELSE Nth(ends, 1)

\* The mailbox after a source route, if the route is well formed.
discardSourceRoute(mailbox, smtpUTF8) ==
    LET colon == sourceRouteColon(mailbox)
        hops  == Split(SubSeq(mailbox, 1, colon - 1), ",")
    IN  IF mailbox[1] # "@" THEN [ok |-> TRUE, mailbox |-> mailbox]
        ELSE IF /\ colon # 0
                /\ colon < Len(mailbox)
                /\ \A k \in DOMAIN hops :
                       /\ Len(hops[k]) >= 2
                       /\ hops[k][1] = "@"
                       /\ validateDomain(Tail(hops[k]), smtpUTF8)
        THEN [ok |-> TRUE, mailbox |-> From(mailbox, colon + 1)]
        ELSE Failed

splitMailbox(mailbox) ==
    LET q  == Quoting(mailbox)
        at == {i \in At(mailbox, "@") : q[i] = "out"}
    IN  IF q[Len(mailbox) + 1] # "out" \/ Cardinality(at) > 1 THEN Failed
        ELSE IF at = {} THEN [ok |-> TRUE, local |-> mailbox, domain |-> <<>>, has |-> FALSE]
        ELSE [ok |-> TRUE, local |-> SubSeq(mailbox, 1, Nth(at, 1) - 1),
              domain |-> From(mailbox, Nth(at, 1) + 1), has |-> TRUE]

validMailbox(mailbox, allowPostmaster, smtpUTF8) ==
    LET s == splitMailbox(mailbox)
    IN  /\ s.ok
        /\ IF allowPostmaster /\ ToUpper(s.local) = <<"POSTMASTER">> /\ (s.has => s.domain # <<>>)
           THEN s.has => validateDomain(s.domain, smtpUTF8)
           ELSE s.has /\ validateLocalPart(s.local, smtpUTF8) /\ validateDomain(s.domain, smtpUTF8)

(***************************************************************************)
(* parsePathArgument.  The null path is the empty mailbox.                 *)
(***************************************************************************)
parsePathArgument(argument, prefix, allowNull, allowPostmaster, smtpUTF8) ==
    LET rest    == TrimLeft(Tail(argument))
        close   == pathClosingAngle(rest)
        parsed  == parsePathParams(From(rest, close + 1))
        raw     == SubSeq(rest, 2, close - 1)
        routed  == discardSourceRoute(raw, smtpUTF8)
    IN  IF \/ argument = <<>> \/ ToUpper(argument)[1] # prefix
           \/ rest = <<>> \/ rest[1] # "<"
           \/ close = 0 \/ close > MaxPath
           \/ ~parsed.ok
        THEN Failed
        ELSE IF raw = <<>>
        THEN IF allowNull THEN [ok |-> TRUE, mailbox |-> <<>>, params |-> parsed.params] ELSE Failed
        ELSE IF /\ ~Has(raw, {"ff"})
                /\ smtpUTF8 \/ ~hasHighByte(raw)
                /\ routed.ok
                /\ validMailbox(routed.mailbox, allowPostmaster, smtpUTF8)
        THEN [ok |-> TRUE, mailbox |-> routed.mailbox, params |-> parsed.params]
        ELSE Failed

ParseReversePath(argument, smtpUTF8) == parsePathArgument(argument, "FROM:", TRUE, FALSE, smtpUTF8)
ParseForwardPath(argument, smtpUTF8) == parsePathArgument(argument, "TO:", FALSE, TRUE, smtpUTF8)
=============================================================================
