-------------------------------- MODULE Text --------------------------------
(***************************************************************************)
(* Octet strings as sequences of symbols, and the functions of Go's        *)
(* packages strings, strconv and time that the codecs use.  A symbol is an *)
(* octet, or a run of octets no parser cuts: a keyword, a word, a date, an *)
(* IP address.                                                             *)
(***************************************************************************)
EXTENDS Integers, Sequences, SequencesExt, FiniteSets, TLC

Digits == <<"0", "1", "2", "3", "4", "5", "6", "7", "8", "9">>
Digit == ToSet(Digits)

\* Words and letters with their upper-case forms.
UpperOf ==
    "a" :> "A" @@ "b" :> "B" @@ "c" :> "C" @@ "d" :> "D" @@ "n" :> "N" @@ "r" :> "R"
    @@ "size" :> "SIZE" @@ "body" :> "BODY" @@ "8bitmime" :> "8BITMIME" @@ "full" :> "FULL"
    @@ "never" :> "NEVER" @@ "postmaster" :> "POSTMASTER" @@ "from:" :> "FROM:"
    @@ "mail" :> "MAIL" @@ "mailmax" :> "MAILMAX" @@ "IPv6" :> "IPV6"

Keywords ==
    {"SIZE", "BODY", "SMTPUTF8", "AUTH", "RET", "ENVID", "BY", "HOLDFOR", "HOLDUNTIL",
     "MT-PRIORITY", "REQUIRETLS", "SOLICIT", "MTRK", "SUBMITTER", "CONPERM", "NOTIFY", "ORCPT",
     "RRVS", "CONNEG", "XEXT"}
Values ==
    {"7BIT", "8BITMIME", "BINARYMIME", "FULL", "NEVER", "SUCCESS", "POSTMASTER", "MAILMAX",
     "RCPTMAX", "RCPTDOMAINMAX", "IPV6", "rfc822", "MAIL", "RCPT"}
\* What consists of letters, digits and inner hyphens.
Word ==
    {"A", "B", "C", "D", "F", "N", "R", "T"} \union Digit \union Keywords \union Values
        \union (DOMAIN UpperOf \ {"from:"})

Control == {"CR", "LF"}
\* Octets above 126: a letter and a space in UTF-8, and one that is no UTF-8.
High == {"é", "nbsp", "ff"}

ToUpper(s) == [i \in DOMAIN s |-> IF s[i] \in DOMAIN UpperOf THEN UpperOf[s[i]] ELSE s[i]]

At(s, c) == {i \in DOMAIN s : s[i] = c}
From(s, n) == SubSeq(s, n, Len(s))

\* The k-th smallest of a set of positions.
Nth(positions, k) == CHOOSE i \in positions : Cardinality({j \in positions : j < i}) = k - 1

Split(s, c) ==
    LET cuts == {0, Len(s) + 1} \union At(s, c)
    IN  [k \in 1..(Cardinality(cuts) - 1) |-> SubSeq(s, Nth(cuts, k) + 1, Nth(cuts, k + 1) - 1)]

Join(parts, c) ==
    FlattenSeq([k \in DOMAIN parts |-> IF k = 1 THEN parts[k] ELSE <<c>> \o parts[k]])

\* strings.Cut: without a separator, all of s is before it.
Cut(s, c) ==
    LET i == Nth({Len(s) + 1} \union At(s, c), 1)
    IN  [before |-> SubSeq(s, 1, i - 1), after |-> From(s, i + 1), found |-> i <= Len(s)]

\* strings.Fields splits at every Unicode space.
Fields(s) ==
    SelectSeq(Split([i \in DOMAIN s |-> IF s[i] = "nbsp" THEN " " ELSE s[i]], " "),
              LAMBDA f : f # <<>>)

\* Without its leading spaces.
TrimLeft(s) == From(s, Nth({i \in 1..(Len(s) + 1) : i <= Len(s) => s[i] # " "}, 1))

Within(s, set) == \A i \in DOMAIN s : s[i] \in set
Has(s, set) == \E i \in DOMAIN s : s[i] \in set

(***************************************************************************)
(* Decimal numbers, and times in half seconds.                             *)
(***************************************************************************)
Number(s) == FoldLeft(LAMBDA n, d : 10 * n + (CHOOSE v \in 0..9 : Digits[v + 1] = d), 0, s)

Decimal(n) ==
    LET len == CHOOSE l \in 1..9 : n < 10^l /\ (l = 1 \/ n >= 10^(l - 1))
    IN  [k \in 1..len |-> Digits[((n \div 10^(len - k)) % 10) + 1]]

Signed(n) == IF n < 0 THEN <<"-">> \o Decimal(-n) ELSE Decimal(n)

IsDecimal(s) == s # <<>> /\ Within(s, Digit)
IsSigned(s) == IF s # <<>> /\ s[1] \in {"+", "-"} THEN IsDecimal(Tail(s)) ELSE IsDecimal(s)
SignedNumber(s) ==
    IF s[1] = "-" THEN -Number(Tail(s)) ELSE IF s[1] = "+" THEN Number(Tail(s)) ELSE Number(s)

\* RFC 3339 date-times: two spellings of one instant, one with a fraction.
Instant == "1-Jan-Z" :> 2 @@ "1-Jan+02" :> 2 @@ "1-Jan.5Z" :> 3 @@ "2-Jan-Z" :> 4
Fractions == {"1-Jan.5Z"}
IsTime(s) == Len(s) = 1 /\ s[1] \in DOMAIN Instant
\* t.UTC().Format(time.RFC3339) drops the fraction.
FormatUTC(s) == IF Instant[s[1]] < 4 THEN <<"1-Jan-Z">> ELSE <<"2-Jan-Z">>
=============================================================================
