----------------------------- MODULE MCExchange -----------------------------
(***************************************************************************)
(* Instances of Exchange: requests and lines in slices around a plain one, *)
(* a field or a pair of related fields at a time.                          *)
(***************************************************************************)
EXTENDS Exchange

(***************************************************************************)
(* Servers.                                                                *)
(***************************************************************************)
D(kw, params) == [kw |-> kw, params |-> params]
Declarations(by, future) ==
    <<D("DSN", <<>>), D("DELIVERBY", by), D("FUTURERELEASE", future), D("MT-PRIORITY", <<>>),
      D("REQUIRETLS", <<>>), D("NO-SOLICITING", <<"a", ":", "b">>), D("MTRK", <<>>), D("SUBMITTER", <<>>),
      D("CONPERM", <<>>), D("RRVS", <<>>), D("CONNEG", <<>>), D("XEXT", <<"a", " ", "b">>)>>

Full ==
    [extended |-> TRUE, lmtp |-> FALSE, tls |-> TRUE, auth |-> TRUE, chunking |-> TRUE, binaryMIME |-> TRUE,
     maxMessage |-> 12, utf8 |-> TRUE, limits |-> {},
     declared |-> Declarations(<<"5">>, <<"9", " ", "1-Jan-Z">>)]

MCConfigs ==
    {[Full EXCEPT !.declared = Declarations(by, future)] :
         by \in {<<>>, <<"5">>, <<",", "a">>, <<"5", ",", "a">>, <<"0">>, <<"0", "5">>},
         future \in {<<"9", " ", "1-Jan-Z">>, <<"0", "9", " ", "1-Jan.5Z">>}}
    \union {[Full EXCEPT !.declared = <<>>, !.limits = {[max |-> m, extra |-> e]}] :
                m \in {<<0, 0, 0>>, <<1, 0, 99>>, <<0, 100, 0>>},
                e \in {<<>>, <<"b">>, <<"b", "=", "0", " ", "c">>, <<"mailmax", "=", "1">>}}
    \union {[Full EXCEPT !.declared = Declarations(<<>>, <<"9", " ", "2-Jan-Z">>), !.lmtp = l, !.tls = t,
                         !.utf8 = FALSE, !.auth = FALSE, !.chunking = c] :
                l \in BOOLEAN, t \in BOOLEAN, c \in BOOLEAN}
    \union {[Full EXCEPT !.declared = <<>>, !.binaryMIME = FALSE],
            [Full EXCEPT !.extended = FALSE, !.declared = <<>>],
            [Full EXCEPT !.declared = <<D("MTRK", <<>>)>>]}

(***************************************************************************)
(* What callers ask for.                                                   *)
(***************************************************************************)
Address == <<"a", "@", "b">>
MailPaths ==
    {<<>>, Address, <<"é", "@", "b">>, <<"\"", "a", " ", "@", "\"", "@", "b">>,
     <<"@", "b", ",", "@", "c", ":", "a", "@", "b">>, <<"a", "@", "[", "IPv6", ":", "::1", "]">>,
     <<"a", "CR", "b">>, <<"a">>, <<"a", "nbsp", "@", "b">>}
RcptPaths == MailPaths \union {<<"postmaster">>, <<"POSTMASTER", "@", "b">>}

MailReq(path, o) == [verb |-> "MAIL", path |-> path, o |-> o, allow |-> FALSE]
RcptReq(path, o) == [verb |-> "RCPT", path |-> path, o |-> o, allow |-> FALSE]
M == NoMailOptions
R == NoRcptOptions
P(kw, val) == [kw |-> <<kw>>, val |-> val]

Holds ==
    {[for |-> n, until |-> <<>>] : n \in {0, 1, 9, 10}}
    \union {[for |-> 0, until |-> <<d>>] : d \in {"1-Jan-Z", "1-Jan+02", "1-Jan.5Z", "2-Jan-Z"}}
Texts == {<<"a">>, <<"a", "+", "2", "B">>, <<"=", "ff", "CR">>, <<"<", ">">>, <<"a", "@", "b">>, <<"a", "+", "@", "b">>}

MailOptionSlices ==
    {[M EXCEPT !.size = n, !.body = b, !.utf8 = u] :
         n \in {{}, {0}, {12}, {13}}, b \in {<<>>, <<"8bitmime">>, <<"BINARYMIME">>, <<"7BIT">>, <<"a">>},
         u \in BOOLEAN}
    \union {[M EXCEPT !.by = {[seconds |-> s, mode |-> m, trace |-> t]}] :
                s \in {-100, -99, 0, 1, 4, 5, 99, 100}, m \in {<<"n">>, <<"R">>, <<>>}, t \in BOOLEAN}
    \union {[M EXCEPT !.future = {h}] : h \in Holds}
    \union {[M EXCEPT !.priority = v] : v \in {<<"-", "4">>, <<"+", "0">>, <<"-">>, <<"a">>}}
    \union {[M EXCEPT !.envid = t, !.mtrk = m] :
                t \in Texts \union {<<>>},
                m \in {<<>>, <<"a">>, <<"a", "+", ":", "9">>, <<"a", ":", "1", "0", "0">>, <<"a", ":">>}}
    \union {[M EXCEPT !.auth = t, !.ret = r] : t \in Texts, r \in {<<>>, <<"full">>, <<"a", ";">>}}
    \union {[M EXCEPT !.submitter = t, !.tls = r, !.conperm = r] : t \in Texts \union {<<>>}, r \in BOOLEAN}
    \union {[M EXCEPT !.solicit = v] : v \in {<<"a", ":", "b", ",", "c">>, <<"a", ",">>, <<"a", " ">>}}
    \union {[M EXCEPT !.extra = v, !.size = {5}] :
                v \in {<<P("XEXT", <<>>)>>, <<P("XEXT", <<"a", "=">>)>>, <<P("SIZE", <<"9">>)>>,
                       <<P("-", <<>>)>>, <<P("XEXT", <<"a">>), P("XEXT", <<>>)>>}}

RcptOptionSlices ==
    {[R EXCEPT !.notify = n, !.conneg = c] :
         n \in {<<<<"never">>>>, <<<<"NEVER">>, <<"SUCCESS">>>>, <<<<"SUCCESS", ",", "a">>>>,
                <<<<"a">>, <<"A">>>>, <<<<"a", ";">>>>, <<<<>>>>}, c \in BOOLEAN}
    \union {[R EXCEPT !.otype = t, !.original = o] : t \in {<<>>, <<"rfc822">>, <<"a", ";">>}, o \in Texts \union {<<>>}}
    \union {[R EXCEPT !.rrvs = {[at |-> <<d>>, disposition |-> c]}] :
                d \in {"1-Jan+02", "1-Jan.5Z", "a"}, c \in {<<>>, <<"c">>, <<"R">>, <<"N">>}}
    \union {[R EXCEPT !.extra = <<P("SIZE", <<"9">>)>>]}

MCRequests ==
    {MailReq(p, [M EXCEPT !.utf8 = u]) : p \in MailPaths, u \in BOOLEAN}
    \union {MailReq(p, [M EXCEPT !.future = {h}]) : p \in {<<>>}, h \in Holds}
    \union {MailReq(Address, o) : o \in MailOptionSlices}
    \union {[MailReq(Address, [M EXCEPT !.extra = <<P("XEXT", <<>>)>>, !.auth = <<"a">>]) EXCEPT !.allow = TRUE]}
    \union {RcptReq(p, R) : p \in RcptPaths}
    \union {RcptReq(Address, o) : o \in RcptOptionSlices}

(***************************************************************************)
(* Lines of other implementations.                                         *)
(***************************************************************************)
MailLine(path, params) == <<"mail", " ", " ", "from:", " ", "<">> \o path \o <<">">> \o params \o CRLF
RcptLine(path, params) == <<"RCPT", " ", "TO:", "<">> \o path \o <<">">> \o params \o CRLF

ForeignPaths ==
    {<<"\"", ">", "\"", "@", "b">>, <<"\"", "\\", "\"", ">", "\"", "@", "b">>, <<"\"", "a", "@", "b">>,
     <<"a", "@", "b", "@", "c">>, <<"a", "@", "[", "b", ":", ">", "]">>, <<"a", "@", "[", "b", "]">>,
     <<"a", "@", "[", "127.0.0.1", "]">>, <<"a", ".", "b", "@", "b", ".", "c">>, <<"a", ".", ".", "@", "b">>,
     <<"a", "@", "-", "b">>, <<"@", "[", "b", ":", "c", "]", ":", "a", "@", "b">>, <<"@", "b", "a", "@", "b">>,
     <<"a", "@", "b", ".">>, <<"ff", "@", "b">>, <<"postmaster", "@">>, <<"\"", "a", "\"", "a", "@", "b">>,
     <<"\"", "a", "\"", "\"", "a", "\"", "@", "b">>, <<"\"", "\\", "\\", "\"", "@", "b">>,
     <<"\"", "\\", "\"", "@", "b">>, <<" ", "a", "@", "b">>, <<"a", ">", "@", "b">>}

V(kw, val) == <<" ", kw, "=">> \o val
ForeignParams ==
    {V("ENVID", e) \o V("MTRK", <<"a">>) :
         e \in {<<"a", "@", "b">>, <<"a", "+", "4", "0", "b">>, <<"a", "@", "b", "+", "4", "0", "c">>,
                <<"a", "+", "2", "b", "@", "b">>, <<"a", "+", "2">>}}
    \union {V("BY", v) : v \in {<<"+", "5", ";", "n", "T">>, <<"-", "5", ";", "R">>, <<"5", ";", "N", ";">>,
                                <<"0", "0", "5", ";", "R">>, <<"5", ";", "T">>}}
    \union {V("HOLDFOR", v) : v \in {<<"1">>, <<"0", "1">>, <<"9">>, <<"1", "0">>, <<"+", "1">>}}
    \union {V("HOLDUNTIL", <<v>>) \o w : v \in {"1-Jan+02", "1-Jan.5Z"}, w \in {<<>>, V("HOLDFOR", <<"1">>)}}
    \union {V("size", <<"1", "3">>), V("size", <<"+", "1">>), V("size", <<>>), V("SIZE", <<"1">>) \o V("size", <<"2">>),
            V("body", <<"8bitmime">>) \o <<" ", " ">> \o V("XEXT", <<"a">>) \o <<" ", "REQUIRETLS">>,
            V("XEXT", <<"a">>) \o <<" ", "XEXT", " ">> \o V("RET", <<"full">>), <<" ", "-", "XEXT">>, <<"XEXT">>,
            <<" ", "XEXT", "nbsp", "CONPERM">>, V("SUBMITTER", <<"a", "+", "4", "0", "b">>),
            V("SUBMITTER", <<"\"", ">", "\"", "@", "b">>), V("AUTH", <<"a", "+", "ff">>), V("XEXT", <<"a", "CR">>),
            <<" ", "SMTPUTF8">> \o V("MT-PRIORITY", <<"+", "4">>), <<" ">>}

ForeignRcptParams ==
    {V("NOTIFY", <<"SUCCESS", ",", "success">>), V("NOTIFY", <<"never">>) \o V("ORCPT", <<"rfc822", ";", "a", "+", "4", "0">>),
     V("ORCPT", <<"rfc822", "a">>), V("RRVS", <<"1-Jan.5Z">>), V("RRVS", <<"1-Jan+02", ";", "c">>),
     V("SIZE", <<"9">>) \o <<" ", "CONNEG">>, V("RRVS", <<"1-Jan-Z", ";">>)}

MCForeignLines ==
    {MailLine(p, <<>>) : p \in ForeignPaths}
    \union {RcptLine(p, <<>>) : p \in ForeignPaths}
    \union {MailLine(Address, q) : q \in ForeignParams}
    \union {MailLine(<<>>, q) : q \in {V("HOLDFOR", <<"1">>), <<>>}}
    \union {RcptLine(Address, q) : q \in ForeignRcptParams}
    \union {RcptLine(<<>>, <<>>), <<"XEXT">> \o CRLF, <<"MAIL", "LF">>, CRLF, <<"MAIL">> \o CRLF, <<"é", " ">> \o CRLF,
            MailLine([k \in 1..(MaxPath + 1) |-> "a"], <<>>), [k \in 1..(MaxCommandLine + 1) |-> "a"] \o CRLF}

(***************************************************************************)
(* Verdicts.                                                               *)
(***************************************************************************)
E(code, enhanced, text) == [Accept EXCEPT !.error = TRUE, !.code = code, !.enhanced = enhanced, !.text = text]

MCVerdicts ==
    {Accept, E(0, NoCode, <<>>), E(550, Code(5, 7, 1), <<"a", " ", "b">>), E(450, Code(5, 1, 1), <<>>),
     E(554, ParseEnhancedCode(<<"a">>), <<"a">>), E(421, NoCode, <<"a">>),
     E(550, NoCode, <<"5", ".", "1", ".", "1", " ", "a">>), E(550, NoCode, <<"5", ".", "1", ".", "1", "0", "0", "0">>)}
    \union {[Accept EXCEPT !.lines = l] : l \in {<<<<"a">>, <<"2", ".", "1", ".", "5">>>>, <<<<>>>>}}

\* With the text a client reports for a reply of two lines.
MCVerdictsJoined == {E(550, Code(5, 7, 1), <<"a", "LF", "b">>)}
=============================================================================
