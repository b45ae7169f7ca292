-------------------------- MODULE ClientParameters --------------------------
(***************************************************************************)
(* How the client writes MAIL and RCPT: mail.go, rcpt.go and the encoders  *)
(* of ext_a_transport.go, ext_b_delivery.go and ext_c_legacy.go.  A table  *)
(* is what the client learned of the server: the EHLO keywords with their  *)
(* parameters; tls says whether the connection is protected.  Each encoder *)
(* yields parameters or refuses before anything is written.                *)
(***************************************************************************)
EXTENDS Parameters

Params(seq) == [ok |-> TRUE, params |-> seq]
Param(kw, val) == [kw |-> <<kw>>, val |-> val]
When(condition, p) == IF condition THEN <<p>> ELSE <<>>

\* The encoders run in turn; the first refusal is the call's.
InTurn(encoded) ==
    IF \A k \in DOMAIN encoded : encoded[k].ok
    THEN Params(FlattenSeq([k \in DOMAIN encoded |-> encoded[k].params]))
    ELSE Failed

advertises(table, keyword) == keyword \in DOMAIN table.ext

(***************************************************************************)
(* ext_b_delivery.go.                                                      *)
(***************************************************************************)
dsnMailParams(o) ==
    Params(When(o.ret # <<>>, Param("RET", ToUpper(o.ret)))
           \o When(o.envid # <<>>, Param("ENVID", EncodeXtext(o.envid))))

deliverByParam(table, d) ==
    LET mode    == ToUpper(d.mode)
        minimum == IF advertises(table, "DELIVERBY") THEN Cut(table.ext["DELIVERBY"], ",").before ELSE <<>>
    IN  IF /\ \/ mode = <<"N">> /\ d.seconds >= -MaxSeconds
              \/ mode = <<"R">> /\ d.seconds >= 1
           /\ d.seconds <= MaxSeconds
           /\ mode = <<"R">> /\ minimum # <<>> =>
                  IsSigned(minimum) /\ SignedNumber(minimum) >= 1 /\ d.seconds >= SignedNumber(minimum)
        THEN Params(<<Param("BY", Signed(d.seconds) \o <<";">> \o mode
                                  \o (IF d.trace THEN <<"T">> ELSE <<>>))>>)
        ELSE Failed

futureReleaseParam(table, f) ==
    LET max == Fields(table.ext["FUTURERELEASE"])
    IN  IF ~(/\ (f.for = 0) # (f.until = <<>>)
             /\ advertises(table, "FUTURERELEASE")
             /\ Len(max) = 2
             /\ IsSigned(max[1]) /\ SignedNumber(max[1]) >= 1
             /\ IsTime(max[2]))
        THEN Failed
        ELSE IF f.for # 0
        THEN IF f.for \in 1..SignedNumber(max[1]) THEN Params(<<Param("HOLDFOR", Signed(f.for))>>) ELSE Failed
        ELSE IF IsTime(f.until) /\ Instant[f.until[1]] <= Instant[max[2][1]]
             THEN Params(<<Param("HOLDUNTIL", FormatUTC(f.until))>>)
             ELSE Failed

mtPriorityParam(v) == IF IsSigned(v) THEN Params(<<Param("MT-PRIORITY", v)>>) ELSE Failed

rrvsParam(r) ==
    LET d == ToUpper(r.disposition)
    IN  IF IsTime(r.at) /\ d \in {<<>>, <<"C">>, <<"R">>}
        THEN Params(<<Param("RRVS", FormatUTC(r.at) \o (IF d = <<>> THEN <<>> ELSE <<";">> \o d))>>)
        ELSE Failed

requireTLSParam(table) == IF table.tls THEN Params(<<Param("REQUIRETLS", <<>>)>>) ELSE Failed

Nothing == Params(<<>>)

deliveryMailParams(table, path, o) ==
    InTurn(<<dsnMailParams(o),
             IF o.by = {} THEN Nothing ELSE deliverByParam(table, CHOOSE d \in o.by : TRUE),
             IF o.future = {} THEN Nothing
             ELSE IF path = <<>> THEN Failed ELSE futureReleaseParam(table, CHOOSE f \in o.future : TRUE),
             IF o.priority = <<>> THEN Nothing ELSE mtPriorityParam(o.priority),
             IF o.tls THEN requireTLSParam(table) ELSE Nothing>>)

\* The tokens of all parts, in upper case.
dsnNotifyValue(notify) ==
    LET values == FlattenSeq([k \in DOMAIN notify |-> Split(ToUpper(notify[k]), ",")])
    IN  IF /\ \A k \in DOMAIN values : values[k] # <<>>
           /\ Cardinality(ToSet(values)) = Len(values)
           /\ <<"NEVER">> \in ToSet(values) => Len(values) = 1
        THEN Params(<<Param("NOTIFY", Join(values, ","))>>)
        ELSE Failed

orcptParam(o) ==
    IF o.otype # <<>> /\ o.original # <<>> /\ validAtom(o.otype)
    THEN Params(<<Param("ORCPT", o.otype \o <<";">> \o EncodeXtext(o.original))>>)
    ELSE Failed

dsnRcptParams(o) ==
    InTurn(<<IF o.notify = <<>> THEN Nothing ELSE dsnNotifyValue(o.notify),
             IF o.otype = <<>> /\ o.original = <<>> THEN Nothing ELSE orcptParam(o),
             IF o.rrvs = {} THEN Nothing ELSE rrvsParam(CHOOSE r \in o.rrvs : TRUE)>>)

(***************************************************************************)
(* ext_c_legacy.go.                                                        *)
(***************************************************************************)
Legacy(asked, valid, table, extension, p) ==
    IF ~asked THEN Nothing
    ELSE IF valid /\ advertises(table, extension) THEN Params(<<p>>) ELSE Failed

legacyMailParams(table, o) ==
    InTurn(<<Legacy(o.solicit # <<>>, validSolicitValue(o.solicit), table, "NO-SOLICITING",
                    Param("SOLICIT", o.solicit)),
             Legacy(o.mtrk # <<>>, validMTRK(o.mtrk) /\ validMTRKENVID(o.envid), table, "MTRK",
                    Param("MTRK", o.mtrk)),
             Legacy(o.submitter # <<>>, validSubmitter(o.submitter), table, "SUBMITTER",
                    Param("SUBMITTER", EncodeXtext(o.submitter))),
             Legacy(o.conperm, TRUE, table, "CONPERM", Param("CONPERM", <<>>))>>)

legacyRcptParams(table, o) == Legacy(o.conneg, TRUE, table, "CONNEG", Param("CONNEG", <<>>))

(***************************************************************************)
(* ext_a_transport.go.                                                     *)
(***************************************************************************)
\* The advertised maximum; 0 is none, and -1 marks a malformed advertisement.
parseSizeParam(raw) ==
    LET fields == Fields(raw)
    IN  IF fields = <<>> THEN 0
        ELSE IF Len(fields) = 1 /\ IsDecimal(fields[1]) THEN Number(fields[1]) ELSE -1

sizeParam(table, size) ==
    LET maximum == parseSizeParam(table.ext["SIZE"])
    IN  IF /\ size >= 0
           /\ advertises(table, "SIZE")
           /\ maximum >= 0
           /\ maximum # 0 => size <= maximum
        THEN Params(<<Param("SIZE", Decimal(size))>>)
        ELSE Failed

bodyParam(table, body) ==
    IF /\ ~Has(body, Control)
       /\ ToUpper(body) = <<"8BITMIME">> => advertises(table, "8BITMIME")
       /\ ToUpper(body) = <<"BINARYMIME">> => advertises(table, "BINARYMIME") /\ advertises(table, "CHUNKING")
    THEN Params(<<Param("BODY", body)>>)
    ELSE Failed

transportMailParams(table, path, o) ==
    IF hasHighByte(path) /\ ~o.utf8 THEN Failed
    ELSE InTurn(<<IF o.size = {} THEN Nothing ELSE sizeParam(table, CHOOSE n \in o.size : TRUE),
                  IF o.body = <<>> THEN Nothing ELSE bodyParam(table, o.body),
                  IF ~o.utf8 THEN Nothing
                  ELSE IF advertises(table, "SMTPUTF8") /\ advertises(table, "8BITMIME")
                       THEN Params(<<Param("SMTPUTF8", <<>>)>>)
                       ELSE Failed>>)

(***************************************************************************)
(* mail.go and rcpt.go.                                                    *)
(***************************************************************************)
parameterExtension(p) ==
    LET name  == ToUpper(p.kw)
        value == ToUpper(p.val)
    IN  IF name = <<"BODY">>
        THEN CASE value = <<"7BIT">>       -> ""
               [] value = <<"BINARYMIME">> -> "BINARYMIME"
               [] OTHER                    -> "8BITMIME"
        ELSE IF Len(name) = 1 /\ name[1] \in DOMAIN ExtensionOf THEN ExtensionOf[name[1]]
        ELSE name[1]

encodeParams(table, params, allowUnadvertised) ==
    IF \A k \in DOMAIN params :
           LET required == parameterExtension(params[k])
           IN  /\ ValidParam(params[k])
               /\ allowUnadvertised \/ required = "" \/ advertises(table, required)
    THEN [ok |-> TRUE, args |-> [k \in DOMAIN params |-> EncodeParam(params[k])]]
    ELSE Failed

validatePath(path) == ~Has(path, {"<", ">"} \union Control)

extensionMailParams(table, path, o) ==
    InTurn(<<deliveryMailParams(table, path, o), legacyMailParams(table, o),
             transportMailParams(table, path, o)>>)

extensionRcptParams(table, o) == InTurn(<<dsnRcptParams(o), legacyRcptParams(table, o)>>)

\* One command: the path and the parameters, or a local refusal.
Command(table, verb, prefix, path, encoded, extra, allow) ==
    IF ~(validatePath(path) /\ encoded.ok) THEN Failed
    ELSE LET args == encodeParams(table, encoded.params \o extra, allow)
         IN  IF args.ok THEN EncodeCommand(verb, <<<<prefix, "<">> \o path \o <<">">>>> \o args.args)
             ELSE Failed

Mail(table, path, o, allow) ==
    Command(table, "MAIL", "FROM:", path,
            InTurn(<<Params(When(o.auth # <<>>, Param("AUTH", EncodeXtext(o.auth)))),
                     extensionMailParams(table, path, o)>>),
            o.extra, allow)

\* utf8: the transaction's MAIL asked for SMTPUTF8.
Rcpt(table, path, o, allow, utf8) ==
    IF path = <<>> \/ (hasHighByte(path) /\ ~(utf8 /\ advertises(table, "SMTPUTF8"))) THEN Failed
    ELSE Command(table, "RCPT", "TO:", path, extensionRcptParams(table, o), o.extra, allow)
=============================================================================
