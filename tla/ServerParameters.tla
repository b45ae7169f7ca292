-------------------------- MODULE ServerParameters --------------------------
(***************************************************************************)
(* How the server reads the parameters of MAIL and RCPT: cmd_params.go and *)
(* ext_params.go.  features are the parameters this session may carry,     *)
(* with the declared EHLO keywords and their parameters in ext.            *)
(***************************************************************************)
EXTENDS Parameters

(***************************************************************************)
(* Structured values.                                                      *)
(***************************************************************************)
\* By-time and by-mode; {} is a refusal.
parseDeliverBy(value, capability) ==
    LET parts   == Split(value, ";")
        upper   == ToUpper(parts[2])
        trace   == upper # <<>> /\ Last(upper) = "T"
        mode    == IF trace THEN Front(upper) ELSE upper
        seconds == SignedNumber(parts[1])
        digits  == SelectSeq(parts[1], LAMBDA c : c \notin {"+", "-"})
        minimum == Cut(capability, ",").before
    IN  IF /\ Len(parts) = 2
           /\ Len(digits) <= MaxDigits
           /\ validSignedDecimal(parts[1])
           /\ mode \in {<<"N">>, <<"R">>}
           /\ mode = <<"R">> =>
                  /\ seconds >= 1
                  /\ minimum # <<>> => IsSigned(minimum) /\ seconds >= SignedNumber(minimum)
        THEN {[seconds |-> seconds, mode |-> mode, trace |-> trace]}
        ELSE {}

\* The maxima only bound what comes later (mutant).
parseFutureReleaseUnbounded(keyword, value, capability) ==
    IF keyword = "HOLDFOR"
    THEN IF IsDecimal(value) THEN {[for |-> Number(value), until |-> <<>>]} ELSE {}
    ELSE IF IsTime(value) THEN {[for |-> 0, until |-> FormatUTC(value)]} ELSE {}

\* A hold; {} is a refusal.  HOLDFOR takes one spelling of a number only.
parseFutureRelease(keyword, value, capability) ==
    LET fields == Fields(capability)
    IN  IF ~(Len(fields) = 2 /\ IsSigned(fields[1]) /\ IsTime(fields[2])) THEN {}
        ELSE IF keyword = "HOLDFOR"
        THEN IF /\ IsSigned(value)
                /\ SignedNumber(value) \in 1..SignedNumber(fields[1])
                /\ Signed(SignedNumber(value)) = value
             THEN {[for |-> SignedNumber(value), until |-> <<>>]}
             ELSE {}
        ELSE IF IsTime(value) /\ Instant[value[1]] <= Instant[fields[2][1]]
             THEN {[for |-> 0, until |-> FormatUTC(value)]}
             ELSE {}

\* The tokens; <<>> is a refusal.
parseNotify(value) ==
    LET parts == Split(ToUpper(value), ",")
    IN  IF /\ \A k \in DOMAIN parts : validAtom(parts[k])
           /\ Cardinality(ToSet(parts)) = Len(parts)
           /\ <<"NEVER">> \in ToSet(parts) => Len(parts) = 1
        THEN parts
        ELSE <<>>

\* {} is a refusal; a fraction of a second is one.
parseRRVS(value) ==
    LET parts       == Split(value, ";")
        disposition == IF Len(parts) = 2 THEN ToUpper(parts[2]) ELSE <<>>
    IN  IF /\ Len(parts) <= 2
           /\ IsTime(parts[1]) /\ parts[1][1] \notin Fractions
           /\ Len(parts) = 2 => disposition \in {<<"C">>, <<"R">>}
        THEN {[at |-> FormatUTC(parts[1]), disposition |-> disposition]}
        ELSE {}

decodeRequiredXtext(value) == IF value = <<>> THEN Failed ELSE DecodeXtext(value)

(***************************************************************************)
(* One parameter after another.  st holds the options so far and the       *)
(* keywords seen; the first refusal is the command's.                      *)
(***************************************************************************)
Reading(o) == [ok |-> TRUE, o |-> o, seen |-> {}, envidOriginal |-> <<>>]
keywordOf(p) == IF Len(p.kw) = 1 THEN ToUpper(p.kw)[1] ELSE ""

Take(st, keyword, valid, o) ==
    IF keyword \notin st.seen /\ valid
    THEN [st EXCEPT !.o = o, !.seen = @ \union {keyword}]
    ELSE [st EXCEPT !.ok = FALSE]

\* A parameter no extension of this library names is kept as it came.
Keep(st, p) == [st EXCEPT !.o.extra = Append(@, p)]

Declared(ext, keyword) ==
    (IF keyword \in DOMAIN ExtensionOf THEN ExtensionOf[keyword] ELSE keyword) \in DOMAIN ext

parseExtensionMailParameter(st, p, ext) ==
    LET kw  == keywordOf(p)
        v   == p.val
        raw == decodeRequiredXtext(v)
        by  == parseDeliverBy(v, ext["DELIVERBY"])
        hold == parseFutureRelease(kw, v, ext["FUTURERELEASE"])
    IN  CASE kw = "RET"         -> Take(st, kw, v # <<>>, [st.o EXCEPT !.ret = ToUpper(v)])
          [] kw = "ENVID"       -> [Take(st, kw, raw.ok, [st.o EXCEPT !.envid = raw.raw])
                                       EXCEPT !.envidOriginal = v]
          [] kw = "BY"          -> Take(st, kw, by # {}, [st.o EXCEPT !.by = by])
          [] kw \in {"HOLDFOR", "HOLDUNTIL"} ->
                 Take(st, kw, st.seen \intersect {"HOLDFOR", "HOLDUNTIL"} = {} /\ hold # {},
                      [st.o EXCEPT !.future = hold])
          [] kw = "MT-PRIORITY" -> Take(st, kw, validSignedDecimal(v), [st.o EXCEPT !.priority = v])
          [] kw = "REQUIRETLS"  -> Take(st, kw, v = <<>>, [st.o EXCEPT !.tls = TRUE])
          [] kw = "SOLICIT"     -> Take(st, kw, validSolicitValue(v), [st.o EXCEPT !.solicit = v])
          [] kw = "MTRK"        -> Take(st, kw, validMTRK(v), [st.o EXCEPT !.mtrk = v])
          [] kw = "SUBMITTER"   -> Take(st, kw, raw.ok /\ validSubmitter(raw.raw),
                                        [st.o EXCEPT !.submitter = raw.raw])
          [] kw = "CONPERM"     -> Take(st, kw, v = <<>>, [st.o EXCEPT !.conperm = TRUE])

MailExtension == {"RET", "ENVID", "BY", "HOLDFOR", "HOLDUNTIL", "MT-PRIORITY", "REQUIRETLS", "SOLICIT",
                  "MTRK", "SUBMITTER", "CONPERM"}

mailParameter(st, p, features) ==
    LET kw   == keywordOf(p)
        v    == p.val
        body == ToUpper(v)
        raw  == decodeRequiredXtext(v)
    IN  CASE ~st.ok            -> st
          [] st.ok /\ kw = "SIZE"     -> Take(st, kw, features.size /\ IsDecimal(v),
                                              [st.o EXCEPT !.size = {Number(v)}])
          [] st.ok /\ kw = "BODY"     -> Take(st, kw, \/ body \in {<<"7BIT">>, <<"8BITMIME">>} /\ features.eightBit
                                                      \/ body = <<"BINARYMIME">> /\ features.binaryMIME,
                                              [st.o EXCEPT !.body = body])
          [] st.ok /\ kw = "SMTPUTF8" -> Take(st, kw, features.smtpUTF8 /\ v = <<>>, [st.o EXCEPT !.utf8 = TRUE])
          [] st.ok /\ kw = "AUTH"     -> Take(st, kw, features.auth /\ raw.ok, [st.o EXCEPT !.auth = raw.raw])
          [] st.ok /\ kw \in MailExtension ->
                 IF Declared(features.ext, kw) THEN parseExtensionMailParameter(st, p, features.ext)
                 ELSE [st EXCEPT !.ok = FALSE]
          [] OTHER -> Keep(st, p)

parseMailParameters(params, features) ==
    FoldLeft(LAMBDA st, p : mailParameter(st, p, features), Reading(NoMailOptions), params)

parseExtensionRcptParameter(st, p) ==
    LET kw     == keywordOf(p)
        cut    == Cut(p.val, ";")
        raw    == decodeRequiredXtext(cut.after)
        tokens == parseNotify(p.val)
        since  == parseRRVS(p.val)
    IN  CASE kw = "NOTIFY" -> Take(st, kw, tokens # <<>>, [st.o EXCEPT !.notify = tokens])
          [] kw = "ORCPT"  -> Take(st, kw, cut.found /\ validAtom(cut.before) /\ raw.ok,
                                   [st.o EXCEPT !.otype = cut.before, !.original = raw.raw])
          [] kw = "RRVS"   -> Take(st, kw, since # {}, [st.o EXCEPT !.rrvs = since])
          [] kw = "CONNEG" -> Take(st, kw, p.val = <<>>, [st.o EXCEPT !.conneg = TRUE])

rcptParameter(st, p, ext) ==
    CASE ~st.ok -> st
      [] st.ok /\ keywordOf(p) \in {"NOTIFY", "ORCPT", "RRVS", "CONNEG"} ->
             IF Declared(ext, keywordOf(p)) THEN parseExtensionRcptParameter(st, p)
             ELSE [st EXCEPT !.ok = FALSE]
      [] OTHER -> Keep(st, p)

parseRcptParameters(params, ext) ==
    FoldLeft(LAMBDA st, p : rcptParameter(st, p, ext), Reading(NoRcptOptions), params)

\* Checked once all parameters are read, so that their order does not matter.
validateExtensionMailPath(mailbox, st) ==
    /\ mailbox = <<>> => st.o.future = {}
    /\ st.o.mtrk # <<>> => validMTRKENVID(st.envidOriginal)
=============================================================================
