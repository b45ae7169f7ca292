---------------------------- MODULE Capabilities ----------------------------
(***************************************************************************)
(* The EHLO exchange: what a backend may declare (ext_capabilities.go),    *)
(* what the server then lists (capability.go, floor_extensions.go), the    *)
(* reply's lines (hello.go, ehlo.go), and LIMITS both ways (limits.go).    *)
(***************************************************************************)
EXTENDS Replies, Parameters

CONSTANT
    MaxLimitDigits \* digits of a LIMITS value: six in the code

(***************************************************************************)
(* LIMITS.                                                                 *)
(***************************************************************************)
LimitNames == <<"MAILMAX", "RCPTMAX", "RCPTDOMAINMAX">>
Known == {<<n>> : n \in ToSet(LimitNames)}
NoLimits == [max |-> [k \in 1..3 |-> 0], extra |-> <<>>]

validLimitName(name) == name # <<>> /\ Within(name, Word \union {"-", "_"})
validLimitValue(value) == value # <<>> /\ ~Has(value, {";", " "} \union Control \union High)

parseLimit(s) ==
    IF IsDecimal(s) /\ Len(s) <= MaxLimitDigits /\ s[1] # "0" THEN Number(s) ELSE 0

formatLimits(limits) ==
    Join(SelectSeq([k \in 1..3 |-> IF limits.max[k] = 0 THEN <<>>
                                   ELSE <<LimitNames[k], "=">> \o Decimal(limits.max[k])]
                   \o <<limits.extra>>, LAMBDA f : f # <<>>), " ")

ParseLimitsParam(params) ==
    LET fields == Fields(params)
        cut(k) == Cut(fields[k], "=")
        known(k) == ToUpper(cut(k).before)
        value(k) == IF cut(k).found THEN parseLimit(cut(k).after) ELSE 0
        given(i) == {k \in DOMAIN fields : known(k) = <<LimitNames[i]>> /\ value(k) # 0}
    IN  IF Join(fields, " ") # params THEN Failed
        ELSE IF \E k \in DOMAIN fields :
                    ~(validLimitName(cut(k).before) /\ (cut(k).found => validLimitValue(cut(k).after)))
        THEN Failed
        ELSE [ok     |-> TRUE,
              limits |-> [max   |-> [i \in 1..3 |-> IF given(i) = {} THEN 0
                                                    ELSE value(CHOOSE k \in given(i) : \A j \in given(i) : j <= k)],
                          extra |-> Join(SelectSeq(fields, LAMBDA f : ToUpper(Cut(f, "=").before) \notin Known), " ")]]

(***************************************************************************)
(* What Server accepts of Session.ParameterExtensions and Session.Limits.  *)
(* A declaration is [kw |-> keyword, params |-> octets].                   *)
(***************************************************************************)
Framework ==
    {"PIPELINING", "SIZE", "8BITMIME", "ENHANCEDSTATUSCODES", "STARTTLS", "AUTH", "SMTPUTF8", "CHUNKING",
     "BINARYMIME", "LIMITS", "ATRN", "ETRN", "BURL"}

validCapabilityParams(params) ==
    params # <<>> => params[1] # " " /\ Last(params) # " " /\ ~Has(params, Control \union High)

validateKnownCapabilityParams(keyword, params) ==
    LET parts  == Split(params, ",")
        fields == Fields(params)
    IN  /\ keyword = "DELIVERBY" =>
               /\ parts[1] # <<>> => IsDecimal(parts[1]) /\ Number(parts[1]) \in 1..MaxSeconds
                                     /\ Decimal(Number(parts[1])) = parts[1]
               /\ \A k \in 2..Len(parts) : parts[k] # <<>> /\ ~Has(parts[k], {" "})
        /\ keyword = "FUTURERELEASE" =>
               Len(fields) = 2 /\ IsSigned(fields[1]) /\ SignedNumber(fields[1]) \in 1..MaxSeconds /\ IsTime(fields[2])
        /\ keyword = "NO-SOLICITING" => params = <<>> \/ validSolicitValue(params)

validLimits(limits) ==
    LET fields == Fields(limits.extra)
        name(k) == ToUpper(Cut(fields[k], "=").before)
    IN  /\ \A k \in 1..3 : limits.max[k] < 10^MaxLimitDigits
        /\ Join(fields, " ") = limits.extra
        /\ \A k \in DOMAIN fields :
               /\ validLimitName(name(k))
               /\ name(k) \notin Known
               /\ \A j \in DOMAIN fields : name(j) = name(k) => j = k
               /\ Cut(fields[k], "=").found => validLimitValue(Cut(fields[k], "=").after)

\* limits is {} or the session's limits in a set of one.
validateExtensionSession(declared, limits) ==
    LET keywords == {declared[k].kw : k \in DOMAIN declared}
    IN  /\ keywords \intersect Framework = {}
        /\ Cardinality(keywords) = Len(declared)
        /\ \A k \in DOMAIN declared :
               /\ validCapabilityParams(declared[k].params)
               /\ validateKnownCapabilityParams(declared[k].kw, declared[k].params)
        /\ "MTRK" \in keywords => "DSN" \in keywords
        /\ \A l \in limits : validLimits(l)

(***************************************************************************)
(* What the server lists.  LMTP has no FUTURERELEASE.                      *)
(***************************************************************************)
Line(kw, params) == [kw |-> kw, params |-> params]

InMode(cfg) == SelectSeq(cfg.declared, LAMBDA d : ~(cfg.lmtp /\ d.kw = "FUTURERELEASE"))

\* The map parameters are read with.
parameterExtensionMap(cfg) ==
    LET d == InMode(cfg)
    IN  [kw \in {d[k].kw : k \in DOMAIN d} |-> d[CHOOSE k \in DOMAIN d : d[k].kw = kw].params]

If(condition, line) == IF condition THEN <<line>> ELSE <<>>

capabilities(cfg) ==
    <<Line("PIPELINING", <<>>), Line("SIZE", Decimal(cfg.maxMessage)), Line("8BITMIME", <<>>),
      Line("ENHANCEDSTATUSCODES", <<>>)>>
    \o If(cfg.auth, Line("AUTH", <<"PLAIN">>))
    \o <<Line("SMTPUTF8", <<>>)>>
    \o If(cfg.chunking, Line("CHUNKING", <<>>))
    \o If(cfg.chunking /\ cfg.binaryMIME, Line("BINARYMIME", <<>>))
    \o InMode(cfg)
    \o (IF cfg.limits = {} THEN <<>> ELSE <<Line("LIMITS", formatLimits(CHOOSE l \in cfg.limits : TRUE))>>)

(***************************************************************************)
(* The reply to EHLO or HELO, and what the client keeps of it.             *)
(***************************************************************************)
Identity == <<"B">>

EncodeEHLOReply(lines) ==
    EncodeReply(250, <<Identity>> \o [k \in DOMAIN lines |->
                         IF lines[k].params = <<>> THEN <<lines[k].kw>>
                         ELSE <<lines[k].kw, " ">> \o lines[k].params], NoCode, "hello")

HelloReply(cfg) ==
    IF cfg.extended THEN EncodeEHLOReply(capabilities(cfg)) ELSE EncodeReply(250, <<Identity>>, NoCode, "hello")

\* The lines of a reply as keywords with the rest of the line.
Keyed(lines) ==
    IF \E k \in DOMAIN lines : Cut(lines[k], " ").before = <<>> THEN Failed
    ELSE [ok  |-> TRUE,
          ext |-> [k \in DOMAIN lines |-> [kw     |-> ToUpper(Cut(lines[k], " ").before),
                                          params |-> Cut(lines[k], " ").after]]]

\* The first line is the greeting.
ParseEHLOReply(lines) == Keyed(Tail(lines))

\* connection.ext after EHLO; a later line of the same keyword wins.
Extensions(parsed) ==
    LET of(kw) == {k \in DOMAIN parsed : parsed[k].kw = <<kw>>}
    IN  [kw \in {parsed[k].kw[1] : k \in DOMAIN parsed} |->
            parsed[CHOOSE k \in of(kw) : \A j \in of(kw) : j <= k].params]
=============================================================================
