------------------------------ MODULE Exchange ------------------------------
(***************************************************************************)
(* A request of the client's caller on its way to the server's backend and *)
(* the backend's verdict on its way back, octet for octet: the hello, one  *)
(* MAIL or RCPT command and its reply.  The command may also come from     *)
(* another implementation.  A backend that relays then hands what it was   *)
(* told to its own client, for a second server with the same               *)
(* configuration.  The state a command finds and leaves (transactions,     *)
(* recipients counted, policy) is ServerSession's and ClientSession's.     *)
(*                                                                         *)
(* cfg      the server: extended (EHLO, else HELO), lmtp, tls, auth,       *)
(*          chunking, binaryMIME, maxMessage, declared, limits; and utf8,  *)
(*          whether the transaction a RCPT belongs to asked for SMTPUTF8   *)
(* pc       where the exchange is                                          *)
(* hop      the first or the second server                                 *)
(* table    what the client knows of the server                            *)
(* req      what was asked: by the client's caller, or by a foreign line   *)
(* toServer, toClient   octets under way                                   *)
(* told     what the backends heard, one entry for each hop                *)
(* verdict  what the backend answered                                      *)
(* sent     the reply the server meant to send                             *)
(* got      what the client made of the reply                              *)
(***************************************************************************)
EXTENDS ClientParameters, ServerParameters, Capabilities

CONSTANTS
    Configs,      \* server configurations
    Requests,     \* [verb, path, o, allow]: what callers ask for
    ForeignLines, \* command lines of other implementations
    Verdicts      \* what backends answer

VARIABLES cfg, pc, hop, table, req, toServer, toClient, told, verdict, sent, got

vars == <<cfg, pc, hop, table, req, toServer, toClient, told, verdict, sent, got>>

NoRequest == [verb |-> "none", path |-> <<>>, o |-> NoMailOptions, allow |-> FALSE]
Accept == [code |-> 0, error |-> FALSE, enhanced |-> NoCode, text |-> <<>>, lines |-> <<>>]
Silence == [code |-> 0, enhanced |-> NoCode, lines |-> <<>>]

Init ==
    /\ cfg \in {c \in Configs : validateExtensionSession(c.declared, c.limits)}
    /\ pc = "hello" /\ hop = 1
    /\ table = [ext |-> <<>>, tls |-> cfg.tls]
    /\ req = NoRequest
    /\ toServer = <<>> /\ toClient = <<>>
    /\ told = <<>>
    /\ verdict = Accept /\ sent = Silence /\ got = Silence

(***************************************************************************)
(* The hello.                                                              *)
(***************************************************************************)
\* handleHello's reply.
Greet ==
    /\ pc = "hello"
    /\ HelloReply(cfg).ok
    /\ toClient' = HelloReply(cfg).octets
    /\ pc' = "greeted"
    /\ UNCHANGED <<cfg, hop, table, req, toServer, told, verdict, sent, got>>

\* ehloLocked or heloLocked reads it.
LearnFrom(reply) ==
    IF reply.ok /\ reply.code = 250 /\ (cfg.extended => ParseEHLOReply(reply.lines).ok)
    THEN /\ table' = [table EXCEPT !.ext = IF cfg.extended
                                           THEN Extensions(ParseEHLOReply(reply.lines).ext)
                                           ELSE <<>>]
         /\ toClient' = reply.rest
         /\ pc' = "ready"
    ELSE pc' = "poisoned" /\ UNCHANGED <<table, toClient>>

Learn ==
    /\ pc = "greeted"
    /\ LearnFrom(ReadReply(toClient))
    /\ UNCHANGED <<cfg, hop, req, toServer, told, verdict, sent, got>>

(***************************************************************************)
(* The command.                                                            *)
(***************************************************************************)
Encoded(r) ==
    IF r.verb = "MAIL" THEN Mail(table, r.path, r.o, r.allow) ELSE Rcpt(table, r.path, r.o, r.allow, cfg.utf8)

\* Client.Mail or Client.Rcpt up to the write; a local refusal writes nothing.
Ask(r) ==
    /\ req' = r
    /\ IF Encoded(r).ok
       THEN toServer' = Encoded(r).octets /\ pc' = "sent"
       ELSE toServer' = <<>> /\ pc' = "refused"
    /\ UNCHANGED <<cfg, table, toClient, told, verdict, sent, got>>

Call == pc = "ready" /\ hop' = hop /\ \E r \in Requests : Ask(r)

Foreign ==
    /\ pc = "ready"
    /\ \E l \in ForeignLines : toServer' = l
    /\ req' = [NoRequest EXCEPT !.verb = "foreign"]
    /\ pc' = "sent"
    /\ UNCHANGED <<cfg, hop, table, toClient, told, verdict, sent, got>>

\* A relaying backend passes on what it heard, advertised or not.
Forward ==
    /\ pc = "answered" /\ hop = 1 /\ told # <<>>
    /\ hop' = 2
    /\ Ask([verb |-> told[1].verb, path |-> told[1].path, o |-> told[1].o, allow |-> TRUE])

(***************************************************************************)
(* The server: ReadCommand, the handler, the reply.                        *)
(***************************************************************************)
Features ==
    [size |-> cfg.extended, eightBit |-> cfg.extended, smtpUTF8 |-> cfg.extended,
     binaryMIME |-> cfg.chunking /\ cfg.binaryMIME, auth |-> cfg.extended /\ cfg.auth,
     ext |-> parameterExtensionMap(cfg)]

Reply(code, enhanced, text) == [code |-> code, enhanced |-> enhanced, lines |-> <<text>>]
Code(c, s, d) == [class |-> c, subject |-> s, detail |-> d, raw |-> <<>>]
syntaxReply == Reply(501, Code(5, 5, 2), <<"A">>)
unknownReply == Reply(500, Code(5, 5, 1), <<"A">>)
Fallback == <<"F">>

\* The command is refused, or the backend hears the mailbox and the options.
Refuse(reply) == [told |-> <<>>, reply |-> reply]
Hear(verb, path, o) == [told |-> <<[verb |-> verb, path |-> path, o |-> o]>>, reply |-> Silence]

\* A path that does not parse, and parameters after HELO, are syntax errors.
WellFormed(path) == path.ok /\ (cfg.extended \/ path.params = <<>>)

MailWith(mailbox, st) ==
    IF \/ ~st.ok
       \/ ~validateExtensionMailPath(mailbox, st)
       \/ hasHighByte(mailbox) /\ ~st.o.utf8
    THEN Refuse(syntaxReply)
    ELSE IF \E n \in st.o.size : n > cfg.maxMessage THEN Refuse(Reply(552, Code(5, 3, 4), <<"A">>))
    ELSE Hear("MAIL", mailbox, st.o)

handleMail(path) ==
    IF WellFormed(path) THEN MailWith(path.mailbox, parseMailParameters(path.params, Features))
    ELSE Refuse(syntaxReply)

RcptWith(mailbox, st) == IF st.ok THEN Hear("RCPT", mailbox, st.o) ELSE Refuse(syntaxReply)

handleRcpt(path) ==
    IF WellFormed(path) THEN RcptWith(path.mailbox, parseRcptParameters(path.params, parameterExtensionMap(cfg)))
    ELSE Refuse(syntaxReply)

handle(command) ==
    CASE command.verb = <<"MAIL">> -> handleMail(ParseReversePath(command.argument, TRUE))
      [] command.verb = <<"RCPT">> -> handleRcpt(ParseForwardPath(command.argument, cfg.utf8))
      [] OTHER                     -> Refuse(unknownReply)

validateRcptSuccessLines(lines) == \A k \in DOMAIN lines : lines[k] # <<>> /\ ~Has(lines[k], Control)

Failure(v) ==
    LET r == errorReply(v, 451, Fallback) IN Reply(r.code, r.enhanced, r.text)

\* The reply to a command the backend heard, from the verdict v.
Answered(verb, v) ==
    CASE v.error -> Failure(v)
      [] ~v.error /\ verb = "MAIL" -> Reply(250, Code(2, 1, 0), <<"A">>)
      [] ~v.error /\ verb = "RCPT" ->
             IF v.lines = <<>> THEN Reply(250, Code(2, 1, 5), <<"A">>)
             ELSE IF validateRcptSuccessLines(v.lines)
                  THEN [code |-> 250, enhanced |-> NoCode, lines |-> <<<<"A">>>> \o v.lines]
                  ELSE Failure([v EXCEPT !.code = 0])

\* What the connection makes of an encoded reply.
Written(reply) ==
    IF reply.ok THEN toClient' = reply.octets /\ pc' = "replied"
    ELSE toClient' = <<>> /\ pc' = "dropped"

\* writeReply; a reply that cannot be encoded ends the connection.
Send(reply) ==
    /\ sent' = reply
    /\ Written(EncodeReply(reply.code, reply.lines, reply.enhanced, "command"))

Respond(served) ==
    /\ told' = told \o served.told
    /\ IF served.told = <<>>
       THEN verdict' = Accept /\ Send(served.reply)
       ELSE \E v \in Verdicts :
                /\ v.lines # <<>> => served.told[1].verb = "RCPT"
                /\ verdict' = v
                /\ Send(Answered(served.told[1].verb, v))

Dispatch(command) ==
    IF command.ok THEN toServer' = command.rest /\ Respond(handle(command))
    ELSE /\ toServer' = <<>> /\ pc' = "dropped"
         /\ UNCHANGED <<toClient, told, verdict, sent>>

Serve ==
    /\ pc = "sent"
    /\ Dispatch(ReadCommand(toServer))
    /\ UNCHANGED <<cfg, hop, table, req, got>>

(***************************************************************************)
(* The client reads the reply.  421 ends its connection.                   *)
(***************************************************************************)
Understand(reply, e) ==
    /\ got' = [code |-> e.code, enhanced |-> e.enhanced, lines |-> <<e.text>>]
    /\ toClient' = reply.rest
    /\ pc' = IF reply.code = 421 THEN "poisoned" ELSE "answered"

ReceiveReply(reply) ==
    IF reply.ok THEN Understand(reply, replyError(reply, "ENHANCEDSTATUSCODES" \in DOMAIN table.ext))
    ELSE pc' = "poisoned" /\ UNCHANGED <<toClient, got>>

Receive ==
    /\ pc = "replied"
    /\ ReceiveReply(ReadReply(toClient))
    /\ UNCHANGED <<cfg, hop, table, req, toServer, told, verdict, sent>>

Next == Greet \/ Learn \/ Call \/ Foreign \/ Forward \/ Serve \/ Receive

Spec == Init /\ [][Next]_vars

(***************************************************************************)
(* Properties.                                                             *)
(***************************************************************************)
\* The type of the exchange: the backends hear one command for each hop at
\* most, and octets are under way only where somebody is about to read them.
TypeOK ==
    /\ pc \in {"hello", "greeted", "ready", "sent", "refused", "replied", "dropped", "answered", "poisoned"}
    /\ hop \in 1..2 /\ Len(told) <= hop
    /\ toServer # <<>> => pc = "sent"
    /\ toClient # <<>> => pc \in {"greeted", "replied", "poisoned"}

\* The client's table holds exactly what the server listed, with its
\* parameters, and reading LIMITS back gives the session's limits
\* (capabilities and formatLimits against ParseEHLOReply and
\* ParseLimitsParam); after HELO it is empty.
TableExact ==
    pc \notin {"hello", "greeted"} =>
        LET listed == capabilities(cfg)
        IN  /\ DOMAIN table.ext = IF cfg.extended THEN {listed[k].kw : k \in DOMAIN listed} ELSE {}
            /\ \A k \in DOMAIN listed : cfg.extended => table.ext[listed[k].kw] = listed[k].params
            /\ cfg.extended => \A l \in cfg.limits :
                   LET parsed == ParseLimitsParam(table.ext["LIMITS"]) IN parsed.ok /\ parsed.limits = l

\* What callers ask for, as a backend should hear it: case folded where the
\* grammar folds it, times in UTC seconds, lists of tokens flattened.
NormalMail(o) ==
    [o EXCEPT !.body = ToUpper(@), !.ret = ToUpper(@),
              !.by = {[d EXCEPT !.mode = ToUpper(@)] : d \in @},
              !.future = {IF f.until = <<>> THEN f ELSE [f EXCEPT !.until = FormatUTC(@)] : f \in @}]

NormalRcpt(o) ==
    [o EXCEPT !.notify = FlattenSeq([k \in DOMAIN @ |-> Split(ToUpper(@[k]), ",")]),
              !.rrvs = {[at |-> FormatUTC(r.at), disposition |-> ToUpper(r.disposition)] : r \in @}]

Typed == MailExtension \union {"SIZE", "BODY", "SMTPUTF8", "AUTH", "NOTIFY", "ORCPT", "RRVS", "CONNEG"}

\* Requests the documentation leaves to the server: parameters the caller
\* spells out in Extra though there is a field for them, a BODY or NOTIFY
\* value the library does not know, paths that are no mailbox.
Plain(r) ==
    /\ ~r.allow
    /\ \A k \in DOMAIN r.o.extra : keywordOf(r.o.extra[k]) \notin Typed
    /\ r.verb = "MAIL" => /\ \/ ToUpper(r.o.body) \in {<<>>, <<"8BITMIME">>, <<"BINARYMIME">>}
                             \/ cfg.extended /\ r.o.body = <<"7BIT">>
                          /\ ParseReversePath(<<"FROM:", "<">> \o r.path \o <<">">>, TRUE).ok
    /\ r.verb = "RCPT" => /\ \A k \in DOMAIN r.o.notify : parseNotify(r.o.notify[k]) # <<>>
                          /\ ParseForwardPath(<<"TO:", "<">> \o r.path \o <<">">>, TRUE).ok

FromCaller == hop = 1 /\ req.verb \in {"MAIL", "RCPT"}

\* A backend hears the mailbox and the options the caller asked for, all of
\* them and no others: the client's encoders and the server's parsers of
\* ext_b_delivery.go, ext_c_legacy.go, ext_a_transport.go, cmd_params.go and
\* ext_params.go are inverse to each other.  "a local error naming the missing
\* extension is a better diagnostic than a 501": what the client does write for
\* a plain request, this server never refuses as a syntax error, nor with 552,
\* nor by closing the connection.
RequestArrives ==
    FromCaller /\ Plain(req) =>
        /\ pc \in {"replied", "dropped", "answered"} => told # <<>>
        /\ told # <<>> =>
              /\ told[1].verb = req.verb
              /\ told[1].path = IF req.path = <<>> THEN <<>>
                                ELSE discardSourceRoute(req.path, TRUE).mailbox
              /\ told[1].o = IF req.verb = "MAIL" THEN NormalMail(req.o) ELSE NormalRcpt(req.o)

\* A relay may pass on what its server heard: its own client takes it and an
\* equal server hears the same.  What the client refuses is a mailbox with
\* an angle bracket in a quoted string (validatePath), REQUIRETLS without
\* TLS, and MTRK with an ENVID in which an escaped '@' is a second one.
ForwardIsStable ==
    hop = 2 =>
        /\ Len(told) = 2 => told[2] = told[1]
        /\ pc \in {"replied", "dropped", "answered"} => Len(told) = 2
        /\ pc = "refused" =>
               \/ Has(req.path, {"<", ">"})
               \/ req.verb = "MAIL" /\ req.o.tls /\ ~cfg.tls
               \/ req.verb = "MAIL" /\ req.o.mtrk # <<>> /\ Cardinality(At(req.o.envid, "@")) > 1

\* RFC 5321's Mailbox, without a scanner: where an odd number of backslashes
\* precedes it, a quote is part of the quoted string.
Escapes(s, i) == Cardinality({j \in 1..(i - 1) : \A k \in j..(i - 1) : s[k] = "\\"})
QuotedString(s) ==
    /\ Len(s) >= 2
    /\ {i \in At(s, "\"") : Escapes(s, i) % 2 = 0} = {1, Len(s)}
DotString(s) == s # <<>> /\ ~Has(s, {" ", "\"", "\\", "<", ">", "@", "[", "]", ":", ",", "nbsp", "ff"})
Mailbox(s) ==
    \E i \in At(s, "@") :
        LET local  == SubSeq(s, 1, i - 1)
            domain == From(s, i + 1)
        IN  /\ DotString(local) \/ QuotedString(local)
            /\ \/ DotString(domain)
               \/ domain # <<>> /\ At(domain, "[") = {1} /\ At(domain, "]") = {Len(domain)}

\* Whatever command line came, a mailbox a backend hears is one, and written
\* in brackets it parses to itself, without parameters: quoting, literals and
\* source routes never let a part of the line pass for something else
\* (pathClosingAngle, discardSourceRoute, splitMailbox, validateLocalPart).
PathsAreWhole ==
    \A k \in DOMAIN told :
        LET path == <<"<">> \o told[k].path \o <<">">>
            again == IF told[k].verb = "MAIL" THEN ParseReversePath(<<"FROM:">> \o path, TRUE)
                     ELSE ParseForwardPath(<<"TO:">> \o path, cfg.utf8)
        IN  /\ \/ Mailbox(told[k].path)
               \/ told[k].verb = "MAIL" /\ told[k].path = <<>>
               \/ told[k].verb = "RCPT" /\ ToUpper(told[k].path) = <<"POSTMASTER">>
            /\ again.ok /\ again.mailbox = told[k].path /\ again.params = <<>>

\* The order in which parameters are written does not matter to the server:
\* neither whether it takes them nor what the backend hears, the order of
\* unknown parameters aside.
OrderIndifferent ==
    pc = "sent" =>
        LET command == ReadCommand(toServer)
            path    == ParseReversePath(command.argument, TRUE)
            outcome(params) ==
                LET st == parseMailParameters(params, Features)
                IN  IF st.ok /\ validateExtensionMailPath(path.mailbox, st)
                    THEN {[st.o EXCEPT !.extra = ToSet(@)]} ELSE {}
        IN  (command.ok /\ command.verb = <<"MAIL">>) => (path.ok =>
                \A order \in Permutations(DOMAIN path.params) :
                    outcome([k \in DOMAIN path.params |-> path.params[order[k]]]) = outcome(path.params))

\* Text that is an enhanced code by itself is read as one.
Coded(text) == ExtractEnhancedCode(text).ok

\* A caller learns of the backend's verdict what it said: the code, the
\* enhanced code (its class corrected to the reply's) and the text, or 451
\* for an error without a code; after HELO the enhanced code stays in the
\* text.  A command is reported accepted if and only if it was, with lines
\* that can be sent.  The table of extensions is read as exactly.
ReplyExact ==
    /\ TableExact
    /\ pc = "answered" \/ (pc = "poisoned" /\ got # Silence) =>
        LET enhanced == normalizeEnhancedCode(verdict.code, verdict.enhanced)
            text     == IF verdict.text = <<>> THEN Fallback ELSE verdict.text
        IN  /\ got.code = 250 <=> Len(told) = hop /\ ~verdict.error /\ validateRcptSuccessLines(verdict.lines)
            /\ verdict.error => got.code = IF verdict.code = 0 THEN 451 ELSE verdict.code
            /\ verdict.error /\ verdict.code # 0 /\ (IsSet(enhanced) \/ ~Coded(text)) =>
                   IF cfg.extended
                   THEN /\ got.lines = <<text>>
                        /\ IsSet(got.enhanced) = IsSet(enhanced)
                        /\ IsSet(enhanced) => got.enhanced = [enhanced EXCEPT !.raw = formatEnhancedCode(enhanced)]
                   ELSE got.lines = <<IF IsSet(enhanced) THEN formatEnhancedCode(enhanced) \o <<" ">> \o text
                                      ELSE text>>

\* "A returned *smtp.Error rejects only this recipient; the transaction
\* remains open" (smtpserver/session.go): a backend's rejection is answered.
RejectionIsAnswered ==
    pc = "dropped" => ~verdict.error
=============================================================================
