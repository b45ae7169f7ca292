------------------------------ MODULE Replies ------------------------------
(***************************************************************************)
(* Command and reply lines: internal/smtpwire/command_decoder.go,          *)
(* reply_encoder.go, reply.go and enhanced.go; what the server makes of a  *)
(* backend's error (cmd_reply.go, reply.go) and the client of a reply      *)
(* (smtpclient/reply.go).                                                  *)
(***************************************************************************)
EXTENDS Encoding

CONSTANTS
    MaxCommandLine, \* Limits.MaxCommandLineLength, in symbols, CRLF included
    MaxReplyLine,   \* Limits.MaxReplyLineLength, in symbols of text
    MaxReplyLines   \* Limits.MaxReplyLines

CRLF == <<"CR", "LF">>

(***************************************************************************)
(* ReadCommand.  A line without its CR, an oversized one, one with a       *)
(* malformed verb or a control octet is an error, and the line is gone.    *)
(***************************************************************************)
readCommandLine(octets) ==
    LET cut  == Cut(octets, "LF")
        line == cut.before
    IN  IF cut.found /\ Len(line) < MaxCommandLine /\ line # <<>> /\ Last(line) = "CR"
        THEN [ok |-> TRUE, line |-> Front(line)]
        ELSE Failed

validateCommandVerb(verb) == verb # <<>> /\ Within(verb, Word \union {"-"})

ReadCommand(octets) ==
    LET read     == readCommandLine(octets)
        cut      == Cut(read.line, " ")
        argument == TrimLeft(cut.after)
    IN  IF read.ok /\ validateCommandVerb(cut.before) /\ ~Has(argument, Control)
        THEN [ok |-> TRUE, verb |-> ToUpper(cut.before), argument |-> argument,
              rest |-> Cut(octets, "LF").after]
        ELSE Failed

(***************************************************************************)
(* Enhanced status codes.                                                  *)
(***************************************************************************)
NoCode == [class |-> 0, subject |-> 0, detail |-> 0, raw |-> <<>>]
IsSet(code) == code # NoCode

\* smtp.ParseEnhancedCode keeps what it cannot read.
ParseEnhancedCode(raw) ==
    LET segs == Split(raw, ".")
    IN  IF Len(segs) = 3 /\ \A k \in 1..3 : IsDecimal(segs[k])
        THEN [class |-> Number(segs[1]), subject |-> Number(segs[2]), detail |-> Number(segs[3]), raw |-> raw]
        ELSE [NoCode EXCEPT !.raw = raw]

ExtractEnhancedCode(text) ==
    LET cut  == Cut(text, " ")
        segs == Split(cut.before, ".")
    IN  IF /\ Len(segs) = 3
           /\ segs[1] \in {<<"2">>, <<"4">>, <<"5">>}
           /\ \A k \in 2..3 : IsDecimal(segs[k]) /\ Len(segs[k]) <= 3
        THEN [ok |-> TRUE, code |-> ParseEnhancedCode(cut.before), text |-> cut.after]
        ELSE Failed

(***************************************************************************)
(* EncodeReply.  context "command" puts the enhanced code on every line.   *)
(***************************************************************************)
validReplyCode(code) == code \in 200..559 /\ (code \div 10) % 10 <= 5

formatEnhancedCode(code) ==
    Decimal(code.class) \o <<".">> \o Decimal(code.subject) \o <<".">> \o Decimal(code.detail)

validEnhanced(reply, code) ==
    /\ code.class \in {2, 4, 5}
    /\ code.subject <= 999 /\ code.detail <= 999
    /\ reply \div 100 = code.class

EncodeReply(code, lines, enhanced, context) ==
    LET marked == IsSet(enhanced) /\ context = "command"
        prefix == formatEnhancedCode(enhanced)
        text(k) == IF ~marked THEN lines[k]
                   ELSE IF lines[k] = <<>> THEN prefix ELSE prefix \o <<" ">> \o lines[k]
    IN  IF /\ validReplyCode(code)
           /\ \A k \in DOMAIN lines : ~Has(lines[k], Control)
           /\ marked => validEnhanced(code, enhanced)
        THEN [ok |-> TRUE,
              octets |-> FlattenSeq([k \in DOMAIN lines |->
                             Decimal(code) \o <<IF k < Len(lines) THEN "-" ELSE " ">> \o text(k) \o CRLF])]
        ELSE Failed

(***************************************************************************)
(* ReadReply.                                                              *)
(***************************************************************************)
parseReplyLine(line) ==
    IF Len(line) < 3 \/ ~Within(SubSeq(line, 1, 3), Digit) THEN Failed
    ELSE IF Number(<<line[1]>>) \notin 2..5 \/ Number(<<line[2]>>) > 5 THEN Failed
    ELSE [ok   |-> TRUE,
          code |-> Number(SubSeq(line, 1, 3)),
          cont |-> Len(line) > 3 /\ line[4] = "-",
          text |-> IF Len(line) > 3 /\ line[4] \in {"-", " "} THEN From(line, 5) ELSE From(line, 4)]

\* The lines of octets without their line ends, up to the last LF.
readLines(octets) ==
    LET cut == Split(octets, "LF")
    IN  [k \in 1..(Len(cut) - 1) |->
            IF cut[k] # <<>> /\ Last(cut[k]) = "CR" THEN Front(cut[k]) ELSE cut[k]]

ReadReply(octets) ==
    LET parsed == [k \in DOMAIN readLines(octets) |-> parseReplyLine(readLines(octets)[k])]
        ends   == {k \in DOMAIN parsed : parsed[k].ok => ~parsed[k].cont}
        n      == CHOOSE k \in ends : \A j \in ends : k <= j
    IN  IF ends = {} THEN Failed
        ELSE IF /\ \A k \in 1..n : parsed[k].ok
                /\ \A k \in 1..n : parsed[k].code = parsed[1].code /\ Len(parsed[k].text) <= MaxReplyLine
                /\ n <= MaxReplyLines
        THEN [ok    |-> TRUE,
              code  |-> parsed[1].code,
              lines |-> [k \in 1..n |-> parsed[k].text],
              text  |-> Join([k \in 1..n |-> parsed[k].text], "LF"),
              rest  |-> Join(From(Split(octets, "LF"), n + 1), "LF")]
        ELSE Failed

(***************************************************************************)
(* The server's replies.  A backend's verdict is an error with a code, an  *)
(* error without one (code 0), or none.                                    *)
(***************************************************************************)
normalizeEnhancedCode(code, enhanced) ==
    IF ~IsSet(enhanced) \/ enhanced.class = code \div 100 \/ code \div 100 \notin {2, 4, 5} THEN enhanced
    ELSE [NoCode EXCEPT !.class = code \div 100]

genericEnhanced(code) == [NoCode EXCEPT !.class = code \div 100]

errorReply(verdict, fallbackCode, fallbackText) ==
    IF verdict.code >= 200
    THEN [code |-> verdict.code, enhanced |-> normalizeEnhancedCode(verdict.code, verdict.enhanced),
          text |-> IF verdict.text = <<>> THEN fallbackText ELSE verdict.text]
    ELSE [code |-> fallbackCode, enhanced |-> genericEnhanced(fallbackCode), text |-> fallbackText]

(***************************************************************************)
(* The client's reading of a reply: an *smtp.Error, or success.            *)
(***************************************************************************)
\* Enhanced codes are looked for in every reply (mutant).
replyErrorAlways(reply, parseEnhanced) ==
    LET found == ExtractEnhancedCode(reply.text)
    IN  IF found.ok THEN [code |-> reply.code, enhanced |-> found.code, text |-> found.text]
        ELSE [code |-> reply.code, enhanced |-> NoCode, text |-> reply.text]

replyError(reply, parseEnhanced) ==
    LET found == ExtractEnhancedCode(reply.text)
    IN  IF parseEnhanced /\ found.ok
        THEN [code |-> reply.code, enhanced |-> found.code, text |-> found.text]
        ELSE [code |-> reply.code, enhanced |-> NoCode, text |-> reply.text]
=============================================================================
