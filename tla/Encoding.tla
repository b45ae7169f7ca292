------------------------------ MODULE Encoding ------------------------------
(***************************************************************************)
(* internal/smtpwire/encoder.go: command lines, ESMTP parameters and       *)
(* xtext.  A parameter is [kw |-> keyword, val |-> value], with the empty  *)
(* value for none.                                                         *)
(***************************************************************************)
EXTENDS Text

Failed == [ok |-> FALSE]

validateKeyword(kw) == kw # <<>> /\ kw[1] # "-" /\ Within(kw, Word \union {"-"})

validateESMTPValue(v) == v # <<>> /\ ~Has(v, {"=", " "} \union Control \union High)

ValidParam(p) == validateKeyword(p.kw) /\ (p.val # <<>> => validateESMTPValue(p.val))

EncodeParam(p) == IF p.val = <<>> THEN p.kw ELSE p.kw \o <<"=">> \o p.val

validateCommandToken(s) == ~Has(s, Control)

EncodeCommand(verb, args) ==
    IF \A k \in DOMAIN args : validateCommandToken(args[k])
    THEN [ok |-> TRUE, octets |-> Join(<<<<verb>>>> \o args, " ") \o <<"CR", "LF">>]
    ELSE Failed

(***************************************************************************)
(* xtext (RFC 3461).                                                       *)
(***************************************************************************)
\* The octets of the alphabet that an escape may stand for.
HexOf ==
    "+" :> <<"2", "B">> @@ "=" :> <<"3", "D">> @@ " " :> <<"2", "0">> @@ "CR" :> <<"0", "D">>
    @@ "ff" :> <<"F", "F">> @@ "@" :> <<"4", "0">> @@ "a" :> <<"6", "1">>

Escaped == {"+", "=", " "} \union Control \union High

\* xtext that leaves '+' alone (mutant).
EncodeXtextPlus(raw) ==
    FlattenSeq([i \in DOMAIN raw |-> IF raw[i] \in Escaped \ {"+"} THEN <<"+">> \o HexOf[raw[i]]
                                     ELSE <<raw[i]>>])

EncodeXtext(raw) ==
    FlattenSeq([i \in DOMAIN raw |-> IF raw[i] \in Escaped THEN <<"+">> \o HexOf[raw[i]]
                                     ELSE <<raw[i]>>])

\* DecodeXtext: esc is the escape being read; either case of a hex digit will do.
DecodeXtext(s) ==
    LET Step(st, c) ==
            CASE ~st.ok -> st
              [] st.ok /\ Len(st.esc) = 2 ->
                     LET pair == ToUpper(<<st.esc[2], c>>)
                     IN  IF \E o \in DOMAIN HexOf : HexOf[o] = pair
                         THEN [st EXCEPT !.esc = <<>>,
                                         !.out = Append(@, CHOOSE o \in DOMAIN HexOf : HexOf[o] = pair)]
                         ELSE [st EXCEPT !.ok = FALSE]
              [] st.ok /\ (Len(st.esc) = 1 \/ (st.esc = <<>> /\ c = "+")) ->
                     [st EXCEPT !.esc = Append(@, c)]
              [] OTHER -> IF c \in Escaped THEN [st EXCEPT !.ok = FALSE]
                          ELSE [st EXCEPT !.out = Append(@, c)]
        end == FoldLeft(Step, [ok |-> TRUE, esc |-> <<>>, out |-> <<>>], s)
    IN  IF end.ok /\ end.esc = <<>> THEN [ok |-> TRUE, raw |-> end.out] ELSE Failed
=============================================================================
