----------------------------- MODULE Parameters -----------------------------
(***************************************************************************)
(* The options of MAIL and RCPT (options.go, flattened), and what both     *)
(* sides test the same way: client ext_c_legacy.go and server              *)
(* ext_params.go hold the same predicates twice.  An absent option is {}   *)
(* or the empty string; the *Original fields that only record a spelling   *)
(* nobody reads again are left out.                                        *)
(***************************************************************************)
EXTENDS Paths

CONSTANT
    MaxDigits \* digits of a BY time and of an MTRK timeout: nine in the code

NoMailOptions ==
    [auth |-> <<>>, size |-> {}, body |-> <<>>, utf8 |-> FALSE, ret |-> <<>>, envid |-> <<>>,
     by |-> {}, future |-> {}, priority |-> <<>>, tls |-> FALSE, solicit |-> <<>>, mtrk |-> <<>>,
     submitter |-> <<>>, conperm |-> FALSE, extra |-> <<>>]

NoRcptOptions ==
    [notify |-> <<>>, otype |-> <<>>, original |-> <<>>, rrvs |-> {}, conneg |-> FALSE, extra |-> <<>>]

\* The EHLO keyword a parameter of MAIL or RCPT belongs to, where it is not its own.
ExtensionOf ==
    "RET" :> "DSN" @@ "ENVID" :> "DSN" @@ "NOTIFY" :> "DSN" @@ "ORCPT" :> "DSN"
    @@ "BY" :> "DELIVERBY" @@ "HOLDFOR" :> "FUTURERELEASE" @@ "HOLDUNTIL" :> "FUTURERELEASE"
    @@ "SOLICIT" :> "NO-SOLICITING"

MaxSeconds == 10^MaxDigits - 1

validSignedDecimal(v) == IsSigned(v)

validAtom(v) == v # <<>> /\ \A i \in DOMAIN v : isAtext(v[i])

validSolicitValue(v) ==
    \A k \in DOMAIN Split(v, ",") :
        LET keyword == Split(v, ",")[k]
        IN  keyword # <<>> /\ Within(keyword, Word \union {"+", "-", ".", ":"})

validSubmitter(mailbox) ==
    LET path == ParseReversePath(<<"FROM:", "<">> \o mailbox \o <<">">>, FALSE)
    IN  path.ok /\ path.mailbox = mailbox /\ path.params = <<>>

validMTRK(v) ==
    LET cut == Cut(v, ":")
    IN  /\ cut.before # <<>>
        /\ Within(cut.before, Word \union {"+"})
        /\ cut.found => IsDecimal(cut.after) /\ Len(cut.after) <= MaxDigits

validMTRKENVID(v) ==
    LET cut == Cut(v, "@")
    IN  cut.found /\ cut.before # <<>> /\ cut.after # <<>> /\ At(cut.after, "@") = {}
=============================================================================
