--------------------------- MODULE ContentChannel ---------------------------
(***************************************************************************)
(* What message content transfer promises, whatever the transparency       *)
(* layer and the network do to the octets: the receiver is given a growing *)
(* prefix of what was sent, is told the content is complete only when it   *)
(* was and all of it has been given, and is otherwise told of a failure.   *)
(***************************************************************************)
EXTENDS Naturals, Sequences

VARIABLES
    sent,      \* the content so far, as it stands on the wire's far side
    complete,  \* the sender has marked its end
    got,       \* what the receiver has been given
    told       \* "more", "EOF" or the failure the receiver was told of

Extends(t, s) == Len(s) <= Len(t) /\ SubSeq(t, 1, Len(s)) = s

Init ==
    /\ sent = <<>>
    /\ complete = FALSE
    /\ got = <<>>
    /\ told = "more"

Send ==
    /\ ~complete
    /\ Extends(sent', sent)
    /\ complete' \in BOOLEAN
    /\ UNCHANGED <<got, told>>

Receive ==
    /\ told = "more"
    /\ Extends(got', got)
    /\ Extends(sent, got')
    /\ UNCHANGED <<sent, complete, told>>

End ==
    /\ told = "more"
    /\ complete
    /\ got = sent
    /\ told' = "EOF"
    /\ UNCHANGED <<sent, complete, got>>

Break ==
    /\ told = "more"
    /\ told' \notin {"more", "EOF"}
    /\ UNCHANGED <<sent, complete, got>>

Next == Send \/ Receive \/ End \/ Break

Spec == Init /\ [][Next]_<<sent, complete, got, told>>
=============================================================================
