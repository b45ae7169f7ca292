---------------------------- MODULE MCDataPhase -----------------------------
(***************************************************************************)
(* Content on both sides of limits of one and two octets and of the        *)
(* largest integer, read one octet at a time or in one piece.              *)
(***************************************************************************)
EXTENDS DataPhase

==============================================================================
