--------------------------- MODULE MCTransparency ---------------------------
(***************************************************************************)
(* Transparency for TLC.  Four content octets are enough for a stuffed dot *)
(* followed by a held CR and its successor; six foreign octets for         *)
(* CR . CR LF and for a terminator after a line.                           *)
(***************************************************************************)
EXTENDS Transparency
=============================================================================
