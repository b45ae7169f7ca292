------------------------------ MODULE MCSpool ------------------------------
(***************************************************************************)
(* Three sessions, two places, and budgets of which every one can be the   *)
(* first to run out.                                                       *)
(***************************************************************************)
EXTENDS Spool
==============================================================================
