---------------------------- MODULE MCPipelining ----------------------------
(***************************************************************************)
(* Three commands after a transaction may already have its recipients      *)
(* reach two chunks and BDAT LAST, DATA with content and a command behind  *)
(* it, and a malformed line among chunks.  A group of two replies needs    *)
(* both places the server has for them (window 1, buffer 1), so a deeper   *)
(* group or a missing flush shows as everyone waiting.                     *)
(***************************************************************************)
EXTENDS Pipelining
=============================================================================
