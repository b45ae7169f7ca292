------------------------ MODULE MCConnectionRegistry ------------------------
(***************************************************************************)
(* Up to three connections from two sources, two places of which one       *)
(* source may take one, and two concurrent calls of Shutdown.              *)
(***************************************************************************)
EXTENDS ConnectionRegistry

CONSTANTS c1, c2, c3, near, far

MCSourceOf == [c \in Conns |-> IF c = c3 THEN far ELSE near]

==============================================================================
