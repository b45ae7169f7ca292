--------------------------- MODULE MCServerSession ---------------------------
(***************************************************************************)
(* ServerSession over every configuration NewServer accepts, with small    *)
(* limits on recipients and MAIL commands.                                 *)
(***************************************************************************)
EXTENDS ServerSession

AllServers == {c \in ServerOptions : validateConstruction(c)}

==============================================================================
