---------------------------- MODULE MCPacedReadback ----------------------------
(***************************************************************************)
(* PacedReadback on small instances.                                       *)
(***************************************************************************)
EXTENDS PacedReadback

CONSTANT Large  \* the readbacks of the larger of two sizes

Sizes == [r \in Readbacks |-> IF r \in Large THEN 2 ELSE 1]
=============================================================================
