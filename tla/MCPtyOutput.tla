------------------------------ MODULE MCPtyOutput ------------------------------
(* PtyOutput for TLC: a viewer that keeps reading and one that may fall behind. *)
EXTENDS PtyOutput
===============================================================================
