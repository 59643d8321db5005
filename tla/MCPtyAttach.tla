------------------------------ MODULE MCPtyAttach ------------------------------
(* PtyAttach for TLC: two viewers of one or of two devices beside the desktop. *)
EXTENDS PtyAttach, TLC

McSeed == <<2, 1>>

\* Devices and viewers are only compared for equality.
McSymmetry == Permutations(Devices) \union Permutations(Viewers)
===============================================================================
