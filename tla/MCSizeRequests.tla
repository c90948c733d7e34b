--------------------------- MODULE MCSizeRequests ---------------------------
(* Small instances of SizeRequests.                                         *)
EXTENDS SizeRequests, TLC

Symmetry == Permutations(Approvals) \cup Permutations(Callers) \cup Permutations(Keys)
=============================================================================
