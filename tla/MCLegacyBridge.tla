---------------------------- MODULE MCLegacyBridge ----------------------------
(* Jobs are alike and so are the attempts of new replicas.                     *)
EXTENDS LegacyBridge, TLC

RowSymmetry == Permutations(Jobs) \cup Permutations(New)
==============================================================================
