------------------------- MODULE MCAttemptLifecycle -------------------------
(* Every attempt competes for the one slot of one learner.                 *)
EXTENDS AttemptLifecycle, TLC

CONSTANTS s1, u1

MCSlotOf == [a \in Attempt |-> s1]
MCOwnerOf == [s \in {s1} |-> u1]
Symmetry == Permutations(Attempt) \cup Permutations(Handler)
=============================================================================
