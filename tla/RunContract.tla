---------------------------- MODULE RunContract -----------------------------
(***************************************************************************)
(* What the orchestrator relies on when it runs one attempt, and what      *)
(* DurableInstances takes Verify and Grade to do: the verification hands   *)
(* over one verdict or raises, only a verification that succeeded is       *)
(* graded, and the grading replaces the verdict or raises.                 *)
(***************************************************************************)
VARIABLES stage, verdict

Outcome == {"succeeded", "failed", "server_error"}

Init == stage = "verify" /\ verdict = "none"

Verify ==
    /\ stage = "verify"
    /\ \/ /\ verdict' \in Outcome
          /\ stage' \in {"finalize"} \cup
                        IF verdict' = "succeeded" THEN {"grade"} ELSE {}
       \/ stage' = "terminalize" /\ UNCHANGED verdict

Grade ==
    /\ stage = "grade"
    /\ \/ stage' = "finalize" /\ verdict' \in Outcome
       \/ stage' = "terminalize" /\ UNCHANGED verdict

Next == Verify \/ Grade
Spec == Init /\ [][Next]_<<stage, verdict>>
=============================================================================
