-------------------------- MODULE DurableInstances --------------------------
(***************************************************************************)
(* The Durable Functions instances of verification_attempt_orchestrator_v1 *)
(* and the activities they run against the attempts table.                 *)
(*                                                                         *)
(* An orchestration is deterministic over its history: a completed         *)
(* activity's result is recorded once and replayed, so verdict is written  *)
(* when an activity's completion is recorded and never re-drawn.  The      *)
(* activities themselves run at least once: one may commit its database    *)
(* write and lose its completion, and one already dispatched still runs    *)
(* after its instance is terminated.                                       *)
(***************************************************************************)
EXTENDS VerificationAttempts

CONSTANT MaxFaults   \* bound on the injected infrastructure failures

ASSUME FaultAssumption == MaxFaults \in Nat

VARIABLES
    stage,      \* how far the instance has come, or its final runtime status
    verdict,    \* the outcome of the run result the history holds
    dispatched, \* the database-writing activity waiting to run
    late,       \* a start_new that raised will still create the instance
    faults      \* failures injected so far

instanceVars == <<stage, verdict, dispatched, late>>

-----------------------------------------------------------------------------
RunningStage == {"prepare", "verify", "grade", "finalize", "terminalize"}
EndedStage == {"Completed", "Failed", "Terminated"}
Stage == {"none"} \cup RunningStage \cup EndedStage
Verdict == {"succeeded", "failed", "server_error"}
Activity == {"none", "finalize", "terminalize"}

InstanceTypeOK ==
    /\ stage \in [Attempt -> Stage]
    /\ verdict \in [Attempt -> Verdict \cup {"none"}]
    /\ dispatched \in [Attempt -> Activity]
    /\ late \in [Attempt -> BOOLEAN]
    /\ faults \in 0..MaxFaults

InstanceInit ==
    /\ stage = [a \in Attempt |-> "none"]
    /\ verdict = [a \in Attempt |-> "none"]
    /\ dispatched = [a \in Attempt |-> "none"]
    /\ late = [a \in Attempt |-> FALSE]
    /\ faults = 0

(* What get_status reports; Pending and Running are both "Running" here.   *)
RuntimeStatus(a) ==
    IF stage[a] = "none" THEN "None"
    ELSE IF stage[a] \in RunningStage THEN "Running"
    ELSE stage[a]

Fault == faults < MaxFaults /\ faults' = faults + 1

-----------------------------------------------------------------------------
(* The orchestrator yields its next activity.                              *)
Enter(a, next) ==
    /\ stage' = [stage EXCEPT ![a] = next]
    /\ dispatched' = [dispatched EXCEPT ![a] =
                        IF next \in {"finalize", "terminalize"} THEN next
                                                                ELSE "none"]

(* A dispatched activity completed.  A terminated orchestrator takes no    *)
(* further step.                                                           *)
Recorded(a, next) ==
    IF stage[a] = "Terminated"
      THEN /\ dispatched' = [dispatched EXCEPT ![a] = "none"]
           /\ UNCHANGED stage
      ELSE Enter(a, next)

(* start_new creates the instance under the attempt's id.                  *)
CreateInstance(a) ==
    /\ stage[a] = "none"
    /\ Enter(a, "prepare")
    /\ UNCHANGED verdict

(* prepare_verification_attempt: a missing or terminal row, a failed trust *)
(* check on the snapshot, or three transient failures raise.               *)
Prepare(a) ==
    /\ stage[a] = "prepare"
    /\ IF Unclaimed(a) THEN MarkStarted(a) ELSE UNCHANGED tableVars
    /\ \/ Active(a) /\ Enter(a, "verify")
       \/ Enter(a, "terminalize")
    /\ UNCHANGED <<verdict, late, faults>>

(* Defect: the orchestrator goes on to finalize after a failed activity.   *)
VerifyThenFinalize(a) ==
    /\ stage[a] = "verify"
    /\ \/ \E v \in Verdict :
            /\ verdict' = [verdict EXCEPT ![a] = v]
            /\ \/ Enter(a, "finalize")
               \/ v = "succeeded" /\ Enter(a, "grade")
       \/ Enter(a, "finalize") /\ UNCHANGED verdict
    /\ UNCHANGED <<tableVars, late, faults>>

(* execute_requirement_verification: only a run whose gates passed carries *)
(* grading requests.  Exhausted retries raise.                             *)
Verify(a) ==
    /\ stage[a] = "verify"
    /\ \/ \E v \in Verdict :
            /\ verdict' = [verdict EXCEPT ![a] = v]
            /\ \/ Enter(a, "finalize")
               \/ v = "succeeded" /\ Enter(a, "grade")
       \/ Enter(a, "terminalize") /\ UNCHANGED verdict
    /\ UNCHANGED <<tableVars, late, faults>>

(* _llm_grading_step: the merged decisions or the grading failure replace  *)
(* the run result; ensure_grading_config and llm_grading_failed may raise. *)
Grade(a) ==
    /\ stage[a] = "grade"
    /\ \/ \E v \in Verdict :
            /\ verdict' = [verdict EXCEPT ![a] = v]
            /\ Enter(a, "finalize")
       \/ Enter(a, "terminalize") /\ UNCHANGED verdict
    /\ UNCHANGED <<tableVars, late, faults>>

(* finalize_verification_attempt: a lost compare-and-set still returns the *)
(* stored state, a row that is gone raises on every retry.                 *)
RunFinalize(a) ==
    /\ dispatched[a] = "finalize"
    /\ Finalize(a, verdict[a], "orchestrator")
    /\ Recorded(a, IF Gone(a) THEN "terminalize" ELSE "Completed")
    /\ UNCHANGED <<verdict, late, faults>>

RunTerminalize(a) ==
    /\ dispatched[a] = "terminalize"
    /\ Finalize(a, "server_error", "orchestrator_exception")
    /\ Recorded(a, IF Gone(a) THEN "Failed" ELSE "Completed")
    /\ UNCHANGED <<verdict, late, faults>>

(* The write commits but the worker dies before the completion is stored:  *)
(* the activity is delivered again.                                        *)
LoseCompletion(a) ==
    /\ Fault
    /\ \/ /\ dispatched[a] = "finalize"
          /\ Finalize(a, verdict[a], "orchestrator")
       \/ /\ dispatched[a] = "terminalize"
          /\ Finalize(a, "server_error", "orchestrator_exception")
    /\ UNCHANGED instanceVars

(* Defect: the orchestrator swallows a failed terminalize activity.        *)
ExhaustRetriesQuietly(a) ==
    /\ Fault
    /\ \/ stage[a] = "finalize" /\ Enter(a, "terminalize")
       \/ stage[a] = "terminalize" /\ Enter(a, "Completed")
    /\ UNCHANGED <<tableVars, verdict, late>>

(* All retries of a database-writing activity fail.                        *)
ExhaustRetries(a) ==
    /\ Fault
    /\ \/ stage[a] = "finalize" /\ Enter(a, "terminalize")
       \/ stage[a] = "terminalize" /\ Enter(a, "Failed")
    /\ UNCHANGED <<tableVars, verdict, late>>

(* An operator terminates the instance.  An activity already dispatched    *)
(* is not recalled.                                                        *)
Terminate(a) ==
    /\ stage[a] \in RunningStage
    /\ stage' = [stage EXCEPT ![a] = "Terminated"]
    /\ UNCHANGED <<tableVars, verdict, dispatched, late, faults>>

(* The start_new that raised lands after all.                              *)
LateStart(a) ==
    /\ late[a]
    /\ late' = [late EXCEPT ![a] = FALSE]
    /\ CreateInstance(a)
    /\ UNCHANGED <<tableVars, faults>>

OrchestratorStep(a) ==
    Prepare(a) \/ Verify(a) \/ Grade(a) \/ RunFinalize(a) \/ RunTerminalize(a)
=============================================================================
