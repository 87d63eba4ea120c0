-------------------------- MODULE AttemptLifecycle --------------------------
(***************************************************************************)
(* The life of a verification attempt across the API, the Functions app    *)
(* and PostgreSQL: concurrent submit requests, the start endpoint and its  *)
(* database claim, the Durable orchestration, the status poller, the stale *)
(* attempt reconciler and account deletion.                                *)
(*                                                                         *)
(* A submit request is a process named by the attempt id it would create;  *)
(* every await on the database or the network is a boundary between two of *)
(* its steps.  A start request that was sent may be delivered late, more   *)
(* than once (each delivery is served by one member of Handler) or never.  *)
(***************************************************************************)
EXTENDS DurableInstances

CONSTANTS
    Handler,     \* invocations of the start endpoint; bounds the deliveries
    NoAttempt    \* a value that is not an attempt

ASSUME NoAttemptAssumption == NoAttempt \notin Attempt

VARIABLES
    pc,         \* where each submit request stands
    shown,      \* the attempt whose status token the response carries
    lock,       \* holder of the slot's transaction-scoped advisory lock
    sent,       \* the start request has left the API
    reply,      \* the start endpoint's answer to the API
    hpc,        \* where each start-endpoint invocation stands
    serving,    \* the attempt it serves
    backlog,    \* stale rows the reconciler pass still has to inspect
    condemned,  \* the row it has decided to terminalize
    sentence    \* the outcome it decided on

submitVars == <<pc, shown, lock, sent>>
handlerVars == <<reply, hpc, serving>>
reconcilerVars == <<backlog, condemned, sentence>>
vars == <<tableVars, instanceVars, faults, submitVars, handlerVars,
          reconcilerVars>>

-----------------------------------------------------------------------------
InTransaction == {"checkSucceeded", "checkActive", "insert"}
SubmitEnd == {"spinner", "refused", "failed", "error", "crashed"}
SubmitPc == {"idle", "wantLock", "callStart", "awaitReply", "cleanup"}
              \cup InTransaction \cup SubmitEnd
HandlerPc == {"idle", "startNew", "resolveStart", "resolveClaim",
              "terminalize", "done"}

TypeOK ==
    /\ TableTypeOK
    /\ InstanceTypeOK
    /\ pc \in [Attempt -> SubmitPc]
    /\ shown \in [Attempt -> Attempt \cup {NoAttempt}]
    /\ lock \in [Slot -> Attempt \cup {NoAttempt}]
    /\ sent \in [Attempt -> BOOLEAN]
    /\ reply \in [Attempt -> {"none", "ok", "error"}]
    /\ hpc \in [Handler -> HandlerPc]
    /\ serving \in [Handler -> Attempt \cup {NoAttempt}]
    /\ backlog \in SUBSET Attempt
    /\ condemned \in Attempt \cup {NoAttempt}
    /\ sentence \in {"server_error", "cancelled"}

Init ==
    /\ TableInit
    /\ InstanceInit
    /\ pc = [a \in Attempt |-> "idle"]
    /\ shown = [a \in Attempt |-> NoAttempt]
    /\ lock = [s \in Slot |-> NoAttempt]
    /\ sent = [a \in Attempt |-> FALSE]
    /\ reply = [a \in Attempt |-> "none"]
    /\ hpc = [h \in Handler |-> "idle"]
    /\ serving = [h \in Handler |-> NoAttempt]
    /\ backlog = {}
    /\ condemned = NoAttempt
    /\ sentence = "server_error"

-----------------------------------------------------------------------------
(* POST /github/submit                                                     *)

Goto(a, next) == pc' = [pc EXCEPT ![a] = next]

Release(a) ==
    lock' = [s \in Slot |-> IF lock[s] = a THEN NoAttempt ELSE lock[s]]

(* _check_submission_preconditions, in a read session of its own.  Phase   *)
(* gating may refuse as well.  The signed session cookie is not checked    *)
(* against users: another browser's outlives the account.                  *)
CheckPreconditions(a) ==
    /\ pc[a] = "idle"
    /\ \/ ~SucceededIn(SlotOf[a]) /\ Goto(a, "wantLock")
       \/ Goto(a, "refused")
    /\ UNCHANGED <<tableVars, instanceVars, faults, shown, lock, sent,
                   handlerVars, reconcilerVars>>

(* Defect: the lock is not awaited, as if its key were the request's own.  *)
AcquireLockUnawaited(a) ==
    /\ pc[a] = "wantLock"
    /\ lock' = [lock EXCEPT ![SlotOf[a]] = a]
    /\ Goto(a, "checkSucceeded")
    /\ UNCHANGED <<tableVars, instanceVars, faults, shown, sent, handlerVars,
                   reconcilerVars>>

AcquireLock(a) ==
    /\ pc[a] = "wantLock"
    /\ lock[SlotOf[a]] = NoAttempt
    /\ lock' = [lock EXCEPT ![SlotOf[a]] = a]
    /\ Goto(a, "checkSucceeded")
    /\ UNCHANGED <<tableVars, instanceVars, faults, shown, sent, handlerVars,
                   reconcilerVars>>

(* Defect: a session lock, which a rollback does not free.                 *)
CheckSucceededKeepingLock(a) ==
    /\ pc[a] = "checkSucceeded"
    /\ IF SucceededIn(SlotOf[a]) THEN Goto(a, "refused") ELSE Goto(a, "checkActive")
    /\ UNCHANGED <<tableVars, instanceVars, faults, shown, lock, sent,
                   handlerVars, reconcilerVars>>

(* AttemptAlreadyValidatedError rolls the transaction back.                *)
CheckSucceeded(a) ==
    /\ pc[a] = "checkSucceeded"
    /\ \/ /\ SucceededIn(SlotOf[a])
          /\ Goto(a, "refused")
          /\ Release(a)
       \/ /\ ~SucceededIn(SlotOf[a])
          /\ Goto(a, "checkActive")
          /\ UNCHANGED lock
    /\ UNCHANGED <<tableVars, instanceVars, faults, shown, sent, handlerVars,
                   reconcilerVars>>

(* An active row is returned with created = False: the response shows its  *)
(* spinner and makes no start call.                                        *)
CheckActive(a) ==
    /\ pc[a] = "checkActive"
    /\ \/ /\ \E b \in ActiveIn(SlotOf[a]) : shown' = [shown EXCEPT ![a] = b]
          /\ Goto(a, "spinner")
          /\ Release(a)
       \/ /\ ActiveIn(SlotOf[a]) = {}
          /\ Goto(a, "insert")
          /\ UNCHANGED <<shown, lock>>
    /\ UNCHANGED <<tableVars, instanceVars, faults, sent, handlerVars,
                   reconcilerVars>>

(* INSERT and COMMIT; an IntegrityError becomes the generic error card.    *)
InsertAndCommit(a) ==
    /\ pc[a] = "insert"
    /\ \/ Insert(a) /\ Goto(a, "callStart")
       \/ /\ ~InsertAllowed(a)
          /\ Goto(a, "failed")
          /\ UNCHANGED tableVars
    /\ Release(a)
    /\ UNCHANGED <<instanceVars, faults, shown, sent, handlerVars,
                   reconcilerVars>>

(* The start call is sent, or DurableVerificationConfigError is raised     *)
(* before it, or DurableVerificationAuthError, which the handler does not  *)
(* catch.                                                                  *)
CallStart(a) ==
    /\ pc[a] = "callStart"
    /\ \/ /\ Goto(a, "awaitReply")
          /\ sent' = [sent EXCEPT ![a] = TRUE]
       \/ Goto(a, "cleanup") /\ UNCHANGED sent
       \/ Goto(a, "error") /\ UNCHANGED sent
    /\ UNCHANGED <<tableVars, instanceVars, faults, shown, lock, handlerVars,
                   reconcilerVars>>

(* A 2xx answer shows the spinner; an error answer, or the client's        *)
(* timeout whatever Functions is doing, raises                             *)
(* DurableVerificationStartError.                                          *)
AwaitReply(a) ==
    /\ pc[a] = "awaitReply"
    /\ \/ /\ reply[a] = "ok"
          /\ Goto(a, "spinner")
          /\ shown' = [shown EXCEPT ![a] = a]
       \/ Goto(a, "cleanup") /\ UNCHANGED shown
    /\ reply' = [reply EXCEPT ![a] = "none"]
    /\ UNCHANGED <<tableVars, instanceVars, faults, lock, sent, hpc, serving,
                   reconcilerVars>>

Cleanup(a) ==
    /\ pc[a] = "cleanup"
    /\ DeleteActive(a)
    /\ Goto(a, "failed")
    /\ UNCHANGED <<instanceVars, faults, shown, lock, sent, handlerVars,
                   reconcilerVars>>

(* The API process dies: PostgreSQL rolls the open transaction back.       *)
ApiCrash(a) ==
    /\ pc[a] \notin {"idle"} \cup SubmitEnd
    /\ Fault
    /\ Goto(a, "crashed")
    /\ Release(a)
    /\ UNCHANGED <<tableVars, instanceVars, shown, sent, handlerVars,
                   reconcilerVars>>

SubmitStep(a) ==
    \/ CheckPreconditions(a)
    \/ AcquireLock(a)
    \/ CheckSucceeded(a)
    \/ CheckActive(a)
    \/ InsertAndCommit(a)
    \/ CallStart(a)
    \/ AwaitReply(a)
    \/ Cleanup(a)

-----------------------------------------------------------------------------
(* POST verification/attempts/{id}/start in the Functions app              *)

(* The answer reaches the API while its client still waits.                *)
Respond(a, r) ==
    reply' = IF pc[a] = "awaitReply" THEN [reply EXCEPT ![a] = r] ELSE reply

Answer(h, r) ==
    /\ hpc' = [hpc EXCEPT ![h] = "done"]
    /\ Respond(serving[h], r)

(* _claim_attempt_start: the invocation that marks the row started may     *)
(* call start_new; the others look for the instance or give up.            *)
Claim(h, a) ==
    /\ hpc[h] = "idle"
    /\ sent[a]
    /\ serving' = [serving EXCEPT ![h] = a]
    /\ \/ /\ MarkStarted(a)
          /\ hpc' = [hpc EXCEPT ![h] = "startNew"]
          /\ UNCHANGED reply
       \/ /\ Active(a) /\ startedAt[a]
          /\ hpc' = [hpc EXCEPT ![h] = "resolveClaim"]
          /\ UNCHANGED <<tableVars, reply>>
       \/ /\ ~Active(a)
          /\ hpc' = [hpc EXCEPT ![h] = "done"]
          /\ Respond(a, IF Gone(a) THEN "error" ELSE "ok")
          /\ UNCHANGED tableVars
    /\ UNCHANGED <<instanceVars, faults, submitVars, reconcilerVars>>

(* start_new succeeds, or raises with the instance created, never to be    *)
(* created, or still to come.                                              *)
StartNew(h) ==
    LET a == serving[h] IN
    /\ hpc[h] = "startNew"
    /\ \/ /\ CreateInstance(a)
          /\ Answer(h, "ok")
          /\ UNCHANGED <<late, faults>>
       \/ /\ Fault
          /\ hpc' = [hpc EXCEPT ![h] = "resolveStart"]
          /\ \/ CreateInstance(a) /\ UNCHANGED late
             \/ UNCHANGED instanceVars
             \/ /\ late' = [late EXCEPT ![a] = TRUE]
                /\ UNCHANGED <<stage, verdict, dispatched>>
          /\ UNCHANGED reply
    /\ UNCHANGED <<tableVars, submitVars, serving, reconcilerVars>>

(* _resolve_ambiguous_start: three status queries.  An instance never      *)
(* disappears, so the last query decides; with no sighting and a failed    *)
(* query it raises and the invocation answers 500.                         *)
Resolve(h) ==
    LET a == serving[h] IN
    /\ hpc[h] \in {"resolveStart", "resolveClaim"}
    /\ \/ stage[a] # "none" /\ Answer(h, "ok") /\ UNCHANGED faults
       \/ /\ stage[a] = "none" /\ hpc[h] = "resolveClaim"
          /\ Answer(h, "ok")
          /\ UNCHANGED faults
       \/ /\ stage[a] = "none" /\ hpc[h] = "resolveStart"
          /\ hpc' = [hpc EXCEPT ![h] = "terminalize"]
          /\ UNCHANGED <<reply, faults>>
       \/ Fault /\ Answer(h, "error")
    /\ UNCHANGED <<tableVars, instanceVars, submitVars, serving,
                   reconcilerVars>>

(* terminalize_attempt with source start_failure, then 500.                *)
TerminalizeStart(h) ==
    /\ hpc[h] = "terminalize"
    /\ Finalize(serving[h], "server_error", "start_failure")
    /\ Answer(h, "error")
    /\ UNCHANGED <<instanceVars, faults, submitVars, serving, reconcilerVars>>

(* The Functions host is recycled: no answer is sent.                      *)
HandlerCrash(h) ==
    /\ hpc[h] \notin {"idle", "done"}
    /\ Fault
    /\ hpc' = [hpc EXCEPT ![h] = "done"]
    /\ UNCHANGED <<tableVars, instanceVars, submitVars, reply, serving,
                   reconcilerVars>>

HandlerStep(h) ==
    \/ \E a \in Attempt : Claim(h, a)
    \/ StartNew(h)
    \/ Resolve(h)
    \/ TerminalizeStart(h)

-----------------------------------------------------------------------------
(* GET /verification/attempts/status: a browser that holds a token polls.  *)
(* Failed and Terminated are final, so reading the status and writing the  *)
(* row may be one step.                                                    *)
Poll(a) ==
    /\ \E b \in Attempt : pc[b] = "spinner" /\ shown[b] = a
    /\ RuntimeStatus(a) \in {"Failed", "Terminated"}
    /\ Finalize(a, IF RuntimeStatus(a) = "Terminated" THEN "cancelled"
                                                      ELSE "server_error",
                "poller")
    /\ UNCHANGED <<instanceVars, faults, submitVars, handlerVars,
                   reconcilerVars>>

-----------------------------------------------------------------------------
(* reconcile_stale_verification_attempts                                   *)

Healthy == {"Running"}

(* Defect: a missing instance is taken for a cancelled one.                *)
DecisionCancelling(status) == IF status = "Failed" THEN "server_error" ELSE "cancelled"

(* reconcile_decision for the statuses that do not mean "leave it".        *)
Decision(status) == IF status = "Terminated" THEN "cancelled" ELSE "server_error"

ReconcilerIdle == backlog = {} /\ condemned = NoAttempt

(* Defect: started_at < cutoff without the coalesce to created_at.         *)
ScanStarted ==
    /\ ReconcilerIdle
    /\ backlog' = {a \in Attempt : Active(a) /\ stale[a] /\ startedAt[a]}
    /\ backlog' # {}
    /\ UNCHANGED <<tableVars, instanceVars, faults, submitVars, handlerVars,
                   condemned, sentence>>

(* list_active_older_than in a session closed before the first query.      *)
Scan ==
    /\ ReconcilerIdle
    /\ backlog' = {a \in Attempt : Active(a) /\ stale[a]}
    /\ backlog' # {}
    /\ UNCHANGED <<tableVars, instanceVars, faults, submitVars, handlerVars,
                   condemned, sentence>>

(* One candidate's status: skipped when the query fails or it is healthy.  *)
(* A missing instance is queried a second time; the last answer counts.    *)
Inspect(a) ==
    /\ condemned = NoAttempt
    /\ a \in backlog
    /\ backlog' = backlog \ {a}
    /\ \/ /\ RuntimeStatus(a) \in Healthy
          /\ UNCHANGED <<condemned, sentence, faults>>
       \/ /\ RuntimeStatus(a) \notin Healthy
          /\ condemned' = a
          /\ sentence' = Decision(RuntimeStatus(a))
          /\ UNCHANGED faults
       \/ Fault /\ UNCHANGED <<condemned, sentence>>
    /\ UNCHANGED <<tableVars, instanceVars, submitVars, handlerVars>>

(* terminalize_attempt; AttemptAlreadyGoneError aborts the whole pass.     *)
Execute ==
    /\ condemned # NoAttempt
    /\ Finalize(condemned, sentence, "reconciler")
    /\ backlog' = IF Gone(condemned) THEN {} ELSE backlog
    /\ condemned' = NoAttempt
    /\ sentence' = "server_error"
    /\ UNCHANGED <<instanceVars, faults, submitVars, handlerVars>>

ReconcilerCrash ==
    /\ ~ReconcilerIdle
    /\ Fault
    /\ backlog' = {}
    /\ condemned' = NoAttempt
    /\ sentence' = "server_error"
    /\ UNCHANGED <<tableVars, instanceVars, submitVars, handlerVars>>

ReconcilerStep == Scan \/ (\E a \in Attempt : Inspect(a)) \/ Execute

-----------------------------------------------------------------------------
InstanceStep(a) ==
    /\ OrchestratorStep(a) \/ LoseCompletion(a) \/ ExhaustRetries(a)
         \/ Terminate(a) \/ LateStart(a)
    /\ UNCHANGED <<submitVars, handlerVars, reconcilerVars>>

Orchestrate(a) ==
    OrchestratorStep(a) /\ UNCHANGED <<submitVars, handlerVars, reconcilerVars>>

AccountStep(u) ==
    /\ EraseUser(u) \/ RestoreUser(u)
    /\ UNCHANGED <<instanceVars, faults, submitVars, handlerVars,
                   reconcilerVars>>

Age(a) ==
    /\ GrowStale(a)
    /\ UNCHANGED <<instanceVars, faults, submitVars, handlerVars,
                   reconcilerVars>>

Next ==
    \/ \E a \in Attempt : SubmitStep(a) \/ ApiCrash(a)
    \/ \E h \in Handler : HandlerStep(h) \/ HandlerCrash(h)
    \/ \E a \in Attempt : InstanceStep(a) \/ Poll(a) \/ Age(a)
    \/ ReconcilerStep \/ ReconcilerCrash
    \/ \E u \in User : AccountStep(u)

Spec == Init /\ [][Next]_vars

(* Durable runs what it has dispatched, clocks advance and the reconciler's *)
(* timer keeps firing.  Learners, deliveries and pollers owe nothing.       *)
Fairness ==
    /\ \A a \in Attempt : WF_vars(Orchestrate(a)) /\ WF_vars(Age(a))
    /\ WF_vars(ReconcilerStep)

FairSpec == Spec /\ Fairness

-----------------------------------------------------------------------------
(* Safety                                                                  *)

(* The INSERT of create_or_get_active never meets another active row of    *)
(* its slot: the advisory lock is held from the active check to the        *)
(* commit, so the partial unique index is a second guard that never fires. *)
InsertNeverConflicts ==
    \A a \in Attempt : pc[a] = "insert" => ActiveIn(SlotOf[a]) = {}

(* At most one transaction of a slot is between lock and commit, and a     *)
(* request that left its transaction, by a response, an exception or a     *)
(* crash, holds no lock.                                                   *)
LockDiscipline ==
    \A a \in Attempt : lock[SlotOf[a]] = a <=> pc[a] \in InTransaction

(* However often a start request is delivered, one invocation at most gets *)
(* to start_new for an attempt, and none does once the instance exists or  *)
(* is on its way.                                                          *)
ExclusiveStart ==
    \A h \in Handler : hpc[h] = "startNew" =>
        /\ stage[serving[h]] = "none"
        /\ ~late[serving[h]]
        /\ \A g \in Handler \ {h} :
              ~(serving[g] = serving[h] /\ hpc[g] \in
                  {"startNew", "resolveStart", "terminalize"})

(* The API's cleanup after a failed or timed-out start call never removes  *)
(* the row of an instance that runs, ran or is about to: only the learner's *)
(* account deletion takes a row from under its orchestration.              *)
InstanceKeepsRow ==
    \A a \in Attempt :
        stage[a] # "none" \/ late[a] => outcome[a] \notin {"absent", "discarded"}

(* An instance reports Completed only when its attempt has a terminal      *)
(* outcome or was erased with the account, through lost completions,       *)
(* exhausted retries, rival finalizers and late starts.                    *)
CompletedMeansRecorded ==
    \A a \in Attempt :
        stage[a] = "Completed" => outcome[a] \in Terminal \cup {"erased"}

(* Every terminal outcome has one writer and agrees with what that writer  *)
(* knew: the orchestrator stores the verdict in its history, its exception *)
(* path only runs once something failed, the poller and the reconciler say *)
(* "cancelled" exactly for terminated instances.                           *)
Explained(a) ==
    LET s == terminalSource[a] IN
    /\ outcome[a] \in Terminal => s # "none"
    /\ Active(a) => s = "none"
    /\ outcome[a] \in Terminal =>
         /\ s = "orchestrator" => outcome[a] = verdict[a]
         /\ s \in {"orchestrator_exception", "start_failure"} =>
              outcome[a] = "server_error"
         /\ s = "poller" => stage[a] \in {"Failed", "Terminated"}
         /\ s \in {"poller", "reconciler"} =>
              outcome[a] \in {"server_error", "cancelled"}
         /\ outcome[a] = "cancelled" => stage[a] = "Terminated"

OutcomeExplained == \A a \in Attempt : Explained(a)

(* A start call that raised before its request left the API has freed the  *)
(* slot by the time the learner sees the error, as the docstring of        *)
(* _start_async_attempt_and_render says.                                   *)
FailedStartFreesSlot ==
    \A a \in Attempt : pc[a] \in {"failed", "error"} /\ ~sent[a] => ~Active(a)

(* create_or_get_active's docstring: the recheck under the lock closes the *)
(* race between a successful finalization and a new submit.                *)
NoActiveBesideSucceeded ==
    \A a \in Attempt : Active(a) => ~SucceededIn(SlotOf[a])

-----------------------------------------------------------------------------
(* Action properties and refinement                                        *)

(* Competing finalizers, replays and duplicates never change a terminal    *)
(* row: its outcome and its writer stay until the account is deleted.      *)
TerminalIsFinal ==
    [][\A a \in Attempt : outcome[a] \in Terminal =>
         \/ outcome'[a] = outcome[a] /\ terminalSource'[a] = terminalSource[a]
         \/ outcome'[a] = "erased" /\ ~account'[Owner(a)]]_vars

(* The table's promise: AttemptContract under the mapping that forgets why *)
(* a row is missing and who wrote it.                                      *)
ContractState ==
    [a \in Attempt |->
        IF outcome[a] = "absent" THEN "none"
        ELSE IF outcome[a] = "active" THEN "open"
        ELSE IF outcome[a] \in Terminal THEN outcome[a]
        ELSE "gone"]

Contract == INSTANCE AttemptContract WITH state <- ContractState

ImplementsContract == Contract!Spec

-----------------------------------------------------------------------------
(* Liveness                                                                *)

(* No attempt stays active for ever: whatever crashed, was lost or was     *)
(* never started, the orchestration or the reconciler settles the row, or  *)
(* it is withdrawn or erased.                                              *)
EveryAttemptSettles == \A a \in Attempt : Active(a) ~> ~Active(a)
=============================================================================
