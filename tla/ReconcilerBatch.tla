--------------------------- MODULE ReconcilerBatch ---------------------------
(***************************************************************************)
(* The scheduled reconciler over many active attempts: each pass inspects  *)
(* the BatchLimit oldest stale rows and leaves the rest to a later pass.   *)
(* A row is as old as its start claim, or as its insert while unclaimed,   *)
(* so a claim sends it to the back.  Who else settles a row, and the races *)
(* between them, is the matter of AttemptLifecycle.                        *)
(***************************************************************************)
EXTENDS Naturals, SequencesExt

CONSTANTS
    MaxAttempts,   \* bounds the rows
    BatchLimit,    \* ReconcilerConfig.batch_limit
    MaxSuspended,  \* instances an operator keeps suspended at a time
    EndsAs,        \* how an instance ends that records no result
    MaxFaults      \* bounds failed queries, passes that die, resumptions

(* Defect: the database's spelling of the cancelled status.                *)
SettlingMisspelt == {"Completed", "Failed", "Terminated", "Cancelled"}

(* The statuses of instances that are over, which settle a row.            *)
Settling == {"Completed", "Failed", "Terminated", "Canceled"}

ASSUME BatchAssumption == 
    /\ BatchLimit \in Nat \ {0} /\ MaxSuspended \in Nat
    /\ MaxAttempts \in Nat /\ MaxFaults \in Nat

(* The rows, named in the order in which they are created.                 *)
Attempt == 1 .. MaxAttempts

VARIABLES
    queue,     \* active rows by coalesce(started_at, created_at)
    stale,     \* how many of them, from the front, are past the cutoff
    claimed,   \* rows whose started_at is set
    over,      \* rows with an outcome, and deleted ones
    runtime,   \* the Durable runtime status of each attempt's instance
    batch,     \* rows this pass still has to inspect
    at,        \* what the pass does next with the first of them
    faults     \* how many of those there have been

rowVars == <<queue, stale, claimed, over>>
passVars == <<batch, at>>
vars == <<rowVars, runtime, passVars, faults>>

Healthy == {"Running", "Suspended"}
Missing == "None"

TypeOK ==
    /\ IsInjective(queue) /\ ToSet(queue) \subseteq Attempt \ over
    /\ stale \in 0 .. Len(queue)
    /\ claimed \subseteq Attempt /\ over \subseteq Attempt
    /\ runtime \in [Attempt -> Healthy \cup Settling \cup {Missing}]
    /\ IsInjective(batch) /\ Len(batch) <= BatchLimit
    /\ at \in {"query", "recheck", "terminalize"}
    /\ faults \in 0 .. MaxFaults

Init ==
    /\ queue = <<>> /\ stale = 0 /\ claimed = {} /\ over = {}
    /\ runtime = [a \in Attempt |-> Missing]
    /\ batch = <<>> /\ at = "query"
    /\ faults = 0

-----------------------------------------------------------------------------
(* The rows and their instances; an instance whose row is over no longer   *)
(* matters to the reconciler and does nothing here.                        *)

IsActive(a) == a \in ToSet(queue)
IsStale(a) == a \in ToSet(SubSeq(queue, 1, stale))
StaleWithout(a) == IF IsStale(a) THEN stale - 1 ELSE stale

Settle(a) ==
    /\ queue' = Remove(queue, a)
    /\ stale' = StaleWithout(a)
    /\ over' = over \cup {a}
    /\ UNCHANGED claimed

Create(a) ==
    /\ a = Len(queue) + Cardinality(over) + 1
    /\ queue' = Append(queue, a)
    /\ UNCHANGED <<stale, claimed, over, runtime, passVars, faults>>

(* Time passes the cutoff of the oldest fresh row.                         *)
GrowStale ==
    /\ stale < Len(queue)
    /\ stale' = stale + 1
    /\ UNCHANGED <<queue, claimed, over, runtime, passVars, faults>>

(* The start endpoint claims the row; start_new follows, or never does.    *)
Claim(a) ==
    /\ IsActive(a) /\ a \notin claimed
    /\ claimed' = claimed \cup {a}
    /\ queue' = Append(Remove(queue, a), a)
    /\ stale' = StaleWithout(a)
    /\ UNCHANGED <<over, runtime, passVars, faults>>

StartNew(a) ==
    /\ IsActive(a) /\ a \in claimed /\ runtime[a] = Missing
    /\ runtime' = [runtime EXCEPT ![a] = "Running"]
    /\ UNCHANGED <<rowVars, passVars, faults>>

(* A running instance records its result and completes, or ends without.   *)
Finish(a) ==
    /\ IsActive(a) /\ runtime[a] = "Running"
    /\ \/ Settle(a) /\ runtime' = [runtime EXCEPT ![a] = "Completed"]
       \/ /\ \E status \in EndsAs : runtime' = [runtime EXCEPT ![a] = status]
          /\ UNCHANGED rowVars
    /\ UNCHANGED <<passVars, faults>>

Suspend(a) ==
    /\ IsActive(a) /\ runtime[a] = "Running"
    /\ Cardinality({b \in ToSet(queue) : runtime[b] = "Suspended"})
          < MaxSuspended
    /\ runtime' = [runtime EXCEPT ![a] = "Suspended"]
    /\ UNCHANGED <<rowVars, passVars, faults>>

Resume(a) ==
    /\ IsActive(a) /\ runtime[a] = "Suspended" /\ faults < MaxFaults
    /\ runtime' = [runtime EXCEPT ![a] = "Running"]
    /\ faults' = faults + 1
    /\ UNCHANGED <<rowVars, passVars>>

(* The learner's account is deleted, or a failed start drops the row.      *)
DeleteRow(a) ==
    /\ IsActive(a)
    /\ Settle(a)
    /\ UNCHANGED <<runtime, passVars, faults>>

-----------------------------------------------------------------------------
(* A pass of the reconciler.                                               *)

Scan ==
    /\ batch = <<>> /\ stale > 0
    /\ batch' = SubSeq(queue, 1, Min({stale, BatchLimit}))
    /\ UNCHANGED <<rowVars, runtime, at, faults>>

Skip == batch' = Tail(batch) /\ at' = "query"

(* reconcile_decision on the status just read; a missing instance is asked *)
(* for a second time before the row is settled.                            *)
Inspect(a) ==
    /\ batch # <<>> /\ a = Head(batch) /\ at \in {"query", "recheck"}
    /\ \/ runtime[a] \notin Settling \cup {Missing} /\ Skip
       \/ runtime[a] \in Settling /\ at' = "terminalize" /\ UNCHANGED batch
       \/ /\ runtime[a] = Missing
          /\ at' = IF at = "query" THEN "recheck" ELSE "terminalize"
          /\ UNCHANGED batch
    /\ UNCHANGED <<rowVars, runtime, faults>>

(* Either status query raises: the row waits for a later pass.             *)
QueryFails ==
    /\ batch # <<>> /\ at \in {"query", "recheck"} /\ faults < MaxFaults
    /\ Skip
    /\ faults' = faults + 1
    /\ UNCHANGED <<rowVars, runtime>>

(* terminalize_attempt loses to an outcome already written.  A row deleted *)
(* meanwhile raises and ends the pass for the rows behind it too.          *)
Terminalize ==
    /\ batch # <<>> /\ at = "terminalize"
    /\ \/ IsActive(Head(batch)) /\ Settle(Head(batch)) /\ Skip
       \/ Head(batch) \in over /\ UNCHANGED rowVars /\ Skip
       \/ Head(batch) \in over /\ UNCHANGED rowVars
             /\ batch' = <<>> /\ at' = "query"
    /\ UNCHANGED <<runtime, faults>>

(* The worker dies, or the database fails in terminalize_attempt.          *)
LosePass ==
    /\ batch # <<>> /\ faults < MaxFaults
    /\ batch' = <<>> /\ at' = "query"
    /\ faults' = faults + 1
    /\ UNCHANGED <<rowVars, runtime>>

Next ==
    \/ \E a \in Attempt :
          \/ Create(a) \/ Claim(a) \/ StartNew(a) \/ Finish(a)
          \/ Suspend(a) \/ Resume(a) \/ DeleteRow(a) \/ Inspect(a)
    \/ GrowStale \/ Scan \/ QueryFails \/ Terminalize \/ LosePass

(* The timer fires every 15 minutes, and a pass goes through its batch; a  *)
(* running instance ends, because its activities have bounded retries.     *)
(* Nothing obliges an operator to resume an instance, or a claimed row to  *)
(* get one.                                                                *)
Fairness ==
    /\ WF_vars(GrowStale) /\ WF_vars(Scan) /\ WF_vars(Terminalize)
    /\ WF_vars(\E a \in Attempt : Inspect(a))
    /\ \A a \in Attempt : WF_vars(Finish(a))

Spec == Init /\ [][Next]_vars /\ Fairness

-----------------------------------------------------------------------------
Abandoned(a) == IsActive(a) /\ runtime[a] \in EndsAs \cup {Missing}

(* However many rows wait and whichever are claimed, resumed or deleted    *)
(* meanwhile, a row whose instance ended without an outcome, or never was, *)
(* leaves the active set, unless an instance turns up for it and is        *)
(* suspended.  It needs fewer than BatchLimit suspended instances.         *)
AbandonedIsReconciled ==
    \A a \in Attempt :
        Abandoned(a) ~> (~IsActive(a) \/ runtime[a] = "Suspended")
=============================================================================
