----------------------------- MODULE LegacyBridge -----------------------------
(* Migrations 0049 to 0055: the move from verification_jobs, submissions and  *)
(* step_progress to verification_attempts and learner_step_completions while  *)
(* legacy replicas still write the old tables and new ones write the new.     *)
(* One learner and one requirement, the scope of the active-attempt index.    *)
EXTENDS Integers, FiniteSets

CONSTANTS
  Jobs,    \* ids of the legacy jobs
  Orphan,  \* the submission that never had a job, and the id derived from it
  New,     \* ids of the attempts new replicas create
  Steps    \* step uuids

ASSUME IdAssumption == Orphan \notin Jobs /\ New \cap (Jobs \cup {Orphan}) = {}

Verdicts == {"succeeded", "failed", "server_error"}
Active == "active"
Ids == Jobs \cup {Orphan} \cup New

VARIABLES
  rev,          \* the revision that is stamped
  tx,           \* how far the transaction of 0049 is, "none" outside it
  draft,        \* the rows that transaction will commit
  jobs,         \* [Jobs -> unused, running, dead, linked, deleted]
  verdict,      \* [Jobs \cup {Orphan} -> the verdict in the submission it has]
  attempts,     \* [Ids -> NoRow, Active or an outcome]
  progress, completions,   \* the old and the new table of checked steps
  checked,      \* history: the steps whose last change was a check
  clients       \* whether replicas of the legacy code run

vars == <<rev, tx, draft, jobs, verdict, attempts, progress, completions, checked, clients>>

NoRow == "no row"
NoRows == [i \in Ids |-> NoRow]
Exists(i) == attempts[i] # NoRow
SomeActive == \E i \in Ids : attempts[i] = Active

\* From which revision on the triggers and the index are there.
Order == [r \in {"0048", "0049", "0050", "0052", "0053", "0054", "0055"} |->
  CASE r = "0048" -> 0 [] r = "0049" -> 1 [] r = "0050" -> 2 [] r = "0052" -> 3
    [] r = "0053" -> 4 [] r = "0054" -> 5 [] r = "0055" -> 6]
Since(r) == Order[rev] >= Order[r]

IndexBuilt == Since("0050")
LinkBridge == Since("0052") /\ ~Since("0055")
DeleteBridge == Since("0053") /\ ~Since("0055")
MirrorInstalled == Since("0049") /\ ~Since("0055")

------------------------------------------------------------------------------
(* The legacy replicas *)

Init ==
  /\ rev = "0048"
  /\ tx = "none"
  /\ draft = NoRows
  /\ jobs = [j \in Jobs |-> "unused"]
  /\ \E v \in Verdicts : verdict = [s \in Jobs \cup {Orphan} |-> IF s = Orphan THEN v ELSE NoRow]
  /\ attempts = NoRows
  /\ progress \in SUBSET Steps
  /\ completions = {}
  /\ checked = progress
  /\ clients = TRUE

\* The insert trigger of 0052: an active attempt for the job, unless the
\* learner has an active attempt (ON CONFLICT DO NOTHING covers the index).
BridgedInsert(j) ==
  IF LinkBridge /\ ~Exists(j) /\ ~SomeActive
  THEN attempts' = [attempts EXCEPT ![j] = Active]
  ELSE UNCHANGED attempts

InsertJob(j) ==
  /\ clients
  /\ jobs[j] = "unused"
  /\ \A k \in Jobs : jobs[k] \notin {"running", "dead"}   \* the legacy active index
  /\ jobs' = [jobs EXCEPT ![j] = "running"]
  /\ BridgedInsert(j)
  /\ UNCHANGED <<rev, tx, draft, verdict, progress, completions, checked, clients>>

\* The legacy orchestration ends without a result.
JobDies(j) ==
  /\ clients
  /\ jobs[j] = "running"
  /\ jobs' = [jobs EXCEPT ![j] = "dead"]
  /\ UNCHANGED <<rev, tx, draft, verdict, attempts, progress, completions, checked, clients>>

\* Defect: the link trigger finalizes the row and never inserts a missing one.
BridgedLinkUpdateOnly(j, v) ==
  IF LinkBridge /\ attempts[j] = Active
  THEN attempts' = [attempts EXCEPT ![j] = v]
  ELSE UNCHANGED attempts

\* The link trigger of 0052: insert the row with the verdict, or finalize it
\* when it is active.
BridgedLink(j, v) ==
  IF LinkBridge /\ attempts[j] \in {NoRow, Active}
  THEN attempts' = [attempts EXCEPT ![j] = v]
  ELSE UNCHANGED attempts

\* A submission is inserted and the job linked to it in one transaction.
LinkJob(j, v) ==
  /\ clients
  /\ jobs[j] = "running"
  /\ jobs' = [jobs EXCEPT ![j] = "linked"]
  /\ verdict' = [verdict EXCEPT ![j] = v]
  /\ BridgedLink(j, v)
  /\ UNCHANGED <<rev, tx, draft, progress, completions, checked, clients>>

\* The delete trigger of 0053.
BridgedDelete(j) ==
  IF DeleteBridge /\ attempts[j] = Active
  THEN attempts' = [attempts EXCEPT ![j] = "server_error"]
  ELSE UNCHANGED attempts

\* A legacy poller deletes an unlinked job whose orchestration failed.
DeleteJob(j) ==
  /\ clients
  /\ jobs[j] = "dead"
  /\ jobs' = [jobs EXCEPT ![j] = "deleted"]
  /\ BridgedDelete(j)
  /\ UNCHANGED <<rev, tx, draft, verdict, progress, completions, checked, clients>>

\* A step is checked or unchecked in the old table; the trigger mirrors it. The
\* trigger's creation locks the table until 0049 commits.
LegacyToggle(s) ==
  /\ clients
  /\ tx = "none"
  /\ progress' = IF s \in progress THEN progress \ {s} ELSE progress \cup {s}
  /\ completions' = IF ~MirrorInstalled THEN completions
                    ELSE IF s \in progress THEN completions \ {s} ELSE completions \cup {s}
  /\ checked' = IF s \in progress THEN checked \ {s} ELSE checked \cup {s}
  /\ UNCHANGED <<rev, tx, draft, jobs, verdict, attempts, clients>>

RetireClients ==
  /\ clients
  /\ Since("0054")
  /\ clients' = FALSE
  /\ UNCHANGED <<rev, tx, draft, jobs, verdict, attempts, progress, completions, checked>>

------------------------------------------------------------------------------
(* The new replicas *)

SubmitAttempt(n) ==
  /\ IndexBuilt
  /\ attempts[n] = NoRow
  /\ \A i \in Ids : attempts[i] \notin {Active, "succeeded"}
  /\ attempts' = [attempts EXCEPT ![n] = Active]
  /\ UNCHANGED <<rev, tx, draft, jobs, verdict, progress, completions, checked, clients>>

FinalizeAttempt(n, v) ==
  /\ attempts[n] = Active
  /\ attempts' = [attempts EXCEPT ![n] = v]
  /\ UNCHANGED <<rev, tx, draft, jobs, verdict, progress, completions, checked, clients>>

\* complete_step and uncomplete_step write the new table alone: an unchecked
\* step keeps the row it has in step_progress.
NewCompleteStep(s) ==
  /\ IndexBuilt
  /\ completions' = completions \cup {s}
  /\ checked' = checked \cup {s}
  /\ UNCHANGED <<rev, tx, draft, jobs, verdict, attempts, progress, clients>>

NewUncompleteStep(s) ==
  /\ IndexBuilt
  /\ completions' = completions \ {s}
  /\ checked' = checked \ {s}
  /\ UNCHANGED <<rev, tx, draft, jobs, verdict, attempts, progress, clients>>

\* The reconciler settles an active attempt whose orchestration is not running.
Reconcile(j) ==
  /\ IndexBuilt
  /\ attempts[j] = Active
  /\ jobs[j] # "running"
  /\ attempts' = [attempts EXCEPT ![j] = "server_error"]
  /\ UNCHANGED <<rev, tx, draft, jobs, verdict, progress, completions, checked, clients>>

------------------------------------------------------------------------------
(* The migrations *)

Stamp(r) == rev' = r /\ UNCHANGED <<tx, draft>>
Outcome(j) == IF jobs[j] = "linked" THEN verdict[j] ELSE Active

\* 0049 runs in one transaction: tables and the locked mirror trigger, the step
\* backfill, the preflight, the jobs as one statement sees them, the orphans as
\* the next one does. Nothing of it is seen before it commits.
BeginExpand ==
  /\ rev = "0048"
  /\ tx = "none"
  /\ tx' = "preflight"
  /\ UNCHANGED <<rev, draft, jobs, verdict, attempts, progress, completions, checked, clients>>

PreflightActive ==
  /\ tx = "preflight"
  /\ Cardinality({j \in Jobs : jobs[j] \in {"running", "dead"}}) <= 1
  /\ tx' = "jobs"
  /\ UNCHANGED <<rev, draft, jobs, verdict, attempts, progress, completions, checked, clients>>

BackfillJobs ==
  /\ tx = "jobs"
  /\ tx' = "orphans"
  /\ draft' = [i \in Ids |-> IF i \in Jobs /\ jobs[i] \notin {"unused", "deleted"}
                             THEN Outcome(i) ELSE NoRow]
  /\ UNCHANGED <<rev, jobs, verdict, attempts, progress, completions, checked, clients>>

BackfillOrphans ==
  /\ tx = "orphans"
  /\ tx' = "commit"
  /\ draft' = [draft EXCEPT ![Orphan] = verdict[Orphan]]
  /\ UNCHANGED <<rev, jobs, verdict, attempts, progress, completions, checked, clients>>

\* Defect: the steps checked before the trigger are not copied.
CommitWithoutSteps ==
  /\ tx = "commit"
  /\ rev' = "0049"
  /\ tx' = "none"
  /\ attempts' = draft
  /\ UNCHANGED <<draft, jobs, verdict, progress, completions, checked, clients>>

CommitExpand ==
  /\ tx = "commit"
  /\ rev' = "0049"
  /\ tx' = "none"
  /\ attempts' = draft
  /\ completions' = progress
  /\ UNCHANGED <<draft, jobs, verdict, progress, checked, clients>>

\* 0050: each index is dropped and built again; the unique one fails, and the
\* revision is not stamped, when two attempts are active.
BuildIndexes ==
  /\ rev = "0049"
  /\ Cardinality({i \in Ids : attempts[i] = Active}) <= 1
  /\ Stamp("0050")
  /\ UNCHANGED <<jobs, verdict, attempts, progress, completions, checked, clients>>

\* Defect: linked jobs finalize their attempts whether or not they are active.
InstallBridgeOverwriting ==
  /\ rev = "0050"
  /\ Stamp("0052")
  /\ attempts' = [i \in Ids |-> IF i \in Jobs /\ jobs[i] = "linked" THEN verdict[i] ELSE attempts[i]]
  /\ UNCHANGED <<jobs, verdict, progress, completions, checked, clients>>

\* 0052: the triggers (which lock verification_jobs until the commit), then the
\* jobs that 0049 missed and the links that came after it.
InstallBridge ==
  /\ rev = "0050"
  /\ Stamp("0052")
  /\ attempts' = [i \in Ids |->
       IF i \in Jobs /\ jobs[i] = "linked" /\ attempts[i] \in {NoRow, Active} THEN verdict[i]
       ELSE IF i \in Jobs /\ jobs[i] \in {"running", "dead"} /\ attempts[i] = NoRow /\ ~SomeActive
            THEN Active
       ELSE attempts[i]]
  /\ UNCHANGED <<jobs, verdict, progress, completions, checked, clients>>

InstallDeleteBridge ==
  /\ rev = "0052"
  /\ Stamp("0053")
  /\ UNCHANGED <<jobs, verdict, attempts, progress, completions, checked, clients>>

\* 0054: attempts whose job was deleted before that.
RepairDeleted ==
  LET stranded == {j \in Jobs : attempts[j] = Active /\ jobs[j] = "deleted"} IN
  /\ rev = "0053"
  /\ Stamp("0054")
  /\ attempts' = [i \in Ids |-> IF i \in stranded THEN "server_error" ELSE attempts[i]]
  /\ UNCHANGED <<jobs, verdict, progress, completions, checked, clients>>

\* Defect: outcomes are not compared with the verdicts they stand for.
DrainedUncompared ==
  /\ \A j \in Jobs : jobs[j] \notin {"running", "dead"}
  /\ \A j \in Jobs : jobs[j] = "linked" => Exists(j)
  /\ \A j \in Jobs : attempts[j] # Active
  /\ Exists(Orphan)
  /\ progress \subseteq completions

\* The drain checks of 0055. That every submission has an attempt is compared
\* for the orphan only: the attempt of a linked job is found by the job's id,
\* and the model may drop the tables where the code still refuses.
Drained ==
  /\ \A j \in Jobs : jobs[j] \notin {"running", "dead"}
  /\ \A j \in Jobs : jobs[j] = "linked" => Exists(j)
  /\ \A j \in Jobs : attempts[j] # Active
  /\ Exists(Orphan)
  /\ progress \subseteq completions
  /\ \A j \in Jobs : jobs[j] = "linked" => attempts[j] = verdict[j]

DropLegacy ==
  /\ rev = "0054"
  /\ ~clients
  /\ Drained
  /\ Stamp("0055")
  /\ UNCHANGED <<jobs, verdict, attempts, progress, completions, checked, clients>>

Migrate ==
  \/ BeginExpand \/ PreflightActive \/ BackfillJobs \/ BackfillOrphans \/ CommitExpand
  \/ BuildIndexes \/ InstallBridge \/ InstallDeleteBridge \/ RepairDeleted \/ DropLegacy

Next ==
  \/ \E j \in Jobs : InsertJob(j) \/ JobDies(j) \/ DeleteJob(j) \/ Reconcile(j)
  \/ \E j \in Jobs, v \in Verdicts : LinkJob(j, v)
  \/ \E s \in Steps : LegacyToggle(s) \/ NewCompleteStep(s) \/ NewUncompleteStep(s)
  \/ RetireClients
  \/ \E n \in New : SubmitAttempt(n)
  \/ \E n \in New, v \in Verdicts : FinalizeAttempt(n, v)
  \/ Migrate

Spec == Init /\ [][Next]_vars

------------------------------------------------------------------------------
(* Properties *)

\* Type invariant: what each table holds at every revision.
TypeOK ==
  /\ rev \in DOMAIN Order
  /\ tx \in {"none", "preflight", "jobs", "orphans", "commit"}
  /\ attempts \in [Ids -> Verdicts \cup {NoRow, Active}]
  /\ draft \in [Ids -> Verdicts \cup {NoRow, Active}]
  /\ jobs \in [Jobs -> {"unused", "running", "dead", "linked", "deleted"}]
  /\ verdict \in [Jobs \cup {Orphan} -> Verdicts \cup {NoRow}]
  /\ progress \subseteq Steps /\ completions \subseteq Steps /\ checked \subseteq Steps

\* The learner has at most one active attempt from the backfill on: the unique
\* index of 0050 can be built, and no bridge adds a second.
OneActive == Cardinality({i \in Ids : attempts[i] = Active}) <= 1

\* Once the bridge is installed a linked job has a terminal attempt, however
\* its insert, its link, the backfills and an attempt of a new replica
\* interleave.
LinkedIsTerminal ==
  LinkBridge => \A j \in Jobs : jobs[j] = "linked" => attempts[j] \in Verdicts

\* From 0054 on no attempt stays active for a job that was deleted, whichever
\* of the backfill, the triggers and the delete came first.
NothingStranded ==
  Since("0054") => \A j \in Jobs : attempts[j] = Active => jobs[j] \in {"running", "dead"}

\* Whatever a job goes through, its attempt neither blocks another one nor
\* outlives it.
JobsSettle == OneActive /\ LinkedIsTerminal /\ NothingStranded

\* When the legacy tables are dropped each verdict they held is the outcome of
\* the attempt that stands for it.
ContractLosesNothing ==
  rev = "0055" =>
    /\ \A j \in Jobs : verdict[j] # NoRow => attempts[j] = verdict[j]
    /\ attempts[Orphan] = verdict[Orphan]
    /\ \A j \in Jobs : attempts[j] # Active

\* From 0049 on, and after the old table is dropped, the new one holds exactly
\* the steps whose last change was a check: neither the backfill nor the mirror
\* trigger loses a check or undoes an uncheck, whichever of the legacy and the
\* new replicas made it. The two tables need not agree.
StepsFollowLearner == Since("0049") => completions = checked

\* No bridge, backfill, repair or reconciler rewrites an outcome.
OutcomesAreFinal == [][\A i \in Ids : attempts[i] \in Verdicts => attempts'[i] = attempts[i]]_vars
==============================================================================
