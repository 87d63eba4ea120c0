-------------------------- MODULE LegacyBridgeProofs --------------------------
(***************************************************************************)
(* Theorems about the migration for any number of jobs, attempts of new    *)
(* replicas and steps, whatever legacy and new replicas do between two     *)
(* statements of it.                                                       *)
(*                                                                         *)
(* BridgeInv is the argument revision by revision: what the transaction of *)
(* 0049 drafted is still right when it commits although the legacy         *)
(* replicas wrote on (DraftGood), what 0049 missed is repaired by 0052 and *)
(* 0054, and what the drain checks of 0055 saw cannot change afterwards    *)
(* (Retired).  That at most one attempt is active comes from the legacy    *)
(* tables' own index (LegacyIndex), not from the preflight.                *)
(***************************************************************************)
EXTENDS LegacyBridge, FiniteSetTheorems, TLAPS

(* The legacy index: one unfinished job.                                   *)
LegacyIndex ==
  \A j, k \in Jobs :
    jobs[j] \in {"running", "dead"} /\ jobs[k] \in {"running", "dead"} => j = k

VerdictIsLinked ==
  /\ verdict[Orphan] \in Verdicts
  /\ \A j \in Jobs : verdict[j] # NoRow <=> jobs[j] = "linked"

OneActiveIn(rows) == \A i, k \in Ids : rows[i] = Active /\ rows[k] = Active => i = k

UsedIn(rows) == \A j \in Jobs : rows[j] # NoRow => jobs[j] # "unused"

(* The transaction of 0049 is the only one that spans steps.               *)
Uncommitted ==
  /\ tx # "none" => rev = "0048"
  /\ rev = "0048" => attempts = NoRows /\ checked = progress

DraftGood ==
  /\ tx \in {"orphans", "commit"} => OneActiveIn(draft) /\ UsedIn(draft)
  /\ tx = "commit" => draft[Orphan] = verdict[Orphan]

OrphanKept == rev # "0048" => attempts[Orphan] = verdict[Orphan]

Retired == rev = "0055" => ~clients /\ \A j \in Jobs : jobs[j] \notin {"running", "dead"}

RowsGood == OneActiveIn(attempts) /\ UsedIn(attempts) /\ OrphanKept

LegacyGood == LegacyIndex /\ VerdictIsLinked

BridgeInv == /\ TypeOK
             /\ LegacyGood
             /\ Uncommitted
             /\ DraftGood
             /\ RowsGood
             /\ LinkedIsTerminal
             /\ NothingStranded
             /\ Retired
             /\ ContractLosesNothing
             /\ StepsFollowLearner

-----------------------------------------------------------------------------
Revisions == {"0048", "0049", "0050", "0052", "0053", "0054", "0055"}

LEMMA OrderValues ==
  /\ DOMAIN Order = Revisions
  /\ Order["0048"] = 0 /\ Order["0049"] = 1 /\ Order["0050"] = 2 /\ Order["0052"] = 3
  /\ Order["0053"] = 4 /\ Order["0054"] = 5 /\ Order["0055"] = 6
BY DEF Order, Revisions

(* What is installed at which revision.                                    *)
LEMMA Installed ==
  ASSUME rev \in Revisions
  PROVE  /\ IndexBuilt <=> rev \in {"0050", "0052", "0053", "0054", "0055"}
         /\ LinkBridge <=> rev \in {"0052", "0053", "0054"}
         /\ DeleteBridge <=> rev \in {"0053", "0054"}
         /\ MirrorInstalled <=> rev \in {"0049", "0050", "0052", "0053", "0054"}
         /\ Since("0049") <=> rev # "0048"
         /\ Since("0054") <=> rev \in {"0054", "0055"}
BY OrderValues, SMTT(30) DEF IndexBuilt, LinkBridge, DeleteBridge, MirrorInstalled, Since,
   Revisions

LEMMA InstalledNext ==
  ASSUME rev' \in Revisions
  PROVE  /\ LinkBridge' <=> rev' \in {"0052", "0053", "0054"}
         /\ Since("0049")' <=> rev' # "0048"
         /\ Since("0054")' <=> rev' \in {"0054", "0055"}
BY OrderValues, SMTT(30) DEF LinkBridge, Since, Revisions

LEMMA KnownRevision ==
  ASSUME BridgeInv
  PROVE  rev \in Revisions
BY OrderValues DEF BridgeInv, TypeOK

(* A set without two elements has at most one.                             *)
LEMMA AtMostOne ==
  ASSUME NEW S, \A x, y \in S : x = y
  PROVE  Cardinality(S) <= 1
<1>1. CASE S = {}
  BY <1>1, FS_EmptySet
<1>2. CASE S # {}
  <2>1. PICK x \in S : S = {x}
    BY <1>2
  <2>2. QED
    BY <2>1, FS_Singleton
<1>3. QED
  BY <1>1, <1>2

LEMMA InitBridgeInv == Init => BridgeInv
<1>. SUFFICES ASSUME Init PROVE BridgeInv
  OBVIOUS
<1>1. rev \in Revisions /\ rev = "0048"
  BY DEF Init, Revisions
<1>2. \A j \in Jobs : verdict[j] = NoRow
  BY IdAssumption DEF Init
<1>3. TypeOK
  BY <1>1, OrderValues DEF Init, TypeOK, NoRows
<1>4. LegacyGood
  BY <1>2 DEF Init, LegacyGood, LegacyIndex, VerdictIsLinked, Verdicts, NoRow
<1>5. Uncommitted /\ DraftGood
  BY DEF Init, Uncommitted, DraftGood
<1>6. RowsGood
  BY DEF Init, RowsGood, OneActiveIn, UsedIn, OrphanKept, NoRows, NoRow, Active, Ids
<1>7. LinkedIsTerminal /\ NothingStranded /\ StepsFollowLearner
  BY <1>1, Installed DEF LinkedIsTerminal, NothingStranded, StepsFollowLearner
<1>8. Retired /\ ContractLosesNothing
  BY <1>1 DEF Retired, ContractLosesNothing
<1>9. QED
  BY <1>3, <1>4, <1>5, <1>6, <1>7, <1>8 DEF BridgeInv

-----------------------------------------------------------------------------
(* The legacy replicas.  They run only while clients holds, so never at    *)
(* 0055, and their writes never touch a migration's variables.             *)

LEMMA ClientsEnd ==
  ASSUME BridgeInv, clients
  PROVE  rev \in Revisions \ {"0055"}
BY KnownRevision DEF BridgeInv, Retired

(* What a step of the jobs must show: the migration's own state is alone.  *)
LEMMA JobsStep ==
  ASSUME BridgeInv, clients, clients' = clients,
         UNCHANGED <<rev, tx, draft, progress, completions, checked>>,
         TypeOK', LegacyGood', RowsGood',
         rev = "0048" => attempts' = attempts,
         \A j \in Jobs : jobs[j] # "unused" => jobs'[j] # "unused",
         verdict'[Orphan] = verdict[Orphan],
         LinkBridge => \A j \in Jobs : jobs'[j] = "linked" => attempts'[j] \in Verdicts,
         Since("0054") =>
           \A j \in Jobs : attempts'[j] = Active => jobs'[j] \in {"running", "dead"}
  PROVE  BridgeInv'
<1>1. rev \in Revisions \ {"0055"} /\ rev' = rev
  BY ClientsEnd
<1>2. /\ LinkBridge' <=> LinkBridge
      /\ Since("0049")' <=> Since("0049")
      /\ Since("0054")' <=> Since("0054")
  BY <1>1, Installed, InstalledNext
<1>3. Uncommitted' /\ DraftGood'
  BY DEF BridgeInv, Uncommitted, DraftGood, OneActiveIn, UsedIn, NoRows
<1>4. LinkedIsTerminal' /\ NothingStranded' /\ StepsFollowLearner'
  BY <1>2 DEF BridgeInv, LinkedIsTerminal, NothingStranded, StepsFollowLearner
<1>5. Retired' /\ ContractLosesNothing'
  BY <1>1 DEF Retired, ContractLosesNothing
<1>6. QED
  BY <1>3, <1>4, <1>5 DEF BridgeInv

LEMMA InsertJobStep ==
  ASSUME BridgeInv, NEW j \in Jobs, InsertJob(j)
  PROVE  BridgeInv' /\ \A i \in Ids : attempts[i] \in Verdicts => attempts'[i] = attempts[i]
<1>. USE DEF InsertJob, BridgedInsert, Ids
<1>1. rev \in Revisions \ {"0055"}
  BY ClientsEnd
<1>2. /\ TypeOK /\ jobs' = [jobs EXCEPT ![j] = "running"]
      /\ \A k \in Jobs \ {j} : jobs'[k] = jobs[k]
      /\ jobs'[j] = "running" /\ j \in Ids /\ attempts[j] = NoRow
  BY DEF BridgeInv, TypeOK, RowsGood, UsedIn
<1>3. \/ attempts' = attempts
      \/ LinkBridge /\ ~SomeActive /\ attempts' = [attempts EXCEPT ![j] = Active]
  OBVIOUS
<1>4. TypeOK'
  BY <1>2, <1>3 DEF TypeOK
<1>5. LegacyGood'
  BY <1>2 DEF BridgeInv, LegacyGood, LegacyIndex, VerdictIsLinked
<1>6. RowsGood'
  <2>1. OneActiveIn(attempts')
    BY <1>2, <1>3 DEF BridgeInv, RowsGood, OneActiveIn, SomeActive, TypeOK
  <2>2. UsedIn(attempts)'
    BY <1>2, <1>3 DEF BridgeInv, RowsGood, UsedIn, TypeOK
  <2>3. OrphanKept'
    BY <1>2, <1>3, IdAssumption DEF BridgeInv, RowsGood, OrphanKept, TypeOK
  <2>4. QED
    BY <2>1, <2>2, <2>3 DEF RowsGood, OneActiveIn
<1>7. \A i \in Ids : attempts[i] \in Verdicts => attempts'[i] = attempts[i]
  BY <1>2, <1>3 DEF TypeOK, Verdicts, NoRow
<1>8. LinkBridge => \A k \in Jobs : jobs'[k] = "linked" => attempts'[k] \in Verdicts
  BY <1>2, <1>7 DEF BridgeInv, LinkedIsTerminal
<1>9. Since("0054") =>
        \A k \in Jobs : attempts'[k] = Active => jobs'[k] \in {"running", "dead"}
  BY <1>2, <1>3 DEF BridgeInv, NothingStranded, TypeOK
<1>10. /\ rev = "0048" => attempts' = attempts
       /\ \A k \in Jobs : jobs[k] # "unused" => jobs'[k] # "unused"
  BY <1>1, <1>2, <1>3, Installed
<1>11. BridgeInv'
  BY <1>4, <1>5, <1>6, <1>8, <1>9, <1>10, JobsStep
<1>12. QED
  BY <1>7, <1>11

LEMMA JobDiesStep ==
  ASSUME BridgeInv, NEW j \in Jobs, JobDies(j)
  PROVE  BridgeInv'
<1>. USE DEF JobDies, BridgeInv
<1>1. /\ \A k \in Jobs \ {j} : jobs'[k] = jobs[k]
      /\ jobs'[j] = "dead" /\ jobs[j] = "running"
  BY DEF TypeOK
<1>2. TypeOK'
  BY DEF TypeOK
<1>3. LegacyGood'
  BY <1>1 DEF LegacyGood, LegacyIndex, VerdictIsLinked
<1>4. RowsGood'
  BY <1>1 DEF RowsGood, OneActiveIn, UsedIn, OrphanKept
<1>5. /\ LinkBridge => \A k \in Jobs : jobs'[k] = "linked" => attempts'[k] \in Verdicts
      /\ Since("0054") =>
           \A k \in Jobs : attempts'[k] = Active => jobs'[k] \in {"running", "dead"}
      /\ \A k \in Jobs : jobs[k] # "unused" => jobs'[k] # "unused"
  BY <1>1 DEF LinkedIsTerminal, NothingStranded
<1>6. QED
  BY <1>2, <1>3, <1>4, <1>5, JobsStep

LEMMA LinkJobStep ==
  ASSUME BridgeInv, NEW j \in Jobs, NEW v \in Verdicts, LinkJob(j, v)
  PROVE  BridgeInv' /\ \A i \in Ids : attempts[i] \in Verdicts => attempts'[i] = attempts[i]
<1>. USE DEF LinkJob, BridgedLink, Ids
<1>1. rev \in Revisions \ {"0055"} /\ j # Orphan
  BY ClientsEnd, IdAssumption
<1>2. /\ TypeOK /\ j \in Ids
      /\ \A k \in Jobs \ {j} : jobs'[k] = jobs[k]
      /\ jobs'[j] = "linked" /\ jobs[j] = "running"
      /\ \A k \in (Jobs \cup {Orphan}) \ {j} : verdict'[k] = verdict[k]
      /\ verdict'[j] = v /\ v # NoRow
  BY DEF BridgeInv, TypeOK, Verdicts, NoRow
<1>3. \/ attempts' = attempts /\ (LinkBridge => attempts[j] \in Verdicts)
      \/ /\ LinkBridge /\ attempts[j] \in {NoRow, Active}
         /\ attempts' = [attempts EXCEPT ![j] = v]
  BY <1>2 DEF TypeOK
<1>4. TypeOK'
  BY <1>2, <1>3 DEF TypeOK
<1>5. LegacyGood'
  BY <1>1, <1>2 DEF BridgeInv, LegacyGood, LegacyIndex, VerdictIsLinked
<1>6. RowsGood'
  BY <1>1, <1>2, <1>3 DEF BridgeInv, RowsGood, OneActiveIn, UsedIn, OrphanKept, TypeOK,
     Verdicts, Active
<1>7. \A i \in Ids : attempts[i] \in Verdicts => attempts'[i] = attempts[i]
  BY <1>2, <1>3 DEF TypeOK, Verdicts, NoRow, Active
<1>8. LinkBridge => \A k \in Jobs : jobs'[k] = "linked" => attempts'[k] \in Verdicts
  BY <1>2, <1>3, <1>7 DEF BridgeInv, LinkedIsTerminal, TypeOK
<1>9. Since("0054") =>
        \A k \in Jobs : attempts'[k] = Active => jobs'[k] \in {"running", "dead"}
  <2>1. Since("0054") => LinkBridge
    BY <1>1, Installed
  <2>2. v # Active /\ \A u \in Verdicts : u # Active
    BY DEF Verdicts, Active
  <2>3. QED
    BY <1>2, <1>3, <2>1, <2>2 DEF BridgeInv, NothingStranded, TypeOK
<1>10. /\ rev = "0048" => attempts' = attempts
       /\ \A k \in Jobs : jobs[k] # "unused" => jobs'[k] # "unused"
       /\ verdict'[Orphan] = verdict[Orphan]
  BY <1>1, <1>2, <1>3, Installed
<1>11. BridgeInv'
  BY <1>4, <1>5, <1>6, <1>8, <1>9, <1>10, JobsStep
<1>12. QED
  BY <1>7, <1>11

LEMMA DeleteJobStep ==
  ASSUME BridgeInv, NEW j \in Jobs, DeleteJob(j)
  PROVE  BridgeInv' /\ \A i \in Ids : attempts[i] \in Verdicts => attempts'[i] = attempts[i]
<1>. USE DEF DeleteJob, BridgedDelete, Ids
<1>1. rev \in Revisions \ {"0055"} /\ j # Orphan
  BY ClientsEnd, IdAssumption
<1>2. /\ TypeOK /\ j \in Ids
      /\ \A k \in Jobs \ {j} : jobs'[k] = jobs[k]
      /\ jobs'[j] = "deleted" /\ jobs[j] = "dead"
  BY DEF BridgeInv, TypeOK
<1>3. \/ attempts' = attempts /\ (DeleteBridge => attempts[j] # Active)
      \/ /\ DeleteBridge /\ attempts[j] = Active
         /\ attempts' = [attempts EXCEPT ![j] = "server_error"]
  OBVIOUS
<1>4. TypeOK'
  BY <1>2, <1>3 DEF TypeOK, Verdicts
<1>5. LegacyGood'
  BY <1>2 DEF BridgeInv, LegacyGood, LegacyIndex, VerdictIsLinked
<1>6. RowsGood'
  BY <1>1, <1>2, <1>3 DEF BridgeInv, RowsGood, OneActiveIn, UsedIn, OrphanKept, TypeOK, Active
<1>7. \A i \in Ids : attempts[i] \in Verdicts => attempts'[i] = attempts[i]
  BY <1>2, <1>3 DEF TypeOK, Verdicts, Active
<1>8. LinkBridge => \A k \in Jobs : jobs'[k] = "linked" => attempts'[k] \in Verdicts
  BY <1>2, <1>7 DEF BridgeInv, LinkedIsTerminal
<1>9. Since("0054") =>
        \A k \in Jobs : attempts'[k] = Active => jobs'[k] \in {"running", "dead"}
  <2>1. Since("0054") => DeleteBridge
    BY <1>1, Installed
  <2>2. QED
    BY <1>2, <1>3, <2>1 DEF BridgeInv, NothingStranded, TypeOK, Active
<1>10. /\ rev = "0048" => attempts' = attempts
       /\ \A k \in Jobs : jobs[k] # "unused" => jobs'[k] # "unused"
  BY <1>1, <1>2, <1>3, Installed
<1>11. BridgeInv'
  BY <1>4, <1>5, <1>6, <1>8, <1>9, <1>10, JobsStep
<1>12. QED
  BY <1>7, <1>11

(* The mirror trigger repeats in the new table what changes in the old one, *)
(* whatever the new one holds.                                             *)
LEMMA LegacyToggleStep ==
  ASSUME BridgeInv, NEW s \in Steps, LegacyToggle(s)
  PROVE  BridgeInv'
<1>. USE DEF LegacyToggle
<1>1. rev \in Revisions \ {"0055"} /\ rev' = rev
  BY ClientsEnd
<1>2. /\ LinkBridge' <=> LinkBridge
      /\ Since("0049")' <=> Since("0049")
      /\ Since("0054")' <=> Since("0054")
  BY <1>1, Installed, InstalledNext
<1>3. TypeOK'
  BY DEF BridgeInv, TypeOK
<1>4. LegacyGood' /\ Uncommitted' /\ DraftGood' /\ RowsGood' /\ Retired'
  BY DEF BridgeInv, LegacyGood, LegacyIndex, VerdictIsLinked, Uncommitted, DraftGood, RowsGood,
     OneActiveIn, UsedIn, OrphanKept, NoRows, Retired
<1>5. LinkedIsTerminal' /\ NothingStranded'
  BY <1>2 DEF BridgeInv, LinkedIsTerminal, NothingStranded
<1>6. StepsFollowLearner'
  <2>1. Since("0049") <=> MirrorInstalled
    BY <1>1, Installed DEF Revisions
  <2>2. CASE Since("0049")
    BY <1>2, <2>1, <2>2 DEF BridgeInv, StepsFollowLearner
  <2>3. QED
    BY <1>2, <2>2 DEF StepsFollowLearner
<1>7. ContractLosesNothing'
  BY <1>1 DEF ContractLosesNothing
<1>8. QED
  BY <1>3, <1>4, <1>5, <1>6, <1>7 DEF BridgeInv

LEMMA RetireClientsStep ==
  ASSUME BridgeInv, RetireClients
  PROVE  BridgeInv'
<1>. USE DEF RetireClients
<1>1. rev \in Revisions /\ rev' = rev
  BY KnownRevision
<1>2. /\ LinkBridge' <=> LinkBridge
      /\ Since("0049")' <=> Since("0049")
      /\ Since("0054")' <=> Since("0054")
  BY <1>1, Installed, InstalledNext
<1>3. QED
  BY <1>2 DEF BridgeInv, TypeOK, LegacyGood, LegacyIndex, VerdictIsLinked, Uncommitted,
     DraftGood, RowsGood, OneActiveIn, UsedIn, OrphanKept, NoRows, Retired,
     LinkedIsTerminal, NothingStranded, StepsFollowLearner, ContractLosesNothing

-----------------------------------------------------------------------------
(* The new replicas: they write attempts only, and no outcome twice.       *)

LEMMA RowStep ==
  ASSUME BridgeInv, NEW i \in Ids, NEW o \in Verdicts \cup {Active},
         attempts' = [attempts EXCEPT ![i] = o], rev # "0048",
         UNCHANGED <<rev, tx, draft, jobs, verdict, progress, completions, checked, clients>>,
         \/ attempts[i] = Active /\ o \in Verdicts
         \/ i \in New /\ o = Active /\ attempts[i] = NoRow /\ ~SomeActive
  PROVE  BridgeInv' /\ \A k \in Ids : attempts[k] \in Verdicts => attempts'[k] = attempts[k]
<1>1. rev \in Revisions
  BY KnownRevision
<1>2. /\ LinkBridge' <=> LinkBridge
      /\ Since("0049")' <=> Since("0049")
      /\ Since("0054")' <=> Since("0054")
  BY <1>1, Installed, InstalledNext
<1>3. /\ TypeOK
      /\ \A k \in Ids \ {i} : attempts'[k] = attempts[k]
      /\ attempts'[i] = o
  BY DEF BridgeInv, TypeOK
<1>4. /\ \A v \in Verdicts : v # Active /\ v # NoRow
      /\ NoRow # Active
  BY DEF Verdicts, Active, NoRow
<1>5. \A k \in Ids : attempts[k] \in Verdicts => attempts'[k] = attempts[k]
  BY <1>3, <1>4
<1>6. TypeOK'
  BY <1>3 DEF TypeOK
<1>7. LegacyGood' /\ Uncommitted' /\ DraftGood' /\ Retired'
  BY DEF BridgeInv, LegacyGood, LegacyIndex, VerdictIsLinked, Uncommitted, DraftGood,
     OneActiveIn, UsedIn, Retired
<1>8. RowsGood'
  <2>1. OneActiveIn(attempts)'
    BY <1>3, <1>4 DEF BridgeInv, RowsGood, OneActiveIn, SomeActive
  <2>2. UsedIn(attempts)'
    BY <1>3, <1>4, IdAssumption DEF BridgeInv, RowsGood, UsedIn, Ids
  <2>3. OrphanKept'
    BY <1>3, <1>4, IdAssumption DEF BridgeInv, RowsGood, OrphanKept, Ids, LegacyGood,
       VerdictIsLinked
  <2>4. QED
    BY <2>1, <2>2, <2>3 DEF RowsGood
<1>9. LinkedIsTerminal'
  BY <1>2, <1>5 DEF BridgeInv, LinkedIsTerminal, Ids
<1>10. NothingStranded'
  BY <1>2, <1>3, <1>4, IdAssumption DEF BridgeInv, NothingStranded, Ids
<1>11. StepsFollowLearner'
  BY <1>2 DEF BridgeInv, StepsFollowLearner
<1>12. ContractLosesNothing'
  BY <1>3, <1>4, IdAssumption DEF BridgeInv, ContractLosesNothing, LegacyGood, VerdictIsLinked,
     TypeOK, Ids
<1>13. QED
  BY <1>5, <1>6, <1>7, <1>8, <1>9, <1>10, <1>11, <1>12 DEF BridgeInv

LEMMA ReplicaStep ==
  ASSUME BridgeInv,
         \/ \E n \in New : SubmitAttempt(n) \/ \E v \in Verdicts : FinalizeAttempt(n, v)
         \/ \E j \in Jobs : Reconcile(j)
  PROVE  BridgeInv' /\ \A k \in Ids : attempts[k] \in Verdicts => attempts'[k] = attempts[k]
<1>1. rev \in Revisions
  BY KnownRevision
<1>2. IndexBuilt => rev # "0048"
  BY <1>1, Installed
<1>3. ASSUME NEW n \in New, SubmitAttempt(n)
      PROVE  BridgeInv' /\ \A k \in Ids : attempts[k] \in Verdicts => attempts'[k] = attempts[k]
  <2>1. /\ n \in Ids /\ ~SomeActive /\ attempts[n] = NoRow /\ rev # "0048"
        /\ attempts' = [attempts EXCEPT ![n] = Active]
        /\ UNCHANGED <<rev, tx, draft, jobs, verdict, progress, completions, checked, clients>>
    BY <1>2, <1>3 DEF SubmitAttempt, SomeActive, Ids
  <2>2. QED
    BY <2>1, RowStep
<1>4. ASSUME NEW n \in New, NEW v \in Verdicts, FinalizeAttempt(n, v)
      PROVE  BridgeInv' /\ \A k \in Ids : attempts[k] \in Verdicts => attempts'[k] = attempts[k]
  <2>1. /\ n \in Ids /\ attempts[n] = Active
        /\ attempts' = [attempts EXCEPT ![n] = v]
        /\ UNCHANGED <<rev, tx, draft, jobs, verdict, progress, completions, checked, clients>>
    BY <1>4 DEF FinalizeAttempt, Ids
  <2>2. rev # "0048"
    BY <2>1 DEF BridgeInv, Uncommitted, NoRows, NoRow, Active
  <2>3. QED
    BY <2>1, <2>2, RowStep
<1>5. ASSUME NEW j \in Jobs, Reconcile(j)
      PROVE  BridgeInv' /\ \A k \in Ids : attempts[k] \in Verdicts => attempts'[k] = attempts[k]
  <2>1. /\ j \in Ids /\ attempts[j] = Active /\ rev # "0048"
        /\ attempts' = [attempts EXCEPT ![j] = "server_error"]
        /\ UNCHANGED <<rev, tx, draft, jobs, verdict, progress, completions, checked, clients>>
    BY <1>2, <1>5 DEF Reconcile, Ids
  <2>2. "server_error" \in Verdicts
    BY DEF Verdicts
  <2>3. QED
    BY <2>1, <2>2, RowStep
<1>6. QED
  BY <1>3, <1>4, <1>5

(* New replicas write the new table of steps alone.                        *)
LEMMA NewStepStep ==
  ASSUME BridgeInv, NEW s \in Steps, NewCompleteStep(s) \/ NewUncompleteStep(s)
  PROVE  BridgeInv' /\ attempts' = attempts
<1>1. rev \in Revisions /\ rev' = rev /\ rev # "0048"
  BY KnownRevision, Installed DEF NewCompleteStep, NewUncompleteStep
<1>2. /\ LinkBridge' <=> LinkBridge
      /\ Since("0049") /\ Since("0049")'
      /\ Since("0054")' <=> Since("0054")
  BY <1>1, Installed, InstalledNext
<1>3. /\ UNCHANGED <<rev, tx, draft, jobs, verdict, attempts, progress, clients>>
      /\ \/ completions' = completions \cup {s} /\ checked' = checked \cup {s}
         \/ completions' = completions \ {s} /\ checked' = checked \ {s}
  BY DEF NewCompleteStep, NewUncompleteStep
<1>4. TypeOK'
  BY <1>3 DEF BridgeInv, TypeOK
<1>5. LegacyGood' /\ Uncommitted' /\ DraftGood' /\ RowsGood' /\ Retired'
  BY <1>1, <1>3 DEF BridgeInv, LegacyGood, LegacyIndex, VerdictIsLinked, Uncommitted,
     DraftGood, RowsGood, OneActiveIn, UsedIn, OrphanKept, Retired
<1>6. LinkedIsTerminal' /\ NothingStranded' /\ ContractLosesNothing'
  BY <1>2, <1>3 DEF BridgeInv, LinkedIsTerminal, NothingStranded, ContractLosesNothing
<1>7. StepsFollowLearner'
  BY <1>2, <1>3 DEF BridgeInv, StepsFollowLearner
<1>8. QED
  BY <1>3, <1>4, <1>5, <1>6, <1>7 DEF BridgeInv

-----------------------------------------------------------------------------
(* The transaction of 0049.                                                *)

LEMMA ExpandStep ==
  ASSUME BridgeInv, BeginExpand \/ PreflightActive \/ BackfillJobs \/ BackfillOrphans
  PROVE  BridgeInv' /\ attempts' = attempts
<1>. USE DEF BridgeInv
<1>1. rev = "0048" /\ rev' = rev /\ rev \in Revisions /\ tx' # "none"
  BY DEF BeginExpand, PreflightActive, BackfillJobs, BackfillOrphans, Uncommitted, Revisions
<1>2. ~LinkBridge' /\ ~Since("0049")' /\ ~Since("0054")'
  BY <1>1, InstalledNext
<1>3. UNCHANGED <<jobs, verdict, attempts, progress, completions, checked, clients>>
  BY DEF BeginExpand, PreflightActive, BackfillJobs, BackfillOrphans
<1>4. TypeOK'
  <2>1. CASE BeginExpand \/ PreflightActive
    BY <1>3, <2>1 DEF TypeOK, BeginExpand, PreflightActive
  <2>2. CASE BackfillJobs
    <3>1. \A i \in Jobs : jobs[i] \notin {"unused", "deleted"} =>
             Outcome(i) \in Verdicts \cup {NoRow, Active}
      BY DEF Outcome, TypeOK
    <3>2. draft' \in [Ids -> Verdicts \cup {NoRow, Active}]
      BY <2>2, <3>1 DEF BackfillJobs
    <3>3. QED
      BY <1>3, <2>2, <3>2 DEF TypeOK, BackfillJobs
  <2>3. CASE BackfillOrphans
    BY <1>3, <2>3 DEF TypeOK, BackfillOrphans, LegacyGood, VerdictIsLinked
  <2>4. QED
    BY <2>1, <2>2, <2>3
<1>5. DraftGood'
  <2>1. CASE BeginExpand \/ PreflightActive
    BY <2>1 DEF DraftGood, BeginExpand, PreflightActive
  <2>2. CASE BackfillJobs
    <3>1. tx' = "orphans"
      BY <2>2 DEF BackfillJobs
    <3>2. \A i \in Ids : draft'[i] = IF i \in Jobs /\ jobs[i] \notin {"unused", "deleted"}
                                     THEN Outcome(i) ELSE NoRow
      BY <2>2 DEF BackfillJobs
    <3>3. \A i \in Ids : draft'[i] = Active => i \in Jobs /\ jobs[i] \in {"running", "dead"}
      <4>1. SUFFICES ASSUME NEW i \in Ids, draft'[i] = Active
                     PROVE  i \in Jobs /\ jobs[i] \in {"running", "dead"}
        OBVIOUS
      <4>2. i \in Jobs /\ jobs[i] \notin {"unused", "deleted"} /\ Outcome(i) = Active
        BY <3>2, <4>1 DEF NoRow, Active
      <4>3. jobs[i] # "linked"
        BY <4>2 DEF Outcome, LegacyGood, VerdictIsLinked, TypeOK, Verdicts, NoRow, Active
      <4>4. QED
        BY <4>2, <4>3 DEF TypeOK
    <3>4. OneActiveIn(draft)'
      BY <3>3 DEF OneActiveIn, LegacyGood, LegacyIndex
    <3>5. UsedIn(draft)'
      BY <1>3, <3>2 DEF UsedIn, Ids
    <3>6. QED
      BY <3>1, <3>4, <3>5 DEF DraftGood
  <2>3. CASE BackfillOrphans
    <3>1. /\ tx = "orphans" /\ draft' = [draft EXCEPT ![Orphan] = verdict[Orphan]]
          /\ verdict[Orphan] # Active /\ Orphan \in Ids /\ TypeOK
      BY <2>3 DEF BackfillOrphans, LegacyGood, VerdictIsLinked, Verdicts, Active, Ids
    <3>2. OneActiveIn(draft)'
      BY <3>1 DEF DraftGood, OneActiveIn, TypeOK
    <3>3. UsedIn(draft)'
      BY <1>3, <3>1, IdAssumption DEF DraftGood, UsedIn, TypeOK, Ids
    <3>4. draft'[Orphan] = verdict'[Orphan]
      BY <1>3, <3>1 DEF TypeOK
    <3>5. QED
      BY <3>2, <3>3, <3>4 DEF DraftGood
  <2>4. QED
    BY <2>1, <2>2, <2>3
<1>6. LegacyGood' /\ RowsGood' /\ Uncommitted'
  BY <1>1, <1>3 DEF LegacyGood, LegacyIndex, VerdictIsLinked, RowsGood, OneActiveIn, UsedIn,
     OrphanKept, Uncommitted, NoRows
<1>7. LinkedIsTerminal' /\ NothingStranded' /\ StepsFollowLearner'
  BY <1>2 DEF LinkedIsTerminal, NothingStranded, StepsFollowLearner
<1>8. Retired' /\ ContractLosesNothing'
  BY <1>1 DEF Retired, ContractLosesNothing
<1>9. QED
  BY <1>3, <1>4, <1>5, <1>6, <1>7, <1>8

LEMMA CommitExpandStep ==
  ASSUME BridgeInv, CommitExpand
  PROVE  BridgeInv' /\ \A i \in Ids : attempts[i] \notin Verdicts
<1>. USE DEF BridgeInv, CommitExpand
<1>1. rev = "0048" /\ rev' = "0049" /\ rev' \in Revisions
  BY DEF Uncommitted, Revisions
<1>2. ~LinkBridge' /\ ~Since("0054")'
  BY <1>1, InstalledNext
<1>3. TypeOK'
  BY <1>1, OrderValues DEF TypeOK
<1>4. LegacyGood' /\ Uncommitted' /\ DraftGood'
  BY <1>1 DEF LegacyGood, LegacyIndex, VerdictIsLinked, Uncommitted, DraftGood
<1>5. RowsGood'
  BY DEF RowsGood, DraftGood, OneActiveIn, UsedIn, OrphanKept
<1>6. LinkedIsTerminal' /\ NothingStranded' /\ StepsFollowLearner'
  BY <1>1, <1>2 DEF Uncommitted, LinkedIsTerminal, NothingStranded, StepsFollowLearner
<1>7. Retired' /\ ContractLosesNothing'
  BY <1>1 DEF Retired, ContractLosesNothing
<1>8. \A i \in Ids : attempts[i] \notin Verdicts
  BY <1>1 DEF Uncommitted, NoRows, NoRow, Verdicts
<1>9. QED
  BY <1>3, <1>4, <1>5, <1>6, <1>7, <1>8

-----------------------------------------------------------------------------
(* The later revisions, each one transaction.                              *)

(* What a stamped revision after 0049 leaves alone.                        *)
LEMMA StampStep ==
  ASSUME BridgeInv, rev \notin {"0048", "0055"}, rev' \in Revisions \ {"0048", "0049"},
         UNCHANGED <<tx, draft, jobs, verdict, progress, completions, checked, clients>>,
         attempts' \in [Ids -> Verdicts \cup {NoRow, Active}],
         attempts'[Orphan] = attempts[Orphan]
  PROVE  TypeOK' /\ LegacyGood' /\ Uncommitted' /\ DraftGood' /\ OrphanKept' /\ StepsFollowLearner'
<1>. USE DEF BridgeInv
<1>1. rev \in Revisions /\ rev' \in Revisions
  BY KnownRevision
<1>2. Since("0049") /\ tx = "none"
  BY <1>1, Installed DEF Revisions, Uncommitted
<1>3. TypeOK'
  BY <1>1, OrderValues DEF TypeOK
<1>4. LegacyGood' /\ Uncommitted' /\ DraftGood'
  BY <1>2 DEF LegacyGood, LegacyIndex, VerdictIsLinked, Uncommitted, DraftGood
<1>5. OrphanKept' /\ StepsFollowLearner'
  BY <1>2 DEF RowsGood, OrphanKept, StepsFollowLearner
<1>6. QED
  BY <1>3, <1>4, <1>5

LEMMA BuildIndexesStep ==
  ASSUME BridgeInv, BuildIndexes
  PROVE  BridgeInv' /\ attempts' = attempts
<1>. USE DEF BuildIndexes, Stamp
<1>1. rev = "0049" /\ rev' = "0050" /\ rev' \in Revisions
  BY DEF Revisions
<1>2. TypeOK' /\ LegacyGood' /\ Uncommitted' /\ DraftGood' /\ OrphanKept' /\ StepsFollowLearner'
  BY <1>1, StampStep DEF BridgeInv, TypeOK
<1>3. RowsGood'
  BY <1>2 DEF BridgeInv, RowsGood, OneActiveIn, UsedIn
<1>4. LinkedIsTerminal' /\ NothingStranded' /\ Retired' /\ ContractLosesNothing'
  BY <1>1, InstalledNext DEF LinkedIsTerminal, NothingStranded, Retired, ContractLosesNothing
<1>5. QED
  BY <1>2, <1>3, <1>4 DEF BridgeInv

LEMMA InstallBridgeStep ==
  ASSUME BridgeInv, InstallBridge
  PROVE  BridgeInv' /\ \A i \in Ids : attempts[i] \in Verdicts => attempts'[i] = attempts[i]
<1>. USE DEF BridgeInv
<1>1. /\ rev = "0050" /\ rev' = "0052" /\ rev' \in Revisions
      /\ UNCHANGED <<tx, draft, jobs, verdict, progress, completions, checked, clients>>
  BY DEF InstallBridge, Stamp, Revisions
<1>2. \A i \in Ids :
        \/ /\ i \in Jobs /\ jobs[i] = "linked" /\ attempts[i] \in {NoRow, Active}
           /\ attempts'[i] = verdict[i]
        \/ /\ i \in Jobs /\ jobs[i] \in {"running", "dead"} /\ attempts[i] = NoRow
           /\ ~SomeActive /\ attempts'[i] = Active
        \/ /\ attempts'[i] = attempts[i]
           /\ i \in Jobs /\ jobs[i] = "linked" => attempts[i] \notin {NoRow, Active}
  BY DEF InstallBridge
<1>3. \A i \in Jobs : jobs[i] = "linked" => verdict[i] \in Verdicts
  BY DEF LegacyGood, VerdictIsLinked, TypeOK
<1>4. attempts' \in [Ids -> Verdicts \cup {NoRow, Active}]
  <2>1. \A i \in Ids : attempts'[i] \in Verdicts \cup {NoRow, Active}
    BY <1>2, <1>3 DEF TypeOK
  <2>2. DOMAIN attempts' = Ids /\ attempts' = [i \in Ids |-> attempts'[i]]
    BY DEF InstallBridge
  <2>3. QED
    BY <2>1, <2>2
<1>5. attempts'[Orphan] = attempts[Orphan]
  BY <1>2, IdAssumption DEF Ids
<1>6. TypeOK' /\ LegacyGood' /\ Uncommitted' /\ DraftGood' /\ OrphanKept' /\ StepsFollowLearner'
  BY <1>1, <1>4, <1>5, StampStep
<1>7. /\ \A v \in Verdicts : v # Active /\ v # NoRow
      /\ NoRow # Active
  BY DEF Verdicts, Active, NoRow
<1>8. OneActiveIn(attempts)'
  <2>1. \A i \in Ids : attempts'[i] = Active =>
           \/ attempts[i] = Active
           \/ i \in Jobs /\ jobs[i] \in {"running", "dead"} /\ ~SomeActive
    BY <1>2, <1>3, <1>7
  <2>2. QED
    BY <2>1 DEF OneActiveIn, RowsGood, LegacyGood, LegacyIndex, SomeActive
<1>9. UsedIn(attempts)'
  BY <1>1, <1>2 DEF UsedIn, RowsGood, Ids
<1>10. LinkedIsTerminal'
  <2>1. SUFFICES ASSUME NEW j \in Jobs, jobs[j] = "linked"
                 PROVE  attempts'[j] \in Verdicts
    BY <1>1 DEF LinkedIsTerminal
  <2>2. j \in Ids
    BY DEF Ids
  <2>3. QED
    BY <1>2, <1>3, <2>1, <2>2 DEF TypeOK
<1>11. NothingStranded' /\ Retired' /\ ContractLosesNothing'
  BY <1>1, InstalledNext DEF NothingStranded, Retired, ContractLosesNothing
<1>12. \A i \in Ids : attempts[i] \in Verdicts => attempts'[i] = attempts[i]
  BY <1>2, <1>7
<1>13. QED
  BY <1>6, <1>8, <1>9, <1>10, <1>11, <1>12 DEF RowsGood

LEMMA InstallDeleteBridgeStep ==
  ASSUME BridgeInv, InstallDeleteBridge
  PROVE  BridgeInv' /\ attempts' = attempts
<1>. USE DEF InstallDeleteBridge, Stamp
<1>1. rev = "0052" /\ rev' = "0053" /\ rev \in Revisions /\ rev' \in Revisions
  BY DEF Revisions
<1>2. LinkBridge
  BY <1>1, Installed
<1>3. TypeOK' /\ LegacyGood' /\ Uncommitted' /\ DraftGood' /\ OrphanKept' /\ StepsFollowLearner'
  BY <1>1, StampStep DEF BridgeInv, TypeOK
<1>4. RowsGood' /\ LinkedIsTerminal'
  BY <1>2, <1>3 DEF BridgeInv, RowsGood, OneActiveIn, UsedIn, LinkedIsTerminal
<1>5. NothingStranded' /\ Retired' /\ ContractLosesNothing'
  BY <1>1, InstalledNext DEF NothingStranded, Retired, ContractLosesNothing
<1>6. QED
  BY <1>3, <1>4, <1>5 DEF BridgeInv

LEMMA RepairDeletedStep ==
  ASSUME BridgeInv, RepairDeleted
  PROVE  BridgeInv' /\ \A i \in Ids : attempts[i] \in Verdicts => attempts'[i] = attempts[i]
<1>. USE DEF BridgeInv
<1>. DEFINE stranded == {j \in Jobs : attempts[j] = Active /\ jobs[j] = "deleted"}
<1>1. /\ rev = "0053" /\ rev' = "0054" /\ rev \in Revisions /\ rev' \in Revisions
      /\ UNCHANGED <<tx, draft, jobs, verdict, progress, completions, checked, clients>>
      /\ attempts' = [i \in Ids |-> IF i \in stranded THEN "server_error" ELSE attempts[i]]
  BY DEF RepairDeleted, Stamp, Revisions
<1>2. LinkBridge
  BY <1>1, Installed
<1>3. attempts' \in [Ids -> Verdicts \cup {NoRow, Active}]
  BY <1>1 DEF TypeOK, Verdicts
<1>4. attempts'[Orphan] = attempts[Orphan]
  BY <1>1, IdAssumption DEF Ids
<1>5. TypeOK' /\ LegacyGood' /\ Uncommitted' /\ DraftGood' /\ OrphanKept' /\ StepsFollowLearner'
  BY <1>1, <1>3, <1>4, StampStep
<1>6. "server_error" \in Verdicts /\ (\A v \in Verdicts : v # Active) /\ Active # NoRow
  BY DEF Verdicts, Active, NoRow
<1>7. \A i \in Ids : attempts[i] \in Verdicts => attempts'[i] = attempts[i]
  BY <1>1, <1>6
<1>8. OneActiveIn(attempts)' /\ UsedIn(attempts)'
  BY <1>1, <1>6 DEF OneActiveIn, UsedIn, RowsGood, Ids
<1>9. LinkedIsTerminal'
  BY <1>1, <1>2, <1>7 DEF LinkedIsTerminal, Ids
<1>10. NothingStranded'
  <2>1. SUFFICES ASSUME NEW j \in Jobs, attempts'[j] = Active
                 PROVE  jobs[j] \in {"running", "dead"}
    BY <1>1 DEF NothingStranded
  <2>2. attempts[j] = Active /\ jobs[j] # "deleted"
    BY <1>1, <1>6, <2>1 DEF Ids
  <2>3. jobs[j] # "unused" /\ jobs[j] # "linked"
    BY <1>2, <1>6, <2>2 DEF RowsGood, UsedIn, LinkedIsTerminal
  <2>4. QED
    BY <2>2, <2>3 DEF TypeOK
<1>11. Retired' /\ ContractLosesNothing'
  BY <1>1 DEF Retired, ContractLosesNothing
<1>12. QED
  BY <1>5, <1>7, <1>8, <1>9, <1>10, <1>11 DEF RowsGood

(* The drain checks look at the tables when no legacy replica runs.        *)
LEMMA DropLegacyStep ==
  ASSUME BridgeInv, DropLegacy
  PROVE  BridgeInv' /\ attempts' = attempts
<1>. USE DEF DropLegacy, Stamp, Drained
<1>1. rev = "0054" /\ rev' = "0055" /\ rev \in Revisions /\ rev' \in Revisions
  BY DEF Revisions
<1>2. Since("0054") /\ ~LinkBridge'
  BY <1>1, Installed, InstalledNext
<1>3. TypeOK' /\ LegacyGood' /\ Uncommitted' /\ DraftGood' /\ OrphanKept' /\ StepsFollowLearner'
  BY <1>1, StampStep DEF BridgeInv, TypeOK
<1>4. RowsGood' /\ LinkedIsTerminal' /\ NothingStranded' /\ Retired'
  BY <1>2, <1>3 DEF BridgeInv, RowsGood, OneActiveIn, UsedIn, LinkedIsTerminal,
     NothingStranded, Retired
<1>5. ContractLosesNothing'
  BY <1>1 DEF BridgeInv, ContractLosesNothing, LegacyGood, VerdictIsLinked, RowsGood, OrphanKept
<1>6. QED
  BY <1>3, <1>4, <1>5 DEF BridgeInv

-----------------------------------------------------------------------------
(* BridgeInv is inductive, and no step of it rewrites an outcome.          *)
LEMMA BridgeInvStep ==
  BridgeInv /\ [Next]_vars =>
    BridgeInv' /\ \A i \in Ids : attempts[i] \in Verdicts => attempts'[i] = attempts[i]
<1>. SUFFICES ASSUME BridgeInv, [Next]_vars
              PROVE  BridgeInv' /\ \A i \in Ids :
                        attempts[i] \in Verdicts => attempts'[i] = attempts[i]
  OBVIOUS
<1>1. CASE UNCHANGED vars
  BY <1>1 DEF vars, BridgeInv, TypeOK, LegacyGood, LegacyIndex, VerdictIsLinked, Uncommitted,
     DraftGood, RowsGood, OneActiveIn, UsedIn, OrphanKept, NoRows, Retired,
     LinkedIsTerminal, NothingStranded, StepsFollowLearner, ContractLosesNothing, LinkBridge,
     MirrorInstalled, Since
<1>2. ASSUME NEW j \in Jobs, JobDies(j)
      PROVE  BridgeInv' /\ attempts' = attempts
  BY <1>2, JobDiesStep DEF JobDies
<1>3. ASSUME NEW s \in Steps, LegacyToggle(s)
      PROVE  BridgeInv' /\ attempts' = attempts
  BY <1>3, LegacyToggleStep DEF LegacyToggle
<1>4. CASE RetireClients
  BY <1>4, RetireClientsStep DEF RetireClients
<1>5. CASE Migrate
  BY <1>5, ExpandStep, CommitExpandStep, BuildIndexesStep, InstallBridgeStep,
     InstallDeleteBridgeStep, RepairDeletedStep, DropLegacyStep DEF Migrate
<1>6. QED
  BY <1>1, <1>2, <1>3, <1>4, <1>5, InsertJobStep, LinkJobStep, DeleteJobStep, ReplicaStep,
     NewStepStep
     DEF Next

LEMMA BridgeInvHolds == Spec => []BridgeInv
<1>1. BridgeInv /\ [Next]_vars => BridgeInv'
  BY BridgeInvStep
<1>2. QED
  BY <1>1, InitBridgeInv, PTL DEF Spec

(* Every table keeps to its type at every revision.                        *)
THEOREM TypeCorrect == Spec => []TypeOK
<1>1. BridgeInv => TypeOK
  BY DEF BridgeInv
<1>2. QED
  BY <1>1, BridgeInvHolds, PTL

(* One active attempt at most, a terminal attempt for every linked job and *)
(* no attempt left active behind a deleted one.                            *)
THEOREM JobsAlwaysSettle == Spec => []JobsSettle
<1>1. BridgeInv => JobsSettle
  <2>. SUFFICES ASSUME BridgeInv PROVE JobsSettle
    OBVIOUS
  <2>1. \A i, k \in {n \in Ids : attempts[n] = Active} : i = k
    BY DEF BridgeInv, RowsGood, OneActiveIn
  <2>2. OneActive
    BY <2>1, AtMostOne DEF OneActive
  <2>3. QED
    BY <2>2 DEF BridgeInv, JobsSettle
<1>2. QED
  BY <1>1, BridgeInvHolds, PTL

(* When the legacy tables are dropped every verdict is kept.               *)
THEOREM NothingIsLost == Spec => []ContractLosesNothing
<1>1. BridgeInv => ContractLosesNothing
  BY DEF BridgeInv
<1>2. QED
  BY <1>1, BridgeInvHolds, PTL

(* Neither the mirror trigger nor the backfill loses a check or undoes an  *)
(* uncheck, whichever replica made it.                                     *)
THEOREM StepsFollow == Spec => []StepsFollowLearner
<1>1. BridgeInv => StepsFollowLearner
  BY DEF BridgeInv
<1>2. QED
  BY <1>1, BridgeInvHolds, PTL

(* No trigger, backfill, repair or reconciler rewrites an outcome.         *)
THEOREM OutcomesStayFinal == Spec => OutcomesAreFinal
<1>1. BridgeInv /\ [Next]_vars =>
         [\A i \in Ids : attempts[i] \in Verdicts => attempts'[i] = attempts[i]]_vars
  BY BridgeInvStep
<1>2. QED
  BY <1>1, BridgeInvHolds, PTL DEF Spec, OutcomesAreFinal
=============================================================================
