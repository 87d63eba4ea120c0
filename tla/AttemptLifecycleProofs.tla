----------------------- MODULE AttemptLifecycleProofs -----------------------
(***************************************************************************)
(* Theorems about AttemptLifecycle for any number of learners, slots,      *)
(* submit requests, deliveries and infrastructure failures.                *)
(*                                                                         *)
(* The argument goes through the writes of the repository: every step of   *)
(* the system leaves the tables alone or is one of them (TableStep), so    *)
(* what the writes keep, the system keeps.                                 *)
(***************************************************************************)
EXTENDS AttemptLifecycle, TLAPS

(* The writes the code makes to the two tables, with their real arguments.  *)
(* Only a submit request between its active check and its commit inserts.  *)
RowWrite(a) ==
    \/ InsertAndCommit(a)
    \/ MarkStarted(a)
    \/ DeleteActive(a)
    \/ GrowStale(a)
    \/ \E o \in Terminal, s \in Source \ {"none"} : Finalize(a, o, s)

TableStep ==
    \/ UNCHANGED tableVars
    \/ \E a \in Attempt : RowWrite(a)
    \/ \E u \in User : EraseUser(u) \/ RestoreUser(u)

-----------------------------------------------------------------------------
(* The verdict a finalize activity writes is a verification outcome: it is *)
(* dispatched only with a run result in the history.                       *)
VerdictReady == \A a \in Attempt : dispatched[a] = "finalize" => verdict[a] \in Verdict

(* An invocation past its claim serves an attempt. *)
ServingKnown == \A h \in Handler : hpc[h] # "idle" => serving[h] \in Attempt

TypeInv == TypeOK /\ VerdictReady /\ ServingKnown

(* A repository write preserves the column types. *)
LEMMA RowWriteType ==
    ASSUME TableTypeOK, NEW a \in Attempt, RowWrite(a)
    PROVE  TableTypeOK'
<1>1. CASE InsertAndCommit(a)
  BY <1>1 DEF InsertAndCommit, Insert, TableTypeOK, Outcome, tableVars, rowVars
<1>2. CASE MarkStarted(a)
  BY <1>2 DEF MarkStarted, TableTypeOK
<1>3. CASE DeleteActive(a)
  BY <1>3 DEF DeleteActive, TableTypeOK, Outcome, NoRow
<1>4. CASE GrowStale(a)
  BY <1>4 DEF GrowStale, TableTypeOK
<1>5. ASSUME NEW o \in Terminal, NEW s \in Source \ {"none"}, Finalize(a, o, s)
      PROVE  TableTypeOK'
  BY <1>5 DEF Finalize, TableTypeOK, Outcome
<1>6. QED
  BY <1>1, <1>2, <1>3, <1>4, <1>5 DEF RowWrite

LEMMA TableStepType ==
    ASSUME TableTypeOK, TableStep
    PROVE  TableTypeOK'
<1>1. CASE UNCHANGED tableVars
  BY <1>1 DEF tableVars, rowVars, TableTypeOK
<1>2. ASSUME NEW a \in Attempt, RowWrite(a)
      PROVE  TableTypeOK'
  BY <1>2, RowWriteType
<1>3. ASSUME NEW u \in User, EraseUser(u)
      PROVE  TableTypeOK'
  <2>1. outcome' \in [Attempt -> Outcome]
    BY <1>3 DEF EraseUser, TableTypeOK, Outcome, NoRow
  <2>2. stale' \in [Attempt -> BOOLEAN]
    BY <1>3 DEF EraseUser, TableTypeOK
  <2>3. QED
    BY <1>3, <2>1, <2>2 DEF EraseUser, TableTypeOK
<1>4. ASSUME NEW u \in User, RestoreUser(u)
      PROVE  TableTypeOK'
  BY <1>4 DEF RestoreUser, TableTypeOK, rowVars
<1>5. QED
  BY <1>1, <1>2, <1>3, <1>4 DEF TableStep

-----------------------------------------------------------------------------
(* Every step of the system treats the tables as TableStep says. *)
LEMMA NextTable ==
    ASSUME TypeInv, Next
    PROVE  TableStep
<1>. USE DEF TypeInv
<1>1. ASSUME NEW a \in Attempt, SubmitStep(a) \/ ApiCrash(a)
      PROVE  TableStep
  <2>1. CASE InsertAndCommit(a)
    BY <2>1 DEF TableStep, RowWrite
  <2>2. CASE Cleanup(a)
    BY <2>2 DEF Cleanup, TableStep, RowWrite
  <2>3. QED
    BY <1>1, <2>1, <2>2 DEF SubmitStep, CheckPreconditions, AcquireLock,
       CheckSucceeded, CheckActive, CallStart, AwaitReply, ApiCrash, TableStep
<1>2. ASSUME NEW h \in Handler, HandlerStep(h) \/ HandlerCrash(h)
      PROVE  TableStep
  <2>1. ASSUME NEW a \in Attempt, Claim(h, a)
        PROVE  TableStep
    BY <2>1 DEF Claim, TableStep, RowWrite
  <2>2. CASE TerminalizeStart(h)
    <3>1. serving[h] \in Attempt
      BY <2>2 DEF TerminalizeStart, ServingKnown
    <3>2. Finalize(serving[h], "server_error", "start_failure")
      BY <2>2 DEF TerminalizeStart
    <3>3. QED
      BY <3>1, <3>2 DEF TableStep, RowWrite, Terminal, Source
  <2>3. QED
    BY <1>2, <2>1, <2>2 DEF HandlerStep, StartNew, Resolve, HandlerCrash,
       TableStep
<1>3. ASSUME NEW a \in Attempt, InstanceStep(a)
      PROVE  TableStep
  <2>1. ASSUME dispatched[a] = "finalize", Finalize(a, verdict[a], "orchestrator")
        PROVE  TableStep
    <3>1. verdict[a] \in Terminal
      BY <2>1 DEF VerdictReady, Verdict, Terminal
    <3>2. QED
      BY <2>1, <3>1 DEF TableStep, RowWrite, Source
  <2>2. ASSUME Finalize(a, "server_error", "orchestrator_exception")
        PROVE  TableStep
    BY <2>2 DEF TableStep, RowWrite, Terminal, Source
  <2>3. CASE Prepare(a)
    BY <2>3 DEF Prepare, TableStep, RowWrite
  <2>4. CASE RunFinalize(a)
    BY <2>1, <2>4 DEF RunFinalize
  <2>5. CASE RunTerminalize(a)
    BY <2>2, <2>5 DEF RunTerminalize
  <2>6. CASE LoseCompletion(a)
    BY <2>1, <2>2, <2>6 DEF LoseCompletion
  <2>7. QED
    BY <1>3, <2>3, <2>4, <2>5, <2>6 DEF InstanceStep, OrchestratorStep, Verify,
       Grade, ExhaustRetries, Terminate, LateStart, TableStep
<1>4. ASSUME NEW a \in Attempt, Poll(a)
      PROVE  TableStep
  <2>1. PICK o \in {"cancelled", "server_error"} : Finalize(a, o, "poller")
    BY <1>4 DEF Poll
  <2>2. QED
    BY <2>1 DEF TableStep, RowWrite, Terminal, Source
<1>5. ASSUME NEW a \in Attempt, Age(a)
      PROVE  TableStep
  BY <1>5 DEF Age, TableStep, RowWrite
<1>6. CASE ReconcilerStep
  <2>1. CASE Execute
    <3>1. condemned \in Attempt /\ sentence \in Terminal
      BY <2>1 DEF Execute, TypeOK, Terminal
    <3>2. Finalize(condemned, sentence, "reconciler")
      BY <2>1 DEF Execute
    <3>3. QED
      BY <3>1, <3>2 DEF TableStep, RowWrite, Source
  <2>2. QED
    BY <1>6, <2>1 DEF ReconcilerStep, Scan, Inspect, TableStep
<1>7. CASE ReconcilerCrash
  BY <1>7 DEF ReconcilerCrash, TableStep
<1>8. ASSUME NEW u \in User, AccountStep(u)
      PROVE  TableStep
  BY <1>8 DEF AccountStep, TableStep
<1>9. QED
  BY <1>1, <1>2, <1>3, <1>4, <1>5, <1>6, <1>7, <1>8 DEF Next

-----------------------------------------------------------------------------
(* Type correctness                                                        *)

LEMMA InitTypeInv == Init => TypeInv
<1>1. Init => TypeOK
  BY SlotAssumption, FaultAssumption DEF Init, TypeOK, TableInit, TableTypeOK,
     InstanceInit, InstanceTypeOK, Outcome, NoRow, Source, Stage, Activity,
     SubmitPc, HandlerPc
<1>2. Init => VerdictReady
  BY DEF Init, InstanceInit, VerdictReady
<1>3. Init => ServingKnown
  BY DEF Init, ServingKnown
<1>4. QED
  BY <1>1, <1>2, <1>3 DEF TypeInv

(* The variables outside the tables, action group by action group.         *)
SubmitTypeOK ==
    /\ pc \in [Attempt -> SubmitPc]
    /\ shown \in [Attempt -> Attempt \cup {NoAttempt}]
    /\ lock \in [Slot -> Attempt \cup {NoAttempt}]
    /\ sent \in [Attempt -> BOOLEAN]

HandlerTypeOK ==
    /\ reply \in [Attempt -> {"none", "ok", "error"}]
    /\ hpc \in [Handler -> HandlerPc]
    /\ serving \in [Handler -> Attempt \cup {NoAttempt}]
    /\ ServingKnown

ReconcilerTypeOK ==
    /\ backlog \in SUBSET Attempt
    /\ condemned \in Attempt \cup {NoAttempt}
    /\ sentence \in {"server_error", "cancelled"}

LEMMA TypeParts ==
    TypeInv <=> /\ TableTypeOK /\ InstanceTypeOK /\ VerdictReady
                /\ SubmitTypeOK /\ HandlerTypeOK /\ ReconcilerTypeOK
BY DEF TypeInv, TypeOK, SubmitTypeOK, HandlerTypeOK, ReconcilerTypeOK

LEMMA FaultType ==
    ASSUME InstanceTypeOK, Fault
    PROVE  faults' \in 0..MaxFaults
BY FaultAssumption DEF InstanceTypeOK, Fault

LEMMA SubmitTypeStep ==
    ASSUME TypeInv, NEW a \in Attempt, SubmitStep(a) \/ ApiCrash(a)
    PROVE  SubmitTypeOK'
<1>. USE DEF TypeInv, TypeOK, SubmitTypeOK, SubmitPc, InTransaction, SubmitEnd,
             Goto
<1>1. CASE CheckPreconditions(a)
  BY <1>1 DEF CheckPreconditions
<1>2. CASE AcquireLock(a)
  BY <1>2 DEF AcquireLock
<1>3. CASE CheckSucceeded(a)
  BY <1>3 DEF CheckSucceeded, Release
<1>4. CASE CheckActive(a)
  BY <1>4 DEF CheckActive, Release, ActiveIn
<1>5. CASE InsertAndCommit(a)
  BY <1>5 DEF InsertAndCommit, Release
<1>6. CASE CallStart(a)
  BY <1>6 DEF CallStart
<1>7. CASE AwaitReply(a)
  BY <1>7 DEF AwaitReply
<1>8. CASE Cleanup(a)
  BY <1>8 DEF Cleanup
<1>9. CASE ApiCrash(a)
  BY <1>9 DEF ApiCrash, Release
<1>10. QED
  BY <1>1, <1>2, <1>3, <1>4, <1>5, <1>6, <1>7, <1>8, <1>9 DEF SubmitStep

LEMMA HandlerTypeStep ==
    ASSUME TypeInv, NEW h \in Handler, HandlerStep(h) \/ HandlerCrash(h)
    PROVE  HandlerTypeOK'
<1>. USE DEF TypeInv, TypeOK, HandlerTypeOK, ServingKnown, HandlerPc, Answer,
             Respond
<1>1. ASSUME NEW a \in Attempt, Claim(h, a)
      PROVE  HandlerTypeOK'
  BY <1>1 DEF Claim
<1>2. CASE StartNew(h)
  BY <1>2 DEF StartNew
<1>3. CASE Resolve(h)
  BY <1>3 DEF Resolve
<1>4. CASE TerminalizeStart(h)
  BY <1>4 DEF TerminalizeStart
<1>5. CASE HandlerCrash(h)
  BY <1>5 DEF HandlerCrash
<1>6. QED
  BY <1>1, <1>2, <1>3, <1>4, <1>5 DEF HandlerStep

LEMMA CreateInstanceType ==
    ASSUME InstanceTypeOK, VerdictReady, NEW a \in Attempt, CreateInstance(a)
    PROVE  /\ stage' \in [Attempt -> Stage]
           /\ verdict' \in [Attempt -> Verdict \cup {"none"}]
           /\ dispatched' \in [Attempt -> Activity]
           /\ VerdictReady'
BY DEF CreateInstance, Enter, InstanceTypeOK, VerdictReady, Stage,
   RunningStage, Activity

InstanceInv == InstanceTypeOK /\ VerdictReady

LEMMA InstanceTypeStep ==
    ASSUME TypeInv, NEW a \in Attempt, InstanceStep(a)
    PROVE  InstanceInv'
<1>. USE TypeParts DEF InstanceInv
<1>1. CASE Prepare(a)
  BY <1>1 DEF Prepare, Enter, InstanceTypeOK, VerdictReady, Stage,
     RunningStage, Activity
<1>2. CASE Verify(a)
  <2>1. /\ stage' \in [Attempt -> Stage]
        /\ verdict' \in [Attempt -> Verdict \cup {"none"}]
        /\ dispatched' \in [Attempt -> Activity]
    BY <1>2 DEF Verify, Enter, InstanceTypeOK, Stage, RunningStage, Activity
  <2>2. VerdictReady'
    BY <1>2 DEF Verify, Enter, InstanceTypeOK, VerdictReady, Stage,
       RunningStage, Activity
  <2>3. QED
    BY <1>2, <2>1, <2>2 DEF Verify, InstanceTypeOK
<1>3. CASE Grade(a)
  <2>1. /\ stage' \in [Attempt -> Stage]
        /\ verdict' \in [Attempt -> Verdict \cup {"none"}]
        /\ dispatched' \in [Attempt -> Activity]
    BY <1>3 DEF Grade, Enter, InstanceTypeOK, Stage, RunningStage, Activity
  <2>2. VerdictReady'
    BY <1>3 DEF Grade, Enter, InstanceTypeOK, VerdictReady, Stage,
       RunningStage, Activity
  <2>3. QED
    BY <1>3, <2>1, <2>2 DEF Grade, InstanceTypeOK
<1>4. CASE RunFinalize(a)
  BY <1>4 DEF RunFinalize, Recorded, Enter, InstanceTypeOK, VerdictReady,
     Stage, RunningStage, EndedStage, Activity
<1>5. CASE RunTerminalize(a)
  BY <1>5 DEF RunTerminalize, Recorded, Enter, InstanceTypeOK, VerdictReady,
     Stage, RunningStage, EndedStage, Activity
<1>6. CASE LoseCompletion(a)
  BY <1>6, FaultType DEF LoseCompletion, instanceVars, InstanceTypeOK,
     VerdictReady
<1>7. CASE ExhaustRetries(a)
  BY <1>7, FaultType DEF ExhaustRetries, Enter, InstanceTypeOK, VerdictReady,
     Stage, RunningStage, EndedStage, Activity
<1>8. CASE Terminate(a)
  BY <1>8 DEF Terminate, InstanceTypeOK, VerdictReady, Stage, EndedStage
<1>9. CASE LateStart(a)
  BY <1>9, CreateInstanceType DEF LateStart, InstanceTypeOK
<1>10. QED
  BY <1>1, <1>2, <1>3, <1>4, <1>5, <1>6, <1>7, <1>8, <1>9
  DEF InstanceStep, OrchestratorStep

(* A step that leaves the instances alone may still inject a fault. *)
LEMMA InstanceUnchanged ==
    ASSUME InstanceInv, UNCHANGED instanceVars, UNCHANGED faults \/ Fault
    PROVE  InstanceInv'
BY FaultType DEF InstanceInv, InstanceTypeOK, VerdictReady, instanceVars

(* The start endpoint creates instances too. *)
LEMMA StartNewType ==
    ASSUME TypeInv, NEW h \in Handler, StartNew(h)
    PROVE  InstanceInv'
<1>. DEFINE a == serving[h]
<1>1. a \in Attempt
  BY TypeParts DEF StartNew, HandlerTypeOK, ServingKnown
<1>2. InstanceInv
  BY TypeParts DEF InstanceInv
<1>3. late' \in [Attempt -> BOOLEAN]
  BY <1>1, <1>2 DEF InstanceInv, InstanceTypeOK, StartNew, instanceVars
<1>4. UNCHANGED faults \/ Fault
  BY DEF StartNew
<1>5. faults' \in 0..MaxFaults
  BY <1>2, <1>4, FaultType DEF InstanceInv, InstanceTypeOK
<1>6. CASE CreateInstance(a)
  <2>1. /\ stage' \in [Attempt -> Stage]
        /\ verdict' \in [Attempt -> Verdict \cup {"none"}]
        /\ dispatched' \in [Attempt -> Activity]
        /\ VerdictReady'
    BY <1>1, <1>2, <1>6, CreateInstanceType DEF InstanceInv
  <2>2. QED
    BY <1>3, <1>5, <2>1 DEF InstanceInv, InstanceTypeOK
<1>7. CASE ~CreateInstance(a)
  <2>1. UNCHANGED <<stage, verdict, dispatched>>
    BY <1>7 DEF StartNew, instanceVars
  <2>2. QED
    BY <1>2, <1>3, <1>5, <2>1 DEF InstanceInv, InstanceTypeOK, VerdictReady
<1>8. QED
  BY <1>6, <1>7

(* What a step that belongs to none of them leaves unchanged keeps its type. *)
LEMMA SubmitUnchanged ==
    ASSUME SubmitTypeOK, UNCHANGED submitVars PROVE SubmitTypeOK'
BY DEF SubmitTypeOK, submitVars

LEMMA HandlerUnchanged ==
    ASSUME HandlerTypeOK, UNCHANGED handlerVars PROVE HandlerTypeOK'
BY DEF HandlerTypeOK, ServingKnown, handlerVars

LEMMA ReconcilerUnchanged ==
    ASSUME ReconcilerTypeOK, UNCHANGED reconcilerVars PROVE ReconcilerTypeOK'
BY DEF ReconcilerTypeOK, reconcilerVars

LEMMA ReconcilerTypeStep ==
    ASSUME ReconcilerTypeOK, ReconcilerStep \/ ReconcilerCrash
    PROVE  ReconcilerTypeOK'
<1>1. CASE Scan
  BY <1>1 DEF Scan, ReconcilerTypeOK
<1>2. ASSUME NEW a \in Attempt, Inspect(a)
      PROVE  ReconcilerTypeOK'
  BY <1>2 DEF Inspect, ReconcilerTypeOK, Decision
<1>3. CASE Execute
  BY <1>3 DEF Execute, ReconcilerTypeOK
<1>4. CASE ReconcilerCrash
  BY <1>4 DEF ReconcilerCrash, ReconcilerTypeOK
<1>5. QED
  BY <1>1, <1>2, <1>3, <1>4 DEF ReconcilerStep

OtherTypesOK ==
    InstanceInv /\ SubmitTypeOK /\ HandlerTypeOK /\ ReconcilerTypeOK

(* TypeInv is inductive. *)
LEMMA NextTypeInv == TypeInv /\ [Next]_vars => TypeInv'
<1>. SUFFICES ASSUME TypeInv, [Next]_vars PROVE TypeInv'
  OBVIOUS
<1>1. InstanceInv /\ SubmitTypeOK /\ HandlerTypeOK /\ ReconcilerTypeOK
  BY TypeParts DEF InstanceInv
<1>2. CASE UNCHANGED vars
  BY <1>2 DEF vars, tableVars, rowVars, instanceVars, submitVars, handlerVars,
     reconcilerVars, TypeInv, TypeOK, TableTypeOK, InstanceTypeOK,
     VerdictReady, ServingKnown
<1>3. CASE Next
  <2>1. TableTypeOK'
    BY <1>3, NextTable, TableStepType, TypeParts
  <2>2. ASSUME NEW a \in Attempt, SubmitStep(a) \/ ApiCrash(a)
        PROVE  OtherTypesOK'
    <3>1. SubmitTypeOK'
      BY <2>2, SubmitTypeStep
    <3>2. /\ UNCHANGED instanceVars
          /\ UNCHANGED faults \/ Fault
          /\ UNCHANGED reconcilerVars
      BY <2>2 DEF SubmitStep, CheckPreconditions, AcquireLock, CheckSucceeded,
         CheckActive, InsertAndCommit, CallStart, AwaitReply, Cleanup, ApiCrash
    <3>3. HandlerTypeOK'
      BY <1>1, <2>2 DEF SubmitStep, CheckPreconditions, AcquireLock,
         CheckSucceeded, CheckActive, InsertAndCommit, CallStart, AwaitReply,
         Cleanup, ApiCrash, HandlerTypeOK, ServingKnown, handlerVars
    <3>4. QED
      BY <1>1, <3>1, <3>2, <3>3, InstanceUnchanged, ReconcilerUnchanged
      DEF OtherTypesOK
  <2>3. ASSUME NEW h \in Handler, HandlerStep(h) \/ HandlerCrash(h)
        PROVE  OtherTypesOK'
    <3>1. HandlerTypeOK'
      BY <2>3, HandlerTypeStep
    <3>2. UNCHANGED submitVars /\ UNCHANGED reconcilerVars
      BY <2>3 DEF HandlerStep, Claim, StartNew, Resolve, TerminalizeStart,
         HandlerCrash
    <3>3. StartNew(h) \/ (UNCHANGED instanceVars /\ (UNCHANGED faults \/ Fault))
      BY <2>3 DEF HandlerStep, Claim, Resolve, TerminalizeStart, HandlerCrash
    <3>4. InstanceInv'
      BY <1>1, <3>3, StartNewType, InstanceUnchanged
    <3>5. QED
      BY <1>1, <3>1, <3>2, <3>4, SubmitUnchanged, ReconcilerUnchanged
      DEF OtherTypesOK
  <2>4. ASSUME NEW a \in Attempt, InstanceStep(a)
        PROVE  OtherTypesOK'
    <3>1. UNCHANGED <<submitVars, handlerVars, reconcilerVars>>
      BY <2>4 DEF InstanceStep
    <3>2. QED
      BY <1>1, <2>4, <3>1, InstanceTypeStep, SubmitUnchanged,
         HandlerUnchanged, ReconcilerUnchanged DEF OtherTypesOK
  <2>5. ASSUME \/ \E a \in Attempt : Poll(a) \/ Age(a)
               \/ \E u \in User : AccountStep(u)
        PROVE  OtherTypesOK'
    <3>1. UNCHANGED <<instanceVars, faults, submitVars, handlerVars,
                      reconcilerVars>>
      BY <2>5 DEF Poll, Age, AccountStep
    <3>2. QED
      BY <1>1, <3>1, InstanceUnchanged, SubmitUnchanged, HandlerUnchanged,
         ReconcilerUnchanged DEF OtherTypesOK
  <2>6. ASSUME ReconcilerStep \/ ReconcilerCrash
        PROVE  OtherTypesOK'
    <3>1. /\ UNCHANGED <<instanceVars, submitVars, handlerVars>>
          /\ UNCHANGED faults \/ Fault
      BY <2>6 DEF ReconcilerStep, ReconcilerCrash, Scan, Inspect, Execute
    <3>2. QED
      BY <1>1, <2>6, <3>1, InstanceUnchanged, SubmitUnchanged,
         HandlerUnchanged, ReconcilerTypeStep DEF OtherTypesOK
  <2>7. OtherTypesOK'
    BY <1>3, <2>2, <2>3, <2>4, <2>5, <2>6 DEF Next
  <2>8. QED
    BY <2>1, <2>7 DEF TypeInv, TypeOK, OtherTypesOK, InstanceInv, SubmitTypeOK,
       HandlerTypeOK, ReconcilerTypeOK
<1>4. QED
  BY <1>2, <1>3

(* Every reachable state has the types the tables and messages declare, and *)
(* a finalize activity always has a verdict to write.                       *)
THEOREM TypeCorrect == Spec => []TypeOK
<1>1. TypeInv => TypeOK
  BY DEF TypeInv
<1>2. QED
  BY <1>1, InitTypeInv, NextTypeInv, PTL DEF Spec

-----------------------------------------------------------------------------
(* The advisory lock and the rows it protects                              *)

(* A request that has not committed its insert has no row. *)
NotInserted == {"idle", "wantLock"} \cup InTransaction
FreshRow == \A a \in Attempt : pc[a] \in NotInserted => outcome[a] = "absent"

LockInv == LockDiscipline /\ InsertNeverConflicts /\ FreshRow

(* What a write may do to a row: a row appears by its own request's commit, *)
(* leaves the active state for good, and keeps a terminal outcome and its   *)
(* writer until the account goes.                                           *)
LEMMA RowStep ==
    ASSUME TypeInv, FreshRow, TableStep, NEW a \in Attempt
    PROVE  /\ outcome[a] = "absent" /\ outcome'[a] # "absent" =>
                outcome'[a] = "active" /\ InsertAndCommit(a) /\ Insert(a)
           /\ outcome[a] = "active" =>
                outcome'[a] \in {"active", "discarded", "erased"} \cup Terminal
           /\ outcome[a] \in Terminal =>
                \/ outcome'[a] = outcome[a] /\ terminalSource'[a] = terminalSource[a]
                \/ outcome'[a] = "erased" /\ ~account'[Owner(a)]
           /\ outcome[a] \in {"discarded", "erased"} => outcome'[a] = outcome[a]
<1>1. TableTypeOK
  BY TypeParts
<1>2. Owner(a) \in User
  BY SlotAssumption DEF Owner
<1>3. outcome[a] \in Outcome
  BY <1>1 DEF TableTypeOK
<1>4. CASE UNCHANGED tableVars
  BY <1>3, <1>4 DEF tableVars, rowVars, Terminal
<1>5. ASSUME NEW b \in Attempt, InsertAndCommit(b)
      PROVE  /\ UNCHANGED tableVars \/ Insert(b)
             /\ outcome[b] = "absent"
  BY <1>5 DEF InsertAndCommit, FreshRow, NotInserted, InTransaction
<1>6. ASSUME NEW b \in Attempt, MarkStarted(b) \/ GrowStale(b)
      PROVE  outcome' = outcome /\ terminalSource' = terminalSource
  BY <1>6 DEF MarkStarted, GrowStale
<1>7. ASSUME NEW b \in Attempt, DeleteActive(b)
      PROVE  /\ terminalSource' = terminalSource
             /\ outcome'[a] = outcome[a] \/ (Active(a) /\ outcome'[a] = "discarded")
  BY <1>1, <1>7 DEF DeleteActive, Unclaimed, Active, TableTypeOK
<1>8. ASSUME NEW b \in Attempt, NEW o \in Terminal,
             NEW s \in Source \ {"none"}, Finalize(b, o, s)
      PROVE  \/ outcome'[a] = outcome[a] /\ terminalSource'[a] = terminalSource[a]
             \/ Active(a) /\ outcome'[a] \in Terminal
  BY <1>1, <1>8 DEF Finalize, Active, TableTypeOK
<1>9. ASSUME NEW u \in User, EraseUser(u)
      PROVE  \/ outcome'[a] = outcome[a] /\ terminalSource'[a] = terminalSource[a]
             \/ ~Gone(a) /\ outcome'[a] = "erased" /\ ~account'[Owner(a)]
  BY <1>1, <1>2, <1>9 DEF EraseUser, TableTypeOK
<1>10. ASSUME NEW u \in User, RestoreUser(u)
       PROVE  outcome' = outcome /\ terminalSource' = terminalSource
  BY <1>10 DEF RestoreUser, rowVars
<1>11. ASSUME NEW b \in Attempt, InsertAndCommit(b), Insert(b)
       PROVE  /\ terminalSource' = terminalSource
              /\ outcome'[a] = IF a = b THEN "active" ELSE outcome[a]
  BY <1>1, <1>11 DEF Insert, TableTypeOK
<1>. USE DEF Terminal, Active, Gone, NoRow, Outcome
<1>12. CASE \E b \in Attempt : InsertAndCommit(b)
  BY <1>3, <1>4, <1>5, <1>11, <1>12
<1>13. QED
  BY <1>3, <1>4, <1>6, <1>7, <1>8, <1>9, <1>10, <1>12 DEF TableStep, RowWrite

(* Only the request's own steps move it or take and free its lock. *)
LEMMA OthersKeepLocks ==
    ASSUME TypeInv, Next, ~\E a \in Attempt : SubmitStep(a) \/ ApiCrash(a)
    PROVE  UNCHANGED submitVars
BY DEF Next, HandlerStep, HandlerCrash, Claim, StartNew, Resolve,
   TerminalizeStart, InstanceStep, Poll, Age, ReconcilerStep, Scan, Inspect,
   Execute, ReconcilerCrash, AccountStep

LEMMA LockDisciplineStep ==
    ASSUME TypeInv, LockDiscipline, Next
    PROVE  LockDiscipline'
<1>. USE TypeParts DEF SubmitTypeOK, LockDiscipline, InTransaction, SubmitEnd
<1>1. ASSUME NEW b \in Attempt, SubmitStep(b) \/ ApiCrash(b), NEW a \in Attempt
      PROVE  (lock[SlotOf[a]] = a <=> pc[a] \in InTransaction)'
  <2>. USE SlotAssumption, NoAttemptAssumption DEF Goto, Release
  <2>1. CASE CheckPreconditions(b)
    BY <2>1 DEF CheckPreconditions
  <2>2. CASE AcquireLock(b)
    BY <2>2 DEF AcquireLock
  <2>3. CASE CheckSucceeded(b)
    BY <2>3 DEF CheckSucceeded
  <2>4. CASE CheckActive(b)
    BY <2>4 DEF CheckActive
  <2>5. CASE InsertAndCommit(b)
    BY <2>5 DEF InsertAndCommit
  <2>6. CASE CallStart(b)
    BY <2>6 DEF CallStart
  <2>7. CASE AwaitReply(b)
    BY <2>7 DEF AwaitReply
  <2>8. CASE Cleanup(b)
    BY <2>8 DEF Cleanup
  <2>9. CASE ApiCrash(b)
    BY <2>9 DEF ApiCrash
  <2>10. QED
    BY <1>1, <2>1, <2>2, <2>3, <2>4, <2>5, <2>6, <2>7, <2>8, <2>9 DEF SubmitStep
<1>2. CASE \E b \in Attempt : SubmitStep(b) \/ ApiCrash(b)
  BY <1>1, <1>2
<1>3. CASE ~\E b \in Attempt : SubmitStep(b) \/ ApiCrash(b)
  BY <1>3, OthersKeepLocks DEF submitVars
<1>4. QED
  BY <1>2, <1>3

(* How a request's counter can come to stand where it stands. *)
LEMMA EnterInsert ==
    ASSUME TypeInv, Next, NEW a \in Attempt, pc'[a] = "insert"
    PROVE  \/ pc[a] = "insert"
           \/ ActiveIn(SlotOf[a]) = {} /\ UNCHANGED tableVars
<1>. USE TypeParts DEF SubmitTypeOK, Goto
<1>1. ASSUME NEW b \in Attempt, SubmitStep(b) \/ ApiCrash(b)
      PROVE  \/ pc[a] = "insert"
             \/ ActiveIn(SlotOf[a]) = {} /\ UNCHANGED tableVars
  BY <1>1 DEF SubmitStep, CheckPreconditions, AcquireLock, CheckSucceeded,
     CheckActive, InsertAndCommit, CallStart, AwaitReply, Cleanup, ApiCrash
<1>2. CASE ~\E b \in Attempt : SubmitStep(b) \/ ApiCrash(b)
  BY <1>2, OthersKeepLocks DEF submitVars
<1>3. QED
  BY <1>1, <1>2

LEMMA KeepNotInserted ==
    ASSUME TypeInv, Next, NEW a \in Attempt, pc'[a] \in NotInserted
    PROVE  pc[a] \in NotInserted /\ ~InsertAndCommit(a)
<1>. USE TypeParts DEF SubmitTypeOK, Goto, NotInserted, InTransaction, SubmitEnd
<1>1. ASSUME NEW b \in Attempt, SubmitStep(b) \/ ApiCrash(b)
      PROVE  pc[a] \in NotInserted
  BY <1>1 DEF SubmitStep, CheckPreconditions, AcquireLock, CheckSucceeded,
     CheckActive, InsertAndCommit, CallStart, AwaitReply, Cleanup, ApiCrash
<1>2. ~InsertAndCommit(a)
  BY DEF InsertAndCommit
<1>3. CASE ~\E b \in Attempt : SubmitStep(b) \/ ApiCrash(b)
  BY <1>2, <1>3, OthersKeepLocks DEF submitVars
<1>4. QED
  BY <1>1, <1>2, <1>3

LEMMA InitLockInv == Init => LockInv
BY SlotAssumption, NoAttemptAssumption
DEF Init, TableInit, LockInv, LockDiscipline, InsertNeverConflicts, FreshRow,
    InTransaction

(* The lock is what keeps InsertNeverConflicts: the request that commits an *)
(* insert holds its slot's lock, so no other request of the slot can be     *)
(* past its own active check.                                               *)
LEMMA LockInvStep == TypeInv /\ LockInv /\ [Next]_vars => LockInv'
<1>. SUFFICES ASSUME TypeInv, LockInv, [Next]_vars PROVE LockInv'
  OBVIOUS
<1>1. CASE UNCHANGED vars
  BY <1>1 DEF vars, tableVars, rowVars, submitVars, LockInv, LockDiscipline,
     InsertNeverConflicts, FreshRow, ActiveIn, Active
<1>2. CASE Next
  <2>1. TableStep /\ FreshRow
    BY <1>2, NextTable DEF LockInv
  <2>2. LockDiscipline'
    BY <1>2, LockDisciplineStep DEF LockInv
  <2>3. FreshRow'
    <3>1. SUFFICES ASSUME NEW a \in Attempt, pc'[a] \in NotInserted
                   PROVE  outcome'[a] = "absent"
      BY DEF FreshRow
    <3>2. outcome[a] = "absent" /\ ~InsertAndCommit(a)
      BY <1>2, <3>1, KeepNotInserted, <2>1 DEF FreshRow
    <3>3. QED
      BY <2>1, <3>2, RowStep
  <2>4. InsertNeverConflicts'
    <3>1. SUFFICES ASSUME NEW a \in Attempt, pc'[a] = "insert",
                          NEW b \in Attempt, SlotOf[b] = SlotOf[a],
                          outcome'[b] = "active"
                   PROVE  FALSE
      BY DEF InsertNeverConflicts, ActiveIn, Active
    <3>2. CASE ActiveIn(SlotOf[a]) = {} /\ UNCHANGED tableVars
      BY <3>1, <3>2 DEF ActiveIn, Active, tableVars, rowVars
    <3>3. CASE pc[a] = "insert"
      <4>1. outcome[b] # "active"
        BY <3>1, <3>3 DEF LockInv, InsertNeverConflicts, ActiveIn, Active
      <4>2. InsertAndCommit(b)
        <5>1. outcome[b] \in Outcome
          BY TypeParts DEF TableTypeOK
        <5>2. QED
          BY <2>1, <3>1, <4>1, <5>1, RowStep DEF Outcome, NoRow, Terminal
      <4>3. a # b
        BY <3>1, <4>2, TypeParts DEF InsertAndCommit, Goto, SubmitTypeOK
      <4>4. lock[SlotOf[a]] = a /\ lock[SlotOf[b]] = b
        BY <3>3, <4>2 DEF InsertAndCommit, LockInv, LockDiscipline, InTransaction
      <4>5. QED
        BY <3>1, <4>3, <4>4
    <3>4. QED
      BY <1>2, <3>1, <3>2, <3>3, EnterInsert
  <2>5. QED
    BY <2>2, <2>3, <2>4 DEF LockInv
<1>3. QED
  BY <1>1, <1>2

(* At every moment a slot's lock is held by exactly the request that is    *)
(* between its lock and its commit.                                        *)
THEOREM LockIsDisciplined == Spec => []LockDiscipline
<1>1. TypeInv /\ LockInv => LockDiscipline
  BY DEF LockInv
<1>2. QED
  BY <1>1, InitTypeInv, NextTypeInv, InitLockInv, LockInvStep, PTL DEF Spec

(* The partial unique index never has to reject an insert.                 *)
THEOREM InsertsNeverConflict == Spec => []InsertNeverConflicts
<1>1. TypeInv /\ LockInv => InsertNeverConflicts
  BY DEF LockInv
<1>2. QED
  BY <1>1, InitTypeInv, NextTypeInv, InitLockInv, LockInvStep, PTL DEF Spec

-----------------------------------------------------------------------------
(* Terminal rows and the abstract contract                                 *)

(* A terminal row keeps its outcome and its writer until its account goes. *)
THEOREM TerminalNeverChanges == Spec => TerminalIsFinal
<1>. DEFINE Final ==
       \A a \in Attempt : outcome[a] \in Terminal =>
         \/ outcome'[a] = outcome[a] /\ terminalSource'[a] = terminalSource[a]
         \/ outcome'[a] = "erased" /\ ~account'[Owner(a)]
<1>1. ASSUME TypeInv, LockInv, Next
      PROVE  Final
  BY <1>1, NextTable, RowStep DEF LockInv
<1>2. TypeInv /\ LockInv /\ [Next]_vars => [Final]_vars
  BY <1>1
<1>3. QED
  BY <1>2, InitTypeInv, NextTypeInv, InitLockInv, LockInvStep, PTL
  DEF Spec, TerminalIsFinal

(* A step that leaves every outcome alone is invisible to the contract. *)
LEMMA ContractStutter ==
    ASSUME outcome' = outcome
    PROVE  UNCHANGED ContractState
BY DEF ContractState

LEMMA ContractStep ==
    ASSUME TypeInv, FreshRow, TableStep
    PROVE  Contract!Next \/ UNCHANGED ContractState
<1>1. outcome \in [Attempt -> Outcome]
  BY TypeParts DEF TableTypeOK
<1>2. CASE UNCHANGED tableVars
  BY <1>2, ContractStutter DEF tableVars, rowVars
<1>3. ASSUME NEW a \in Attempt, InsertAndCommit(a)
      PROVE  Contract!Next \/ UNCHANGED ContractState
  <2>1. outcome[a] = "absent"
    BY <1>3 DEF InsertAndCommit, FreshRow, NotInserted, InTransaction
  <2>2. CASE Insert(a)
    <3>1. ContractState[a] = "none"
      BY <2>1 DEF ContractState
    <3>2. \A b \in Attempt : SlotOf[b] = SlotOf[a] => ContractState[b] # "open"
      BY <2>2 DEF Insert, InsertAllowed, ActiveIn, Active, ContractState, Terminal
    <3>3. ContractState' = [ContractState EXCEPT ![a] = "open"]
      BY <1>1, <2>2 DEF Insert, ContractState
    <3>4. QED
      BY <3>1, <3>2, <3>3 DEF Contract!Next, Contract!Open
  <2>3. CASE UNCHANGED tableVars
    BY <2>3, ContractStutter DEF tableVars, rowVars
  <2>4. QED
    BY <1>3, <2>2, <2>3 DEF InsertAndCommit
<1>4. ASSUME NEW a \in Attempt, MarkStarted(a) \/ GrowStale(a)
      PROVE  UNCHANGED ContractState
  BY <1>4, ContractStutter DEF MarkStarted, GrowStale
<1>5. ASSUME NEW a \in Attempt, DeleteActive(a)
      PROVE  Contract!Next \/ UNCHANGED ContractState
  <2>1. CASE Unclaimed(a)
    <3>1. ContractState[a] = "open"
      BY <2>1 DEF Unclaimed, Active, ContractState
    <3>2. ContractState' = [ContractState EXCEPT ![a] = "gone"]
      BY <1>1, <1>5, <2>1 DEF DeleteActive, ContractState, Terminal
    <3>3. QED
      BY <3>1, <3>2 DEF Contract!Next, Contract!Withdraw
  <2>2. CASE ~Unclaimed(a)
    BY <1>5, <2>2, ContractStutter DEF DeleteActive
  <2>3. QED
    BY <2>1, <2>2
<1>6. ASSUME NEW a \in Attempt, NEW o \in Terminal,
             NEW s \in Source \ {"none"}, Finalize(a, o, s)
      PROVE  Contract!Next \/ UNCHANGED ContractState
  <2>1. CASE Active(a)
    <3>1. ContractState[a] = "open"
      BY <2>1 DEF Active, ContractState
    <3>2. ContractState' = [ContractState EXCEPT ![a] = o]
      BY <1>1, <1>6, <2>1 DEF Finalize, ContractState, Terminal
    <3>3. QED
      BY <3>1, <3>2 DEF Contract!Next, Contract!Settle, Contract!Settled, Terminal
  <2>2. CASE ~Active(a)
    BY <1>6, <2>2, ContractStutter DEF Finalize
  <2>3. QED
    BY <2>1, <2>2
<1>7. ASSUME NEW u \in User, EraseUser(u)
      PROVE  Contract!Next
  <2>1. ContractState' = [a \in Attempt |->
            IF OwnerOf[SlotOf[a]] = u /\ ContractState[a] # "none"
              THEN "gone" ELSE ContractState[a]]
    BY <1>1, <1>7 DEF EraseUser, Owner, ContractState, Gone, NoRow, Terminal,
       Outcome
  <2>2. QED
    BY <1>7, <2>1 DEF Contract!Next, Contract!Erase
<1>8. ASSUME NEW u \in User, RestoreUser(u)
      PROVE  UNCHANGED ContractState
  BY <1>8, ContractStutter DEF RestoreUser, rowVars
<1>9. QED
  BY <1>2, <1>3, <1>4, <1>5, <1>6, <1>7, <1>8 DEF TableStep, RowWrite

(* The whole system implements the table's contract: at most one open      *)
(* attempt per slot, one settlement per attempt, nothing else disappears.  *)
THEOREM LifecycleImplementsContract == Spec => ImplementsContract
<1>1. Init => Contract!Init
  BY DEF Init, TableInit, ContractState, Contract!Init
<1>2. ASSUME TypeInv, LockInv, [Next]_vars
      PROVE  [Contract!Next]_ContractState
  <2>1. CASE Next
    BY <1>2, <2>1, NextTable, ContractStep DEF LockInv
  <2>2. CASE UNCHANGED vars
    BY <2>2, ContractStutter DEF vars, tableVars, rowVars
  <2>3. QED
    BY <1>2, <2>1, <2>2
<1>3. TypeInv /\ LockInv /\ [Next]_vars => [Contract!Next]_ContractState
  BY <1>2
<1>4. QED
  BY <1>1, <1>3, InitTypeInv, NextTypeInv, InitLockInv, LockInvStep, PTL
  DEF Spec, ImplementsContract, Contract!Spec

-----------------------------------------------------------------------------
(* Starting an attempt's orchestration: the database claim of the start    *)
(* endpoint lets one delivery through, and the row of an instance survives *)
(* everything but the deletion of its account.                             *)

(* The stretch of an invocation that holds the claim of its attempt. *)
Claiming == {"startNew", "resolveStart", "terminalize"}

(* started_at is the claim: it is set once and keeps the row from          *)
(* delete_active.                                                          *)
StartedKeepsRow ==
    \A a \in Attempt : startedAt[a] => outcome[a] \notin {"absent", "discarded"}

InstanceWasClaimed ==
    \A a \in Attempt : stage[a] # "none" \/ late[a] => startedAt[a]

ClaimHeldOnce ==
    \A h \in Handler : hpc[h] \in Claiming =>
        /\ startedAt[serving[h]]
        /\ \A g \in Handler \ {h} :
              hpc[g] \in Claiming => serving[g] # serving[h]

StartStillPending ==
    \A h \in Handler : hpc[h] = "startNew" =>
        stage[serving[h]] = "none" /\ ~late[serving[h]]

(* An activity is dispatched by an instance. *)
DispatchedByInstance ==
    \A a \in Attempt : dispatched[a] # "none" => stage[a] # "none"

StartInv == /\ StartedKeepsRow
            /\ InstanceWasClaimed
            /\ DispatchedByInstance
            /\ ClaimHeldOnce
            /\ StartStillPending

-----------------------------------------------------------------------------
LEMMA InitStartInv == Init => StartInv
BY DEF Init, TableInit, InstanceInit, StartInv, StartedKeepsRow,
   InstanceWasClaimed, DispatchedByInstance, ClaimHeldOnce,
   StartStillPending, Claiming

(* No write takes a claim back or removes a claimed row that is not erased. *)
LEMMA StartedRowStep ==
    ASSUME TypeInv, FreshRow, StartedKeepsRow, TableStep, NEW a \in Attempt
    PROVE  /\ startedAt[a] => startedAt'[a]
           /\ startedAt'[a] => outcome'[a] \notin {"absent", "discarded"}
<1>1. TableTypeOK
  BY TypeParts
<1>. USE DEF StartedKeepsRow, Active, TableTypeOK
<1>2. CASE UNCHANGED tableVars
  BY <1>2 DEF tableVars, rowVars
<1>3. ASSUME NEW b \in Attempt, InsertAndCommit(b)
      PROVE  /\ startedAt[a] => startedAt'[a]
             /\ startedAt'[a] => outcome'[a] \notin {"absent", "discarded"}
  <2>1. UNCHANGED tableVars \/ Insert(b)
    BY <1>3 DEF InsertAndCommit
  <2>2. QED
    BY <1>1, <1>2, <2>1 DEF Insert
<1>4. ASSUME NEW b \in Attempt, MarkStarted(b)
      PROVE  /\ startedAt[a] => startedAt'[a]
             /\ startedAt'[a] => outcome'[a] \notin {"absent", "discarded"}
  BY <1>1, <1>4 DEF MarkStarted, Unclaimed
<1>5. ASSUME NEW b \in Attempt, DeleteActive(b)
      PROVE  /\ startedAt[a] => startedAt'[a]
             /\ startedAt'[a] => outcome'[a] \notin {"absent", "discarded"}
  BY <1>1, <1>5 DEF DeleteActive, Unclaimed
<1>6. ASSUME NEW b \in Attempt, GrowStale(b)
      PROVE  /\ startedAt[a] => startedAt'[a]
             /\ startedAt'[a] => outcome'[a] \notin {"absent", "discarded"}
  BY <1>6 DEF GrowStale
<1>7. ASSUME NEW b \in Attempt, NEW o \in Terminal,
             NEW s \in Source \ {"none"}, Finalize(b, o, s)
      PROVE  /\ startedAt[a] => startedAt'[a]
             /\ startedAt'[a] => outcome'[a] \notin {"absent", "discarded"}
  BY <1>1, <1>7 DEF Finalize, Terminal
<1>8. ASSUME NEW u \in User, EraseUser(u)
      PROVE  /\ startedAt[a] => startedAt'[a]
             /\ startedAt'[a] => outcome'[a] \notin {"absent", "discarded"}
  BY <1>1, <1>8 DEF EraseUser
<1>9. ASSUME NEW u \in User, RestoreUser(u)
      PROVE  /\ startedAt[a] => startedAt'[a]
             /\ startedAt'[a] => outcome'[a] \notin {"absent", "discarded"}
  BY <1>9 DEF RestoreUser, rowVars
<1>10. QED
  BY <1>2, <1>3, <1>4, <1>5, <1>6, <1>7, <1>8, <1>9 DEF TableStep, RowWrite

(* Only a claiming invocation's start_new brings an instance about. *)
LEMMA InstanceOrigin ==
    ASSUME TypeInv, DispatchedByInstance, Next, NEW a \in Attempt,
           stage[a] = "none", ~late[a], stage'[a] # "none" \/ late'[a]
    PROVE  \E h \in Handler : StartNew(h) /\ serving[h] = a
<1>. USE TypeParts DEF InstanceTypeOK, DispatchedByInstance
<1>1. CASE UNCHANGED instanceVars
  BY <1>1 DEF instanceVars
<1>2. ASSUME NEW b \in Attempt, InstanceStep(b)
      PROVE  FALSE
  BY <1>2 DEF InstanceStep, OrchestratorStep, Prepare, Verify, Grade,
     RunFinalize, RunTerminalize, LoseCompletion, ExhaustRetries, Terminate,
     LateStart, CreateInstance, Recorded, Enter, instanceVars, RunningStage,
     HandlerTypeOK
<1>3. ASSUME NEW h \in Handler, StartNew(h), serving[h] # a
      PROVE  FALSE
  BY <1>3 DEF StartNew, CreateInstance, Enter, instanceVars, HandlerTypeOK
<1>4. UNCHANGED instanceVars \/ (\E b \in Attempt : InstanceStep(b))
        \/ (\E h \in Handler : StartNew(h))
  BY DEF Next, SubmitStep, CheckPreconditions, AcquireLock, CheckSucceeded,
     CheckActive, InsertAndCommit, CallStart, AwaitReply, Cleanup, ApiCrash,
     HandlerStep, HandlerCrash, Claim, Resolve, TerminalizeStart, Poll, Age,
     ReconcilerStep, Scan, Inspect, Execute, ReconcilerCrash, AccountStep
<1>5. QED
  BY <1>1, <1>2, <1>3, <1>4

(* How an invocation comes to hold a claim. *)
LEMMA ClaimOrigin ==
    ASSUME TypeInv, Next, NEW h \in Handler, hpc'[h] \in Claiming
    PROVE  \/ /\ hpc[h] \in Claiming
              /\ serving'[h] = serving[h]
              /\ hpc'[h] # "startNew" \/ (hpc[h] = "startNew" /\ ~StartNew(h))
           \/ /\ serving'[h] \in Attempt
              /\ MarkStarted(serving'[h])
              /\ UNCHANGED instanceVars
              /\ \A g \in Handler \ {h} : hpc'[g] = hpc[g] /\ serving'[g] = serving[g]
<1>. USE TypeParts DEF HandlerTypeOK, Claiming
<1>1. CASE UNCHANGED <<hpc, serving>>
  <2>1. ~StartNew(h)
    BY <1>1 DEF StartNew, Answer
  <2>2. QED
    BY <1>1, <2>1
<1>2. ASSUME NEW g \in Handler, NEW a \in Attempt, Claim(g, a)
      PROVE  \/ /\ hpc[h] \in Claiming
                /\ serving'[h] = serving[h]
                /\ hpc'[h] = hpc[h]
                /\ ~StartNew(h)
             \/ /\ h = g
                /\ serving'[h] = a
                /\ MarkStarted(a)
                /\ UNCHANGED instanceVars
                /\ \A k \in Handler \ {h} : hpc'[k] = hpc[k] /\ serving'[k] = serving[k]
  <2>1. CASE h = g
    BY <1>2, <2>1 DEF Claim
  <2>2. CASE h # g
    <3>1. hpc'[h] = hpc[h] /\ serving'[h] = serving[h]
      BY <1>2, <2>2 DEF Claim
    <3>2. ~StartNew(h)
      BY <3>1 DEF StartNew, Answer
    <3>3. QED
      BY <3>1, <3>2
  <2>3. QED
    BY <2>1, <2>2
<1>3. ASSUME NEW g \in Handler,
             StartNew(g) \/ Resolve(g) \/ TerminalizeStart(g) \/ HandlerCrash(g)
      PROVE  /\ hpc[h] \in Claiming
             /\ serving'[h] = serving[h]
             /\ hpc'[h] # "startNew" \/ (hpc[h] = "startNew" /\ ~StartNew(h))
  BY <1>3 DEF StartNew, Resolve, TerminalizeStart, HandlerCrash, Answer
<1>4. UNCHANGED <<hpc, serving>> \/ \E g \in Handler : HandlerStep(g) \/ HandlerCrash(g)
  BY DEF Next, SubmitStep, CheckPreconditions, AcquireLock, CheckSucceeded,
     CheckActive, InsertAndCommit, CallStart, AwaitReply, Cleanup, ApiCrash,
     InstanceStep, Poll, Age, ReconcilerStep, Scan, Inspect, Execute,
     ReconcilerCrash, AccountStep, handlerVars
<1>5. QED
  BY <1>1, <1>2, <1>3, <1>4 DEF HandlerStep

(* Only the two kinds of steps that name an instance touch it. *)
LEMMA InstanceSteps ==
    ASSUME Next
    PROVE  \/ UNCHANGED instanceVars
           \/ \E b \in Attempt : InstanceStep(b)
           \/ \E h \in Handler : StartNew(h)
BY DEF Next, SubmitStep, CheckPreconditions, AcquireLock, CheckSucceeded,
   CheckActive, InsertAndCommit, CallStart, AwaitReply, Cleanup, ApiCrash,
   HandlerStep, HandlerCrash, Claim, Resolve, TerminalizeStart, Poll, Age,
   ReconcilerStep, Scan, Inspect, Execute, ReconcilerCrash, AccountStep

LEMMA DispatchedStep ==
    ASSUME TypeInv, DispatchedByInstance, Next
    PROVE  DispatchedByInstance'
<1>. USE TypeParts DEF InstanceTypeOK, DispatchedByInstance
<1>1. CASE UNCHANGED instanceVars
  BY <1>1 DEF instanceVars
<1>2. ASSUME NEW b \in Attempt, InstanceStep(b)
      PROVE  DispatchedByInstance'
  <2>. USE DEF Enter, Recorded
  <2>1. CASE Prepare(b) \/ Verify(b) \/ Grade(b)
    BY <2>1 DEF Prepare, Verify, Grade
  <2>2. CASE RunFinalize(b) \/ RunTerminalize(b)
    BY <2>2 DEF RunFinalize, RunTerminalize
  <2>3. CASE LoseCompletion(b)
    BY <2>3 DEF LoseCompletion, instanceVars
  <2>4. CASE ExhaustRetries(b) \/ Terminate(b) \/ LateStart(b)
    BY <2>4 DEF ExhaustRetries, Terminate, LateStart, CreateInstance
  <2>5. QED
    BY <1>2, <2>1, <2>2, <2>3, <2>4 DEF InstanceStep, OrchestratorStep
<1>3. ASSUME NEW h \in Handler, StartNew(h)
      PROVE  DispatchedByInstance'
  BY <1>3 DEF StartNew, CreateInstance, Enter, instanceVars, HandlerTypeOK
<1>4. QED
  BY <1>1, <1>2, <1>3, InstanceSteps

-----------------------------------------------------------------------------
(* StartInv is inductive: mark_started's WHERE clause admits a second      *)
(* claim only while no claim was made, and no instance exists unclaimed.   *)
LEMMA StartInvStep == TypeInv /\ LockInv /\ StartInv /\ [Next]_vars => StartInv'
<1>. SUFFICES ASSUME TypeInv, LockInv, StartInv, [Next]_vars PROVE StartInv'
  OBVIOUS
<1>1. CASE UNCHANGED vars
  BY <1>1 DEF vars, tableVars, rowVars, instanceVars, handlerVars, StartInv,
     StartedKeepsRow, InstanceWasClaimed, DispatchedByInstance, ClaimHeldOnce,
     StartStillPending
<1>2. CASE Next
  <2>1. TableStep /\ FreshRow
    BY <1>2, NextTable DEF LockInv
  <2>2. ASSUME NEW a \in Attempt
        PROVE  /\ startedAt[a] => startedAt'[a]
               /\ startedAt'[a] => outcome'[a] \notin {"absent", "discarded"}
    BY <2>1, StartedRowStep DEF StartInv
  <2>3. StartedKeepsRow'
    BY <2>2 DEF StartedKeepsRow
  <2>4. DispatchedByInstance'
    BY <1>2, DispatchedStep DEF StartInv
  <2>5. InstanceWasClaimed'
    <3>1. SUFFICES ASSUME NEW a \in Attempt, stage'[a] # "none" \/ late'[a]
                   PROVE  startedAt'[a]
      BY DEF InstanceWasClaimed
    <3>2. CASE stage[a] # "none" \/ late[a]
      BY <2>2, <3>2 DEF StartInv, InstanceWasClaimed
    <3>3. CASE stage[a] = "none" /\ ~late[a]
      <4>1. PICK h \in Handler : StartNew(h) /\ serving[h] = a
        BY <1>2, <3>1, <3>3, InstanceOrigin DEF StartInv
      <4>2. startedAt[a]
        BY <4>1 DEF StartNew, StartInv, ClaimHeldOnce, Claiming
      <4>3. QED
        BY <2>2, <4>2
    <3>4. QED
      BY <3>2, <3>3
  <2>6. ASSUME NEW h \in Handler, hpc'[h] \in Claiming
        PROVE  serving'[h] \in Attempt /\ startedAt'[serving'[h]]
    <3>1. CASE hpc[h] \in Claiming /\ serving'[h] = serving[h]
      <4>1. serving[h] \in Attempt
        BY <3>1, TypeParts DEF HandlerTypeOK, ServingKnown, Claiming
      <4>2. QED
        BY <2>2, <3>1, <4>1 DEF StartInv, ClaimHeldOnce
    <3>2. CASE serving'[h] \in Attempt /\ MarkStarted(serving'[h])
      BY <3>2, TypeParts DEF MarkStarted, TableTypeOK
    <3>3. QED
      BY <1>2, <2>6, <3>1, <3>2, ClaimOrigin
  <2>7. ASSUME NEW h \in Handler, hpc'[h] \in Claiming,
               NEW g \in Handler \ {h}, hpc'[g] \in Claiming
        PROVE  serving'[g] # serving'[h]
    <3>1. ASSUME NEW x \in Handler, NEW y \in Handler \ {x},
                 MarkStarted(serving'[x]),
                 hpc'[y] = hpc[y], serving'[y] = serving[y], hpc'[y] \in Claiming
          PROVE  serving'[y] # serving'[x]
      BY <3>1 DEF MarkStarted, Unclaimed, StartInv, ClaimHeldOnce
    <3>2. CASE /\ hpc[h] \in Claiming /\ serving'[h] = serving[h]
               /\ hpc[g] \in Claiming /\ serving'[g] = serving[g]
      BY <2>7, <3>2 DEF StartInv, ClaimHeldOnce
    <3>3. CASE /\ MarkStarted(serving'[h])
               /\ \A k \in Handler \ {h} : hpc'[k] = hpc[k] /\ serving'[k] = serving[k]
      BY <2>7, <3>1, <3>3
    <3>4. CASE /\ MarkStarted(serving'[g])
               /\ \A k \in Handler \ {g} : hpc'[k] = hpc[k] /\ serving'[k] = serving[k]
      <4>1. h \in Handler \ {g}
        BY <2>7
      <4>2. QED
        BY <2>7, <3>1, <3>4, <4>1
    <3>5. QED
      BY <1>2, <2>7, <3>2, <3>3, <3>4, ClaimOrigin
  <2>8. ClaimHeldOnce'
    BY <2>6, <2>7 DEF ClaimHeldOnce
  <2>9. StartStillPending'
    <3>1. SUFFICES ASSUME NEW h \in Handler, hpc'[h] = "startNew"
                   PROVE  stage'[serving'[h]] = "none" /\ ~late'[serving'[h]]
      BY DEF StartStillPending
    <3>2. hpc'[h] \in Claiming
      BY <3>1 DEF Claiming
    <3>3. CASE /\ MarkStarted(serving'[h]) /\ serving'[h] \in Attempt
               /\ UNCHANGED instanceVars
      BY <3>3 DEF MarkStarted, Unclaimed, instanceVars, StartInv, InstanceWasClaimed
    <3>4. CASE hpc[h] = "startNew" /\ ~StartNew(h) /\ serving'[h] = serving[h]
      <4>1. serving[h] \in Attempt
        BY <3>4, TypeParts DEF HandlerTypeOK, ServingKnown
      <4>2. stage[serving[h]] = "none" /\ ~late[serving[h]]
        BY <3>4 DEF StartInv, StartStillPending
      <4>3. ASSUME NEW g \in Handler, StartNew(g), serving[g] = serving[h]
            PROVE  FALSE
        BY <3>4, <4>3 DEF StartNew, StartInv, ClaimHeldOnce, Claiming
      <4>4. QED
        BY <1>2, <3>4, <4>1, <4>2, <4>3, InstanceOrigin DEF StartInv
    <3>5. QED
      BY <1>2, <3>1, <3>2, <3>3, <3>4, ClaimOrigin
  <2>10. QED
    BY <2>3, <2>4, <2>5, <2>8, <2>9 DEF StartInv
<1>3. QED
  BY <1>1, <1>2

(* The row of an instance that exists, or may still be created, is never   *)
(* removed by the API's cleanup of a failed start call.                    *)
THEOREM InstancesKeepTheirRow == Spec => []InstanceKeepsRow
<1>1. StartInv => InstanceKeepsRow
  BY DEF StartInv, StartedKeepsRow, InstanceWasClaimed, InstanceKeepsRow
<1>2. QED
  BY <1>1, InitTypeInv, NextTypeInv, InitLockInv, LockInvStep, InitStartInv,
     StartInvStep, PTL DEF Spec

(* Whatever the number of deliveries, one invocation at most is at         *)
(* start_new for an attempt, and only while no instance exists.            *)
THEOREM StartsAreExclusive == Spec => []ExclusiveStart
<1>1. StartInv => ExclusiveStart
  BY DEF StartInv, ClaimHeldOnce, StartStillPending, ExclusiveStart, Claiming
<1>2. QED
  BY <1>1, InitTypeInv, NextTypeInv, InitLockInv, LockInvStep, InitStartInv,
     StartInvStep, PTL DEF Spec

-----------------------------------------------------------------------------
(* Completed instances                                                     *)

(* An instance completes only by an activity that found the row and left   *)
(* it terminal.                                                            *)
LEMMA CompletionOrigin ==
    ASSUME TypeInv, Next, NEW a \in Attempt,
           stage'[a] = "Completed", stage[a] # "Completed"
    PROVE  /\ ~Gone(a)
           /\ \E o \in Terminal, s \in Source : Finalize(a, o, s)
<1>. USE TypeParts DEF InstanceTypeOK
<1>1. CASE UNCHANGED instanceVars
  BY <1>1 DEF instanceVars
<1>2. ASSUME NEW b \in Attempt, InstanceStep(b)
      PROVE  /\ ~Gone(a)
             /\ \E o \in Terminal, s \in Source : Finalize(a, o, s)
  <2>. USE DEF Enter, Recorded
  <2>1. CASE RunFinalize(b)
    <3>1. verdict[b] \in Terminal
      BY <2>1 DEF RunFinalize, VerdictReady, Verdict, Terminal
    <3>2. a = b /\ ~Gone(b)
      BY <2>1 DEF RunFinalize
    <3>3. Finalize(a, verdict[a], "orchestrator") /\ verdict[a] \in Terminal
      BY <2>1, <3>1, <3>2 DEF RunFinalize
    <3>4. QED
      BY <3>2, <3>3 DEF Source
  <2>2. CASE RunTerminalize(b)
    <3>1. a = b /\ ~Gone(b)
      BY <2>2 DEF RunTerminalize
    <3>2. Finalize(a, "server_error", "orchestrator_exception")
      BY <2>2, <3>1 DEF RunTerminalize
    <3>3. QED
      BY <3>1, <3>2 DEF Source, Terminal
  <2>3. CASE ~RunFinalize(b) /\ ~RunTerminalize(b)
    BY <1>2, <2>3 DEF InstanceStep, OrchestratorStep, Prepare, Verify, Grade,
       LoseCompletion, ExhaustRetries, Terminate, LateStart, CreateInstance,
       instanceVars
  <2>4. QED
    BY <2>1, <2>2, <2>3
<1>3. ASSUME NEW h \in Handler, StartNew(h)
      PROVE  FALSE
  BY <1>3 DEF StartNew, CreateInstance, Enter, instanceVars, HandlerTypeOK
<1>4. QED
  BY <1>1, <1>2, <1>3, InstanceSteps

LEMMA CompletedStep ==
    TypeInv /\ LockInv /\ CompletedMeansRecorded /\ [Next]_vars
      => CompletedMeansRecorded'
<1>. SUFFICES ASSUME TypeInv, LockInv, CompletedMeansRecorded, [Next]_vars,
                     NEW a \in Attempt, stage'[a] = "Completed"
              PROVE  outcome'[a] \in Terminal \cup {"erased"}
  BY DEF CompletedMeansRecorded
<1>1. CASE UNCHANGED vars
  BY <1>1 DEF vars, tableVars, rowVars, instanceVars, CompletedMeansRecorded
<1>2. CASE Next /\ stage[a] = "Completed"
  <2>1. outcome[a] \in Terminal \cup {"erased"}
    BY <1>2 DEF CompletedMeansRecorded
  <2>2. QED
    BY <1>2, <2>1, NextTable, RowStep DEF LockInv
<1>3. CASE Next /\ stage[a] # "Completed"
  <2>1. ~Gone(a)
    BY <1>3, CompletionOrigin
  <2>2. PICK o \in Terminal, s \in Source : Finalize(a, o, s)
    BY <1>3, CompletionOrigin
  <2>3. outcome[a] \in Terminal \/ Active(a)
    BY <2>1, TypeParts DEF Gone, Active, TableTypeOK, Outcome
  <2>4. QED
    BY <2>2, <2>3, TypeParts DEF Finalize, TableTypeOK
<1>4. QED
  BY <1>1, <1>2, <1>3

(* A Completed instance has recorded its result: no lost completion, rival *)
(* finalizer or exhausted retry lets it end with its row still active.     *)
THEOREM CompletedIsRecorded == Spec => []CompletedMeansRecorded
<1>1. Init => CompletedMeansRecorded
  BY DEF Init, InstanceInit, CompletedMeansRecorded
<1>2. QED
  BY <1>1, InitTypeInv, NextTypeInv, InitLockInv, LockInvStep, CompletedStep,
     PTL DEF Spec

-----------------------------------------------------------------------------
(* Outcomes.  OutcomeExplained relates a row to the instance's later       *)
(* states, so it is not inductive by itself: what the orchestrator stored  *)
(* must still be the verdict of its history (VerdictStage is never left    *)
(* and no activity that draws a verdict runs in it), what the poller read  *)
(* must still be the status (Failed and Terminated are final), and what    *)
(* the reconciler decided on must still hold when it executes              *)
(* (SentenceStands).                                                       *)

(* Past the last activity that can draw a verdict. *)
VerdictStage == {"finalize", "terminalize"} \cup EndedStage

(* A database-writing activity waits only while its instance is at it, or  *)
(* was terminated there.                                                   *)
DispatchedInStage ==
    \A a \in Attempt :
        /\ dispatched[a] = "finalize" => stage[a] \in {"finalize", "Terminated"}
        /\ dispatched[a] = "terminalize" => stage[a] \in {"terminalize", "Terminated"}

(* The reconciler's cancellation outlives the await between its two steps. *)
SentenceStands ==
    condemned # NoAttempt /\ sentence = "cancelled" => stage[condemned] = "Terminated"

(* The orchestrator's verdict is not drawn again after it was stored. *)
VerdictStored ==
    \A a \in Attempt :
        outcome[a] \in Terminal /\ terminalSource[a] = "orchestrator"
          => stage[a] \in VerdictStage

AbsentUnsigned == \A a \in Attempt : outcome[a] = "absent" => terminalSource[a] = "none"

OutcomeInv == /\ OutcomeExplained
              /\ AbsentUnsigned
              /\ DispatchedInStage
              /\ SentenceStands
              /\ VerdictStored

-----------------------------------------------------------------------------
LEMMA InitOutcomeInv == Init => OutcomeInv
BY DEF Init, TableInit, InstanceInit, OutcomeInv, OutcomeExplained, Explained,
   AbsentUnsigned, DispatchedInStage, SentenceStands, VerdictStored, Active,
   Terminal

(* What a step may do to an instance: a drawn verdict is kept once the      *)
(* orchestration has left its grading, and a final status stays.           *)
LEMMA InstanceKeeps ==
    ASSUME TypeInv, DispatchedInStage, Next, NEW a \in Attempt
    PROVE  /\ stage[a] \in VerdictStage =>
                verdict'[a] = verdict[a] /\ stage'[a] \in VerdictStage
           /\ stage[a] \in {"Failed", "Terminated"} => stage'[a] = stage[a]
           /\ DispatchedInStage'
<1>. USE TypeParts DEF InstanceTypeOK, DispatchedInStage, VerdictStage, EndedStage,
         RunningStage, Stage, Activity
<1>1. CASE UNCHANGED instanceVars
  BY <1>1 DEF instanceVars
<1>2. ASSUME NEW b \in Attempt, InstanceStep(b)
      PROVE  /\ stage[a] \in VerdictStage =>
                  verdict'[a] = verdict[a] /\ stage'[a] \in VerdictStage
             /\ stage[a] \in {"Failed", "Terminated"} => stage'[a] = stage[a]
             /\ DispatchedInStage'
  <2>. USE DEF Enter, Recorded
  <2>1. CASE Prepare(b)
    BY <2>1 DEF Prepare
  <2>2. CASE Verify(b)
    BY <2>2 DEF Verify
  <2>3. CASE Grade(b)
    BY <2>3 DEF Grade
  <2>4. CASE RunFinalize(b)
    BY <2>4 DEF RunFinalize
  <2>5. CASE RunTerminalize(b)
    BY <2>5 DEF RunTerminalize
  <2>6. CASE LoseCompletion(b)
    BY <2>6 DEF LoseCompletion, instanceVars
  <2>7. CASE ExhaustRetries(b)
    BY <2>7 DEF ExhaustRetries
  <2>8. CASE Terminate(b)
    BY <2>8 DEF Terminate
  <2>9. CASE LateStart(b)
    BY <2>9 DEF LateStart, CreateInstance
  <2>10. QED
    BY <1>2, <2>1, <2>2, <2>3, <2>4, <2>5, <2>6, <2>7, <2>8, <2>9
       DEF InstanceStep, OrchestratorStep
<1>3. ASSUME NEW h \in Handler, StartNew(h)
      PROVE  /\ stage[a] \in VerdictStage =>
                  verdict'[a] = verdict[a] /\ stage'[a] \in VerdictStage
             /\ stage[a] \in {"Failed", "Terminated"} => stage'[a] = stage[a]
             /\ DispatchedInStage'
  BY <1>3 DEF StartNew, CreateInstance, Enter, instanceVars, HandlerTypeOK
<1>4. QED
  BY <1>1, <1>2, <1>3, InstanceSteps

-----------------------------------------------------------------------------
(* The four writers of a terminal outcome, and what each one knows.        *)
SignedBy(a, o, s) ==
    \/ s = "orchestrator" /\ o = verdict[a] /\ dispatched[a] = "finalize"
    \/ s \in {"orchestrator_exception", "start_failure"} /\ o = "server_error"
    \/ /\ s = "poller" /\ stage[a] \in {"Failed", "Terminated"}
       /\ o \in {"server_error", "cancelled"}
       /\ o = "cancelled" => stage[a] = "Terminated"
    \/ s = "reconciler" /\ condemned = a /\ o = sentence

SignedWrite(a) ==
    \E o \in Terminal, s \in Source \ {"none"} : Finalize(a, o, s) /\ SignedBy(a, o, s)

(* Every step that is not one of the four leaves outcomes and signatures   *)
(* alone, inserts, discards or erases.                                     *)
UnsignedWrite ==
    \/ UNCHANGED tableVars
    \/ \E b \in Attempt : \/ InsertAndCommit(b)
                          \/ MarkStarted(b) \/ DeleteActive(b) \/ GrowStale(b)
    \/ \E u \in User : EraseUser(u) \/ RestoreUser(u)

LEMMA EveryWriteSigned ==
    ASSUME TypeInv, Next
    PROVE  UnsignedWrite \/ \E b \in Attempt : SignedWrite(b)
<1>. USE DEF TypeInv
<1>1. ASSUME NEW a \in Attempt, SubmitStep(a) \/ ApiCrash(a)
      PROVE  UnsignedWrite
  <2>1. CASE InsertAndCommit(a)
    BY <2>1 DEF UnsignedWrite
  <2>2. CASE Cleanup(a)
    BY <2>2 DEF Cleanup, UnsignedWrite
  <2>3. QED
    BY <1>1, <2>1, <2>2 DEF SubmitStep, CheckPreconditions, AcquireLock,
       CheckSucceeded, CheckActive, CallStart, AwaitReply, ApiCrash, UnsignedWrite
<1>2. ASSUME NEW h \in Handler, HandlerStep(h) \/ HandlerCrash(h)
      PROVE  UnsignedWrite \/ \E b \in Attempt : SignedWrite(b)
  <2>1. ASSUME NEW a \in Attempt, Claim(h, a)
        PROVE  UnsignedWrite
    BY <2>1 DEF Claim, UnsignedWrite
  <2>2. CASE TerminalizeStart(h)
    <3>1. serving[h] \in Attempt
      BY <2>2 DEF TerminalizeStart, ServingKnown
    <3>2. Finalize(serving[h], "server_error", "start_failure")
      BY <2>2 DEF TerminalizeStart
    <3>3. QED
      BY <3>1, <3>2 DEF SignedWrite, SignedBy, Terminal, Source
  <2>3. QED
    BY <1>2, <2>1, <2>2 DEF HandlerStep, StartNew, Resolve, HandlerCrash,
       UnsignedWrite
<1>3. ASSUME NEW a \in Attempt, InstanceStep(a)
      PROVE  UnsignedWrite \/ SignedWrite(a)
  <2>1. ASSUME dispatched[a] = "finalize", Finalize(a, verdict[a], "orchestrator")
        PROVE  SignedWrite(a)
    <3>1. verdict[a] \in Terminal
      BY <2>1 DEF VerdictReady, Verdict, Terminal
    <3>2. QED
      BY <2>1, <3>1 DEF SignedWrite, SignedBy, Source
  <2>2. ASSUME Finalize(a, "server_error", "orchestrator_exception")
        PROVE  SignedWrite(a)
    BY <2>2 DEF SignedWrite, SignedBy, Terminal, Source
  <2>3. CASE Prepare(a)
    BY <2>3 DEF Prepare, UnsignedWrite
  <2>4. CASE RunFinalize(a)
    BY <2>1, <2>4 DEF RunFinalize
  <2>5. CASE RunTerminalize(a)
    BY <2>2, <2>5 DEF RunTerminalize
  <2>6. CASE LoseCompletion(a)
    BY <2>1, <2>2, <2>6 DEF LoseCompletion
  <2>7. QED
    BY <1>3, <2>3, <2>4, <2>5, <2>6 DEF InstanceStep, OrchestratorStep, Verify,
       Grade, ExhaustRetries, Terminate, LateStart, UnsignedWrite
<1>4. ASSUME NEW a \in Attempt, Poll(a)
      PROVE  SignedWrite(a)
  <2>1. stage[a] \in {"Failed", "Terminated"} /\ RuntimeStatus(a) = stage[a]
    BY <1>4 DEF Poll, RuntimeStatus
  <2>2. CASE stage[a] = "Terminated"
    <3>1. Finalize(a, "cancelled", "poller")
      BY <1>4, <2>1, <2>2 DEF Poll
    <3>2. QED
      BY <2>2, <3>1 DEF SignedWrite, SignedBy, Terminal, Source
  <2>3. CASE stage[a] = "Failed"
    <3>1. Finalize(a, "server_error", "poller")
      BY <1>4, <2>1, <2>3 DEF Poll
    <3>2. QED
      BY <2>3, <3>1 DEF SignedWrite, SignedBy, Terminal, Source
  <2>4. QED
    BY <2>1, <2>2, <2>3
<1>5. ASSUME NEW a \in Attempt, Age(a)
      PROVE  UnsignedWrite
  BY <1>5 DEF Age, UnsignedWrite
<1>6. CASE ReconcilerStep
  <2>1. CASE Execute
    <3>1. condemned \in Attempt /\ sentence \in Terminal
      BY <2>1 DEF Execute, TypeOK, Terminal
    <3>2. Finalize(condemned, sentence, "reconciler")
      BY <2>1 DEF Execute
    <3>3. SignedBy(condemned, sentence, "reconciler")
      BY DEF SignedBy
    <3>4. QED
      BY <3>1, <3>2, <3>3 DEF SignedWrite, Source
  <2>2. QED
    BY <1>6, <2>1 DEF ReconcilerStep, Scan, Inspect, UnsignedWrite
<1>7. CASE ReconcilerCrash
  BY <1>7 DEF ReconcilerCrash, UnsignedWrite
<1>8. ASSUME NEW u \in User, AccountStep(u)
      PROVE  UnsignedWrite
  BY <1>8 DEF AccountStep, UnsignedWrite
<1>9. QED
  BY <1>1, <1>2, <1>3, <1>4, <1>5, <1>6, <1>7, <1>8 DEF Next

(* What that means for one row. *)
LEMMA RowSigned ==
    ASSUME TypeInv, FreshRow, AbsentUnsigned, Next, NEW a \in Attempt
    PROVE  \/ outcome'[a] = outcome[a] /\ terminalSource'[a] = terminalSource[a]
           \/ outcome'[a] = "active" /\ terminalSource'[a] = "none"
           \/ outcome'[a] \in {"discarded", "erased"}
           \/ /\ outcome'[a] \in Terminal /\ terminalSource'[a] \in Source \ {"none"}
              /\ SignedBy(a, outcome'[a], terminalSource'[a])
<1>1. TableTypeOK
  BY TypeParts
<1>2. CASE UNCHANGED tableVars
  BY <1>2 DEF tableVars, rowVars
<1>3. ASSUME NEW b \in Attempt, InsertAndCommit(b)
      PROVE  \/ outcome'[a] = outcome[a] /\ terminalSource'[a] = terminalSource[a]
             \/ outcome'[a] = "active" /\ terminalSource'[a] = "none"
  <2>1. UNCHANGED tableVars \/ Insert(b)
    BY <1>3 DEF InsertAndCommit
  <2>2. outcome[b] = "absent"
    BY <1>3 DEF InsertAndCommit, FreshRow, NotInserted, InTransaction
  <2>3. QED
    BY <1>1, <1>2, <2>1, <2>2 DEF Insert, AbsentUnsigned, TableTypeOK, tableVars,
       rowVars
<1>4. ASSUME NEW b \in Attempt, MarkStarted(b) \/ GrowStale(b)
      PROVE  outcome' = outcome /\ terminalSource' = terminalSource
  BY <1>4 DEF MarkStarted, GrowStale
<1>5. ASSUME NEW b \in Attempt, DeleteActive(b)
      PROVE  /\ terminalSource' = terminalSource
             /\ outcome'[a] = outcome[a] \/ outcome'[a] = "discarded"
  BY <1>1, <1>5 DEF DeleteActive, TableTypeOK
<1>6. ASSUME NEW u \in User, EraseUser(u) \/ RestoreUser(u)
      PROVE  /\ terminalSource' = terminalSource
             /\ outcome'[a] = outcome[a] \/ outcome'[a] = "erased"
  BY <1>1, <1>6 DEF EraseUser, RestoreUser, rowVars, TableTypeOK
<1>7. ASSUME NEW b \in Attempt, SignedWrite(b)
      PROVE  \/ outcome'[a] = outcome[a] /\ terminalSource'[a] = terminalSource[a]
             \/ /\ outcome'[a] \in Terminal
                /\ terminalSource'[a] \in Source \ {"none"}
                /\ SignedBy(a, outcome'[a], terminalSource'[a])
  <2>1. PICK o \in Terminal, s \in Source \ {"none"} :
            Finalize(b, o, s) /\ SignedBy(b, o, s)
    BY <1>7 DEF SignedWrite
  <2>2. CASE a = b /\ Active(b)
    <3>1. outcome'[a] = o /\ terminalSource'[a] = s
      BY <1>1, <2>1, <2>2 DEF Finalize, TableTypeOK
    <3>2. QED
      BY <2>1, <2>2, <3>1
  <2>3. CASE ~(a = b /\ Active(b))
    BY <1>1, <2>1, <2>3 DEF Finalize, TableTypeOK
  <2>4. QED
    BY <2>2, <2>3
<1>8. QED
  BY <1>2, <1>3, <1>4, <1>5, <1>6, <1>7, EveryWriteSigned DEF UnsignedWrite

(* A decision to cancel is taken on a terminated instance. *)
LEMMA SentenceStep ==
    ASSUME TypeInv, DispatchedInStage, SentenceStands, Next
    PROVE  SentenceStands'
<1>1. CASE UNCHANGED reconcilerVars
  <2>1. SUFFICES ASSUME condemned # NoAttempt, sentence = "cancelled"
                 PROVE  stage'[condemned] = "Terminated"
    BY <1>1 DEF SentenceStands, reconcilerVars
  <2>2. condemned \in Attempt /\ stage[condemned] = "Terminated"
    BY <2>1, TypeParts DEF ReconcilerTypeOK, SentenceStands
  <2>3. QED
    BY <2>2, InstanceKeeps
<1>2. CASE Scan
  BY <1>2 DEF Scan, ReconcilerIdle, SentenceStands, instanceVars
<1>3. ASSUME NEW b \in Attempt, Inspect(b)
      PROVE  SentenceStands'
  <2>1. stage' = stage
    BY <1>3 DEF Inspect, instanceVars
  <2>2. CASE condemned' = b /\ sentence' = Decision(RuntimeStatus(b))
    BY <2>1, <2>2 DEF SentenceStands, Decision, RuntimeStatus
  <2>3. CASE condemned' = NoAttempt
    BY <2>3 DEF SentenceStands
  <2>4. QED
    BY <1>3, <2>2, <2>3 DEF Inspect
<1>4. CASE Execute \/ ReconcilerCrash
  BY <1>4 DEF Execute, ReconcilerCrash, SentenceStands
<1>5. QED
  BY <1>1, <1>2, <1>3, <1>4 DEF Next, SubmitStep, CheckPreconditions, AcquireLock,
     CheckSucceeded, CheckActive, InsertAndCommit, CallStart, AwaitReply, Cleanup,
     ApiCrash, HandlerStep, HandlerCrash, Claim, StartNew, Resolve,
     TerminalizeStart, InstanceStep, Poll, Age, AccountStep, ReconcilerStep,
     submitVars, handlerVars

(* OutcomeInv is inductive. *)
LEMMA OutcomeInvStep == TypeInv /\ LockInv /\ OutcomeInv /\ [Next]_vars => OutcomeInv'
<1>. SUFFICES ASSUME TypeInv, LockInv, OutcomeInv, [Next]_vars PROVE OutcomeInv'
  OBVIOUS
<1>1. CASE UNCHANGED vars
  BY <1>1 DEF vars, tableVars, rowVars, instanceVars, reconcilerVars, OutcomeInv,
     OutcomeExplained, Explained, AbsentUnsigned, DispatchedInStage,
     SentenceStands, VerdictStored, Active
<1>2. CASE Next
  <2>1. DispatchedInStage' /\ SentenceStands'
    BY <1>2, InstanceKeeps, SentenceStep DEF OutcomeInv, DispatchedInStage
  <2>2. ASSUME NEW a \in Attempt
        PROVE  /\ Explained(a)'
               /\ outcome'[a] = "absent" => terminalSource'[a] = "none"
               /\ outcome'[a] \in Terminal /\ terminalSource'[a] = "orchestrator"
                    => stage'[a] \in VerdictStage
    <3>. DEFINE Kept == /\ stage[a] \in VerdictStage =>
                             verdict'[a] = verdict[a] /\ stage'[a] \in VerdictStage
                        /\ stage[a] \in {"Failed", "Terminated"} => stage'[a] = stage[a]
    <3>1. Kept
      BY <1>2, InstanceKeeps DEF OutcomeInv
    <3>2. /\ Explained(a)
          /\ outcome[a] = "absent" => terminalSource[a] = "none"
          /\ outcome[a] \in Terminal /\ terminalSource[a] = "orchestrator"
               => stage[a] \in VerdictStage
      BY DEF OutcomeInv, OutcomeExplained, AbsentUnsigned, VerdictStored
    <3>3. CASE outcome'[a] = outcome[a] /\ terminalSource'[a] = terminalSource[a]
      BY <3>1, <3>2, <3>3 DEF Explained, Active
    <3>4. CASE outcome'[a] = "active" /\ terminalSource'[a] = "none"
      BY <3>4 DEF Explained, Active, Terminal
    <3>5. CASE outcome'[a] \in {"discarded", "erased"}
      BY <3>5 DEF Explained, Active, Terminal
    <3>6. CASE /\ outcome'[a] \in Terminal /\ terminalSource'[a] \in Source \ {"none"}
               /\ SignedBy(a, outcome'[a], terminalSource'[a])
      <4>1. outcome'[a] \notin {"active", "absent"} /\ terminalSource'[a] # "none"
        BY <3>6 DEF Terminal
      <4>2. CASE /\ terminalSource'[a] = "orchestrator"
                 /\ outcome'[a] = verdict[a] /\ dispatched[a] = "finalize"
        <5>1. stage[a] \in VerdictStage /\ verdict[a] # "cancelled"
          BY <4>2, TypeParts DEF OutcomeInv, DispatchedInStage, VerdictStage,
             EndedStage, VerdictReady, Verdict
        <5>2. QED
          BY <3>1, <4>1, <4>2, <5>1 DEF Explained, Active
      <4>3. CASE /\ terminalSource'[a] \in {"orchestrator_exception", "start_failure"}
                 /\ outcome'[a] = "server_error"
        BY <4>1, <4>3 DEF Explained, Active
      <4>4. CASE /\ terminalSource'[a] = "poller"
                 /\ stage[a] \in {"Failed", "Terminated"}
                 /\ outcome'[a] \in {"server_error", "cancelled"}
                 /\ outcome'[a] = "cancelled" => stage[a] = "Terminated"
        BY <3>1, <4>1, <4>4 DEF Explained, Active
      <4>5. CASE /\ terminalSource'[a] = "reconciler"
                 /\ condemned = a /\ outcome'[a] = sentence
        <5>1. /\ sentence \in {"server_error", "cancelled"}
              /\ sentence = "cancelled" => stage[a] = "Terminated"
          BY <4>5, TypeParts, NoAttemptAssumption DEF ReconcilerTypeOK, OutcomeInv,
             SentenceStands
        <5>2. QED
          BY <3>1, <4>1, <4>5, <5>1 DEF Explained, Active
      <4>6. QED
        BY <3>6, <4>2, <4>3, <4>4, <4>5 DEF SignedBy
    <3>7. QED
      BY <1>2, <3>3, <3>4, <3>5, <3>6, RowSigned DEF LockInv, OutcomeInv
  <2>3. QED
    BY <2>1, <2>2 DEF OutcomeInv, OutcomeExplained, AbsentUnsigned, VerdictStored
<1>3. QED
  BY <1>1, <1>2

(* The orchestrator's outcome is the verdict of its history, "cancelled"   *)
(* means a terminated instance, and every terminal row names its writer.   *)
THEOREM OutcomesAreExplained == Spec => []OutcomeExplained
<1>1. OutcomeInv => OutcomeExplained
  BY DEF OutcomeInv
<1>2. QED
  BY <1>1, InitTypeInv, NextTypeInv, InitLockInv, LockInvStep, InitOutcomeInv,
     OutcomeInvStep, PTL DEF Spec
=============================================================================
