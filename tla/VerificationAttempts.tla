------------------------ MODULE VerificationAttempts ------------------------
(***************************************************************************)
(* The verification_attempts table and the writes that                     *)
(* VerificationAttemptRepository offers on it.  PostgreSQL runs each       *)
(* statement atomically under READ COMMITTED, so every write is one step   *)
(* whose WHERE clause is evaluated on the rows committed at that moment.   *)
(*                                                                         *)
(* An attempt id is a fresh uuid4 per submit request, so Attempt names the *)
(* submit requests as well as the rows they may create.                    *)
(***************************************************************************)
EXTENDS Naturals, FiniteSets

CONSTANTS
    Attempt,      \* attempt ids, one per submit request
    Slot,         \* (user, requirement) pairs: the scope of one active row
    User,         \* learners
    SlotOf,       \* the slot an attempt is submitted to
    OwnerOf       \* the user a slot belongs to

ASSUME SlotAssumption ==
    /\ SlotOf \in [Attempt -> Slot]
    /\ OwnerOf \in [Slot -> User]

VARIABLES
    outcome,         \* the outcome column, or why there is no row
    startedAt,       \* started_at IS NOT NULL
    terminalSource,  \* who wrote the terminal outcome
    stale,           \* active, and coalesce(started_at, created_at) < cutoff
    account          \* users that have a row in the users table

rowVars == <<outcome, startedAt, terminalSource, stale>>
tableVars == <<rowVars, account>>

-----------------------------------------------------------------------------
Terminal == {"succeeded", "failed", "server_error", "cancelled"}

(* "absent": not inserted yet; "discarded": removed by delete_active;      *)
(* "erased": removed by the account's ON DELETE CASCADE.                   *)
NoRow == {"absent", "discarded", "erased"}

Outcome == NoRow \cup {"active"} \cup Terminal

Source == {"none", "orchestrator", "orchestrator_exception", "start_failure",
           "reconciler", "poller"}

Active(a) == outcome[a] = "active"
Unclaimed(a) == Active(a) /\ ~startedAt[a]
Gone(a) == outcome[a] \in NoRow
Owner(a) == OwnerOf[SlotOf[a]]

SucceededIn(s) == \E b \in Attempt : SlotOf[b] = s /\ outcome[b] = "succeeded"
ActiveIn(s) == {b \in Attempt : SlotOf[b] = s /\ Active(b)}

TableTypeOK ==
    /\ outcome \in [Attempt -> Outcome]
    /\ startedAt \in [Attempt -> BOOLEAN]
    /\ terminalSource \in [Attempt -> Source]
    /\ stale \in [Attempt -> BOOLEAN]
    /\ account \in [User -> BOOLEAN]

TableInit ==
    /\ outcome = [a \in Attempt |-> "absent"]
    /\ startedAt = [a \in Attempt |-> FALSE]
    /\ terminalSource = [a \in Attempt |-> "none"]
    /\ stale = [a \in Attempt |-> FALSE]
    /\ account = [u \in User |-> TRUE]

-----------------------------------------------------------------------------
(* The INSERT of create_or_get_active.  The foreign key to users and the   *)
(* partial unique index on active rows both reject it with IntegrityError. *)
InsertAllowed(a) == account[Owner(a)] /\ ActiveIn(SlotOf[a]) = {}

Insert(a) ==
    /\ InsertAllowed(a)
    /\ outcome' = [outcome EXCEPT ![a] = "active"]
    /\ UNCHANGED <<startedAt, terminalSource, stale, account>>

(* Defect: the UPDATE forgets "started_at IS NULL".                        *)
MarkStartedAgain(a) ==
    /\ Active(a)
    /\ startedAt' = [startedAt EXCEPT ![a] = TRUE]
    /\ stale' = [stale EXCEPT ![a] = FALSE]
    /\ UNCHANGED <<outcome, terminalSource, account>>

(* mark_started: the UPDATE matched an active row nobody had started.  The *)
(* new started_at restarts the row's age.                                  *)
MarkStarted(a) ==
    /\ Unclaimed(a)
    /\ startedAt' = [startedAt EXCEPT ![a] = TRUE]
    /\ stale' = [stale EXCEPT ![a] = FALSE]
    /\ UNCHANGED <<outcome, terminalSource, account>>

(* Defect: the DELETE forgets "started_at IS NULL".                        *)
DeleteAnyActive(a) ==
    /\ IF Active(a)
         THEN /\ outcome' = [outcome EXCEPT ![a] = "discarded"]
              /\ stale' = [stale EXCEPT ![a] = FALSE]
         ELSE UNCHANGED <<outcome, stale>>
    /\ UNCHANGED <<startedAt, terminalSource, account>>

(* Defect: the DELETE forgets "outcome IS NULL".                           *)
DeleteUnstarted(a) ==
    /\ IF ~Gone(a) /\ ~startedAt[a]
         THEN /\ outcome' = [outcome EXCEPT ![a] = "discarded"]
              /\ stale' = [stale EXCEPT ![a] = FALSE]
         ELSE UNCHANGED <<outcome, stale>>
    /\ UNCHANGED <<startedAt, terminalSource, account>>

(* delete_active removes only a row that is active and not started.        *)
DeleteActive(a) ==
    /\ IF Unclaimed(a)
         THEN /\ outcome' = [outcome EXCEPT ![a] = "discarded"]
              /\ stale' = [stale EXCEPT ![a] = FALSE]
         ELSE UNCHANGED <<outcome, stale>>
    /\ UNCHANGED <<startedAt, terminalSource, account>>

(* Defect: the UPDATE forgets "outcome IS NULL": the last writer wins.     *)
FinalizeOverwriting(a, o, s) ==
    /\ IF ~Gone(a)
         THEN /\ outcome' = [outcome EXCEPT ![a] = o]
              /\ terminalSource' = [terminalSource EXCEPT ![a] = s]
              /\ stale' = [stale EXCEPT ![a] = FALSE]
         ELSE UNCHANGED <<outcome, terminalSource, stale>>
    /\ UNCHANGED <<startedAt, account>>

(* finalize: compare-and-set on outcome IS NULL.  A lost race reloads the  *)
(* row and changes nothing; callers handle a row that is gone.             *)
Finalize(a, o, s) ==
    /\ IF Active(a)
         THEN /\ outcome' = [outcome EXCEPT ![a] = o]
              /\ terminalSource' = [terminalSource EXCEPT ![a] = s]
              /\ stale' = [stale EXCEPT ![a] = FALSE]
         ELSE UNCHANGED <<outcome, terminalSource, stale>>
    /\ UNCHANGED <<startedAt, account>>

(* delete_user_account: the user's attempts go with the user.              *)
EraseUser(u) ==
    /\ account[u]
    /\ account' = [account EXCEPT ![u] = FALSE]
    /\ outcome' = [a \in Attempt |->
                     IF Owner(a) = u /\ ~Gone(a) THEN "erased" ELSE outcome[a]]
    /\ stale' = [a \in Attempt |-> Owner(a) # u /\ stale[a]]
    /\ UNCHANGED <<startedAt, terminalSource>>

(* get_or_create_user_from_github after a deletion: same GitHub user id.   *)
RestoreUser(u) ==
    /\ ~account[u]
    /\ account' = [account EXCEPT ![u] = TRUE]
    /\ UNCHANGED rowVars

(* The row outlives the reconciler's minimum age.                          *)
GrowStale(a) ==
    /\ Active(a)
    /\ ~stale[a]
    /\ stale' = [stale EXCEPT ![a] = TRUE]
    /\ UNCHANGED <<outcome, startedAt, terminalSource, account>>
=============================================================================
