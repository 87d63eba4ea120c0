----------------------------- MODULE Progression -----------------------------
(***************************************************************************)
(* What learners see of their progress.  Progress is never stored: every   *)
(* page derives it from checked steps and attempts, with the curriculum of *)
(* the API revision that serves it, by several queries that each see the   *)
(* committed state of their own moment.  Meanwhile attempts are submitted  *)
(* past the phase gate, settle or are released, steps are checked and      *)
(* unchecked, accounts are erased and created again, and revisions with    *)
(* another curriculum roll out.                                            *)
(***************************************************************************)
EXTENDS Naturals, FiniteSets, SequencesExt

CONSTANTS
    User, Step, Requirement,
    Catalogs, \* curricula, each with its phases, topics and requirements
    First,    \* the curriculum deployed at the start
    Pages,    \* the kinds of page requested
    MaxRows,  \* attempts per user
    MaxLives  \* accounts per user

ASSUME CatalogAssumption ==
    /\ First \in Catalogs
    /\ \A cat \in Catalogs :
         /\ cat.phases \in SUBSET (0..7)
         /\ cat.topics \in [cat.phases -> Seq(SUBSET Step)]
         /\ cat.requirements \in [cat.phases -> SUBSET Requirement]

(* Steps and requirements are rows of tables and entries of files.         *)
ASSUME FiniteAssumption == IsFiniteSet(Step) /\ IsFiniteSet(Requirement)

ASSUME LivesAssumption == MaxLives \in Nat \ {0}

VARIABLES
    life,    \* how many accounts a user has created
    alive,   \* users with an account
    done,    \* learner_step_completions
    rows,    \* attempts by user and requirement, in order of creation
    pending, \* submissions past the preconditions, before their insert
    live,    \* curricula some API revision serves
    view,    \* the page being rendered
    overtaken, \* history: requirements that got an attempt after their success
    gone     \* history: at which reads of the page an account was erased

tables == <<life, alive, done, rows, pending, live, overtaken>>
vars == <<tables, view, gone>>

(* "failed" stands for server errors and cancellations too: all that looks *)
(* at an outcome here asks only whether it is a success.                   *)
Outcome == {"succeeded", "failed"}
None == [kind |-> "none"]

-----------------------------------------------------------------------------
StepsOf(cat, p) == UNION ToSet(cat.topics[p])
AllSteps(cat) == UNION {StepsOf(cat, p) : p \in cat.phases}
RequirementsOf(cat, p) == IF p \in cat.phases THEN cat.requirements[p] ELSE {}
AllRequirements(cat) == UNION {cat.requirements[p] : p \in cat.phases}

Succeeded(u) == {r \in Requirement : "succeeded" \in ToSet(rows[u][r])}
Active(u) == {r \in Requirement : "active" \in ToSet(rows[u][r])}
Terminal(u, r) == {i \in DOMAIN rows[u][r] : rows[u][r][i] # "active"}

LatestTerminal(u, r) ==
    IF Terminal(u, r) = {} THEN "none" ELSE rows[u][r][Max(Terminal(u, r))]

(* Defect: one requirement of the set is enough.                           *)
LenientAllSucceeded(u, requirements) ==
    requirements = {} \/ Succeeded(u) \cap requirements # {}

AllSucceeded(u, requirements) ==
    Cardinality(Succeeded(u) \cap requirements) >= Cardinality(requirements)

Prerequisite(p) == IF p \in 4..7 THEN {p - 1} ELSE {}

(* is_phase_verification_locked, which the submit path repeats.            *)
Locked(u, cat, p) ==
    \E prereq \in Prerequisite(p) :
        /\ RequirementsOf(cat, prereq) # {}
        /\ ~AllSucceeded(u, RequirementsOf(cat, prereq))

(* Bound: attempts per user.                                               *)
BelowMaxRows(u) ==
    FoldFunction(LAMBDA s, n : Len(s) + n, 0, rows[u]) < MaxRows

-----------------------------------------------------------------------------
Init ==
    /\ life = [u \in User |-> 1]
    /\ alive = User
    /\ done = [u \in User |-> {}]
    /\ rows = [u \in User |-> [r \in Requirement |-> <<>>]]
    /\ pending = [u \in User |-> None]
    /\ live = {First}
    /\ view = None
    /\ overtaken = [u \in User |-> {}]
    /\ gone = [u \in User |-> {}]

(* The preconditions are read in a session that is closed before the       *)
(* insert, with the curriculum of the revision that serves the request.    *)
CheckPreconditions(u) ==
    /\ u \in alive /\ pending[u] = None /\ BelowMaxRows(u)
    /\ \E cat \in live : \E p \in cat.phases : \E r \in cat.requirements[p] :
         /\ r \notin Succeeded(u)
         /\ ~Locked(u, cat, p)
         /\ pending' = [pending EXCEPT ![u] =
              [kind |-> "submit", requirement |-> r, phase |-> p,
               cat |-> cat, life |-> life[u]]]
    /\ UNCHANGED <<life, alive, done, rows, live, overtaken, view, gone>>

(* create_or_get_active, under the lock of the requirement, looks again    *)
(* for a success, but not at the gate.                                     *)
CheckSucceeded(u) ==
    /\ pending[u].kind = "submit"
    /\ pending' = [pending EXCEPT ![u] =
         IF pending[u].requirement \in Succeeded(u) THEN None
         ELSE [pending[u] EXCEPT !.kind = "looked"]]
    /\ UNCHANGED <<life, alive, done, rows, live, overtaken, view, gone>>

(* Its next statement looks for an active row.  A finalize takes no lock   *)
(* and may have committed a success in between.  Without a user row the    *)
(* foreign key refuses the insert.                                         *)
InsertAttempt(u) ==
    /\ pending[u].kind = "looked"
    /\ LET r == pending[u].requirement
           created == u \in alive /\ r \notin Active(u)
       IN /\ rows' = IF created THEN [rows EXCEPT ![u][r] = Append(@, "active")]
                     ELSE rows
          /\ overtaken' = IF created /\ r \in Succeeded(u)
                          THEN [overtaken EXCEPT ![u] = @ \cup {r}] ELSE overtaken
    /\ pending' = [pending EXCEPT ![u] = None]
    /\ UNCHANGED <<life, alive, done, live, view, gone>>

Settle(u) ==
    /\ \E r \in Active(u), outcome \in Outcome :
          rows' = [rows EXCEPT ![u][r] = Append(Front(@), outcome)]
    /\ UNCHANGED <<life, alive, done, pending, live, overtaken, view, gone>>

(* The attempt could not be started and is deleted again.                  *)
Release(u) ==
    /\ \E r \in Active(u) : rows' = [rows EXCEPT ![u][r] = Front(@)]
    /\ UNCHANGED <<life, alive, done, pending, live, overtaken, view, gone>>

(* A step that the serving revision does not know refreshes the page.      *)
KnownStep(step) == \E cat \in live : step \in AllSteps(cat)

CompleteStep(u) ==
    /\ u \in alive
    /\ \E step \in Step :
          KnownStep(step) /\ done' = [done EXCEPT ![u] = @ \cup {step}]
    /\ UNCHANGED <<life, alive, rows, pending, live, overtaken, view, gone>>

UncompleteStep(u) ==
    /\ u \in alive
    /\ \E step \in done[u] : KnownStep(step) /\ done' = [done EXCEPT ![u] = @ \ {step}]
    /\ UNCHANGED <<life, alive, rows, pending, live, overtaken, view, gone>>

(* History: the read of a community page that was due when u was erased.   *)
NoteErasure(u) ==
    gone' = IF view.kind = "community"
            THEN [gone EXCEPT ![u] = @ \cup {view.at}] ELSE gone

(* Defect: the attempts do not go with their user.                         *)
EraseWithoutCascade(u) ==
    /\ u \in alive /\ life[u] < MaxLives
    /\ alive' = alive \ {u}
    /\ done' = [done EXCEPT ![u] = {}]
    /\ NoteErasure(u)
    /\ UNCHANGED <<life, rows, pending, live, overtaken, view>>

EraseAccount(u) ==
    /\ u \in alive /\ life[u] < MaxLives
    /\ alive' = alive \ {u}
    /\ done' = [done EXCEPT ![u] = {}]
    /\ rows' = [rows EXCEPT ![u] = [r \in Requirement |-> <<>>]]
    /\ overtaken' = [overtaken EXCEPT ![u] = {}]
    /\ NoteErasure(u)
    /\ UNCHANGED <<life, pending, live, view>>

SignInAgain(u) ==
    /\ u \notin alive
    /\ alive' = alive \cup {u}
    /\ life' = [life EXCEPT ![u] = @ + 1]
    /\ UNCHANGED <<done, rows, pending, live, overtaken, view, gone>>

(* A revision rolls out beside the old one, which then drains.             *)
Deploy ==
    /\ \/ Cardinality(live) = 1 /\ \E cat \in Catalogs \ live : live' = live \cup {cat}
       \/ Cardinality(live) > 1 /\ \E cat \in live \ {First} : live' = {cat}
    /\ UNCHANGED <<life, alive, done, rows, pending, overtaken, view, gone>>

-----------------------------------------------------------------------------
(* A page: the queries of a request in their order, each an action.        *)
OpenPage(u) ==
    /\ view = None /\ u \in alive
    /\ \E kind \in Pages, cat \in live : \E p \in cat.phases :
         /\ kind # "phase" => p = Min(cat.phases)
         /\ view' =
              [kind |-> kind, user |-> u, cat |-> cat, phase |-> p, life |-> life,
               at |-> IF kind = "community" THEN "completions" ELSE "steps",
               steps |-> {}, verified |-> {}, latest |-> <<>>, active |-> {},
               locked |-> FALSE, destination |-> <<>>,
               completers |-> <<>>, accounts |-> {}, members |-> {}]
    /\ UNCHANGED <<tables, gone>>

Load(at, next, seen) ==
    /\ view # None /\ view.at = at
    /\ view' = [field \in DOMAIN view |->
                  IF field = "at" THEN next
                  ELSE IF field \in DOMAIN seen THEN seen[field] ELSE view[field]]
    /\ UNCHANGED <<tables, gone>>

(* fetch_user_progress and fetch_phase_progress ask only for what the      *)
(* catalog still has.                                                      *)
ReadSteps ==
    Load("steps", "succeeded", [steps |-> done[view.user] \cap AllSteps(view.cat)])

ReadSucceeded ==
    Load("succeeded", IF view.kind = "phase" THEN "latest" ELSE "continue",
         [verified |-> Succeeded(view.user) \cap AllRequirements(view.cat)])

(* Defect: the cards show the first result, not the latest.                *)
ReadFirst ==
    Load("latest", "active",
         [latest |-> [r \in view.cat.requirements[view.phase] |->
            IF Terminal(view.user, r) = {} THEN "none"
            ELSE rows[view.user][r][Min(Terminal(view.user, r))]]])

ReadLatest ==
    Load("latest", "active",
         [latest |-> [r \in view.cat.requirements[view.phase] |->
            LatestTerminal(view.user, r)]])

ReadActive ==
    Load("active", "lock",
         [active |-> Active(view.user) \cap view.cat.requirements[view.phase]])

(* Defect: the lock asks for one success of the phase before.              *)
LenientReadLock ==
    Load("lock", "shown", [locked |-> \E p \in Prerequisite(view.phase) :
         Succeeded(view.user) \cap RequirementsOf(view.cat, p) = {}])

ReadLock ==
    Load("lock", "shown", [locked |-> Locked(view.user, view.cat, view.phase)])

(* Defect: steps are not grouped by phase.                                 *)
CheckedAnywhere(p) == Cardinality(view.steps)

(* The counts of PhaseProgress: sizes, not sets.                           *)
Checked(p) == Cardinality(view.steps \cap StepsOf(view.cat, p))
Validated(p) == Cardinality(view.verified \cap view.cat.requirements[p])
LearningComplete(p) == Checked(p) >= Cardinality(StepsOf(view.cat, p))
VerificationComplete(p) == Validated(p) >= Cardinality(view.cat.requirements[p])
PhaseComplete(p) == LearningComplete(p) /\ VerificationComplete(p)
PhaseStatus(p) ==
    LET steps == StepsOf(view.cat, p)  requirements == view.cat.requirements[p]
        both == steps # {} /\ requirements # {} /\ ~PhaseComplete(p)
    IN CASE steps = {} /\ requirements = {} -> "not_started"
         [] steps \cup requirements # {} /\ PhaseComplete(p) -> "completed"
         [] both /\ LearningComplete(p) -> "learning_complete"
         [] both /\ VerificationComplete(p) -> "verification_complete"
         [] OTHER -> IF Checked(p) + Validated(p) > 0
                     THEN "in_progress" ELSE "not_started"
ProgramComplete == \A p \in view.cat.phases : PhaseComplete(p)

(* Defect: the last incomplete phase.                                      *)
LastIncompletePhase ==
    IF ProgramComplete THEN Max(view.cat.phases)
    ELSE Max({p \in view.cat.phases : ~PhaseComplete(p)})

CurrentPhase ==
    IF ProgramComplete THEN Max(view.cat.phases)
    ELSE Min({p \in view.cat.phases : ~PhaseComplete(p)})

(* resolve_continue_destination: the first topic with an unchecked step,   *)
(* then the verification section, then the phase itself.                   *)
Destination(p, checked) ==
    LET topics == view.cat.topics[p]
        open == {k \in DOMAIN topics : ~(topics[k] \subseteq checked)}
    IN IF open # {} THEN <<"topic", Min(open)>>
       ELSE IF view.cat.requirements[p] # {} THEN <<"verification">>
       ELSE <<"phase">>

ReadContinue ==
    Load("continue", "shown",
         [phase |-> CurrentPhase,
          destination |-> IF ProgramComplete THEN <<>>
                          ELSE Destination(CurrentPhase, done[view.user])])

(* list_phase_completions: users by phase, over the phases of the catalog  *)
(* that have requirements.                                                 *)
Completable(cat) == {p \in cat.phases : cat.requirements[p] # {}}
Completers(cat, p) == {u \in User : AllSucceeded(u, cat.requirements[p])}

ReadCompletions ==
    Load("completions", "accounts",
         [completers |-> [p \in Completable(view.cat) |-> Completers(view.cat, p)]])
ReadAccounts == Load("accounts", "members", [accounts |-> alive])
Graduates ==
    IF DOMAIN view.completers = {} THEN {}
    ELSE {u \in User : \A p \in DOMAIN view.completers : u \in view.completers[p]}

(* Defect: graduates are listed without a look at the accounts.            *)
ReadMembersUnfiltered == Load("members", "shown", [members |-> Graduates])

ReadMembers == Load("members", "shown", [members |-> Graduates \cap alive])

ClosePage ==
    /\ view # None /\ view.at = "shown" /\ view' = None
    /\ gone' = [u \in User |-> {}]
    /\ UNCHANGED tables

Learner(u) ==
    \/ CheckPreconditions(u) \/ CheckSucceeded(u) \/ InsertAttempt(u)
    \/ Settle(u) \/ Release(u)
    \/ CompleteStep(u) \/ UncompleteStep(u) \/ EraseAccount(u) \/ SignInAgain(u)
    \/ OpenPage(u)
Page ==
    \/ ReadSteps \/ ReadSucceeded \/ ReadLatest \/ ReadActive \/ ReadLock
    \/ ReadContinue \/ ReadCompletions \/ ReadAccounts \/ ReadMembers \/ ClosePage
Next == Page \/ Deploy \/ \E u \in User : Learner(u)
Spec == Init /\ [][Next]_vars

-----------------------------------------------------------------------------
TypeOK ==
    /\ life \in [User -> 1..MaxLives] /\ alive \subseteq User
    /\ done \in [User -> SUBSET Step]
    /\ \A u \in User, r \in Requirement :
          /\ ToSet(rows[u][r]) \subseteq Outcome \cup {"active"}
          /\ rows[u][r] # <<>> => "active" \notin ToSet(Front(rows[u][r]))
    /\ live # {} /\ live \subseteq Catalogs
    /\ view = None \/ view.kind \in Pages

Shown(kind) == view # None /\ view.at = "shown" /\ view.kind = kind
SameAccount == life[view.user] = view.life[view.user] /\ view.user \in alive

CardState(r) ==
    IF r \in view.active THEN "checking"
    ELSE CASE view.latest[r] = "none" -> "not_started"
           [] view.latest[r] = "succeeded" -> "passed"
           [] OTHER -> "not_passed"

(* A phase page whose header counts every requirement as verified shows    *)
(* every card as passed, although the header, the results and the spinners *)
(* come from three queries with writes in between.  The one exception is a *)
(* requirement for which a submit overtook its own success (submit_race).  *)
CardsAgreeUnlessOvertaken ==
    Shown("phase") /\ SameAccount /\ VerificationComplete(view.phase) =>
        \A r \in view.cat.requirements[view.phase] :
            CardState(r) = "passed" \/ r \in overtaken[view.user]

(* A phase's badge names what is left: completed rests on every step that  *)
(* was checked and every requirement that still has its success, the       *)
(* half-complete ones leave work on the other side, and a started phase is *)
(* not called untouched, whatever an earlier curriculum left in the tables.*)
StatusNamesWhatIsLeft ==
    Shown("phase") \/ Shown("dashboard") => \A p \in view.cat.phases :
        LET left == StepsOf(view.cat, p) \ view.steps
            unverified == view.cat.requirements[p] \ view.verified
            status == PhaseStatus(p)
        IN /\ status = "completed" /\ SameAccount =>
                left = {} /\ view.cat.requirements[p] \subseteq Succeeded(view.user)
           /\ status = "learning_complete" => left = {} /\ unverified # {}
           /\ status = "verification_complete" => left # {} /\ unverified = {}
           /\ status = "not_started" =>
                left = StepsOf(view.cat, p) /\ unverified = view.cat.requirements[p]

(* A phase page without a lock stays right: as long as the account lives,  *)
(* a submission from it under the same curriculum passes the gate.         *)
UnlockedIsAccepted ==
    Shown("phase") /\ SameAccount /\ ~view.locked =>
        \A prereq \in Prerequisite(view.phase) :
            RequirementsOf(view.cat, prereq) \subseteq Succeeded(view.user)

(* Continue leads to work the learner may do: the phase is past its gate,  *)
(* and unless another tab checked the last step between the two reads it   *)
(* has an unchecked step or a requirement that had not succeeded.          *)
ContinueLeadsToWork ==
    Shown("dashboard") /\ view.destination # <<>> =>
        /\ \A prereq \in Prerequisite(view.phase) :
              RequirementsOf(view.cat, prereq) \subseteq view.verified
        /\ view.destination[1] # "topic" /\ LearningComplete(view.phase) =>
              /\ view.destination[1] = "verification"
              /\ ~(view.cat.requirements[view.phase] \subseteq view.verified)

(* Within one account, an attempt of a gated phase exists only if every    *)
(* requirement of the phase before had succeeded under the curriculum the  *)
(* gate read, although the insert does not look at the gate again.         *)
GateHeldWithinLife ==
    [][\A u \in User, r \in Requirement :
         Len(rows'[u][r]) > Len(rows[u][r]) /\ pending[u].life = life[u] =>
             \A prereq \in Prerequisite(pending[u].phase) :
                 RequirementsOf(pending[u].cat, prereq) \subseteq Succeeded(u)]_vars

(* A graduate on the community page has an account, even one who erased it *)
(* while the page was being read: only an erasure after the list was read  *)
(* is not on it.  And a graduate has every success the page's curriculum   *)
(* asks for, unless the account was erased since the successes were read.  *)
CommunityIsTruthful ==
    Shown("community") => \A u \in view.members :
        /\ "shown" \notin gone[u] => u \in alive
        /\ gone[u] \subseteq {"completions"} =>
              AllRequirements(view.cat) \subseteq Succeeded(u)

(* Every level of the funnel is made of accounts the page counts; one that *)
(* is not counted was erased between the two reads.                        *)
FunnelFitsAccounts ==
    Shown("community") =>
        \A p \in DOMAIN view.completers : \A u \in view.completers[p] :
            u \notin view.accounts => "accounts" \in gone[u]
=============================================================================
