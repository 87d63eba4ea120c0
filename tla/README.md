# Learn to Cloud: a TLA+ model of the verification system

Learn to Cloud is a course site. A learner signs in with GitHub, ticks off the
steps of each phase and submits hands-on work for verification. The API takes a
submission, stores it as a *verification attempt* in PostgreSQL, and asks an
Azure Functions app to run a Durable orchestration that verifies, grades and
finalizes it. This directory models the parts of that system whose correctness
depends on order, failure and concurrency, checks them with TLC and proves the
central properties with TLAPS.

Paths below are relative to the repository. `SH` stands for
`packages/learn-to-cloud-shared/src/learn_to_cloud_shared`, `API` for
`api/src/learn_to_cloud`, `FA` for `apps/verification-functions/function_app.py`.

## Inventory

| Component | State it keeps | Operations | What is hard | What makes it correct |
|---|---|---|---|---|
| Attempt table (`SH/models.py`, `SH/repositories/verification_attempt_repository.py`) | one row per attempt: outcome, started_at, terminal_source; a partial unique index on active rows; the account's foreign key | create_or_get_active, mark_started, delete_active, finalize, list_active_older_than | many writers, READ COMMITTED, an advisory lock only some of them take | one active row per slot, terminal rows are final |
| Submit endpoint (`API/routes/htmx_routes.py`, `API/services/submissions_service.py`, `durable_verification_client.py`) | none between requests | preconditions, locked transaction, start call, clean-up | crash or timeout between commit and start call | a failed start frees the slot and never removes a running attempt's row |
| Start endpoint (`FA` 731-938) | the claim (`started_at`) | claim, start_new, resolve, terminalize | database and Durable are two systems; start_new may raise and still succeed | one start_new per attempt |
| Orchestration (`FA` 283-637, `SH/verification_attempt_executor.py`) | the Durable history | prepare, verify, grade, finalize, terminalize | at-least-once activities, exhausted retries, termination | Completed implies recorded |
| Reconciler (`FA` 941-1056, `SH/verification_attempt_reconciler.py`) | none; a stale list within a pass | scan, inspect, terminalize | acts on stale reads; aborted passes; a bounded batch | every attempt settles, healthy ones are left alone |
| Status poller (`API/routes/htmx_routes.py` 592-686) | a signed token in the browser | read Durable status, terminalize failures | races with the other finalizers | never overwrites a result |
| Accounts (`API/services/users_service.py`) | users row | sign in (create or refresh), delete with cascade | deletion while an orchestration runs | nothing of an erased account comes back |
| Sign-in and identity (`API/routes/auth_routes.py`, `core/auth.py`, `SH/submission_*.py`) | a login in the row, in each cookie, in each attempt | sign in, log out, derive a value, store and read it | logins change and change hands between the writes | what is verified is what was submitted, of the account that submitted it |
| Verification engine (`SH/verification/engine.py`, the checks beside it) | none | run a profile's gates, aggregate, build grading requests | folding several verdicts; outages beside failures; retries | the run's outcome is the right one for what its services answered |
| LLM grading (`SH/verification/llm_grading.py`, `FA` 298-496) | none | grade each request, merge, fail | partial failures, content filter | no pass without a decision for every request |
| Evidence (`SH/verification/evidence.py`, `repo_files.py`) | none | select paths, fetch, cap | overlapping patterns, caps in mid-list | the longest fitting prefix of the right choice |
| Deployed API check (`SH/verification/deployed_api.py`) | an entry on the learner's server | create, read back, delete, retry | retried non-idempotent POST, two deliveries at once | only a server that stores the nonce passes; no entry but the run's own is deleted |
| Progression (`SH/requirements.py`, `API/services/progress_service.py`, `steps_service.py`, ...) | step completions | complete/uncomplete step, phase gate, programme completion, funnel, dashboard | derived by several reads while rows and curricula change | pages, gate and funnel agree |
| Curriculum artifact (`SH/content_yaml_loader.py`, `content_compiler.py`, `content_catalog.py`) | authored YAML, a compiled JSON file, a catalog per process | load, validate, compile with a version policy, index, snapshot | two loaders; edits, merges, deployments and long-lived processes | versions rise with the content; an attempt is graded by the definition in its row |
| Legacy bridge (migrations 0049-0055) | triggers | backfill, mirror job rows to attempts, drop the old tables | old and new workers side by side | no verdict is lost or rewritten, the last change of a step wins |

The submit endpoint asks progression for the gate and identity for the value,
inserts through the attempt table and calls the start endpoint over HTTP; that
starts an orchestration whose activities run the engine and the grading and
write the table again. The poller and the reconciler ask Durable for the status of an
instance and write the table when it is over. Pages derive everything else from
the table, the step completions and the catalog the process loaded.
`PROJECT.json` lists every component, the ones left out included, and every
hazard with the line where it bites.

## Modules

| Module | Models | State and actions |
|---|---|---|
| `VerificationAttempts` | the table and each repository write as one atomic statement | `outcome`, `startedAt`, `stale`; Insert, MarkStarted, DeleteActive, Finalize, EraseUser, RestoreUser |
| `DurableInstances` | the orchestration of an attempt and its activities | `stage`, `verdict`, `dispatched`; one action per activity, retry, lost completion |
| `AttemptLifecycle` | the composition of both with submit requests, start endpoint, poller, reconciler, accounts | a program counter per request, delivery and pass; one action per await |
| `AttemptContract` | abstract: what the table promises its readers | refined by `AttemptLifecycle` |
| `RunContract` | abstract: what the orchestration relies on between prepare and finalize | refined by `Verification` |
| `GateChecks` | each check of a profile as a function of the answers it reads | operators: a `ValidationResult` per combination of answers |
| `VerificationRun` | one run: engine, Durable's retries, grading, failures of the grading | `steps` and `read` of the current execution, `run` and `decisions` in the history; Evaluate, FinishRun, GradeRequest, ApplyDecisions, ... |
| `EvidenceBundle` | selection, fetching and packing of evidence | `selected`, `fetched`, `items`; one action per loop iteration |
| `DeployedApiChallenge` | the nonce entry on a learner's API, several runs at once | `held` (entries on the API), `known` (the id a run remembers); one action per HTTP attempt |
| `Verification` | the composition of the three: the two long checks step by step inside the engine | `callAt` per execution, `loop`; ChallengeStep, CollectionStep, EndChallenge, EndCollection, Redeliver, OldWorkerStep |
| `Progression` | gate, steps, completion, pages, dashboard, community page | `rows`, `done`, `live` (curricula served), `view` (the page being put together); `overtaken` and `gone` are history; one action per query |
| `CurriculumTree` | YAML tree, two loaders, validators, compiler, indexes | files as records; an action per edited field, Validate, Compile |
| `CurriculumRelease` | branches, CI's version policy, deployment, catalogs, snapshots | `branch`, `main`, `deployed`, `api`, `page`, `attempts`; EditTree, CompileLocally, Push, CheckMain, Dispatch, SkipCheck, Deploy, StartApi, OpenPage, Submit, Prepare |
| `LegacyBridge` | migrations 0049-0055 beside legacy and new writers | `jobs`, `attempts`, `rev`, `tx`, `progress`, `completions`; Migrate per statement that commits or sees other writers, NewCompleteStep, NewUncompleteStep |
| `ReconcilerBatch` | the limited scan over several rows | `queue` in the order the scan sorts by, `batch`, `runtime`; Scan, Inspect, Terminalize |
| `LearnerIdentity` | whose login and which value a submission carries | `login` at GitHub, `row`, `session`, `attempt`; Rename, FetchProfile, SignIn, Submit, Prepare, Settle |
| `MC...` | values of the constants for TLC | |
| `AttemptLifecycleProofs`, `VerificationProofs`, `LearnerIdentityProofs`, `ProgressionProofs`, `CurriculumTreeProofs`, `CurriculumReleaseProofs`, `LegacyBridgeProofs` | theorems about the module of that name | |
| `EvidenceProofs` | theorems about the collection of evidence inside `Verification`, beside `VerificationProofs` | |

**One system, several modules.** `AttemptLifecycle` treats a verification as a
verdict chosen by `Verify` and `Grade`; `Verification` is that choice in
detail, and `ImplementsRunContract` checks that it makes no step the choice
does not allow. The lifecycle takes the phase gate for a refusal that may always
happen; `Progression` computes it. Its insert keeps the two reads of
`create_or_get_active` as two steps, because a finalization can fall between them,
and leaves the lock out: a learner has one submission at a time there, which is a
bound of that module. `ReconcilerBatch` keeps of the
other writers only that rows are created, claimed, settled and deleted. An attempt
in `LearnerIdentity`, `CurriculumRelease` and `Progression` is the same row,
reduced to the login, the curriculum version or the outcome it carries.

**The lifecycle.** `outcome` is the column of that name; a missing row carries its
reason (`absent` before the insert, `discarded` by delete_active, `erased` by the
cascade). `startedAt` and `stale` abstract the timestamps to what their readers
ask. `late` is a start_new that raised and will create the instance later.
`pc`, `shown`, `lock`, `sent` belong to a submit request (named by the attempt id
it would create); `hpc`, `serving`, `reply` to an invocation of the start
endpoint; `backlog`, `condemned`, `sentence` to the reconciler pass. Every await
on the database or the network ends a step. The locked submit transaction is four
steps (lock, two reads, insert and commit) because under READ COMMITTED the two
reads see different states. Reading a Durable status and acting on it are two
steps in the reconciler and one in the poller, where the statuses acted on are
final. A session cookie is not checked against the users table, so a deleted
account's other browsers go on submitting and polling. `Fault` spends one of
`MaxFaults`: an API or Functions process dies, start_new raises (instance created,
lost, or late), a status query fails, an activity's completion is lost after its
commit, retries are exhausted, the reconciler dies. Client timeouts, a missing
configuration, an unavailable token, termination of an instance and deletion of
the account are free.

**The verification run.** A step of the engine ends with a gate's result, a
grading task, or an exception. `read` remembers the answers the current execution
saw, so that a verdict can be compared with what the services said. GitHub's
answers are taken after the client's own retries: a 404, another refusal, an
outage. The grader is free to accept, reject or stay below the passing score.
Most checks are one step, a function of their answers. Two have state of their own
and are modules that `Verification` instantiates: a step `deployed_api_check` can
end only when the current execution's challenge has, and with its result; a step
`llm_discover_review` ends with what the collection found, or earlier when the
listing or a fetch raises. `Redeliver` is Durable giving the activity to another
worker: the evidence is collected anew, while the challenge of the old worker may
go on (`OldWorkerStep`) beside the new one, on one API. A file of `EvidenceBundle`
is its place in the order `sorted()` puts the paths in; all the code asks of a name
is its casefolded form (`Fold`), which two files may share.

**Progress.** A page is a sequence of queries, each of which sees the state of
its own moment, while other actions interleave; the catalog is the one of the
revision that answers. `life` numbers the accounts of one person, so that what
an erased account achieved is told apart from what its successor did. Two variables
are history: `overtaken` holds the requirements that got a further attempt after
their success (what `submit_race` shows), whose card says "checking" or "failed" under
a header that counts them as verified; `gone` says after which query of the community
page an account was erased. What an erasure may leave on that page is stated with it: a
graduate who was erased and came back after the successes were read is listed without any, and
one erased before the accounts were counted is counted in a level of the funnel only.

**Curriculum.** Files are records of the fields the loaders, validators and
indexes look at; an edit changes one field, or breaks, removes or restores a file.
In `CurriculumRelease` the tree of a commit is one value of `Contents`, its hash is
injective, and what git does at a merge is external: a branch that forked from the
head of main can be pushed to it, whether its own check was green, red or never
run, because nothing in the repository protects main. A head comes to the deploy
job in three ways: the run of its push compares it with the head before that push
(`CheckMain`), a `workflow_dispatch` has no prior SHA and only recompiles
(`Dispatch`), and a ci that was skipped or cancelled stops nothing (`SkipCheck`). Whichever
way, the built image has to load its catalog (runtime_package_check, part of
`Deploy`), so what is deployed always loads. `overlooked` is history and says that a
head which does not pass the check of its push was pushed over or let through
by a run without it. Versions are claimed to rise, and to tell the definition, only while it is
false. A page stays open over rollouts (`page`), and its form carries only the
requirement's slug: what is submitted from it is graded by the definition of the process that
answers. `GradedAsShown` claims that this definition, in the attempt's row, is the
one the workers use, and that a page of the same version showed no other.

**Legacy bridge.** One learner and one requirement, which is the scope of the
active index. Revision 0049 is one transaction whose statements see what others
committed in between (`tx`, `draft`); the table locks it takes make some of its
statements exclude writers. New replicas start after 0050 and legacy ones have
retired before 0055, as the migrations' own text requires. New replicas are those of
this commit, whose `steps_service.py` writes `learner_step_completions` alone, so the
two tables of steps part; the release between, which deleted from both (`build-out-notes.md`,
PR 8), is not in `src/`. `checked` is history: the steps whose last change, through
either table, was a check. A legacy check of a step the old table still holds changes no row
and is no change here.

**Identity.** Logins are in lower case or capitalised, to tell comparisons that
ignore case from those that do not. GitHub lets an account rename itself and
another take the login it gave up. The submit transaction is one step here.

Operators whose comment starts with "Defect:" are seeded defects: variants of
the definition that follows them, used only to confirm that a property notices
the mistake. No specification refers to them.

## Runs

| Run | Question | Bounds, and why they are enough |
|---|---|---|
| `attempt_lifecycle` | safety and refinement of the whole composition | two submits of one slot, one delivery, one fault: writes name one attempt, and the lock, the index and the reads one slot, so two attempts meet in every conflict the table has |
| `start_claim` | duplicate deliveries of a start, and does every active attempt settle | one attempt, two deliveries, two faults: a lost start and a lost answer are needed together |
| `verification` | are outages kept from the learner, successes earned, challenges and bundles right, and is the contract kept | all ten profiles, every answer of every service, tokens with up to two defects, the code's activity retries (3 and 4), one redelivery, so two executions that may overlap; two attempts per request of the challenge, every URL class and set of entries; every tree of four paths: one exact name, two spellings of another that also lies in a directory, and one more file there; room for two files, sizes below and above the cap |
| `progression` | do phase pages and dashboards agree with themselves, with the gate, with the tables | one learner, two phases (one gated), two steps, three requirements, two attempts, two accounts in turn; a second curriculum that retires a step, moves it and adds a requirement; changes between any two queries |
| `community` | who is listed as a graduate, and is the funnel made of accounts | two learners, one attempt each, two accounts in turn, two requirements of which one moves to another phase: an erasure between any two of the three reads, beside somebody who stays |
| `curriculum_tree` | is what compiles whole and valid, and what does an index hide | two phases of up to two topics and requirements, two edits anywhere: a collision needs two files, a hidden file one more |
| `curriculum_release` | do versions rise with the content, does what is deployed load, is an attempt graded by its own definition | two authors, two contents, two versions, two pushes, two attempts, one open page: a race at the version policy needs two branches, a head that is pushed over two pushes, a page older than its submit one rollout |
| `legacy_bridge` | is anything lost, stranded or rewritten on the way, and does the last change of a step win | three jobs, an orphan submission, two new attempts, one step (steps do not meet); symmetry among jobs and attempts |
| `reconciler_batch` | does a limited scan reach every abandoned row | three rows, a batch of two, one suspended instance: one more row than a pass holds, one row that never leaves; one failed query, dead pass or resumption |
| `learner_identity` | whose login, whose submission, whose lab token | two accounts, two browsers, three logins, two renames, one attempt: a login is given up and taken; a derived value and a lab token in either spelling |
| `submit_race`, `auth_failure` | what a docstring says and the code does not do | two submits of one slot; the shortest counterexample has one attempt more than the docstring thinks of |

Deadlock is not checked by the passing runs: these systems rest when all requests
ended, all rows are settled and the bounds are used up. In the reconciler runs
an instance that ends without a result ends as `Canceled`; the code's other final
statuses are treated alike by the decision, which `AttemptLifecycle` has in full.
In `Progression` every outcome but success is `failed`: nothing that reads
progress tells them apart.
Every module states the shape of its variables in `TypeOK` (in `Verification`,
`AllTyped`); only `attempt_lifecycle` keeps it among its properties, because in
the other modules (where it was checked as well) a wrong type shows as an error of evaluation or in the
properties about the values.
The theorems remove the bounds for the properties they cover.

**Fairness.** Safety runs use none that matters to them. The liveness properties
assume, and the code justifies, weak fairness of:

* `AttemptLifecycle` (`FairSpec`): each instance's orchestrator steps (Durable runs
  what it has dispatched), ageing, and the reconciler's steps (its timer fires every
  15 minutes). Nothing of learners, browsers, deliveries or the start endpoint.
* `ReconcilerBatch`: ageing, the scan, the inspection of the next row, its
  terminalization, and the end of a *running* instance, whose activities have
  bounded retries. Not of the resumption of a suspended instance: an operator
  may never do it, and `AbandonedIsReconciled` holds for fewer of these than the
  batch holds (more of them are discussed below).
* `Verification`: the current execution and the grading (`Progress`). Durable runs
  an activity until it completes or its retries are used up, every request has a
  timeout, and that the whole ends is then a matter of the retry counts and of
  loops that end. Never of a worker thought dead, of the learner's writing, or of
  a crash.

Fault budgets are finite, which says that a component does not fail for ever.

## What the violation runs show

* `submit_race`: `finalize` takes no advisory lock and the two reads of
  `create_or_get_active` are separate statements. When a finalization commits
  between them the learner gets a second, active attempt for a requirement that
  was just passed. The docstring says the recheck closes this race. On the phase page
  the requirement then counts as verified while its card is checking, and failed if
  that attempt fails (`overtaken` in `Progression`).
* `auth_failure`: `DurableVerificationAuthError` is raised before the start
  request leaves and is not caught, so the attempt holds its slot until the
  reconciler finds it. The docstring says such an attempt is deleted.

## Where code and documents differ beside that

The following was met while modelling. It is read from the source and from the
models' behaviour, no run here asserts it, and the properties of the passing runs
are stated so as not to depend on it.

* `SH/repositories/verification_attempt_repository.py:391`: rows whose instance is
  suspended or pending stay among the oldest; as many of them as the batch holds keep
  every younger row from being looked at. The docstring (360) says a pass drains the
  backlog deterministically. `AbandonedIsReconciled` is checked for fewer of them.
* `SH/verification/repo_files.py:68`: a file GitHub could not serve is treated as
  missing, and the rubric grades what is left; `schemas.py:953` says the user is not
  at fault then. `GateOutageNotBlamed` is about gates, not about reviews.
* `SH/verification/github_metadata.py:45`: a profile page that GitHub refuses (401, 403)
  counts as one that is not there, and the attempt as the learner's failure;
  `errors.py:91` calls such answers operational problems. `GateOutageNotBlamed` names
  it as its one exception (`PageRefused`).
* `SH/verification/token_base.py:63`: a lab token that decodes to something other than
  an object raises into the last handler and is recorded as a server error.
* `SH/verification/evidence.py:60`: five exact files of the full size do not fit the
  total cap that is said to spare them (`tasks/phase5.py:21`).
* `SH/verification/deployed_api.py:317`: a POST that took effect and was retried
  leaves an entry on the learner's API after a confirmed clean-up, whatever the
  docstring (577) says of deleting it. `CleanAfterSuccess` is about a single POST.
* `SH/verification/deployed_api.py:532`: entries that are not objects are filtered out
  before the validation that would refuse them.
* `API/services/submissions_service.py:250`: the gate is read in one session and the
  insert made in another; an account erased and created again in between submits
  past it. `GateHeldWithinLife` is about one account.
* `SH/requirements.py:84`: only phases 4 to 7 are gated, so the funnel of the first
  ones need not narrow, as `community_service.py:5` says it does.
* `API/routes/pages_routes.py:138`: an attempt that settles between the results query
  and the spinner query of a page is shown as not started.
* `API/routes/pages_routes.py:168`: after a rename and a sign-in elsewhere, a page shows
  a URL from the refreshed row and submits one from the old cookie.
* `SH/content_yaml_loader.py:253`: the validation script passes a tree whose last phase
  does not load.
* `SH/content_yaml_loader.py:374`: a topic's slug may differ from its file name, and the
  slug its phase lists then leads nowhere.
* `SH/content_yaml_loader.py:370`: topics are counted, their slugs compared by nobody, so
  two topics of a phase may share one. The later hides the earlier in
  `topics_by_phase_and_slug` (`content_catalog.py:151`), which nothing else in `src/` reads,
  while the topic page (`pages_routes.py:225`) takes the first.
* `.github/workflows/deploy.yml:199`: CI compares with the commit before the push, not
  with what was deployed, so after a push that failed its check content changes under
  one version; a dispatched run (202) compares no versions, and the deploy jobs (300,
  383) do not wait for a ci that was skipped. This is what `overlooked` excludes.
* `API/services/steps_service.py:127`: a step unchecked before 0055 by a replica that
  no longer writes `step_progress` leaves its row there, and the drain check (migration 0055, line
  115) refuses to drop the table until the step is checked again.
* Migration 0052, line 174: a job inserted while a new replica's attempt is active gets
  no attempt of its own until its link inserts one.

## Proofs

A theorem holds for all values of the constants that satisfy the named
assumptions. The properties of a component follow from one inductive invariant (of
the lifecycle, four that rest on each other), which TLC checked first on the instance of
the run. The headers say why the property alone is not inductive.

**The lifecycle** (`SlotAssumption`: every attempt has a slot, every slot an owner;
`FaultAssumption`; `NoAttemptAssumption`): any learners, slots, attempts,
deliveries and faults.

1. `TypeCorrect`: `TypeOK` needs `VerdictReady` (a dispatched finalize has a
   verdict to write) and `ServingKnown`; `TypeInv` is their conjunction. The
   lemma `NextTable` shows that every step treats the tables as one of the
   repository's writes does (`TableStep`), so the table's part is proved once
   per write and not once per action.
2. `LockIsDisciplined`, `InsertsNeverConflict`: `LockInv` adds `FreshRow` (no row
   before the request's own commit). The insert of one request cannot break the
   condition of another because both would hold the slot's lock.
3. `TerminalNeverChanges` and `LifecycleImplementsContract` follow from
   `RowStep`/`ContractStep`, lemmas about one write, and `LockInv`.
4. `StartsAreExclusive`, `InstancesKeepTheirRow`: `StartInv` says that an
   instance, present or to come, was claimed; that a claim is held by one
   invocation; that a claimed row is not deleted.
5. `CompletedIsRecorded`: an instance completes only by an activity that found
   the row.
6. `OutcomesAreExplained`: the row is compared with an instance that has moved
   on since, so `OutcomeInv` says that nothing a writer decided on is undone: a
   verdict is not drawn again after it was stored (`VerdictStored`, which needs
   that activities wait only at their own stage), and what the reconciler read
   stands when it writes (`SentenceStands`).

**The verification** (`AttemptsAssumption`, `FetchAssumption`):
any number of attempts, crashes and redeliveries. `VerificationInv` has three parts.

1. `ChallengeInv`: per execution, `CallGood` follows the challenge from POST to
   cleanup; an entry bears the execution that posted it, so that the others leave
   `CallGood` alone (`OthersStayGood`). From it: `OwnershipAlwaysProven`,
   `NothingLeftBehind`, `OnlyOwnEntriesDeleted`.
2. `EngineInv`: `StepsGood` says what the results of each step look like and that
   each answer read is explained by its step; `GradingGood` what a run waiting for
   its grading has recorded. The lemmas `SimpleEndsWell`, `CompositeEndsWell` and
   `TokenStands` go through the checks, `Aggregated` and `Requested` say what the
   engine makes of the steps (a profile has at most three, so that their
   flattening is computed by cases, in `Flattened`), `DecisionsJoined` what the
   grading does. From it: `OutagesNeverBlamed`, `SuccessIsEarned`,
   `RunsAreExplained`, `FeedbackAlwaysAgrees`.
3. `ChallengeReported` joins them: a step that passed rests on the challenge of the
   execution it belongs to.

`ContractKept` is the refinement of `RunContract`: by `StageSteps` a step stays in
its stage or leaves it with the outcomes the contract offers. That a run ends with
a verdict at all is `RunEnds`, and stays with TLC.

**The evidence** (`PolicyAssumption`: files are numbered, patterns form a list, caps and
sizes are numbers): any files, patterns, sizes and caps. Both halves of `EvidenceIsRight`
compare the end of a loop with what should come out, so `EvidenceInv` says of
every iteration how far it has got. `SelectionGood`: a chosen file has been taken just
when its pattern, or its place, has been passed, and what the limit shuts
out comes behind everything taken. `FetchedGood`: what is fetched is what can be read of
the files passed, in their order. `PackedGood`: packing stands right behind what it has
packed. `OneSpelling` and `FirstSpelling` say that a wanted name has exactly one
chosen file; `WeightOfAppend` that the weight, a recursive function, grows by what is
added. A redelivery begins anew (`FreshGood`), a step of anything else leaves the
collection as it is (`RestGood`). `AllAlwaysTyped` adds the lists' types to those of the
engine and the challenge.

**Identity** (`TypeAssumption`, `RenameAssumption`, `LoginAssumption`: a capitalised
login is not a login in small letters; `NoneAssumption`): any accounts, browsers and
renames. `IdentityInv` adds to `LoginsAreOwn` the stations before and after the row:
the login of a pending callback (`LoginsAtHand`) and the consistency of a stored
row with its snapshot (`RowsConsistent`), from which `SubmittedUrlIsVerified` and
`LabTokensStayOwn` follow.

**Progress** (`CatalogAssumption`, `FiniteAssumption`, `LivesAssumption`): any
curricula, learners, steps. A page keeps what its queries saw while rows change, so
`ProgressInv` says of each query what still holds: a success stays a success of
the same account (`PhaseSeen`, `CommunitySeen`); the gate an insert passed is open
until the account goes (`GateStillOpen`); attempts before the last one are
settled, and none of them is a success unless it was overtaken (`EarlierSettled`), by which
the latest attempt of a passed requirement is its success; attempts belong to accounts
that exist (`RowsOfAlive`), and an erasure during the community page leaves its mark in `gone`
(`ErasuresNoted`). Two things were restated for it. The latest terminal attempt was a
SelectSeq, of which nothing can be proved, and is now the one of the largest
index. The arms of `PhaseStatus` and `CardState` overlapped, as the code's `if`s
do; a CASE of overlapping arms is any of them, though TLC takes the first, so each
arm now excludes those before it.

**The curriculum tree** (`StemAssumption`: finitely many file names, two at least;
`EditAssumption`): two phase directories, any file names, files and edits, lists of any
length. `TreeInv` says
of a successful compile that the tree still loads strictly and the artifact is what
was built of it, that the artifact is valid whatever was compiled last, and that a
report of errors is about the tree as it stands; each edit withdraws report and compile,
which is why the two are invariants (`SameTree`, `AfterEdit`). From it
`CompiledFaithful`: a strict load skips nothing, so what was kept is what was listed
(`AscendingAll`: a filter that keeps everything keeps the order), and the phases come in
gapless order. And `CatalogComplete`: a valid artifact lists no identifier twice, over
all phases, topics and steps (`OwnedUuids`), so no entry of an index by identifier or by
step replaces another (`IndexComplete`). The index by phase and topic slug keeps the
last of several namesakes: as the directories of phases differ, what it finds is a topic of
that phase with that slug (`TopicsFound`).

These proofs need induction over numbers. The library's theorems for it take an operator
as a parameter, so `SetInduction` states it of a set: one that holds 0 and with
every number its successor holds all, because the least missing number would
have a predecessor (`WFMin`, `NatLessThanWellFounded`). With it the
flattening of lists is characterised by its partial results (`PartialsExist`,
`FlattenIsLast`, `FlattenJoin`), and a weight by its running totals (`TotalsExist`,
`WeightIsTotal`). Filters and sorts of the code are stated by what they promise,
a rising enumeration of the kept positions or phases; of SelectSeq and SortSeq
the prover knows no definition.

**Releases** (`CurriculumAssumption`): any authors, contents, versions and pushes.
CI compares neighbouring heads of main only, so `ReleasesRise` needs the history:
everything deployed, served or stamped on an attempt lies below the last head that
passed, and no two of them share a version (`HistoryGood`), as long as no failing
head was pushed over or let through unchecked. `DeployedArtifactLoads` needs no history: the
built image has loaded the artifact.

**The bridge** (`IdAssumption`: jobs, the orphan and new attempts are told apart): any
jobs, new attempts and steps. `BridgeInv` goes revision by revision: the
draft of 0049 stays right until its commit (`DraftGood`), and what 0055 drained
cannot come back (`Retired`). That one attempt at most is active comes from the
legacy tables' index (`LegacyIndex`), not from the preflight. `StepsFollowLearner`
is inductive with what holds before 0049: the old table follows the learner alone
(`Uncommitted`).

**Only model-checked.** `EveryAttemptSettles`, `AbandonedIsReconciled`
and `RunEnds`: liveness under fairness is outside the proof system's reach. So is
what TLC finds violated, in the runs that expect it. Every invariant and every action
property of the passing runs is a theorem. No module declares a RECURSIVE operator.

## Not modelled

* The OAuth exchange, signatures of cookies and tokens, HTTP and SQL libraries:
  external, taken to do what the code relies on.
* The content of GitHub's answers and of submissions: parsing decides which of the
  answers of `GateChecks` a reply is. The grader's judgement is free.
* Texts: prompts, feedback, Markdown, templates, the wording of errors, and how a
  reflection's answers are joined into one text.
* What makes the challenge of a deployed API raise: a body that is not UTF-8 or a port
  that is no number ends the activity with an exception, which Durable retries up to
  its limit, as it does for the checks that are modelled to raise. In
  `DeployedApiChallenge` every answer ends in a verdict.
* Runs of the deployment workflow that are started again for an older commit.
* Learning objectives: their identifiers are compared with the others'
  (`content_yaml_loader.py:340`), and no index holds them.
* The content of status tokens: a signed pair of user and attempt, compared with the
  session that brings it back.
* Shared clients: the pooled HTTP client is closed only at shutdown, after the last
  request (`api/src/learn_to_cloud/main.py:168`), so its unlocked check and replace
  has nothing to race with; the commit panel's cache degrades to an empty panel.
* Configuration, telemetry, rate limits, probes, Terraform and operator scripts: no
  protocol state.
* The other migrations, and all downgrades: each rewrites tables nobody writes beside
  it, in an order that is fixed.
* That a verdict is about one commit: the analysis, the CI run and the files are
  separate reads. `GateChecks` covers a head that moved after the analysis; no line
  of the code says what the other reads owe each other.

## Plan

The plan of models, runs and theorems is carried out. What could be added:

* A theorem that a scan of the reconciler which is not blocked by suspended
  instances reaches the oldest abandoned row: the safety half of
  `AbandonedIsReconciled`.
* A refinement that gives `AttemptLifecycle` the verdicts of `Verification`, instead of
  the contract both are compared with.
* The single commit behind a verdict, once the code says what its reads owe each
  other.
