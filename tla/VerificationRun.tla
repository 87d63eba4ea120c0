-------------------------- MODULE VerificationRun ---------------------------
(***************************************************************************)
(* One attempt between its preparation and its finalization: the engine    *)
(* evaluates the profile of the submission type step by step inside an     *)
(* activity that Durable retries from the start, the orchestrator grades   *)
(* the requests the run recorded, and every failure of the grading is      *)
(* folded back into the run result.  Verification composes these actions   *)
(* with those of the two checks that have state of their own.              *)
(***************************************************************************)
EXTENDS GateChecks, FiniteSets, SequencesExt

CONSTANTS
    VerifyAttempts, \* executions of execute_requirement_verification
    GradeAttempts,  \* executions of run_llm_grading for one request
    MaxCrashes      \* bound on workers that die inside the engine

ASSUME AttemptsAssumption ==
    /\ VerifyAttempts \in Nat \ {0}
    /\ GradeAttempts \in Nat \ {0}
    /\ MaxCrashes \in Nat

VARIABLES
    job,       \* the prepared attempt: its type, and whether it has a username
    pc,
    steps,     \* step results of the current execution of the engine
    read,      \* the answers this execution saw, as <<check, answer>>
    tries,     \* executions of the current activity that raised
    run,       \* the run result the history holds
    decisions, \* the grader's decisions so far
    cause,     \* why the grading failed
    crashes

vars == <<job, pc, steps, read, tries, run, decisions, cause, crashes>>

-----------------------------------------------------------------------------
(* The profile registry.                                                   *)
Profile ==
    LET P(username, checks, rubric) ==
            [username |-> username, checks |-> checks, rubric |-> rubric]
    IN [profile_readme |-> P(TRUE, <<"profile_readme_check">>, FALSE),
        repo_fork |-> P(TRUE, <<"repo_fork_check">>, FALSE),
        ctf_token |-> P(TRUE, <<"ctf_token_check">>, FALSE),
        networking_token |-> P(TRUE, <<"networking_token_check">>, FALSE),
        journal_api_verifier |->
            P(TRUE, <<"github_ci_passing", "llm_exact_review">>, TRUE),
        deployed_api |-> P(FALSE, <<"deployed_api_check">>, FALSE),
        deployment_architecture |->
            P(TRUE, <<"deployment_architecture_gate",
                      "deployment_architecture_review">>, TRUE),
        devops_analysis |->
            P(TRUE, <<"devops_required_files", "public_ghcr_image",
                      "llm_discover_review">>, TRUE),
        security_scanning |->
            P(TRUE, <<"codeql_status", "security_scanning_review">>, TRUE),
        career_reflection |->
            P(FALSE, <<"career_reflection_gate",
                       "career_reflection_review">>, TRUE)]

SubmissionType == DOMAIN Profile
ReviewCheck == {"llm_exact_review", "llm_discover_review",
    "security_scanning_review", "deployment_architecture_review",
    "career_reflection_review"}
Checks(j) == Profile[j.type].checks
Check == UNION {ToSet(Profile[t].checks) : t \in SubmissionType}

(* How a step ends: a gate carries the one result of its check, a review   *)
(* carries a grading task or the result of a discovery that failed; a step *)
(* may raise instead.                                                      *)
Gate(result, answers) ==
    [results |-> <<result>>, task |-> FALSE, raises |-> FALSE, read |-> answers]
Review(answers) ==
    [results |-> <<>>, task |-> TRUE, raises |-> FALSE, read |-> answers]
Raises(answers) ==
    [results |-> <<>>, task |-> FALSE, raises |-> TRUE, read |-> answers]

(* One evidence file: "absent" is a 404, "unreadable" any other status.    *)
FileAnswer == {"text", "absent", "unreadable", "network"}
EvidenceReads == [{"first", "second"} -> FileAnswer]
Seen(files) == {files[f] : f \in DOMAIN files}

(* collect_repo_file_evidence: a file that cannot be read is left out, a   *)
(* network error is not caught.                                            *)
ExactReview(files) ==
    IF "network" \in Seen(files) THEN Raises(Seen(files)) ELSE Review(Seen(files))

(* Defect: an empty discovery is passed over without a grading task.       *)
UngradedDiscoverReview(tree, files) ==
    IF tree \in ApiError THEN Gate(GitHubErrorResult(tree), {tree})
    ELSE IF "network" \in Seen(files) THEN Gate(Incomplete, Seen(files))
    ELSE IF "text" \notin Seen(files)
         THEN [results |-> <<>>, task |-> FALSE, raises |-> FALSE,
               read |-> Seen(files)]
    ELSE Review(Seen(files))

(* The discovering review turns the same errors, and an empty bundle, into *)
(* a gate of its own.                                                      *)
DiscoverReview(tree, files) ==
    IF tree \in ApiError THEN Gate(GitHubErrorResult(tree), {tree})
    ELSE IF "network" \in Seen(files) \/ "text" \notin Seen(files)
         THEN Gate(Incomplete, Seen(files))
    ELSE Review(Seen(files))

CIOutcomes == {Gate(CIResult(r), {r}) : r \in RunAnswer}

CodeQLOutcomes ==
    {Gate(CodeQLResult(r, h), {x \in {r, h} : r = "success" \/ x = r}) :
        r \in RunAnswer, h \in HeadAnswer}

DevopsFilesOutcomes == {Gate(DevopsFilesResult(t), {t}) : t \in TreeAnswer}
GhcrOutcomes == {Gate(GhcrResult(g), {g}) : g \in GhcrAnswer}
ProbeOutcomes == {Gate(ProbeResult(p), {p}) : p \in ProbeAnswer}
ReadmeOutcomes == {Gate(ReadmeResult(p), {p}) : p \in PageAnswer}
ForkOutcomes == {Gate(ForkResult(m), {m}) : m \in ForkAnswer}

(* A token with at most two defects, and the app with or without its       *)
(* secret, which the check finds out only if it gets so far.               *)
TokenAnswers(defects, secret) ==
    defects \cup IF SecretRead(defects) /\ ~secret THEN {"noSecret"} ELSE {}
TokenOutcomes(lab) ==
    {Gate(TokenResult(d, s), TokenAnswers(d, s)) :
        d \in {x \in SUBSET TokenDefects(lab) : Cardinality(x) <= 2},
        s \in BOOLEAN}

ArchitectureOutcomes ==
    {IF ArchitectureRaises(long, t) THEN Raises({t})
     ELSE Gate(ArchitectureResult(long, t), IF long THEN {t} ELSE {"short"}) :
        long \in BOOLEAN, t \in TreeAnswer}

ReflectionOutcomes ==
    {Gate(ReflectionResult(b), {IF b THEN "blank" ELSE "answers"}) : b \in BOOLEAN}

RepositoryReviews == {ExactReview(f) : f \in EvidenceReads}
(* Every way a check that is a function of its answers can end; the other  *)
(* two, the challenge and the discovering review, are modules.             *)
StepOutcomes(check) ==
    CASE check = "github_ci_passing" -> CIOutcomes
      [] check = "codeql_status" -> CodeQLOutcomes
      [] check = "devops_required_files" -> DevopsFilesOutcomes
      [] check = "public_ghcr_image" -> GhcrOutcomes
      [] check = "deployment_architecture_gate" -> ArchitectureOutcomes
      [] check = "profile_readme_check" -> ReadmeOutcomes
      [] check = "repo_fork_check" -> ForkOutcomes
      [] check \in {"ctf_token_check", "networking_token_check"} ->
           TokenOutcomes(check)
      [] check = "career_reflection_gate" -> ReflectionOutcomes
      [] check = "career_reflection_review" -> {Review({"text"})}
      [] OTHER -> RepositoryReviews

-----------------------------------------------------------------------------
Passed(s) == \A k \in DOMAIN s.results : s.results[k].valid
Stopped == \E k \in DOMAIN steps : ~Passed(steps[k])

(* Defect: every step of the profile is handed to the grader.              *)
EveryStepRequests == Len(steps)

(* _grading_requests_for: the steps that asked for grading.                *)
Requests == Cardinality({k \in DOMAIN steps : steps[k].task})

(* _aggregate over the results the steps carried.                          *)
Aggregate(results) ==
    Verdict(\A k \in DOMAIN results : results[k].valid,
            \A k \in DOMAIN results : results[k].completed,
            FlattenSeq([k \in DOMAIN results |-> results[k].tasks]))

(* _grading_disposition_for; "none" stands for its two ValueErrors.        *)
Disposition(rubric, requests) ==
    IF ~rubric THEN IF requests > 0 THEN "none" ELSE "not_required"
    ELSE IF requests > 0 THEN "requested"
    ELSE IF Stopped THEN "skipped_gate_failed"
    ELSE "none"

RunResult(result, requests, disposition) ==
    [result |-> result, requests |-> requests, disposition |-> disposition]
NoRun == RunResult(Failed, 0, "unset")

(* outcome_for_validation                                                  *)
OutcomeOf(result) ==
    IF result.valid THEN "succeeded"
    ELSE IF result.completed THEN "failed" ELSE "server_error"

Init ==
    /\ job \in [type: SubmissionType, username: BOOLEAN]
    /\ pc = "engine"
    /\ steps = <<>> /\ read = {} /\ tries = 0
    /\ run = NoRun /\ decisions = <<>> /\ cause = "none" /\ crashes = 0

HasIdentity == job.username \/ ~Profile[job.type].username

(* The activity raised: Durable runs it again from the start.              *)
RetryVerify ==
    /\ steps' = <<>> /\ read' = {}
    /\ tries' = tries + 1
    /\ pc' = IF tries' < VerifyAttempts THEN "engine" ELSE "terminalize"

(* The orchestrator grades exactly the requests the run recorded.          *)
HandOver(result) ==
    /\ run' = result
    /\ tries' = 0
    /\ pc' = IF result.requests = 0 THEN "finalize" ELSE "config"

RefuseUsername ==
    /\ pc = "engine" /\ ~HasIdentity
    /\ HandOver(RunResult(Failed, 0, "skipped_missing_username"))
    /\ UNCHANGED <<job, steps, read, decisions, cause, crashes>>

(* The execution is about to run, or is running, a check of its profile.   *)
At(check) ==
    /\ pc = "engine" /\ HasIdentity /\ ~Stopped
    /\ Len(steps) < Len(Checks(job))
    /\ Checks(job)[Len(steps) + 1] = check

(* The check ends in one of the given ways.                                *)
Evaluate(check, outcomes) ==
    /\ At(check)
    /\ \E outcome \in outcomes :
         IF outcome.raises THEN RetryVerify
         ELSE /\ steps' = Append(steps, [results |-> outcome.results,
                                         task |-> outcome.task])
              /\ read' = read \cup ({check} \X outcome.read)
              /\ UNCHANGED <<pc, tries>>
    /\ UNCHANGED <<job, run, decisions, cause, crashes>>

(* The end of run_profile.                                                 *)
FinishRun ==
    /\ pc = "engine" /\ HasIdentity
    /\ Stopped \/ Len(steps) = Len(Checks(job))
    /\ HandOver(RunResult(
           Aggregate(FlattenSeq([k \in DOMAIN steps |-> steps[k].results])),
           Requests, Disposition(Profile[job.type].rubric, Requests)))
    /\ UNCHANGED <<job, steps, read, decisions, cause, crashes>>

(* A worker dies: the activity is delivered again and no retry is used.    *)
CrashInEngine ==
    /\ pc = "engine" /\ crashes < MaxCrashes
    /\ crashes' = crashes + 1
    /\ steps' = <<>> /\ read' = {}
    /\ UNCHANGED <<job, pc, tries, run, decisions, cause>>

-----------------------------------------------------------------------------
Decision == {"accept", "reject", "belowThreshold"}
GradeFault == {"content_filter", "unavailable"}

FailGrading(reason) == pc' = "failing" /\ cause' = reason

(* ensure_grading_config runs once; the worker may have failed it.         *)
CheckConfig ==
    /\ pc = "config"
    /\ \/ pc' = "grading" /\ UNCHANGED cause
       \/ FailGrading("unavailable")
       \/ pc' = "terminalize" /\ UNCHANGED cause
    /\ UNCHANGED <<job, steps, read, tries, run, decisions, crashes>>

(* Defect: a blocked or failed call is retried without counting it.        *)
GradeForever ==
    /\ pc = "grading"
    /\ \/ \E decision \in Decision :
            /\ decisions' = Append(decisions, decision)
            /\ pc' = IF Len(decisions') = run.requests THEN "apply" ELSE "grading"
            /\ UNCHANGED <<tries, cause>>
       \/ tries' = 1 - tries /\ UNCHANGED <<pc, decisions, cause>>
    /\ UNCHANGED <<job, steps, read, run, crashes>>

(* run_llm_grading: a decision, a content-safety block, or any other       *)
(* failure; the last failure's kind is what the orchestrator sees.         *)
GradeRequest ==
    /\ pc = "grading"
    /\ \/ \E decision \in Decision :
            /\ decisions' = Append(decisions, decision)
            /\ tries' = 0
            /\ pc' = IF Len(decisions') = run.requests THEN "apply" ELSE "grading"
            /\ UNCHANGED cause
       \/ \E reason \in GradeFault :
            /\ tries' = tries + 1
            /\ IF tries' < GradeAttempts THEN UNCHANGED <<pc, cause>>
                                         ELSE FailGrading(reason)
            /\ UNCHANGED decisions
    /\ UNCHANGED <<job, steps, read, run, crashes>>

(* Defect: the grader's own verdict is taken without the passing score.    *)
LenientGradingResult(decision) == decision # "reject"

(* _decision_to_grading_result                                             *)
GradingPassed(decision) == decision = "accept"

(* Defect: the decisions are folded in without their feedback.             *)
SilentDecisions(result) ==
    [result EXCEPT
        !.valid = result.valid
                  /\ \A k \in DOMAIN decisions : GradingPassed(decisions[k])]

(* apply_llm_grading_decisions                                             *)
WithDecisions(result) ==
    [result EXCEPT
        !.valid = result.valid
                  /\ \A k \in DOMAIN decisions : GradingPassed(decisions[k]),
        !.tasks = @ \o [k \in DOMAIN decisions |-> GradingPassed(decisions[k])]]

ApplyDecisions ==
    /\ pc = "apply"
    /\ \/ /\ run' = RunResult(WithDecisions(run.result), 0, run.disposition)
          /\ pc' = "finalize"
          /\ UNCHANGED cause
       \/ FailGrading("unavailable") /\ UNCHANGED run
    /\ UNCHANGED <<job, steps, read, tries, decisions, crashes>>

(* llm_grading_failed keeps the gates' feedback and reports an incomplete  *)
(* verification, whatever blocked the grader.                              *)
GradingFailure(result) == [result EXCEPT !.valid = FALSE, !.completed = FALSE]

RecordGradingFailure ==
    /\ pc = "failing"
    /\ \/ /\ run' = RunResult(GradingFailure(run.result), 0, run.disposition)
          /\ pc' = "finalize"
       \/ pc' = "terminalize" /\ UNCHANGED run
    /\ UNCHANGED <<job, steps, read, tries, decisions, cause, crashes>>

-----------------------------------------------------------------------------
PC == {"engine", "config", "grading", "apply", "failing", "finalize",
       "terminalize"}

TypeOK ==
    /\ job \in [type: SubmissionType, username: BOOLEAN]
    /\ pc \in PC
    /\ Len(steps) <= 3
    /\ tries \in 0..VerifyAttempts \cup 0..GradeAttempts
    /\ run.result \in ValidationResult
    /\ run.requests \in 0..1
    /\ cause \in {"none"} \cup GradeFault
    /\ crashes \in 0..MaxCrashes

(* An answer that says nothing about the learner: a service was down or    *)
(* refused the app, or the app lacks its own secret.                       *)
Operational(answer) ==
    answer \in {"refused", "transient", "odd", "noSecret", "unreadable", "network"}

(* The one refusal the engine takes for the learner's: url_exists does not *)
(* tell a page GitHub keeps to itself from one that is not there.          *)
PageRefused(check, answer) == check = "profile_readme_check" /\ answer = "refused"

(* An attempt is recorded as the learner's failure only if no gate was     *)
(* decided by an outage, except for PageRefused: through aggregation,      *)
(* retries and grading, a gate that could not be evaluated, for want of an *)
(* answer or of the app's own secret, ends as a server error.              *)
GateOutageNotBlamed ==
    pc = "finalize" /\ OutcomeOf(run.result) = "failed" =>
        \A r \in read :
            r[1] \notin ReviewCheck /\ Operational(r[2]) => PageRefused(r[1], r[2])

(* An attempt succeeds only if one execution of the engine evaluated every *)
(* step of its profile on favourable answers, and a profile with a rubric  *)
(* was graded at or above the passing score.                               *)
SuccessFullyEarned ==
    pc = "finalize" /\ OutcomeOf(run.result) = "succeeded" =>
        /\ HasIdentity
        /\ Len(steps) = Len(Checks(job))
        /\ \A r \in read : r[1] \notin ReviewCheck =>
              r[2] \in {"success", "scanned", "present", "manifest", "page",
                        "fork", "works", "answers"}
        /\ Profile[job.type].rubric => decisions = <<"accept">>

(* The ValueErrors of the disposition are unreachable: a rubric profile    *)
(* whose gates all passed always recorded a grading request.               *)
EveryRunExplained == run.disposition # "none"

(* The feedback the learner sees agrees with the verdict: a success lists  *)
(* no failed task, and a run the grader turned down lists one.             *)
FeedbackAgrees ==
    pc = "finalize" =>
        /\ run.result.valid => \A k \in DOMAIN run.result.tasks : run.result.tasks[k]
        /\ OutcomeOf(run.result) = "failed" /\ decisions # <<>> =>
              \E k \in DOMAIN run.result.tasks : ~run.result.tasks[k]

(* Every verification reaches its finalize or its terminalize activity:    *)
(* no retry runs for ever and no path of the grading is left open.         *)
RunEnds == <>(pc \in {"finalize", "terminalize"})

(* What DurableInstances assumes of Verify and Grade.                      *)
Contract == INSTANCE RunContract WITH
    stage <- CASE pc = "engine" -> "verify"
               [] pc \in {"finalize", "terminalize"} -> pc
               [] OTHER -> "grade",
    verdict <- IF run = NoRun THEN "none" ELSE OutcomeOf(run.result)
ImplementsRunContract == Contract!Spec
=============================================================================
