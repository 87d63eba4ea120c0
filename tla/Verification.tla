---------------------------- MODULE Verification ----------------------------
(***************************************************************************)
(* The verification of one attempt with the two checks that are long       *)
(* protocols themselves: the engine's step deployed_api_check is a run of  *)
(* the challenge against the learner's API, its step llm_discover_review   *)
(* lists a repository, fetches files and packs a bundle.  A worker that    *)
(* dies is replaced by another execution, while the first one's challenge  *)
(* may still be going on.                                                  *)
(***************************************************************************)
EXTENDS VerificationRun

CONSTANTS
    FetchAttempts, \* attempts of _fetch_with_retry
    Fold, InDirectory, ExactPatterns, \* the paths a repository may hold
    MaxFiles, MaxFileSize, MaxTotal, Sizes         \* the evidence policy

VARIABLES
    url, real, held, sent, known, result, seen, cleaned, \* the challenge
    callAt, callTries,    \* where each execution's challenge stands
    tree, size, readable, \* the repository
    loop, at,             \* where the collection of evidence stands
    selected, fetched, items

Challenge == INSTANCE DeployedApiChallenge WITH
    Run <- 1..(MaxCrashes + 1), MaxAttempts <- FetchAttempts,
    pc <- callAt, tries <- callTries
Evidence == INSTANCE EvidenceBundle WITH pc <- loop

ASSUME FetchAssumption == FetchAttempts \in Nat \ {0}

ASSUME PolicyAssumption ==
    /\ DOMAIN Fold \subseteq Nat \ {0}
    /\ ExactPatterns \in Seq(ToSet(ExactPatterns))
    /\ {MaxFiles, MaxFileSize, MaxTotal} \subseteq Nat /\ Sizes \subseteq Nat

challengeVars ==
    <<url, real, held, callAt, callTries, sent, known, result, seen, cleaned>>
evidenceVars == <<tree, size, readable, loop, at, selected, fetched, items>>
allVars == <<vars, challengeVars, evidenceVars>>

-----------------------------------------------------------------------------
(* The surroundings vary where the attempt's profile looks at them.        *)
AllInit ==
    /\ Init
    /\ Challenge!Init
    /\ job.type # "deployed_api" => url = "blank" /\ real = {}
    /\ IF job.type = "devops_analysis" /\ job.username
         THEN Evidence!Init
         ELSE Evidence!Released

Execution == crashes + 1

(* What the running check has found so far decides how its step may end.   *)
ChallengeOutcomes ==
    {probe \in ProbeOutcomes :
        /\ callAt[Execution] = "done"
        /\ probe.results[1].valid = (result[Execution] = "valid")}

(* The listing may be refused, a fetch may meet a network error, or the    *)
(* bundle is there, empty or not.                                          *)
CollectionOutcomes ==
    CASE loop = "exact" /\ at = 1 ->
           {DiscoverReview(t, [f \in {"first"} |-> "network"]) : t \in ApiError}
      [] loop = "fetch" ->
           {DiscoverReview("present", [f \in {"first"} |-> "network"])}
      [] loop = "done" ->
           {DiscoverReview("present", f) : f \in {g \in EvidenceReads :
               "network" \notin Seen(g) /\ ("text" \in Seen(g)) = (items # <<>>)}}
      [] OTHER -> {}

(* A check that is a function of the answers it reads is one step.         *)
EvaluateSimple ==
    /\ \E check \in Check \ {"deployed_api_check", "llm_discover_review"} :
         Evaluate(check, StepOutcomes(check))
    /\ UNCHANGED <<challengeVars, evidenceVars>>

EndChallenge ==
    /\ Evaluate("deployed_api_check", ChallengeOutcomes)
    /\ UNCHANGED <<challengeVars, evidenceVars>>

EndCollection ==
    /\ Evaluate("llm_discover_review", CollectionOutcomes)
    /\ Evidence!Release
    /\ UNCHANGED challengeVars

ChallengeStep ==
    /\ At("deployed_api_check") /\ Challenge!Step(Execution)
    /\ UNCHANGED <<vars, evidenceVars>>

CollectionStep ==
    /\ At("llm_discover_review") /\ Evidence!Next
    /\ UNCHANGED <<vars, challengeVars>>

(* The rest of the engine and the grading hold no state of the two checks. *)
EngineStep ==
    /\ \/ RefuseUsername \/ FinishRun
       \/ CheckConfig \/ GradeRequest \/ ApplyDecisions \/ RecordGradingFailure
    /\ UNCHANGED <<challengeVars, evidenceVars>>

(* A worker dies, or is only thought dead: the activity is delivered again *)
(* and collects its evidence anew; an old challenge may still go on.       *)
Redeliver ==
    /\ CrashInEngine
    /\ IF At("llm_discover_review") THEN Evidence!Restart
                                    ELSE UNCHANGED evidenceVars
    /\ UNCHANGED challengeVars

OldWorkerStep ==
    /\ job.type = "deployed_api"
    /\ \E r \in 1..crashes : Challenge!Step(r)
    /\ UNCHANGED <<vars, evidenceVars>>

LearnerWrites ==
    /\ Challenge!LearnerWrites
    /\ UNCHANGED <<vars, evidenceVars>>

Progress ==
    \/ EvaluateSimple \/ EndChallenge \/ EndCollection
    \/ ChallengeStep \/ CollectionStep \/ EngineStep
AllNext == Progress \/ Redeliver \/ OldWorkerStep \/ LearnerWrites

(* Durable runs the attempt's activities until they complete or their      *)
(* retries are used up.  Nothing obliges a worker thought dead, the        *)
(* learner, or a crash.                                                    *)
VerificationSpec == AllInit /\ [][AllNext]_allVars /\ WF_allVars(Progress)

-----------------------------------------------------------------------------
AllTyped == TypeOK /\ Challenge!TypeOK /\ Evidence!TypeOK

(* A verified API stored this run's nonce, on a public address, and every  *)
(* entry the checks looked at was well formed when it was listed; and an   *)
(* attempt succeeds only on the run of the execution that reported it,     *)
(* whatever an older worker of the same attempt saw.                       *)
OwnershipProven ==
    /\ Challenge!OwnershipProven
    /\ pc = "finalize" /\ job.type = "deployed_api" /\ OutcomeOf(run.result) = "succeeded"
         => result[Execution] = "valid"

(* A run that verified the API after a POST answered at once, and whose    *)
(* DELETE was confirmed, leaves none of its entries behind, with or        *)
(* without an id in the answer to the POST.                                *)
CleanAfterSuccess == Challenge!CleanAfterSuccess

(* A run deletes nothing but entries it posted itself, however many        *)
(* executions meet on the API: the learner's entries and the other         *)
(* execution's nonce stay.                                                 *)
DeletesOwnEntry == Challenge!DeletesOwnEntry

(* The selection loops compute the declarative choice, and the bundle the  *)
(* grader sees is the longest run of readable selected files that fits.    *)
EvidenceIsRight == Evidence!SelectionIsChoice /\ Evidence!BundleIsLongestFit
=============================================================================
