----------------------------- MODULE GateChecks -----------------------------
(***************************************************************************)
(* The checks a verification profile is built from, each as a function of  *)
(* the answers it reads.  An answer of GitHub is taken after the client's  *)
(* own retries: "notFound" is a 404, "refused" any other 4xx, "transient"  *)
(* a 5xx, a 429 or a network failure that outlived three attempts.         *)
(* A ValidationResult keeps what decides an attempt: its verdict, whether  *)
(* the verification completed, and the verdicts of its task feedback.      *)
(***************************************************************************)
EXTENDS Naturals, Sequences

ValidationResult == [valid: BOOLEAN, completed: BOOLEAN, tasks: Seq(BOOLEAN)]

Verdict(valid, completed, tasks) ==
    [valid |-> valid, completed |-> completed, tasks |-> tasks]
Valid == Verdict(TRUE, TRUE, <<>>)
Failed == Verdict(FALSE, TRUE, <<>>)
Incomplete == Verdict(FALSE, FALSE, <<>>)

Judge(favourable) == IF favourable THEN Valid ELSE Failed
WithTask(result) == [result EXCEPT !.tasks = <<result.valid>>]

ApiError == {"notFound", "refused", "transient"}

(* Defect: every GitHub error is the learner's.                            *)
BlamingErrorResult(answer) == Failed

(* github_error_to_result                                                  *)
GitHubErrorResult(answer) == IF answer = "notFound" THEN Failed ELSE Incomplete

(* verify_ci_status                                                        *)
RunAnswer == ApiError \cup {"none", "running", "failure", "success"}
CIResult(run) ==
    IF run \in ApiError THEN GitHubErrorResult(run) ELSE Judge(run = "success")

(* verify_codeql_status: the branch head is read after the run.            *)
HeadAnswer == ApiError \cup {"noSha", "scanned", "moved"}
CodeQLResult(run, head) ==
    IF run # "success" THEN CIResult(run)
    ELSE IF head \in ApiError THEN GitHubErrorResult(head)
    ELSE Judge(head = "scanned")

(* verify_required_devops_files                                            *)
TreeAnswer == ApiError \cup {"present", "absent"}
DevopsFilesResult(tree) ==
    IF tree \in ApiError THEN GitHubErrorResult(tree)
    ELSE WithTask(Judge(tree = "present"))

(* verify_public_ghcr_image; "odd" is a status or a token body the check   *)
(* does not know.                                                          *)
GhcrAnswer == {"manifest", "denied", "notFound", "odd", "transient"}
GhcrResult(answer) ==
    WithTask(IF answer \in {"odd", "transient"} THEN Incomplete
             ELSE Judge(answer = "manifest"))

(* validate_deployment_architecture: the tree is read only for a           *)
(* description that is long enough; an error other than a 404 propagates.  *)
ArchitectureRaises(long, tree) == long /\ tree \in {"refused", "transient"}
ArchitectureResult(long, tree) == Judge(long /\ tree = "present")

(* validate_profile_readme: the URL exists or not, and a status other than *)
(* 200 says that it does not, a refusal as much as a 404.                  *)
PageAnswer == ApiError \cup {"page"}
ReadmeResult(page) ==
    IF page = "transient" THEN Incomplete ELSE Judge(page = "page")

(* validate_repo_fork                                                      *)
ForkAnswer == ApiError \cup {"notFork", "otherParent", "fork"}
ForkResult(metadata) ==
    IF metadata \in ApiError THEN GitHubErrorResult(metadata)
    ELSE Judge(metadata = "fork")

(* verify_lab_token: what is wrong with the token, in the order in which   *)
(* the check meets it.  A decoded value that is not an object raises       *)
(* inside the check, whose last handler reports an incomplete run.         *)
BeforeSecret == {"encoding", "structure", "challenge", "username", "instance"}
AfterSecret == {"signature", "count", "timestamp", "future"}
TokenDefect == {"notObject"} \cup BeforeSecret \cup AfterSecret
(* Only the networking lab checks the challenge type.                      *)
TokenDefects(lab) ==
    IF lab = "ctf_token_check" THEN TokenDefect \ {"challenge"} ELSE TokenDefect
(* The secret is looked up only for a token without a defect found before. *)
SecretRead(defects) == defects \cap ({"notObject"} \cup BeforeSecret) = {}
TokenResult(defects, secret) ==
    IF "encoding" \in defects THEN Failed
    ELSE IF "notObject" \in defects THEN Incomplete
    ELSE IF ~SecretRead(defects) THEN Failed
    ELSE IF ~secret THEN Incomplete
    ELSE Judge(defects = {})

(* validate_deployed_api ends in a verdict on the learner's API for every  *)
(* answer and every failure of that API.                                   *)
ProbeAnswer == {"works", "broken"}
ProbeResult(probe) == Judge(probe = "works")

(* validate_career_reflection                                              *)
ReflectionResult(blank) == Judge(~blank)
=============================================================================
