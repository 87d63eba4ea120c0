--------------------------- MODULE CurriculumRelease ---------------------------
(* From an edit of the curriculum to an attempt graded against it: authors'   *)
(* branches, the version policy and drift check of CI, deployment, processes  *)
(* that load the artifact once, and the requirement snapshot an attempt       *)
(* carries from the API to the Functions workers (content_compiler.py,        *)
(* content_catalog.py, verification_attempt_snapshot.py, deploy.yml).         *)
EXTENDS Integers, Sequences

CONSTANTS
  Authors,       \* authors with a branch each
  Contents,      \* what the compiled tree holds, metadata aside
  MaxVersion,    \* bound on curriculum_version
  MaxCommits,    \* bound on the pushes to main
  MaxAttempts,   \* bound on the attempts submitted
  NoCommit, NoArtifact,
  Behind         \* a branch that forked from an older main

ASSUME CurriculumAssumption == Contents # {} /\ MaxVersion \in Nat \ {0}

Versions == 1..MaxVersion
Hash(payload) == <<"sha256", payload>>

VARIABLES
  branch,     \* [Authors -> the branch and whether it edited the tree, or Behind]
  main,       \* the commit at the head of main
  before,     \* the head of main before the last push
  mainGreen,  \* whether a run let the head of main through to the deploy job
  commits,
  overlooked, \* history: a head of main that does not pass the check of its push
              \* was pushed over, or let through by a run without that check
  deployed,   \* the artifact in the images that are deployed
  api,        \* the catalog the API process serves, NoArtifact while it is down
  page,       \* the curriculum an open phase page was rendered from, if any
  crashed,    \* whether a process that started with the deployed artifact failed
  attempts    \* the attempts, in the order they were submitted

vars == <<branch, main, before, mainGreen, commits, overlooked, deployed, api, page, crashed, attempts>>

------------------------------------------------------------------------------
(* The artifact *)

Payload(content, version) == [content |-> content, version |-> version]

\* A commit holds the authored tree and version beside the artifact file.
Compiled(content, version) ==
  [payload |-> Payload(content, version), hash |-> Hash(Payload(content, version))]

Commit(content, version, artifact) ==
  [content |-> content, version |-> version, artifact |-> artifact]

\* Defect: an unchanged version is not compared further.
LenientPolicy(commit, prior) == commit.version >= prior.payload.version

\* The version may not decrease, and may stay only while the content does.
VersionPolicy(commit, prior) ==
  /\ commit.version >= prior.payload.version
  /\ commit.version = prior.payload.version => commit.content = prior.payload.content

\* The CI step: recompile against the artifact of the prior commit, then diff.
ArtifactCheck(commit, priorCommit) ==
  /\ VersionPolicy(commit, priorCommit.artifact)
  /\ commit.artifact = Compiled(commit.content, commit.version)

\* What the catalog accepts: a payload under its own hash.
Trusted(artifact) == artifact.hash = Hash(artifact.payload)

------------------------------------------------------------------------------
(* Authors and CI *)

Base == CHOOSE c \in Contents : TRUE
FirstCommit == Commit(Base, 1, Compiled(Base, 1))

Fresh(commit) == [head |-> commit, edited |-> FALSE]

Init ==
  /\ branch = [a \in Authors |-> Fresh(FirstCommit)]
  /\ main = FirstCommit
  /\ before = FirstCommit
  /\ mainGreen = TRUE
  /\ commits = 0
  /\ overlooked = FALSE
  /\ deployed = FirstCommit.artifact
  /\ api = FirstCommit.artifact
  /\ page = NoArtifact
  /\ crashed = FALSE
  /\ attempts = <<>>

Authoring == UNCHANGED <<main, before, mainGreen, commits, overlooked, deployed, api, page, crashed, attempts>>

Current(a) == branch[a] # Behind
Save(a, head) == branch' = [branch EXCEPT ![a].head = head]

\* The author starts over, or resolves conflicts by taking main.
Rebase(a) ==
  /\ branch' = [branch EXCEPT ![a] = Fresh(main)]
  /\ Authoring

\* Bound: a branch edits the tree once; another edit is another branch.
EditTree(a) ==
  /\ Current(a) /\ ~branch[a].edited
  /\ \E content \in Contents, version \in Versions :
       branch' = [branch EXCEPT ![a] =
         [Fresh(Commit(content, version, branch[a].head.artifact)) EXCEPT !.edited = TRUE]]
  /\ Authoring

\* compile_curriculum.py as developers run it: no previous artifact is given,
\* so the policy is not checked.
CompileLocally(a) ==
  /\ Current(a)
  /\ LET head == branch[a].head IN
       Save(a, [head EXCEPT !.artifact = Compiled(head.content, head.version)])
  /\ Authoring

\* The artifact file is edited by hand, once; its hash stays.
EditArtifact(a) ==
  /\ Current(a)
  /\ Trusted(branch[a].head.artifact)
  /\ \E content \in Contents : Save(a, [branch[a].head EXCEPT !.artifact.payload.content = content])
  /\ Authoring

\* What is pushed over or let through is overlooked unless it passes the check.
Unheeded == overlooked' = (overlooked \/ ~ArtifactCheck(main, before))

\* A pull request that is merged, whether its own check is green, was green
\* against an older main or was never run, and a direct push. Git merges a
\* branch when main did not change the files it changed: the content hash line
\* of the artifact differs between any two contents or versions, so the other
\* branches fall behind and have to be rebased.
Push(a) ==
  /\ Current(a)
  /\ commits < MaxCommits
  /\ main' = branch[a].head
  /\ main' # main
  /\ before' = main
  /\ mainGreen' = FALSE
  /\ commits' = commits + 1
  /\ Unheeded
  /\ branch' = [b \in Authors |-> IF b = a THEN Fresh(branch[a].head) ELSE Behind]
  /\ UNCHANGED <<deployed, api, page, crashed, attempts>>

\* A push that leaves the curriculum alone, to infra for one, starts a run of
\* its own, to which the head before it is main as it was.
PushElsewhere ==
  /\ commits < MaxCommits
  /\ commits' = commits + 1
  /\ before' = main
  /\ mainGreen' = FALSE
  /\ Unheeded
  /\ UNCHANGED <<branch, main, deployed, api, page, crashed, attempts>>

Released ==
  /\ ~mainGreen
  /\ mainGreen' = TRUE
  /\ UNCHANGED <<branch, main, before, commits, deployed, api, page, crashed, attempts>>

\* The run of a push. A push that follows while it is pending replaces it, and
\* is checked against the head before that push only.
CheckMain ==
  /\ ArtifactCheck(main, before)
  /\ Released
  /\ UNCHANGED overlooked

\* A workflow_dispatch has no prior SHA: the artifact is diffed, its version
\* compared with nothing.
Dispatch ==
  /\ main.artifact = Compiled(main.content, main.version)
  /\ Released
  /\ Unheeded

\* The deploy jobs go on unless a job failed: also when ci was skipped, as no
\* code changed since the head before, or was cancelled.
SkipCheck ==
  /\ Released
  /\ Unheeded

------------------------------------------------------------------------------
(* Deployment and the processes that load the artifact *)

\* Defect: the image is pushed without loading its catalog once.
DeployUnloaded ==
  /\ mainGreen
  /\ main.artifact # deployed
  /\ deployed' = main.artifact
  /\ UNCHANGED <<branch, main, before, mainGreen, commits, overlooked, api, page, crashed, attempts>>

\* The deploy job ships main as the run checked it out. The built image has to
\* load its catalog (runtime_package_check) before it is pushed.
Deploy ==
  /\ mainGreen
  /\ Trusted(main.artifact)
  /\ main.artifact # deployed
  /\ deployed' = main.artifact
  /\ UNCHANGED <<branch, main, before, mainGreen, commits, overlooked, api, page, crashed, attempts>>

\* Lifespan: the catalog is loaded once, before the process serves; an artifact
\* that is not trusted fails the start.
StartApi ==
  /\ api # deployed
  /\ IF Trusted(deployed)
     THEN api' = deployed /\ crashed' = crashed
     ELSE api' = NoArtifact /\ crashed' = TRUE
  /\ UNCHANGED <<branch, main, before, mainGreen, commits, overlooked, deployed, page, attempts>>

\* A learner opens the phase page. It stays open while processes come and go.
OpenPage ==
  /\ api # NoArtifact
  /\ page' = api.payload
  /\ UNCHANGED <<branch, main, before, mainGreen, commits, overlooked, deployed, api, crashed, attempts>>

\* Defect: the attempt is stamped with the version the deployed images hold.
SubmitUnderDeployed ==
  /\ api # NoArtifact /\ page # NoArtifact
  /\ Len(attempts) < MaxAttempts
  /\ attempts' = Append(attempts,
       [seen |-> page, version |-> deployed.payload.version,
        snapshot |-> api.payload.content, hash |-> Hash(api.payload.content),
        prepared |-> NoCommit])
  /\ UNCHANGED <<branch, main, before, mainGreen, commits, overlooked, deployed, api, page, crashed>>

\* submit_attempt: the page names the requirement; the definition, its hash and
\* the curriculum version in the attempt row are those of the catalog of the
\* process that answers, which may not be the one that rendered the page.
Submit ==
  /\ api # NoArtifact /\ page # NoArtifact
  /\ Len(attempts) < MaxAttempts
  /\ attempts' = Append(attempts,
       [seen |-> page, version |-> api.payload.version,
        snapshot |-> api.payload.content, hash |-> Hash(api.payload.content),
        prepared |-> NoCommit])
  /\ UNCHANGED <<branch, main, before, mainGreen, commits, overlooked, deployed, api, page, crashed>>

\* validate_snapshot_integrity: the requirement comes from the row.
Rehydrated(attempt) ==
  IF attempt.hash = Hash(attempt.snapshot) THEN attempt.snapshot ELSE NoCommit

\* A worker prepares an attempt, at any time after it was submitted.
Prepare(i) ==
  /\ attempts[i].prepared = NoCommit
  /\ attempts' = [attempts EXCEPT ![i].prepared = Rehydrated(attempts[i])]
  /\ UNCHANGED <<branch, main, before, mainGreen, commits, overlooked, deployed, api, page, crashed>>

Next ==
  \/ \E a \in Authors : \/ Rebase(a) \/ EditTree(a) \/ CompileLocally(a) \/ EditArtifact(a)
                        \/ Push(a)
  \/ PushElsewhere \/ CheckMain \/ Dispatch \/ SkipCheck
  \/ Deploy \/ StartApi \/ OpenPage \/ Submit
  \/ \E i \in DOMAIN attempts : Prepare(i)

Spec == Init /\ [][Next]_vars

------------------------------------------------------------------------------
(* Properties *)

Artifacts == [payload : [content : Contents, version : Versions],
              hash : {Hash(Payload(c, v)) : c \in Contents, v \in Versions}]
Commits == [content : Contents, version : Versions, artifact : Artifacts]

\* Type invariant: what is on a branch, on main, deployed and served.
TypeOK ==
  /\ branch \in [Authors -> {Behind} \cup
       [head : Commits, edited : BOOLEAN]]
  /\ main \in Commits /\ before \in Commits
  /\ mainGreen \in BOOLEAN
  /\ deployed \in Artifacts
  /\ api \in Artifacts \cup {NoArtifact}
  /\ page \in [content : Contents, version : Versions] \cup {NoArtifact}

\* A version names one content: a deployment that changes the artifact raises its
\* version, whatever branches were merged and whichever pushes it skipped, unless
\* a head of main that does not pass the check of its push was pushed over or let
\* through by a run that leaves the check out (a workflow_dispatch, a skipped or
\* cancelled ci). CI compares with the head before a push, not with what was
\* deployed.
ReleasesRise ==
  [][deployed' # deployed /\ ~overlooked
       => deployed'.payload.version > deployed.payload.version]_vars

\* No artifact that is deployed keeps a process from starting, also when its run
\* left the check out.
DeployedArtifactLoads == ~crashed

\* An attempt is graded against the definition its row took when it was
\* submitted, however many curricula were deployed since. That is the one the
\* learner's page showed unless the curriculum served has another version by
\* then (or a head was overlooked): the page names no version and no definition.
GradedAsShown ==
  \A i \in DOMAIN attempts :
    /\ attempts[i].prepared \in {NoCommit, attempts[i].snapshot}
    /\ ~overlooked /\ attempts[i].seen.version = attempts[i].version
         => attempts[i].snapshot = attempts[i].seen.content

\* The curriculum version in an attempt's row tells which definition that was:
\* two attempts under one version carry one definition, also while a process
\* still serves the curriculum of an earlier deployment (with that exception).
VersionTellsDefinition ==
  ~overlooked => \A i, j \in DOMAIN attempts :
    attempts[i].version = attempts[j].version => attempts[i].snapshot = attempts[j].snapshot

\* What an attempt is graded against, what its learner saw and what its version
\* says are one definition as far as the versions allow it.
AttemptsKeepTheirDefinition == GradedAsShown /\ VersionTellsDefinition

==============================================================================
