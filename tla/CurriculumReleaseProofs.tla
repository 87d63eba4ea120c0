------------------------ MODULE CurriculumReleaseProofs ------------------------
(***************************************************************************)
(* Theorems about CurriculumRelease for any number of authors, contents,   *)
(* versions, pushes, deployments and attempts.                             *)
(*                                                                         *)
(* CI compares a head of main with the head before it and with nothing     *)
(* else, so that a version names one content for ever needs a history: as  *)
(* long as no head that fails the check is pushed over or let through,     *)
(* everything that is deployed, served, shown on a page or stamped on an   *)
(* attempt lies below the last head that passed, and no two of them share  *)
(* a version (HistoryGood).                                                *)
(***************************************************************************)
EXTENDS CurriculumRelease, TLAPS

Payloads == [content : Contents, version : Versions]

AttemptRow == [seen : Payloads, version : Versions, snapshot : Contents,
               hash : {Hash(c) : c \in Contents}, prepared : Contents \cup {NoCommit}]

StateType ==
  /\ TypeOK
  /\ overlooked \in BOOLEAN
  /\ attempts \in Seq(AttemptRow)

\* What is deployed loads.
ArtifactsGood ==
  /\ Trusted(deployed)
  /\ api # NoArtifact => Trusted(api)
  /\ ~crashed

\* A row carries its definition under its hash.
AttemptsGood ==
  \A i \in DOMAIN attempts :
    /\ attempts[i].hash = Hash(attempts[i].snapshot)
    /\ attempts[i].prepared \in {NoCommit, attempts[i].snapshot}

\* What the outside has seen: deployed, served, shown, or stamped on an attempt.
Established ==
  {deployed.payload} \cup {a.payload : a \in {api} \ {NoArtifact}}
    \cup ({page} \ {NoArtifact})
    \cup {attempts[i].seen : i \in DOMAIN attempts}
    \cup {Payload(attempts[i].snapshot, attempts[i].version) : i \in DOMAIN attempts}

\* The last head of main that passed the check, if nothing was overlooked.
Latest == IF mainGreen THEN main ELSE before

Below(payload, commit) ==
  /\ payload.version <= commit.version
  /\ payload.version = commit.version => payload.content = commit.content

OneContentPerVersion(payloads) ==
  \A p, q \in payloads : p.version = q.version => p.content = q.content

HistoryGood ==
  ~overlooked =>
    /\ before.artifact = Compiled(before.content, before.version)
    /\ mainGreen => ArtifactCheck(main, before)
    /\ \A p \in Established : Below(p, Latest)
    /\ OneContentPerVersion(Established)

ReleaseInv == /\ StateType
              /\ ArtifactsGood
              /\ AttemptsGood
              /\ HistoryGood

------------------------------------------------------------------------------
LEMMA CompiledLoads ==
  ASSUME NEW c \in Contents, NEW v \in Versions
  PROVE  /\ Compiled(c, v) \in Artifacts
         /\ Compiled(c, v).payload = Payload(c, v)
         /\ Payload(c, v) \in [content : Contents, version : Versions]
         /\ Trusted(Compiled(c, v))
BY DEF Compiled, Artifacts, Payload, Trusted

LEMMA FirstCommitType ==
  /\ FirstCommit \in Commits
  /\ FirstCommit.artifact = Compiled(FirstCommit.content, FirstCommit.version)
  /\ FirstCommit.artifact.payload = Payload(FirstCommit.content, FirstCommit.version)
  /\ FirstCommit.artifact \in Artifacts
  /\ ArtifactCheck(FirstCommit, FirstCommit)
<1>1. Base \in Contents /\ 1 \in Versions
  BY CurriculumAssumption DEF Base, Versions
<1>2. /\ Compiled(Base, 1) \in Artifacts
      /\ Compiled(Base, 1).payload = Payload(Base, 1)
  BY <1>1, CompiledLoads
<1>3. /\ FirstCommit = [content |-> Base, version |-> 1, artifact |-> Compiled(Base, 1)]
      /\ FirstCommit \in Commits
  BY <1>1, <1>2 DEF FirstCommit, Commit, Commits
<1>4. ArtifactCheck(FirstCommit, FirstCommit)
  BY <1>2, <1>3 DEF ArtifactCheck, VersionPolicy, Payload
<1>5. QED
  BY <1>2, <1>3, <1>4

LEMMA EstablishedType ==
  ASSUME StateType
  PROVE  /\ Established \subseteq [content : Contents, version : Versions]
         /\ \A i \in DOMAIN attempts : attempts[i] \in AttemptRow
<1>1. \A i \in DOMAIN attempts : attempts[i] \in AttemptRow
  BY DEF StateType
<1>2. \A i \in DOMAIN attempts :
         Payload(attempts[i].snapshot, attempts[i].version)
           \in [content : Contents, version : Versions]
  BY <1>1 DEF AttemptRow, Payload
<1>3. deployed.payload \in [content : Contents, version : Versions]
      /\ {page} \ {NoArtifact} \subseteq [content : Contents, version : Versions]
  BY DEF StateType, TypeOK, Artifacts
<1>4. \A i \in DOMAIN attempts : attempts[i].seen \in [content : Contents, version : Versions]
  BY <1>1 DEF AttemptRow, Payloads
<1>5. \A a \in {api} \ {NoArtifact} : a.payload \in [content : Contents, version : Versions]
  BY DEF StateType, TypeOK, Artifacts
<1>6. QED
  BY <1>1, <1>2, <1>3, <1>4, <1>5 DEF Established

LEMMA InitReleaseInv == Init => ReleaseInv
<1>. SUFFICES ASSUME Init PROVE ReleaseInv
  OBVIOUS
<1>1. StateType
  <2>1. Fresh(FirstCommit) \in [head : Commits, edited : BOOLEAN]
    BY FirstCommitType DEF Fresh
  <2>2. branch \in [Authors -> {Behind} \cup [head : Commits, edited : BOOLEAN]]
    BY <2>1 DEF Init
  <2>3. attempts \in Seq(AttemptRow)
    BY DEF Init
  <2>4. QED
    BY <2>2, <2>3, FirstCommitType DEF Init, StateType, TypeOK
<1>2. ArtifactsGood
  <2>1. Trusted(FirstCommit.artifact)
    BY FirstCommitType, CompiledLoads DEF Commits
  <2>2. QED
    BY <2>1, FirstCommitType DEF Init, ArtifactsGood
<1>3. AttemptsGood
  BY DEF Init, AttemptsGood
<1>4. HistoryGood
  <2>1. Established = {FirstCommit.artifact.payload}
    BY DEF Init, Established
  <2>2. Below(FirstCommit.artifact.payload, FirstCommit)
    BY FirstCommitType DEF Below, Payload, Commits, Versions
  <2>3. QED
    BY <2>1, <2>2, FirstCommitType DEF Init, HistoryGood, Latest, OneContentPerVersion
<1>5. QED
  BY <1>1, <1>2, <1>3, <1>4 DEF ReleaseInv

------------------------------------------------------------------------------
(* The version policy is transitive along heads that pass the check.       *)
LEMMA PolicyTransitive ==
  ASSUME NEW commit \in Commits, NEW prior \in Commits,
         NEW p \in [content : Contents, version : Versions],
         prior.artifact = Compiled(prior.content, prior.version),
         ArtifactCheck(commit, prior), Below(p, prior)
  PROVE  Below(p, commit)
<1>1. prior.artifact.payload = Payload(prior.content, prior.version)
  BY CompiledLoads DEF Commits
<1>2. /\ commit.version \in Int /\ prior.version \in Int /\ p.version \in Int
  BY CurriculumAssumption DEF Commits, Versions
<1>3. /\ commit.version >= prior.version
      /\ commit.version = prior.version => commit.content = prior.content
  BY <1>1 DEF ArtifactCheck, VersionPolicy, Payload
<1>4. QED
  BY <1>2, <1>3 DEF Below

(* A checked head is the latest one, and its artifact is its own content.  *)
LEMMA CheckedHead ==
  ASSUME NEW commit \in Commits, NEW prior \in Commits, ArtifactCheck(commit, prior)
  PROVE  /\ commit.artifact = Compiled(commit.content, commit.version)
         /\ Trusted(commit.artifact)
         /\ commit.artifact.payload = Payload(commit.content, commit.version)
         /\ Below(commit.artifact.payload, commit)
<1>1. commit.content \in Contents /\ commit.version \in Versions
  BY DEF Commits
<1>2. commit.artifact = Compiled(commit.content, commit.version)
  BY DEF ArtifactCheck
<1>3. commit.version \in Int
  BY <1>1, CurriculumAssumption DEF Versions
<1>4. QED
  BY <1>1, <1>2, <1>3, CompiledLoads DEF Below, Payload

(* What keeps the history while main stays.                                *)
LEMMA HistoryKept ==
  ASSUME ReleaseInv, UNCHANGED <<main, before>>, mainGreen' \in BOOLEAN,
         ~overlooked' => ~overlooked,
         mainGreen => mainGreen',
         ~overlooked' /\ mainGreen' => ArtifactCheck(main, before),
         Established' \subseteq
           Established \cup (IF mainGreen THEN {main.artifact.payload} ELSE {})
  PROVE  HistoryGood'
<1>. SUFFICES ASSUME ~overlooked'
              PROVE  /\ before.artifact = Compiled(before.content, before.version)
                     /\ mainGreen' => ArtifactCheck(main, before)
                     /\ \A p \in Established' : Below(p, Latest')
                     /\ OneContentPerVersion(Established')
  BY DEF HistoryGood, OneContentPerVersion, Below, ArtifactCheck, VersionPolicy
<1>1. /\ before.artifact = Compiled(before.content, before.version)
      /\ mainGreen => ArtifactCheck(main, before)
      /\ \A p \in Established : Below(p, Latest)
      /\ OneContentPerVersion(Established)
  BY DEF ReleaseInv, HistoryGood
<1>2. main \in Commits /\ before \in Commits
  BY DEF ReleaseInv, StateType, TypeOK
<1>3. Established \subseteq [content : Contents, version : Versions]
  BY EstablishedType DEF ReleaseInv
<1>4. mainGreen => /\ main.artifact.payload = Payload(main.content, main.version)
                   /\ Below(main.artifact.payload, main)
  BY <1>1, <1>2, CheckedHead
<1>5. \A p \in Established : Below(p, Latest')
  <2>1. CASE mainGreen' = mainGreen
    BY <1>1, <2>1 DEF Latest
  <2>2. CASE ~mainGreen /\ mainGreen'
    BY <1>1, <1>2, <1>3, <2>2, PolicyTransitive DEF Latest
  <2>3. mainGreen \in BOOLEAN
    BY DEF ReleaseInv, StateType, TypeOK
  <2>4. CASE mainGreen
    BY <1>1, <2>4 DEF Latest
  <2>5. CASE ~mainGreen /\ ~mainGreen'
    BY <1>1, <2>5 DEF Latest
  <2>6. QED
    BY <2>2, <2>4, <2>5
<1>6. \A p \in Established' : Below(p, Latest')
  BY <1>4, <1>5 DEF Latest
<1>7. OneContentPerVersion(Established')
  BY <1>1, <1>4 DEF OneContentPerVersion, Latest, Below, Payload
<1>8. QED
  BY <1>1, <1>6, <1>7

(* A push over a head that passes the check moves "before" to that head,   *)
(* above everything established.                                           *)
LEMMA PushedOver ==
  ASSUME ReleaseInv, before' = main, ~mainGreen', Unheeded, Established' = Established
  PROVE  HistoryGood'
<1>1. main \in Commits /\ before \in Commits /\ mainGreen \in BOOLEAN
  BY DEF ReleaseInv, StateType, TypeOK
<1>. SUFFICES ASSUME ~overlooked'
              PROVE  /\ main.artifact = Compiled(main.content, main.version)
                     /\ \A p \in Established : Below(p, main)
                     /\ OneContentPerVersion(Established)
  <2>1. Latest' = main
    BY DEF Latest
  <2>2. QED
    BY <2>1 DEF HistoryGood
<1>2. ~overlooked /\ ArtifactCheck(main, before)
  BY DEF Unheeded
<1>3. /\ before.artifact = Compiled(before.content, before.version)
      /\ \A p \in Established : Below(p, Latest)
      /\ OneContentPerVersion(Established)
  BY <1>2 DEF ReleaseInv, HistoryGood
<1>4. Established \subseteq [content : Contents, version : Versions]
  BY EstablishedType DEF ReleaseInv
<1>5. \A p \in Established : Below(p, main)
  <2>1. CASE mainGreen
    BY <1>3, <2>1 DEF Latest
  <2>2. CASE ~mainGreen
    BY <1>1, <1>2, <1>3, <1>4, <2>2, PolicyTransitive DEF Latest
  <2>3. QED
    BY <1>1, <2>1, <2>2
<1>6. QED
  BY <1>1, <1>2, <1>3, <1>5, CheckedHead

------------------------------------------------------------------------------
(* Authors                                                                 *)

Branches == {Behind} \cup [head : Commits, edited : BOOLEAN]

LEMMA AuthoringStep ==
  ASSUME ReleaseInv, Authoring, branch' \in [Authors -> Branches]
  PROVE  ReleaseInv'
<1>. USE DEF Authoring, ReleaseInv
<1>1. StateType'
  BY DEF StateType, TypeOK, Branches
<1>2. ArtifactsGood' /\ AttemptsGood'
  BY DEF ArtifactsGood, AttemptsGood
<1>3. Established' = Established
  BY DEF Established
<1>4. HistoryGood'
  BY <1>3, HistoryKept DEF HistoryGood, StateType, TypeOK
<1>5. QED
  BY <1>1, <1>2, <1>4

LEMMA BranchWrite ==
  ASSUME ReleaseInv, NEW a \in Authors, Current(a)
  PROVE  /\ branch[a] \in [head : Commits, edited : BOOLEAN]
         /\ branch[a].head \in Commits
         /\ \A head \in Commits : Save(a, head) => branch' \in [Authors -> Branches]
<1>1. branch \in [Authors -> Branches] /\ branch[a] \in [head : Commits, edited : BOOLEAN]
  BY DEF ReleaseInv, StateType, TypeOK, Current, Branches
<1>2. ASSUME NEW head \in Commits, Save(a, head)
      PROVE  branch' \in [Authors -> Branches]
  <2>1. [branch[a] EXCEPT !.head = head] \in Branches
    BY <1>1 DEF Branches
  <2>2. branch' = [branch EXCEPT ![a] = [branch[a] EXCEPT !.head = head]]
    BY <1>1, <1>2 DEF Save
  <2>3. QED
    BY <1>1, <2>1, <2>2
<1>3. QED
  BY <1>1, <1>2

LEMMA RebaseStep ==
  ASSUME ReleaseInv, NEW a \in Authors, Rebase(a)
  PROVE  ReleaseInv'
<1>1. branch' \in [Authors -> Branches]
  BY DEF Rebase, ReleaseInv, StateType, TypeOK, Fresh, Branches
<1>2. QED
  BY <1>1, AuthoringStep DEF Rebase

LEMMA EditTreeStep ==
  ASSUME ReleaseInv, NEW a \in Authors, EditTree(a)
  PROVE  ReleaseInv'
<1>1. PICK content \in Contents, version \in Versions :
         branch' = [branch EXCEPT ![a] =
           [Fresh(Commit(content, version, branch[a].head.artifact)) EXCEPT !.edited = TRUE]]
  BY DEF EditTree
<1>2. branch[a].head \in Commits
  BY BranchWrite DEF EditTree
<1>3. [Fresh(Commit(content, version, branch[a].head.artifact)) EXCEPT !.edited = TRUE]
        \in Branches
  BY <1>2 DEF Fresh, Commit, Commits, Branches
<1>4. branch' \in [Authors -> Branches]
  BY <1>1, <1>3 DEF ReleaseInv, StateType, TypeOK, Branches
<1>5. QED
  BY <1>4, AuthoringStep DEF EditTree

LEMMA CompileLocallyStep ==
  ASSUME ReleaseInv, NEW a \in Authors, CompileLocally(a)
  PROVE  ReleaseInv'
<1>. DEFINE head == branch[a].head
            new == [head EXCEPT !.artifact = Compiled(head.content, head.version)]
<1>1. head \in Commits
  BY BranchWrite DEF CompileLocally
<1>2. new \in Commits
  BY <1>1, CompiledLoads DEF Commits
<1>3. Save(a, new) /\ Current(a)
  BY DEF CompileLocally
<1>4. branch' \in [Authors -> Branches]
  BY <1>2, <1>3, BranchWrite
<1>5. QED
  BY <1>4, AuthoringStep DEF CompileLocally

LEMMA EditArtifactStep ==
  ASSUME ReleaseInv, NEW a \in Authors, EditArtifact(a)
  PROVE  ReleaseInv'
<1>. DEFINE head == branch[a].head
<1>1. head \in Commits /\ Current(a)
  BY BranchWrite DEF EditArtifact
<1>2. PICK content \in Contents :
         Save(a, [head EXCEPT !.artifact.payload.content = content])
  BY DEF EditArtifact
<1>. HIDE DEF head
<1>3. head.artifact \in Artifacts
      /\ head.artifact.payload \in [content : Contents, version : Versions]
  BY <1>1 DEF Commits, Artifacts
<1>4. [head.artifact.payload EXCEPT !.content = content]
        \in [content : Contents, version : Versions]
  BY <1>3
<1>5. [head.artifact EXCEPT !.payload = [head.artifact.payload EXCEPT !.content = content]]
        \in Artifacts
  BY <1>3, <1>4 DEF Artifacts
<1>6. [head EXCEPT !.artifact.payload.content = content] \in Commits
  BY <1>1, <1>3, <1>5 DEF Commits
<1>7. branch' \in [Authors -> Branches]
  BY <1>1, <1>2, <1>6, BranchWrite
<1>8. QED
  BY <1>7, AuthoringStep DEF EditArtifact

------------------------------------------------------------------------------
(* main, CI, deployment and processes                                      *)

LEMMA PushStep ==
  ASSUME ReleaseInv, NEW a \in Authors, Push(a)
  PROVE  ReleaseInv'
<1>. USE DEF Push
<1>1. branch[a].head \in Commits /\ main \in Commits /\ before \in Commits
  BY BranchWrite DEF ReleaseInv, StateType, TypeOK
<1>2. StateType'
  <2>1. branch' \in [Authors -> Branches]
    BY <1>1 DEF Fresh, Branches
  <2>2. overlooked' \in BOOLEAN
    BY DEF Unheeded
  <2>3. QED
    BY <1>1, <2>1, <2>2 DEF ReleaseInv, StateType, TypeOK, Branches
<1>3. ArtifactsGood' /\ AttemptsGood'
  BY DEF ReleaseInv, ArtifactsGood, AttemptsGood
<1>4. HistoryGood'
  <2>1. Established' = Established
    BY DEF Established
  <2>2. QED
    BY <2>1, PushedOver
<1>5. QED
  BY <1>2, <1>3, <1>4 DEF ReleaseInv

LEMMA PushElsewhereStep ==
  ASSUME ReleaseInv, PushElsewhere
  PROVE  ReleaseInv'
<1>. USE DEF PushElsewhere, ReleaseInv
<1>1. overlooked' \in BOOLEAN
  BY DEF Unheeded
<1>2. StateType' /\ ArtifactsGood' /\ AttemptsGood'
  BY <1>1 DEF StateType, TypeOK, ArtifactsGood, AttemptsGood
<1>3. HistoryGood'
  <2>1. Established' = Established
    BY DEF Established
  <2>2. QED
    BY <2>1, PushedOver
<1>4. QED
  BY <1>2, <1>3

(* Every run that lets main through, with the check or without.            *)
LEMMA ReleasedStep ==
  ASSUME ReleaseInv, CheckMain \/ Dispatch \/ SkipCheck
  PROVE  ReleaseInv'
<1>. USE DEF ReleaseInv
<1>1. Released /\ ((ArtifactCheck(main, before) /\ overlooked' = overlooked) \/ Unheeded)
  BY DEF CheckMain, Dispatch, SkipCheck
<1>. USE DEF Released
<1>2. overlooked' \in BOOLEAN
  BY <1>1 DEF Unheeded, StateType
<1>3. StateType' /\ ArtifactsGood' /\ AttemptsGood'
  BY <1>1, <1>2 DEF StateType, TypeOK, ArtifactsGood, AttemptsGood
<1>4. ~overlooked' => ~overlooked /\ ArtifactCheck(main, before)
  BY <1>1 DEF Unheeded
<1>5. Established' = Established
  BY <1>1 DEF Established
<1>6. HistoryGood'
  BY <1>1, <1>4, <1>5, HistoryKept
<1>7. QED
  BY <1>3, <1>6

LEMMA DeployStep ==
  ASSUME ReleaseInv, Deploy
  PROVE  /\ ReleaseInv'
         /\ ~overlooked => deployed'.payload.version > deployed.payload.version
<1>. USE DEF Deploy, ReleaseInv
<1>1. main \in Commits /\ before \in Commits /\ deployed \in Artifacts
  BY DEF StateType, TypeOK
<1>2. Trusted(main.artifact) /\ main.artifact \in Artifacts
  BY <1>1 DEF Commits
<1>3. StateType'
  BY <1>2 DEF StateType, TypeOK
<1>4. ArtifactsGood' /\ AttemptsGood'
  BY <1>2 DEF ArtifactsGood, AttemptsGood, Trusted
<1>5. Established' \subseteq Established \cup {main.artifact.payload}
  BY DEF Established
<1>6. HistoryGood'
  BY <1>5, HistoryKept DEF HistoryGood, StateType, TypeOK
<1>7. ASSUME ~overlooked
      PROVE  deployed'.payload.version > deployed.payload.version
  <2>. main.artifact.payload = Payload(main.content, main.version)
    BY <1>1, <1>7, CheckedHead DEF HistoryGood
  <2>1. Below(deployed.payload, main)
    BY <1>7 DEF HistoryGood, Established, Latest
  <2>2. main.version \in Int /\ deployed.payload.version \in Int
    BY <1>1, CurriculumAssumption DEF Commits, Artifacts, Versions
  <2>3. deployed.payload.version # main.version
    <3>1. SUFFICES ASSUME deployed.payload.version = main.version
                   PROVE  deployed = main.artifact
      OBVIOUS
    <3>2. deployed.payload = Payload(main.content, main.version)
      BY <1>1, <2>1, <3>1 DEF Below, Payload, Artifacts
    <3>3. deployed.hash = main.artifact.hash
      BY <1>2, <3>2 DEF ArtifactsGood, Trusted
    <3>4. QED
      BY <1>1, <1>2, <3>2, <3>3 DEF Artifacts
  <2>4. deployed'.payload.version = main.version
    BY <1>2 DEF Payload
  <2>5. QED
    BY <2>1, <2>2, <2>3, <2>4 DEF Below
<1>8. QED
  BY <1>3, <1>4, <1>6, <1>7

LEMMA StartApiStep ==
  ASSUME ReleaseInv, StartApi
  PROVE  ReleaseInv'
<1>. USE DEF StartApi, ReleaseInv
<1>1. api' = deployed /\ crashed' = crashed
  BY DEF ArtifactsGood
<1>2. StateType'
  BY <1>1 DEF StateType, TypeOK
<1>3. ArtifactsGood' /\ AttemptsGood'
  BY <1>1 DEF ArtifactsGood, AttemptsGood, Trusted
<1>4. Established' \subseteq Established
  BY <1>1 DEF Established
<1>5. HistoryGood'
  BY <1>4, HistoryKept DEF HistoryGood, StateType, TypeOK
<1>6. QED
  BY <1>2, <1>3, <1>5

LEMMA OpenPageStep ==
  ASSUME ReleaseInv, OpenPage
  PROVE  ReleaseInv'
<1>. USE DEF OpenPage, ReleaseInv
<1>1. api \in Artifacts
  BY DEF StateType, TypeOK
<1>2. StateType' /\ ArtifactsGood' /\ AttemptsGood'
  BY <1>1 DEF StateType, TypeOK, Artifacts, ArtifactsGood, AttemptsGood, Trusted
<1>3. Established' \subseteq Established
  BY DEF Established
<1>4. HistoryGood'
  BY <1>3, HistoryKept DEF HistoryGood, StateType, TypeOK
<1>5. QED
  BY <1>2, <1>4

------------------------------------------------------------------------------
(* Attempts                                                                *)

LEMMA SubmitStep ==
  ASSUME ReleaseInv, Submit
  PROVE  ReleaseInv'
<1>. DEFINE r == [seen |-> page, version |-> api.payload.version,
                  snapshot |-> api.payload.content, hash |-> Hash(api.payload.content),
                  prepared |-> NoCommit]
<1>. USE DEF Submit, ReleaseInv
<1>1. api \in Artifacts /\ attempts' = Append(attempts, r) /\ attempts \in Seq(AttemptRow)
  BY DEF StateType, TypeOK
<1>2. r \in AttemptRow
  BY <1>1 DEF AttemptRow, Artifacts, Payloads, StateType, TypeOK
<1>3. /\ attempts' \in Seq(AttemptRow)
      /\ \A i \in DOMAIN attempts' :
            attempts'[i] = r \/ (i \in DOMAIN attempts /\ attempts'[i] = attempts[i])
  BY <1>1, <1>2
<1>4. StateType'
  BY <1>3 DEF StateType, TypeOK
<1>5. ArtifactsGood'
  BY DEF ArtifactsGood, Trusted
<1>6. AttemptsGood'
  BY <1>3 DEF AttemptsGood
<1>7. Established' \subseteq Established
  <2>1. Payload(r.snapshot, r.version) = api.payload
    BY <1>1 DEF Payload, Artifacts
  <2>2. api.payload \in Established /\ r.seen \in Established
    BY DEF Established
  <2>3. \A i \in DOMAIN attempts' :
          /\ Payload(attempts'[i].snapshot, attempts'[i].version) \in Established
          /\ attempts'[i].seen \in Established
    BY <1>3, <2>1, <2>2 DEF Established
  <2>4. QED
    BY <2>3 DEF Established
<1>8. HistoryGood'
  BY <1>7, HistoryKept DEF HistoryGood, StateType, TypeOK
<1>9. QED
  BY <1>4, <1>5, <1>6, <1>8

LEMMA PrepareStep ==
  ASSUME ReleaseInv, NEW i \in DOMAIN attempts, Prepare(i)
  PROVE  ReleaseInv'
<1>. USE DEF Prepare, ReleaseInv
<1>. DEFINE r == [attempts[i] EXCEPT !.prepared = attempts[i].snapshot]
<1>1. attempts \in Seq(AttemptRow) /\ attempts[i] \in AttemptRow
  BY EstablishedType DEF StateType
<1>2. Rehydrated(attempts[i]) = attempts[i].snapshot
  BY DEF Rehydrated, AttemptsGood
<1>3. r \in AttemptRow /\ attempts' = [attempts EXCEPT ![i] = r]
  BY <1>1, <1>2 DEF AttemptRow
<1>4. /\ attempts' \in Seq(AttemptRow) /\ DOMAIN attempts' = DOMAIN attempts
      /\ \A k \in DOMAIN attempts : attempts'[k] = IF k = i THEN r ELSE attempts[k]
  BY <1>1, <1>3
<1>5. StateType'
  BY <1>4 DEF StateType, TypeOK
<1>6. ArtifactsGood'
  BY DEF ArtifactsGood, Trusted
<1>7. /\ r.snapshot = attempts[i].snapshot /\ r.version = attempts[i].version
      /\ r.hash = attempts[i].hash /\ r.seen = attempts[i].seen
      /\ r.prepared = attempts[i].snapshot
  BY <1>1 DEF AttemptRow
<1>8. AttemptsGood'
  <2>1. SUFFICES ASSUME NEW k \in DOMAIN attempts
                 PROVE  /\ attempts'[k].hash = Hash(attempts'[k].snapshot)
                        /\ attempts'[k].prepared \in {NoCommit, attempts'[k].snapshot}
    BY <1>4 DEF AttemptsGood, Hash
  <2>2. QED
    BY <1>4, <1>7, <2>1 DEF AttemptsGood
<1>9. Established' \subseteq Established
  BY <1>4, <1>7 DEF Established
<1>10. HistoryGood'
  BY <1>9, HistoryKept DEF HistoryGood, StateType, TypeOK
<1>11. QED
  BY <1>5, <1>6, <1>8, <1>10

------------------------------------------------------------------------------
(* ReleaseInv is inductive, and only a deployment changes what is deployed. *)
LEMMA ReleaseInvStep ==
  ReleaseInv /\ [Next]_vars =>
    /\ ReleaseInv'
    /\ deployed' # deployed /\ ~overlooked
         => deployed'.payload.version > deployed.payload.version
<1>. SUFFICES ASSUME ReleaseInv, [Next]_vars
              PROVE  /\ ReleaseInv'
                     /\ deployed' # deployed /\ ~overlooked
                          => deployed'.payload.version > deployed.payload.version
  OBVIOUS
<1>1. CASE UNCHANGED vars
  <2>1. Established' = Established
    BY <1>1 DEF vars, Established
  <2>2. HistoryGood'
    BY <1>1, <2>1, HistoryKept DEF vars, ReleaseInv, HistoryGood, StateType, TypeOK
  <2>3. QED
    BY <1>1, <2>2 DEF vars, ReleaseInv, StateType, TypeOK, ArtifactsGood, AttemptsGood,
       Trusted
<1>2. ASSUME NEW a \in Authors,
             Rebase(a) \/ EditTree(a) \/ CompileLocally(a) \/ EditArtifact(a) \/ Push(a)
      PROVE  ReleaseInv' /\ deployed' = deployed
  BY <1>2, RebaseStep, EditTreeStep, CompileLocallyStep, EditArtifactStep, PushStep
     DEF Rebase, EditTree, CompileLocally, EditArtifact, Push, Authoring
<1>3. CASE \/ PushElsewhere \/ CheckMain \/ Dispatch \/ SkipCheck
           \/ StartApi \/ OpenPage \/ Submit \/ \E i \in DOMAIN attempts : Prepare(i)
  BY <1>3, PushElsewhereStep, ReleasedStep, StartApiStep, OpenPageStep, SubmitStep, PrepareStep
     DEF PushElsewhere, CheckMain, Dispatch, SkipCheck, Released, StartApi, OpenPage, Submit,
         Prepare
<1>4. CASE Deploy
  BY <1>4, DeployStep
<1>5. QED
  BY <1>1, <1>2, <1>3, <1>4 DEF Next

LEMMA ReleaseInvHolds == Spec => []ReleaseInv
<1>1. ReleaseInv /\ [Next]_vars => ReleaseInv'
  BY ReleaseInvStep
<1>2. QED
  BY <1>1, InitReleaseInv, PTL DEF Spec

(* Branches, main, images and processes hold what their types say.         *)
THEOREM TypeCorrect == Spec => []TypeOK
<1>1. ReleaseInv => TypeOK
  BY DEF ReleaseInv, StateType
<1>2. QED
  BY <1>1, ReleaseInvHolds, PTL

(* An artifact that is deployed never keeps a process from starting.       *)
THEOREM DeployedAlwaysLoads == Spec => []DeployedArtifactLoads
<1>1. ReleaseInv => DeployedArtifactLoads
  BY DEF ReleaseInv, ArtifactsGood, DeployedArtifactLoads
<1>2. QED
  BY <1>1, ReleaseInvHolds, PTL

(* An attempt is graded against the definition in its row; unless a head   *)
(* that fails the check was overlooked, the version in the row says which  *)
(* one that is, and a page of that version showed no other.                *)
THEOREM DefinitionsAreKept == Spec => []AttemptsKeepTheirDefinition
<1>1. ReleaseInv => GradedAsShown
  <2>1. SUFFICES ASSUME ReleaseInv, NEW i \in DOMAIN attempts, ~overlooked,
                        attempts[i].seen.version = attempts[i].version
                 PROVE  attempts[i].snapshot = attempts[i].seen.content
    BY DEF ReleaseInv, AttemptsGood, GradedAsShown
  <2>2. /\ Payload(attempts[i].snapshot, attempts[i].version) \in Established
        /\ attempts[i].seen \in Established
    BY DEF Established
  <2>3. QED
    BY <2>1, <2>2 DEF ReleaseInv, HistoryGood, OneContentPerVersion, Payload
<1>2. ReleaseInv => VersionTellsDefinition
  <2>1. SUFFICES ASSUME ReleaseInv, ~overlooked,
                        NEW i \in DOMAIN attempts, NEW j \in DOMAIN attempts,
                        attempts[i].version = attempts[j].version
                 PROVE  attempts[i].snapshot = attempts[j].snapshot
    BY DEF VersionTellsDefinition
  <2>2. /\ Payload(attempts[i].snapshot, attempts[i].version) \in Established
        /\ Payload(attempts[j].snapshot, attempts[j].version) \in Established
    BY DEF Established
  <2>3. QED
    BY <2>1, <2>2 DEF ReleaseInv, HistoryGood, OneContentPerVersion, Payload
<1>3. QED
  BY <1>1, <1>2, ReleaseInvHolds, PTL DEF AttemptsKeepTheirDefinition

(* A deployment that changes the artifact raises its version, whichever    *)
(* pushes it skipped, unless a failing head was overlooked.                *)
THEOREM ReleasesAlwaysRise == Spec => ReleasesRise
<1>1. ReleaseInv /\ [Next]_vars =>
         [deployed' # deployed /\ ~overlooked
            => deployed'.payload.version > deployed.payload.version]_vars
  BY ReleaseInvStep
<1>2. QED
  BY <1>1, ReleaseInvHolds, PTL DEF Spec, ReleasesRise
================================================================================
