------------------------- MODULE VerificationProofs -------------------------
(***************************************************************************)
(* What a verification may conclude, for every bound on attempts, retries  *)
(* and crashes: the challenge against the learner's API, and the verdict   *)
(* the engine and the grading make of the steps of a profile.              *)
(***************************************************************************)
EXTENDS Verification, FiniteSetTheorems, TLAPS

-----------------------------------------------------------------------------
(* The challenge.                                                          *)
Calls == 1..(MaxCrashes + 1)
EntryId == Calls \X (1..FetchAttempts)

ChallengeType ==
    /\ url \in Challenge!Url /\ real \in SUBSET Challenge!Entry
    /\ held \in SUBSET EntryId
    /\ callAt \in [Calls -> {"url", "post", "get", "clean", "done"}]
    /\ callTries \in [Calls -> 0..(FetchAttempts - 1)]
    /\ sent \in [Calls -> 0..FetchAttempts]
    /\ known \in [Calls -> {Challenge!NoId} \cup EntryId]
    /\ result \in [Calls -> {"none", "valid", "failed"}]
    /\ seen \in [Calls -> SUBSET Challenge!Entry]
    /\ cleaned \in [Calls -> BOOLEAN]

(* A run posts at most once per attempt, and knows only ids of its own.    *)
CallGood(r) ==
    /\ callAt[r] \in {"post", "get", "clean"} => url = "public"
    /\ callAt[r] \in {"url", "post"} =>
         known[r] = Challenge!NoId /\ sent[r] <= callTries[r]
    /\ callAt[r] = "url" => sent[r] = 0
    /\ callAt[r] \in {"url", "post", "get"} => result[r] = "none"
    /\ callAt[r] # "done" => ~cleaned[r]
    /\ known[r] # Challenge!NoId => known[r][1] = r /\ known[r][2] \in 1..sent[r]
    /\ \A c \in held : c[1] = r => c[2] \in 1..sent[r]
    /\ result[r] = "valid" =>
         /\ url = "public" /\ known[r] # Challenge!NoId
         /\ \A e \in seen[r] : e \cap Challenge!Judged = {}
    /\ cleaned[r] => known[r] \notin held

ChallengeInv == ChallengeType /\ \A r \in Calls : CallGood(r)

-----------------------------------------------------------------------------
(* The engine.                                                             *)
StepRecord == [results : Seq(ValidationResult), task : BOOLEAN]
Favourable == {"success", "scanned", "present", "manifest", "page", "fork",
               "works", "answers"}

(* A gate carries one result and asks for no grading; a review asks for    *)
(* grading or carries one failed result.  No valid result lists a failed   *)
(* task.                                                                   *)
StepShape(check, s) ==
    IF check \in ReviewCheck
      THEN \/ s.task /\ s.results = <<>>
           \/ ~s.task /\ Len(s.results) = 1 /\ ~s.results[1].valid
      ELSE /\ ~s.task /\ Len(s.results) = 1
           /\ s.results[1].valid =>
                \A k \in DOMAIN s.results[1].tasks : s.results[1].tasks[k]

(* An outage other than PageRefused leaves a gate incomplete, a passed     *)
(* gate saw only favourable answers.                                       *)
Explains(check, s, answer) ==
    /\ Operational(answer) /\ ~PageRefused(check, answer) => ~s.results[1].completed
    /\ s.results[1].valid => answer \in Favourable

StepsGood ==
    /\ steps \in Seq(StepRecord) /\ Len(steps) <= Len(Checks(job))
    /\ \A k \in 1..Len(steps) : StepShape(Checks(job)[k], steps[k])
    /\ \A k \in 1..(Len(steps) - 1) : Passed(steps[k])
    /\ \A x \in read : \E k \in 1..Len(steps) :
         /\ x[1] = Checks(job)[k]
         /\ x[1] \notin ReviewCheck => Explains(x[1], steps[k], x[2])
    /\ ~HasIdentity => steps = <<>> /\ read = {}

(* Until it is graded, a run that asked for grading has a valid result and *)
(* no decision but one.                                                    *)
GradingGood ==
    /\ run.requests = 1 /\ run.disposition = "requested"
    /\ run.result.valid
    /\ \A k \in DOMAIN run.result.tasks : run.result.tasks[k]
    /\ HasIdentity /\ ~Stopped /\ Len(steps) = Len(Checks(job))
    /\ decisions \in Seq(Decision) /\ Len(decisions) <= 1
    /\ pc \in {"config", "grading"} => decisions = <<>>
    /\ pc = "apply" => Len(decisions) = 1

EngineInv ==
    /\ job \in [type : SubmissionType, username : BOOLEAN]
    /\ pc \in PC /\ crashes \in 0..MaxCrashes
    /\ StepsGood
    /\ run.result \in ValidationResult
    /\ pc = "engine" => run = NoRun /\ decisions = <<>>
    /\ pc \in {"config", "grading", "apply", "failing"} => GradingGood
    /\ pc = "finalize" /\ run.result.valid => ~Stopped
    /\ EveryRunExplained /\ GateOutageNotBlamed /\ SuccessFullyEarned /\ FeedbackAgrees

(* The challenge of an execution is over when its step is recorded, and    *)
(* the step says what it found.                                            *)
ChallengeReported ==
    job.type = "deployed_api" /\ steps # <<>> =>
        /\ callAt[Execution] = "done"
        /\ steps[1].results[1].valid = (result[Execution] = "valid")

VerificationInv == ChallengeInv /\ EngineInv /\ ChallengeReported

-----------------------------------------------------------------------------
(* The challenge keeps its invariant.                                      *)
LEMMA ChallengeInit ==
    ASSUME Challenge!Init
    PROVE  ChallengeInv
<1> USE FetchAssumption, AttemptsAssumption
<1>1. ChallengeType
  BY DEF Challenge!Init, ChallengeType, Calls, Challenge!NoId
<1>2. ASSUME NEW r \in Calls PROVE CallGood(r)
  BY <1>2 DEF Challenge!Init, CallGood, Calls, Challenge!NoId
<1> QED BY <1>1, <1>2 DEF ChallengeInv

(* What a step of one run may do to the entries: add one with the number   *)
(* it has just sent, or remove the one it knows when it cleans up.         *)
LEMMA EntriesTouched ==
    ASSUME ChallengeInv, NEW r \in Calls, Challenge!Step(r)
    PROVE  \/ held' = held /\ sent' = sent
           \/ /\ callAt[r] = "post"
              /\ sent' = [sent EXCEPT ![r] = sent[r] + 1]
              /\ held' = held \cup {<<r, sent[r] + 1>>}
           \/ /\ callAt[r] = "clean" /\ known[r] # Challenge!NoId /\ sent' = sent
              /\ held' = held \ {known[r]}
<1>1. CASE Challenge!CheckUrl(r) \/ Challenge!ReadEntries(r)
  BY <1>1 DEF Challenge!CheckUrl, Challenge!ReadEntries
<1>2. CASE Challenge!PostChallenge(r)
  BY <1>2 DEF Challenge!PostChallenge, Challenge!Store
<1>3. CASE Challenge!Cleanup(r)
  BY <1>3 DEF Challenge!Cleanup
<1> QED BY <1>1, <1>2, <1>3 DEF Challenge!Step

(* No entry is the missing id.                                             *)
LEMMA NoIdIsNone == \A c \in EntryId : c # Challenge!NoId
<1> SUFFICES ASSUME NEW a \in Calls, NEW n \in 1..FetchAttempts
             PROVE  <<a, n>> # <<>>
  BY DEF EntryId, Challenge!NoId
<1>1. Len(<<a, n>>) = 2 /\ Len(<<>>) = 0
  OBVIOUS
<1> QED BY <1>1

(* No run touches the fields of another.                                   *)
LEMMA OthersKeep ==
    ASSUME ChallengeInv, NEW r \in Calls, Challenge!Step(r), NEW q \in Calls, q # r
    PROVE  /\ callAt'[q] = callAt[q] /\ callTries'[q] = callTries[q]
           /\ sent'[q] = sent[q] /\ known'[q] = known[q] /\ result'[q] = result[q]
           /\ seen'[q] = seen[q] /\ cleaned'[q] = cleaned[q]
           /\ \A c : c[1] = q => (c \in held' <=> c \in held)
<1> USE DEF ChallengeInv, ChallengeType, Challenge!Goto, Challenge!Conclude,
            Challenge!unread
<1>1. /\ callAt'[q] = callAt[q] /\ callTries'[q] = callTries[q]
      /\ known'[q] = known[q] /\ result'[q] = result[q]
      /\ seen'[q] = seen[q] /\ cleaned'[q] = cleaned[q]
  <2>1. CASE Challenge!CheckUrl(r)
    BY <2>1 DEF Challenge!CheckUrl
  <2>2. CASE Challenge!PostChallenge(r)
    BY <2>2 DEF Challenge!PostChallenge, Challenge!Store, Challenge!Retry
  <2>3. CASE Challenge!ReadEntries(r)
    BY <2>3 DEF Challenge!ReadEntries, Challenge!Retry
  <2>4. CASE Challenge!Cleanup(r)
    BY <2>4 DEF Challenge!Cleanup, Challenge!Retry
  <2> QED BY <2>1, <2>2, <2>3, <2>4 DEF Challenge!Step
<1>2. known[r] # Challenge!NoId => known[r][1] = r
  BY DEF CallGood
<1>3. sent'[q] = sent[q] /\ \A c : c[1] = q => (c \in held' <=> c \in held)
  BY <1>2, EntriesTouched
<1> QED BY <1>1, <1>3

(* So the others stay as good as they were.                                *)
LEMMA OthersStayGood ==
    ASSUME ChallengeInv, NEW r \in Calls, Challenge!Step(r), NEW q \in Calls, q # r
    PROVE  CallGood(q)'
<1>1. CallGood(q) /\ url' = url
  BY DEF ChallengeInv, Challenge!Step, Challenge!CheckUrl, Challenge!PostChallenge,
     Challenge!ReadEntries, Challenge!Cleanup, Challenge!unread
<1>2. /\ callAt'[q] = callAt[q] /\ callTries'[q] = callTries[q]
      /\ sent'[q] = sent[q] /\ known'[q] = known[q] /\ result'[q] = result[q]
      /\ seen'[q] = seen[q] /\ cleaned'[q] = cleaned[q]
      /\ \A c : c[1] = q => (c \in held' <=> c \in held)
  BY OthersKeep
<1>3. known[q] # Challenge!NoId => (known[q] \in held' <=> known[q] \in held)
  BY <1>1, <1>2 DEF CallGood
<1>4. known[q] = Challenge!NoId => known[q] \notin held'
  <2>1. held' \subseteq held \cup {<<r, sent[r] + 1>>}
    BY EntriesTouched
  <2>2. Challenge!NoId \notin held
    BY NoIdIsNone DEF ChallengeInv, ChallengeType
  <2>3. r \in Calls => <<r, sent[r] + 1>> # Challenge!NoId
    <3>1. Len(<<r, sent[r] + 1>>) = 2 /\ Len(<<>>) = 0
      OBVIOUS
    <3> QED BY <3>1 DEF Challenge!NoId
  <2> QED BY <2>1, <2>2, <2>3
<1> QED BY <1>1, <1>2, <1>3, <1>4 DEF CallGood

(* Every field keeps its type: a run is stored at most once per attempt.   *)
LEMMA CallTyped ==
    ASSUME ChallengeInv, NEW r \in Calls, Challenge!Step(r)
    PROVE  ChallengeType'
<1> USE FetchAssumption DEF ChallengeInv, ChallengeType, Challenge!Goto,
            Challenge!Conclude, Challenge!unread
<1>1. callTries[r] \in 0..(FetchAttempts - 1) /\ sent[r] \in 0..FetchAttempts
  OBVIOUS
<1>2. callAt[r] = "post" => sent[r] + 1 \in 1..FetchAttempts
  BY <1>1 DEF CallGood
<1>3. /\ callAt' \in [Calls -> {"url", "post", "get", "clean", "done"}]
      /\ callTries' \in [Calls -> 0..(FetchAttempts - 1)]
      /\ result' \in [Calls -> {"none", "valid", "failed"}]
      /\ seen' \in [Calls -> SUBSET Challenge!Entry]
      /\ cleaned' \in [Calls -> BOOLEAN]
      /\ UNCHANGED <<url, real>>
  <2>1. CASE Challenge!CheckUrl(r)
    BY <2>1 DEF Challenge!CheckUrl
  <2>2. CASE Challenge!PostChallenge(r)
    BY <1>1, <2>2 DEF Challenge!PostChallenge, Challenge!Retry
  <2>3. CASE Challenge!ReadEntries(r)
    BY <1>1, <2>3 DEF Challenge!ReadEntries, Challenge!Retry
  <2>4. CASE Challenge!Cleanup(r)
    <3>1. /\ UNCHANGED <<url, real, seen, result>>
          /\ cleaned' \in {cleaned, [cleaned EXCEPT ![r] = TRUE]}
      BY <2>4 DEF Challenge!Cleanup, Challenge!Retry
    <3>2. \/ callAt' = [callAt EXCEPT ![r] = "done"]
             /\ callTries' = [callTries EXCEPT ![r] = 0]
          \/ callAt' = callAt /\ callTries[r] + 1 < FetchAttempts
             /\ callTries' = [callTries EXCEPT ![r] = callTries[r] + 1]
      BY <2>4 DEF Challenge!Cleanup, Challenge!Retry
    <3>3. /\ callAt' \in [Calls -> {"url", "post", "get", "clean", "done"}]
          /\ callTries' \in [Calls -> 0..(FetchAttempts - 1)]
      <4>1. 0 \in 0..(FetchAttempts - 1)
        OBVIOUS
      <4>2. callTries[r] + 1 < FetchAttempts => callTries[r] + 1 \in 0..(FetchAttempts - 1)
        BY <1>1
      <4> QED BY <3>2, <4>1, <4>2
    <3> QED BY <3>1, <3>3
  <2> QED BY <2>1, <2>2, <2>3, <2>4 DEF Challenge!Step
<1>4. sent' \in [Calls -> 0..FetchAttempts] /\ held' \in SUBSET EntryId
  BY <1>1, <1>2, EntriesTouched DEF EntryId
<1>5. known' \in [Calls -> {Challenge!NoId} \cup EntryId]
  <2>1. CASE Challenge!CheckUrl(r) \/ Challenge!Cleanup(r)
    BY <2>1 DEF Challenge!CheckUrl, Challenge!Cleanup
  <2>2. CASE Challenge!PostChallenge(r)
    BY <1>1, <1>2, <2>2 DEF Challenge!PostChallenge, Challenge!Store, EntryId
  <2>3. CASE Challenge!ReadEntries(r)
    BY <2>3 DEF Challenge!ReadEntries, Challenge!Mine
  <2> QED BY <2>1, <2>2, <2>3 DEF Challenge!Step
<1> QED BY <1>3, <1>4, <1>5

(* The run itself, action by action.                                       *)
LEMMA CheckUrlGood ==
    ASSUME ChallengeInv, NEW r \in Calls, Challenge!CheckUrl(r)
    PROVE  CallGood(r)'
<1>1. CallGood(r) /\ result[r] = "none" /\ callTries[r] \in Nat
  BY FetchAssumption DEF ChallengeInv, ChallengeType, CallGood, Challenge!CheckUrl
<1>2. /\ UNCHANGED <<url, held, sent, known, cleaned, seen>> /\ callAt[r] = "url"
      /\ \/ callAt'[r] = "post" /\ url = "public" /\ result' = result
         \/ callAt'[r] = "done" /\ result'[r] = "failed"
      /\ callTries'[r] = 0
  BY DEF ChallengeInv, ChallengeType, Challenge!CheckUrl, Challenge!Goto,
     Challenge!Conclude, Challenge!UrlAccepted, Challenge!unread
<1>3. sent[r] = 0
  BY <1>1, <1>2 DEF CallGood
<1> QED BY <1>1, <1>2, <1>3 DEF CallGood

LEMMA PostGood ==
    ASSUME ChallengeInv, NEW r \in Calls, Challenge!PostChallenge(r)
    PROVE  CallGood(r)'
<1> USE FetchAssumption
<1>1. /\ CallGood(r) /\ callTries[r] \in Nat /\ sent[r] \in Nat
      /\ callAt[r] = "post" /\ result[r] = "none" /\ ~cleaned[r]
      /\ known[r] = Challenge!NoId /\ sent[r] <= callTries[r] /\ url = "public"
  BY DEF ChallengeInv, ChallengeType, CallGood, Challenge!PostChallenge
<1>2. /\ UNCHANGED <<url, real, seen, cleaned>>
      /\ \/ /\ sent'[r] = sent[r] + 1 /\ held' = held \cup {<<r, sent[r] + 1>>}
            /\ known'[r] = Challenge!NoId \/ known'[r] = <<r, sent[r] + 1>>
            /\ callAt'[r] = "get" /\ result'[r] = "none"
         \/ /\ \/ sent'[r] = sent[r] + 1 /\ held' = held \cup {<<r, sent[r] + 1>>}
               \/ sent'[r] = sent[r] /\ held' = held
            /\ known'[r] = Challenge!NoId
            /\ \/ callAt'[r] = "post" /\ callTries'[r] = callTries[r] + 1
                  /\ result'[r] = "none"
               \/ callAt'[r] = "done" /\ result'[r] = "failed"
  BY <1>1 DEF ChallengeInv, ChallengeType, Challenge!PostChallenge, Challenge!Store,
     Challenge!Retry, Challenge!Goto, Challenge!Conclude, Challenge!unread
<1>3. \A c \in held' : c[1] = r => c[2] \in 1..sent'[r]
  <2>1. \A c \in held : c[1] = r => c[2] \in 1..sent[r]
    BY <1>1 DEF CallGood
  <2> QED BY <1>1, <1>2, <2>1
<1>4. known'[r] # Challenge!NoId => known'[r][1] = r /\ known'[r][2] \in 1..sent'[r]
  BY <1>1, <1>2
<1> QED BY <1>1, <1>2, <1>3, <1>4 DEF CallGood

(* A list that was valid held only entries without a judged defect: those  *)
(* that are not looked at have another one.                                *)
LEMMA SeenValid ==
    ASSUME NEW entries \in SUBSET Challenge!Entry, Challenge!EntriesValid(entries)
    PROVE  \A e \in entries : e \cap Challenge!Judged = {}
<1> SUFFICES ASSUME NEW e \in entries PROVE e \cap Challenge!Judged = {}
  OBVIOUS
<1>1. CASE e \cap Challenge!Unseen = {}
  BY <1>1 DEF Challenge!EntriesValid
<1>2. CASE e \cap Challenge!Unseen # {}
  <2>1. PICK d \in Challenge!Unseen : e = {d}
    BY <1>2 DEF Challenge!Entry, Challenge!Unseen, Challenge!Judged
  <2> QED BY <2>1 DEF Challenge!Unseen, Challenge!Judged
<1> QED BY <1>1, <1>2

LEMMA ReadGood ==
    ASSUME ChallengeInv, NEW r \in Calls, Challenge!ReadEntries(r)
    PROVE  CallGood(r)'
<1>1. /\ CallGood(r) /\ callAt[r] = "get" /\ result[r] = "none" /\ ~cleaned[r]
      /\ url = "public"
  BY DEF ChallengeInv, CallGood, Challenge!ReadEntries
<1>2. UNCHANGED <<url, held, sent, cleaned>>
  BY DEF Challenge!ReadEntries
<1>3. \/ /\ callAt'[r] = "clean" /\ seen'[r] = real
         /\ result'[r] = IF Challenge!EntriesValid(real) THEN "valid" ELSE "failed"
         /\ \E c \in Challenge!Mine(r) :
              known'[r] = IF known[r] = Challenge!NoId THEN c ELSE known[r]
      \/ /\ known'[r] = known[r]
         /\ \/ callAt'[r] = "clean" /\ result'[r] = "failed"
            \/ callAt'[r] = "get" /\ result'[r] = "none"
  BY <1>1 DEF ChallengeInv, ChallengeType, Challenge!ReadEntries, Challenge!Retry,
     Challenge!Goto, Challenge!Conclude
<1>4. known'[r] # Challenge!NoId => known'[r][1] = r /\ known'[r][2] \in 1..sent[r]
  BY <1>1, <1>3 DEF CallGood, Challenge!Mine
<1>5. result'[r] = "valid" =>
        /\ known'[r] # Challenge!NoId
        /\ \A e \in seen'[r] : e \cap Challenge!Judged = {}
  <2> SUFFICES ASSUME result'[r] = "valid"
               PROVE  /\ known'[r] # Challenge!NoId
                      /\ \A e \in seen'[r] : e \cap Challenge!Judged = {}
    OBVIOUS
  <2>1. /\ seen'[r] = real /\ Challenge!EntriesValid(real)
        /\ \E c \in Challenge!Mine(r) :
              known'[r] = IF known[r] = Challenge!NoId THEN c ELSE known[r]
    BY <1>3
  <2>2. \A c \in Challenge!Mine(r) : c # Challenge!NoId
    BY NoIdIsNone DEF Challenge!Mine, ChallengeInv, ChallengeType
  <2>3. real \in SUBSET Challenge!Entry
    BY DEF ChallengeInv, ChallengeType
  <2> QED BY <2>1, <2>2, <2>3, SeenValid
<1> QED BY <1>1, <1>2, <1>3, <1>4, <1>5 DEF CallGood

LEMMA CleanupGood ==
    ASSUME ChallengeInv, NEW r \in Calls, Challenge!Cleanup(r)
    PROVE  CallGood(r)'
<1>1. CallGood(r) /\ callAt[r] = "clean" /\ ~cleaned[r]
  BY DEF ChallengeInv, CallGood, Challenge!Cleanup
<1>2. UNCHANGED <<url, real, seen, sent, known, result>>
  BY DEF Challenge!Cleanup, Challenge!Retry, Challenge!unread
<1>3. /\ held' \subseteq held /\ callAt'[r] \in {"clean", "done"}
      /\ cleaned'[r] => callAt'[r] = "done" /\ known[r] \notin held'
  BY <1>1 DEF ChallengeInv, ChallengeType, Challenge!Cleanup, Challenge!Retry,
     Challenge!Goto
<1> QED BY <1>1, <1>2, <1>3 DEF CallGood

LEMMA ChallengeStepGood ==
    ASSUME ChallengeInv, NEW r \in Calls, Challenge!Step(r)
    PROVE  ChallengeInv'
<1>1. CallGood(r)'
  BY CheckUrlGood, PostGood, ReadGood, CleanupGood DEF Challenge!Step
<1> QED BY <1>1, CallTyped, OthersStayGood DEF ChallengeInv

LEMMA LearnerWritesGood ==
    ASSUME ChallengeInv, Challenge!LearnerWrites
    PROVE  ChallengeInv'
<1>1. UNCHANGED <<url, held, callAt, callTries, sent, known, result, seen, cleaned>>
  BY DEF Challenge!LearnerWrites
<1>2. real' \in SUBSET Challenge!Entry
  BY DEF Challenge!LearnerWrites, ChallengeInv, ChallengeType, Challenge!Entry
<1> QED BY <1>1, <1>2 DEF ChallengeInv, ChallengeType, CallGood

(* Only the clean-up of a run removes an entry, and only the one it knows. *)
LEMMA OnlyOwnDeleted ==
    ASSUME ChallengeInv,
           Challenge!LearnerWrites \/ (\E r \in Calls : Challenge!Step(r))
             \/ held' = held,
           NEW c \in held \ held'
    PROVE  callAt[c[1]] = "clean" /\ known[c[1]] = c
<1>1. PICK r \in Calls : Challenge!Step(r)
  BY DEF Challenge!LearnerWrites
<1>2. callAt[r] = "clean" /\ known[r] # Challenge!NoId /\ held' = held \ {known[r]}
  BY <1>1, EntriesTouched
<1>3. known[r][1] = r
  BY <1>2 DEF ChallengeInv, CallGood
<1> QED BY <1>2, <1>3

(* A run that verified the API left its one entry only if the API did not  *)
(* confirm the DELETE.                                                     *)
LEMMA ChallengePromises ==
    ASSUME ChallengeInv
    PROVE  Challenge!OwnershipProven /\ Challenge!CleanAfterSuccess /\ Challenge!TypeOK
<1> USE FetchAssumption
<1>1. ASSUME NEW r \in Calls, result[r] = "valid"
      PROVE  /\ url = "public" /\ sent[r] > 0
             /\ \A e \in seen[r] : e \cap Challenge!Judged = {}
             /\ known[r] \in {r} \X (1..sent[r])
             /\ cleaned[r] => known[r] \notin held
  <2>1. known[r] \in EntryId /\ sent[r] \in Nat
    BY <1>1 DEF ChallengeInv, ChallengeType, CallGood
  <2>2. known[r][1] = r /\ known[r][2] \in 1..sent[r]
    BY <1>1 DEF ChallengeInv, CallGood
  <2>3. known[r] \in {r} \X (1..sent[r]) /\ sent[r] > 0
    BY <2>1, <2>2 DEF EntryId
  <2> QED BY <1>1, <2>3 DEF ChallengeInv, CallGood
<1>2. Challenge!OwnershipProven
  BY <1>1 DEF Challenge!OwnershipProven, Calls
<1>3. ASSUME NEW r \in Calls, result[r] = "valid", sent[r] = 1
      PROVE  /\ known[r] \in Calls \X {1}
             /\ cleaned[r] => Challenge!Mine(r) = {}
  <2>1. known[r] = <<r, 1>>
    BY <1>1, <1>3
  <2>2. \A c \in Challenge!Mine(r) : c = <<r, 1>>
    <3> SUFFICES ASSUME NEW c \in Challenge!Mine(r) PROVE c = <<r, 1>>
      OBVIOUS
    <3>1. c \in EntryId /\ c[1] = r /\ c[2] \in 1..1
      BY <1>3 DEF Challenge!Mine, ChallengeInv, ChallengeType, CallGood
    <3> QED BY <3>1 DEF EntryId
  <2>3. Challenge!Mine(r) \subseteq held
    BY DEF Challenge!Mine
  <2> QED BY <1>1, <1>3, <2>1, <2>2, <2>3
<1>4. Challenge!CleanAfterSuccess
  BY <1>3 DEF Challenge!CleanAfterSuccess, Calls
<1>5. Challenge!TypeOK
  BY DEF ChallengeInv, ChallengeType, Challenge!TypeOK, Calls, EntryId
<1> QED BY <1>2, <1>4, <1>5

-----------------------------------------------------------------------------
(* The checks.                                                             *)

(* A result that may stand for the answers it was made of.                 *)
Stands(v, answers) ==
    /\ v \in ValidationResult
    /\ v.valid => answers \subseteq Favourable /\ \A k \in DOMAIN v.tasks : v.tasks[k]
    /\ \A a \in answers : Operational(a) => ~v.completed

LEMMA Verdicts ==
    /\ Valid \in ValidationResult /\ Valid.valid /\ Valid.tasks = <<>>
    /\ Failed \in ValidationResult /\ ~Failed.valid
    /\ Incomplete \in ValidationResult /\ ~Incomplete.valid /\ ~Incomplete.completed
    /\ \A v \in {Valid, Failed, Incomplete} :
         /\ WithTask(v) \in ValidationResult
         /\ WithTask(v).valid = v.valid /\ WithTask(v).completed = v.completed
         /\ \A k \in DOMAIN WithTask(v).tasks : WithTask(v).tasks[k] = v.valid
<1>1. <<>> \in Seq(BOOLEAN) /\ <<TRUE>> \in Seq(BOOLEAN) /\ <<FALSE>> \in Seq(BOOLEAN)
  OBVIOUS
<1>2. /\ Valid \in ValidationResult /\ Valid.valid /\ Valid.tasks = <<>>
      /\ Failed \in ValidationResult /\ ~Failed.valid
      /\ Incomplete \in ValidationResult /\ ~Incomplete.valid /\ ~Incomplete.completed
  BY <1>1 DEF Valid, Failed, Incomplete, Verdict, ValidationResult
<1>3. ASSUME NEW v \in {Valid, Failed, Incomplete}
      PROVE  /\ WithTask(v) \in ValidationResult
             /\ WithTask(v).valid = v.valid /\ WithTask(v).completed = v.completed
             /\ \A k \in DOMAIN WithTask(v).tasks : WithTask(v).tasks[k] = v.valid
  <2>1. v \in ValidationResult /\ <<v.valid>> \in Seq(BOOLEAN)
        /\ DOMAIN <<v.valid>> = {1} /\ <<v.valid>>[1] = v.valid
    BY <1>2 DEF ValidationResult
  <2>2. WithTask(v) = [v EXCEPT !.tasks = <<v.valid>>]
    BY DEF WithTask
  <2>3. WithTask(v) \in ValidationResult
    BY <2>1, <2>2 DEF ValidationResult
  <2>4. WithTask(v).valid = v.valid /\ WithTask(v).completed = v.completed
        /\ WithTask(v).tasks = <<v.valid>>
    BY <2>1, <2>2 DEF ValidationResult
  <2> QED BY <2>1, <2>3, <2>4
<1> QED BY <1>2, <1>3

LEMMA PlainStands ==
    ASSUME NEW answers
    PROVE  /\ answers \subseteq Favourable => Stands(Valid, answers)
           /\ Stands(Incomplete, answers)
           /\ (\A a \in answers : ~Operational(a)) => Stands(Failed, answers)
<1>1. \A a \in Favourable : ~Operational(a)
  BY DEF Favourable, Operational
<1>2. DOMAIN Valid.tasks = {}
  BY Verdicts
<1> QED BY <1>1, <1>2, Verdicts DEF Stands

LEMMA TaskStands ==
    ASSUME NEW answers, NEW v \in {Valid, Failed, Incomplete}, Stands(v, answers)
    PROVE  Stands(WithTask(v), answers)
BY Verdicts DEF Stands

LEMMA ErrorStands ==
    ASSUME NEW answer \in ApiError
    PROVE  Stands(GitHubErrorResult(answer), {answer})
<1>1. ~Operational("notFound")
  BY DEF Operational
<1> QED BY <1>1, PlainStands DEF GitHubErrorResult

(* Every check of a gate ends in a result that stands for its answers, but *)
(* for a refused page.                                                     *)
LEMMA ResultsStand ==
    /\ \A r \in RunAnswer : Stands(CIResult(r), {r})
    /\ \A r \in RunAnswer, h \in HeadAnswer :
         Stands(CodeQLResult(r, h), {x \in {r, h} : r = "success" \/ x = r})
    /\ \A t \in TreeAnswer : Stands(DevopsFilesResult(t), {t})
    /\ \A g \in GhcrAnswer : Stands(GhcrResult(g), {g})
    /\ \A p \in ProbeAnswer : Stands(ProbeResult(p), {p})
    /\ \A p \in PageAnswer \ {"refused"} : Stands(ReadmeResult(p), {p})
    /\ \A m \in ForkAnswer : Stands(ForkResult(m), {m})
    /\ \A long \in BOOLEAN, t \in TreeAnswer : ~ArchitectureRaises(long, t) =>
         Stands(ArchitectureResult(long, t), IF long THEN {t} ELSE {"short"})
    /\ \A blank \in BOOLEAN :
         Stands(ReflectionResult(blank), {IF blank THEN "blank" ELSE "answers"})
<1>1. \A a \in Favourable : Stands(Valid, {a})
  BY PlainStands
<1>2. \A a : ~Operational(a) => Stands(Failed, {a})
  BY PlainStands
<1>3. \A a : Stands(Incomplete, {a})
  BY PlainStands
<1>4. \A r \in RunAnswer : Stands(CIResult(r), {r})
  BY <1>1, <1>2, ErrorStands
     DEF RunAnswer, ApiError, CIResult, Judge, Favourable, Operational
<1>5. ASSUME NEW r \in RunAnswer, NEW h \in HeadAnswer
      PROVE  Stands(CodeQLResult(r, h), {x \in {r, h} : r = "success" \/ x = r})
  <2>1. CASE r # "success"
    BY <1>4, <2>1 DEF CodeQLResult
  <2>2. CASE r = "success" /\ h = "scanned"
    <3>1. {r, h} \subseteq Favourable
      BY <2>2 DEF Favourable
    <3>2. CodeQLResult(r, h) = Valid
      BY <2>2 DEF CodeQLResult, ApiError, Judge
    <3> QED BY <2>2, <3>1, <3>2, PlainStands
  <2>3. CASE r = "success" /\ h \in {"refused", "transient"}
    <3>1. CodeQLResult(r, h) = Incomplete
      BY <2>3 DEF CodeQLResult, ApiError, GitHubErrorResult
    <3> QED BY <2>3, <3>1, PlainStands
  <2>4. CASE r = "success" /\ h \in {"notFound", "noSha", "moved"}
    <3>1. CodeQLResult(r, h) = Failed
      BY <2>4 DEF CodeQLResult, ApiError, GitHubErrorResult, Judge
    <3>2. \A a \in {r, h} : ~Operational(a)
      BY <2>4 DEF Operational
    <3> QED BY <2>4, <3>1, <3>2, PlainStands
  <2> QED BY <2>1, <2>2, <2>3, <2>4 DEF HeadAnswer, ApiError
<1>6. ASSUME NEW t \in TreeAnswer PROVE Stands(DevopsFilesResult(t), {t})
  <2>1. CASE t \in ApiError
    BY <2>1, ErrorStands DEF DevopsFilesResult
  <2>2. CASE t \notin ApiError
    <3>1. Judge(t = "present") \in {Valid, Failed} /\ Stands(Judge(t = "present"), {t})
      BY <1>1, <1>2, <2>2 DEF TreeAnswer, Judge, Favourable, Operational
    <3> QED BY <2>2, <3>1, TaskStands DEF DevopsFilesResult
  <2> QED BY <2>1, <2>2
<1>7. ASSUME NEW g \in GhcrAnswer PROVE Stands(GhcrResult(g), {g})
  <2> DEFINE v == IF g \in {"odd", "transient"} THEN Incomplete ELSE Judge(g = "manifest")
  <2>1. v \in {Valid, Failed, Incomplete} /\ Stands(v, {g})
    BY <1>1, <1>2, <1>3 DEF GhcrAnswer, Judge, Favourable, Operational
  <2> QED BY <2>1, TaskStands DEF GhcrResult
<1>8. \A p \in ProbeAnswer : Stands(ProbeResult(p), {p})
  BY <1>1, <1>2 DEF ProbeAnswer, ProbeResult, Judge, Favourable, Operational
<1>9. \A p \in PageAnswer \ {"refused"} : Stands(ReadmeResult(p), {p})
  BY <1>1, <1>2, <1>3 DEF PageAnswer, ApiError, ReadmeResult, Judge, Favourable, Operational
<1>10. \A m \in ForkAnswer : Stands(ForkResult(m), {m})
  BY <1>1, <1>2, ErrorStands DEF ForkAnswer, ForkResult, Judge, Favourable, Operational
<1>11. ASSUME NEW long \in BOOLEAN, NEW t \in TreeAnswer, ~ArchitectureRaises(long, t)
       PROVE  Stands(ArchitectureResult(long, t), IF long THEN {t} ELSE {"short"})
  BY <1>1, <1>2, <1>11 DEF TreeAnswer, ApiError, ArchitectureRaises, ArchitectureResult,
     Judge, Favourable, Operational
<1>12. \A blank \in BOOLEAN :
         Stands(ReflectionResult(blank), {IF blank THEN "blank" ELSE "answers"})
  BY <1>1, <1>2 DEF ReflectionResult, Judge, Favourable, Operational
<1> QED BY <1>4, <1>5, <1>6, <1>7, <1>8, <1>9, <1>10, <1>11, <1>12

(* A token is a gate whose answers are its defects: only one without any,  *)
(* checked against the app's secret, is valid.                             *)
LEMMA TokenStands ==
    ASSUME NEW defects \in SUBSET TokenDefect, NEW secret \in BOOLEAN
    PROVE  Stands(TokenResult(defects, secret), TokenAnswers(defects, secret))
<1> DEFINE answers == TokenAnswers(defects, secret)
<1>1. \A a \in defects : ~Operational(a)
  BY DEF TokenDefect, BeforeSecret, AfterSecret, Operational
<1>2. Stands(Incomplete, answers)
  BY PlainStands
<1>3. secret \/ ~SecretRead(defects) => Stands(Failed, answers)
  <2>1. secret \/ ~SecretRead(defects) => answers = defects
    BY DEF TokenAnswers
  <2> QED BY <1>1, <2>1, PlainStands
<1>4. secret /\ defects = {} => Stands(Valid, answers)
  <2>1. secret /\ defects = {} => answers = {}
    BY DEF TokenAnswers
  <2> QED BY <2>1, PlainStands
<1>5. "encoding" \in defects => ~SecretRead(defects)
  BY DEF SecretRead, BeforeSecret
<1> QED BY <1>2, <1>3, <1>4, <1>5 DEF TokenResult, Judge

-----------------------------------------------------------------------------
(* The steps of a profile.                                                 *)
StepOf(outcome) == [results |-> outcome.results, task |-> outcome.task]
EndsWell(check, outcome) ==
    /\ StepOf(outcome) \in StepRecord /\ StepShape(check, StepOf(outcome))
    /\ check \notin ReviewCheck =>
         \A a \in outcome.read : Explains(check, StepOf(outcome), a)

LEMMA GateEndsWell ==
    ASSUME NEW check, check \notin ReviewCheck, NEW v, NEW answers, Stands(v, answers)
    PROVE  EndsWell(check, Gate(v, answers))
<1> DEFINE s == StepOf(Gate(v, answers))
<1>1. <<v>> \in Seq(ValidationResult) /\ Len(<<v>>) = 1 /\ <<v>>[1] = v
  BY DEF Stands
<1>2. s = [results |-> <<v>>, task |-> FALSE] /\ Gate(v, answers).read = answers
  BY DEF Gate, StepOf
<1> HIDE DEF s
<1>3. s \in StepRecord /\ s.results = <<v>> /\ ~s.task
  BY <1>1, <1>2 DEF StepRecord
<1>4. StepShape(check, s)
  BY <1>1, <1>3 DEF StepShape, Stands
<1>5. \A a \in answers : Explains(check, s, a)
  BY <1>1, <1>3 DEF Explains, Stands
<1> QED BY <1>2, <1>3, <1>4, <1>5 DEF EndsWell, s

(* A refused page ends as the learner's failure, the one exception.        *)
LEMMA RefusedEndsWell ==
    EndsWell("profile_readme_check", Gate(ReadmeResult("refused"), {"refused"}))
<1>1. ReadmeResult("refused") = Failed
  BY DEF ReadmeResult, Judge
<1>2. StepOf(Gate(Failed, {"refused"})) = [results |-> <<Failed>>, task |-> FALSE]
      /\ Gate(Failed, {"refused"}).read = {"refused"}
  BY DEF Gate, StepOf
<1>3. <<Failed>> \in Seq(ValidationResult) /\ Len(<<Failed>>) = 1 /\ <<Failed>>[1] = Failed
      /\ ~Failed.valid
  BY Verdicts
<1> DEFINE s == [results |-> <<Failed>>, task |-> FALSE]
<1>4. s \in StepRecord /\ s.results[1] = Failed /\ Len(s.results) = 1 /\ ~s.task
  BY <1>3 DEF StepRecord
<1> HIDE DEF s
<1>5. StepShape("profile_readme_check", s)
  BY <1>3, <1>4 DEF StepShape, ReviewCheck
<1>6. Explains("profile_readme_check", s, "refused")
  BY <1>3, <1>4 DEF Explains, PageRefused
<1> QED BY <1>1, <1>2, <1>4, <1>5, <1>6 DEF EndsWell, s

LEMMA ReviewEndsWell ==
    ASSUME NEW check \in ReviewCheck, NEW answers
    PROVE  /\ EndsWell(check, Review(answers))
           /\ \A v \in {Failed, Incomplete} : EndsWell(check, Gate(v, answers))
<1>1. EndsWell(check, Review(answers))
  <2>1. StepOf(Review(answers)) = [results |-> <<>>, task |-> TRUE]
    BY DEF Review, StepOf
  <2>2. StepOf(Review(answers)) \in StepRecord
    BY <2>1 DEF StepRecord
  <2> QED BY <2>1, <2>2 DEF EndsWell, StepShape
<1>2. ASSUME NEW v \in {Failed, Incomplete} PROVE EndsWell(check, Gate(v, answers))
  <2>1. v \in ValidationResult /\ ~v.valid
    BY Verdicts
  <2>2. StepOf(Gate(v, answers)) = [results |-> <<v>>, task |-> FALSE]
    BY DEF Gate, StepOf
  <2>3. <<v>> \in Seq(ValidationResult) /\ Len(<<v>>) = 1 /\ <<v>>[1] = v
    BY <2>1
  <2>4. StepOf(Gate(v, answers)) \in StepRecord
    BY <2>2, <2>3 DEF StepRecord
  <2> QED BY <2>1, <2>2, <2>3, <2>4 DEF EndsWell, StepShape
<1> QED BY <1>1, <1>2

LEMMA SimpleEndsWell ==
    ASSUME NEW check \in Check \ {"deployed_api_check", "llm_discover_review"},
           NEW outcome \in StepOutcomes(check), ~outcome.raises
    PROVE  EndsWell(check, outcome)
<1>1. CASE check \in {"github_ci_passing", "codeql_status", "devops_required_files",
                      "public_ghcr_image", "deployment_architecture_gate",
                      "profile_readme_check", "repo_fork_check",
                      "career_reflection_gate"}
  <2>1. check \notin ReviewCheck
    BY <1>1 DEF ReviewCheck
  <2>2. CASE check \in {"github_ci_passing", "codeql_status", "devops_required_files",
                        "public_ghcr_image"}
    <3>1. outcome \in CIOutcomes \cup CodeQLOutcomes \cup DevopsFilesOutcomes
                        \cup GhcrOutcomes
      BY <2>2 DEF StepOutcomes
    <3>2. EndsWell(check, outcome)
      <4>1. CASE outcome \in CIOutcomes
        <5>1. PICK r \in RunAnswer : outcome = Gate(CIResult(r), {r})
          BY <4>1 DEF CIOutcomes
        <5>2. Stands(CIResult(r), {r})
          BY ResultsStand
        <5> QED BY <2>1, <5>1, <5>2, GateEndsWell
      <4>2. CASE outcome \in CodeQLOutcomes
        <5>1. PICK r \in RunAnswer, h \in HeadAnswer :
                   outcome = Gate(CodeQLResult(r, h),
                                  {x \in {r, h} : r = "success" \/ x = r})
          BY <4>2 DEF CodeQLOutcomes
        <5>2. Stands(CodeQLResult(r, h), {x \in {r, h} : r = "success" \/ x = r})
          BY ResultsStand
        <5> QED BY <2>1, <5>1, <5>2, GateEndsWell
      <4>3. CASE outcome \in DevopsFilesOutcomes
        <5>1. PICK t \in TreeAnswer : outcome = Gate(DevopsFilesResult(t), {t})
          BY <4>3 DEF DevopsFilesOutcomes
        <5>2. Stands(DevopsFilesResult(t), {t})
          BY ResultsStand
        <5> QED BY <2>1, <5>1, <5>2, GateEndsWell
      <4>4. CASE outcome \in GhcrOutcomes
        <5>1. PICK g \in GhcrAnswer : outcome = Gate(GhcrResult(g), {g})
          BY <4>4 DEF GhcrOutcomes
        <5>2. Stands(GhcrResult(g), {g})
          BY ResultsStand
        <5> QED BY <2>1, <5>1, <5>2, GateEndsWell
      <4> QED BY <3>1, <4>1, <4>2, <4>3, <4>4
    <3> QED BY <3>2
  <2>3. CASE check = "deployment_architecture_gate"
    <3>1. outcome \in ArchitectureOutcomes
      BY <2>3 DEF StepOutcomes
    <3>2. PICK long \in BOOLEAN, t \in TreeAnswer :
               outcome = IF ArchitectureRaises(long, t) THEN Raises({t})
                         ELSE Gate(ArchitectureResult(long, t),
                                   IF long THEN {t} ELSE {"short"})
      <4>. DEFINE Ends(long, t) == IF ArchitectureRaises(long, t) THEN Raises({t})
                                   ELSE Gate(ArchitectureResult(long, t),
                                             IF long THEN {t} ELSE {"short"})
      <4>1. outcome \in {Ends(long, t) : long \in BOOLEAN, t \in TreeAnswer}
        <5>1. ArchitectureOutcomes = {Ends(long, t) : long \in BOOLEAN, t \in TreeAnswer}
          BY DEF ArchitectureOutcomes
        <5>. HIDE DEF Ends
        <5> QED BY <3>1, <5>1
      <4>. HIDE DEF Ends
      <4>2. \E long \in BOOLEAN, t \in TreeAnswer : outcome = Ends(long, t)
        BY <4>1
      <4> QED BY <4>2, Zenon DEF Ends
    <3>3. ~ArchitectureRaises(long, t)
      BY <3>2 DEF Raises
    <3> QED BY <2>1, <3>2, <3>3, ResultsStand, GateEndsWell
  <2>4. CASE check \in {"profile_readme_check", "repo_fork_check",
                        "career_reflection_gate"}
    <3>1. \/ check = "profile_readme_check" /\ outcome \in ReadmeOutcomes
          \/ outcome \in ForkOutcomes \cup ReflectionOutcomes
      BY <2>4 DEF StepOutcomes
    <3>2. EndsWell(check, outcome)
      <4>1. CASE check = "profile_readme_check" /\ outcome \in ReadmeOutcomes
        <5>1. PICK p \in PageAnswer : outcome = Gate(ReadmeResult(p), {p})
          BY <4>1 DEF ReadmeOutcomes
        <5>2. p # "refused" => Stands(ReadmeResult(p), {p})
          BY ResultsStand
        <5> QED BY <2>1, <4>1, <5>1, <5>2, GateEndsWell, RefusedEndsWell
      <4>2. CASE outcome \in ForkOutcomes
        <5>1. PICK m \in ForkAnswer : outcome = Gate(ForkResult(m), {m})
          BY <4>2 DEF ForkOutcomes
        <5>2. Stands(ForkResult(m), {m})
          BY ResultsStand
        <5> QED BY <2>1, <5>1, <5>2, GateEndsWell
      <4>3. CASE outcome \in ReflectionOutcomes
        <5>1. PICK b \in BOOLEAN : outcome = Gate(ReflectionResult(b), {IF b THEN "blank" ELSE "answers"})
          BY <4>3 DEF ReflectionOutcomes
        <5>2. Stands(ReflectionResult(b), {IF b THEN "blank" ELSE "answers"})
          BY ResultsStand
        <5> QED BY <2>1, <5>1, <5>2, GateEndsWell
      <4> QED BY <3>1, <4>1, <4>2, <4>3
    <3> QED BY <3>2
  <2> QED BY <1>1, <2>2, <2>3, <2>4
<1>2. CASE check \in {"ctf_token_check", "networking_token_check"}
  <2>1. check \notin ReviewCheck /\ outcome \in TokenOutcomes(check)
    BY <1>2 DEF ReviewCheck, StepOutcomes
  <2>2. PICK d \in SUBSET TokenDefect, secret \in BOOLEAN :
             outcome = Gate(TokenResult(d, secret),
                            TokenAnswers(d, secret))
    BY <2>1 DEF TokenOutcomes, TokenDefects
  <2> QED BY <2>1, <2>2, TokenStands, GateEndsWell
<1>3. CASE check \in {"llm_exact_review", "security_scanning_review",
                      "deployment_architecture_review", "career_reflection_review"}
  <2>1. check \in ReviewCheck
    BY <1>3 DEF ReviewCheck
  <2>2. outcome \in {Review({"text"})} \cup RepositoryReviews
    BY <1>3 DEF StepOutcomes
  <2>3. \E answers : outcome = Review(answers)
    BY <2>2 DEF RepositoryReviews, ExactReview, Raises
  <2> QED BY <2>1, <2>3, ReviewEndsWell
<1>4. check \in {"github_ci_passing", "codeql_status", "devops_required_files",
                 "public_ghcr_image", "deployment_architecture_gate",
                 "profile_readme_check", "repo_fork_check", "career_reflection_gate",
                 "ctf_token_check", "networking_token_check",
                 "llm_exact_review", "security_scanning_review",
                 "deployment_architecture_review", "career_reflection_review"}
  BY DEF Check, SubmissionType, Profile, ToSet
<1> QED BY <1>1, <1>2, <1>3, <1>4

LEMMA CompositeEndsWell ==
    /\ \A outcome \in ChallengeOutcomes :
         EndsWell("deployed_api_check", outcome) /\ ~outcome.raises
    /\ \A outcome \in CollectionOutcomes :
         EndsWell("llm_discover_review", outcome) /\ ~outcome.raises
<1>1. ASSUME NEW outcome \in ChallengeOutcomes
      PROVE  EndsWell("deployed_api_check", outcome) /\ ~outcome.raises
  <2>1. PICK p \in ProbeAnswer : outcome = Gate(ProbeResult(p), {p})
    BY DEF ChallengeOutcomes, ProbeOutcomes
  <2>2. "deployed_api_check" \notin ReviewCheck
    BY DEF ReviewCheck
  <2> QED BY <2>1, <2>2, ResultsStand, GateEndsWell DEF Gate
<1>2. ASSUME NEW outcome \in CollectionOutcomes
      PROVE  EndsWell("llm_discover_review", outcome) /\ ~outcome.raises
  <2> DEFINE broken == [f \in {"first"} |-> "network"]
  <2>1. \E t, f : outcome = DiscoverReview(t, f)
    <3>1. CASE loop = "exact" /\ at = 1
      <4>1. \E t \in ApiError : outcome = DiscoverReview(t, broken)
        BY <3>1 DEF CollectionOutcomes
      <4> QED BY <4>1
    <3>2. CASE loop = "fetch"
      <4>1. outcome = DiscoverReview("present", broken)
        BY <3>2 DEF CollectionOutcomes
      <4> QED BY <4>1
    <3>3. CASE loop = "done"
      <4>1. \E f \in EvidenceReads : outcome = DiscoverReview("present", f)
        BY <3>3 DEF CollectionOutcomes
      <4> QED BY <4>1
    <3> QED BY <3>1, <3>2, <3>3 DEF CollectionOutcomes
  <2>2. PICK t, f : outcome = DiscoverReview(t, f)
    BY <2>1
  <2>3. /\ Review(Seen(f)).raises = FALSE
        /\ \A v, answers : Gate(v, answers).raises = FALSE
    BY DEF Review, Gate
  <2>4. "llm_discover_review" \in ReviewCheck
    BY DEF ReviewCheck
  <2>5. CASE t \in ApiError
    <3>1. outcome = Gate(GitHubErrorResult(t), {t})
      BY <2>2, <2>5 DEF DiscoverReview
    <3>2. GitHubErrorResult(t) \in {Failed, Incomplete}
      BY DEF GitHubErrorResult
    <3> QED BY <2>3, <2>4, <3>1, <3>2, ReviewEndsWell
  <2>6. CASE t \notin ApiError
    <3>1. outcome = Gate(Incomplete, Seen(f)) \/ outcome = Review(Seen(f))
      BY <2>2, <2>6 DEF DiscoverReview
    <3> QED BY <2>3, <2>4, <3>1, ReviewEndsWell
  <2> QED BY <2>5, <2>6
<1> QED BY <1>1, <1>2

(* A profile has one to three steps; the last one is a review exactly when *)
(* the profile has a rubric, and no other one is.                          *)
LEMMA ProfileShape ==
    ASSUME NEW t \in SubmissionType
    PROVE  /\ Len(Profile[t].checks) \in 1..3 /\ Profile[t].checks[1] \notin ReviewCheck
           /\ \A k \in 1..(Len(Profile[t].checks) - 1) :
                Profile[t].checks[k] \notin ReviewCheck
           /\ Profile[t].rubric <=>
                Profile[t].checks[Len(Profile[t].checks)] \in ReviewCheck
<1>1. SubmissionType =
        {"profile_readme", "repo_fork", "ctf_token", "networking_token",
         "journal_api_verifier", "deployed_api", "deployment_architecture",
         "devops_analysis", "security_scanning", "career_reflection"}
  BY DEF SubmissionType, Profile
<1>2. CASE t \in {"profile_readme", "repo_fork", "ctf_token", "networking_token",
                  "deployed_api"}
  <2>1. /\ ~Profile[t].rubric /\ Len(Profile[t].checks) = 1
        /\ Profile[t].checks[1] \notin ReviewCheck
    BY <1>2 DEF Profile, ReviewCheck
  <2> QED BY <2>1
<1>3. CASE t \in {"journal_api_verifier", "deployment_architecture",
                  "security_scanning", "career_reflection"}
  <2>1. /\ Profile[t].rubric /\ Len(Profile[t].checks) = 2
        /\ Profile[t].checks[1] \notin ReviewCheck
        /\ Profile[t].checks[2] \in ReviewCheck
    BY <1>3 DEF Profile, ReviewCheck
  <2> QED BY <2>1
<1>4. CASE t = "devops_analysis"
  <2>1. /\ Profile[t].rubric /\ Len(Profile[t].checks) = 3
        /\ Profile[t].checks[1] \notin ReviewCheck
        /\ Profile[t].checks[2] \notin ReviewCheck
        /\ Profile[t].checks[3] \in ReviewCheck
    BY <1>4 DEF Profile, ReviewCheck
  <2> QED BY <2>1
<1> QED BY <1>1, <1>2, <1>3, <1>4

-----------------------------------------------------------------------------
(* Flattening the results of at most three steps.                          *)
LEMMA Flattened ==
    ASSUME NEW S, NEW s \in Seq(Seq(S)), Len(s) \in {1, 2, 3}
    PROVE  /\ Len(s) = 1 => FlattenSeq(s) = s[1]
           /\ Len(s) = 2 => FlattenSeq(s) = s[1] \o s[2]
           /\ Len(s) = 3 => FlattenSeq(s) = (s[1] \o s[2]) \o s[3]
<1>0. \A i \in 1..Len(s) : i \in {1, 2, 3}
  <2> TAKE i \in 1..Len(s)
  <2>1. \A n \in {1, 2, 3} : \A j \in 1..n : j \in {1, 2, 3}
    OBVIOUS
  <2>2. Len(s) \in {1, 2, 3}
    OBVIOUS
  <2> QED BY <2>1, <2>2, Zenon
<1> DEFINE Cat(a, b) == a \o b
           Flat(f) == [i \in 1..Len(s) |-> IF i = 1 THEN s[i] ELSE Cat(f[i-1], s[i])]
           flat == CHOOSE f : f = Flat(f)
           both == Cat(s[1], s[2])
           three == Cat(both, s[3])
           g == [i \in 1..Len(s) |->
                   IF i = 1 THEN s[1] ELSE IF i = 2 THEN both ELSE three]
<1>1. FlattenSeq(s) = flat[Len(s)]
  <2>1. Len(s) # 0
    OBVIOUS
  <2> QED BY <2>1, Zenon DEF FlattenSeq
<1>2. both = s[1] \o s[2] /\ three = (s[1] \o s[2]) \o s[3]
  OBVIOUS
<1> HIDE DEF Cat
<1>3. g = Flat(g)
  <2>1. ASSUME NEW i \in 1..Len(s) PROVE g[i] = Flat(g)[i]
    <3>1. CASE i = 1
      BY <3>1
    <3>2. CASE i = 2
      <4>1. 1 \in 1..Len(s) /\ g[1] = s[1] /\ i - 1 = 1 /\ g[i] = Cat(s[1], s[2])
        BY <3>2
      <4>2. Flat(g)[i] = Cat(g[i-1], s[i])
        BY <3>2
      <4> QED BY <3>2, <4>1, <4>2
    <3>3. CASE i = 3
      <4>1. 2 \in 1..Len(s) /\ g[2] = both /\ i - 1 = 2 /\ g[i] = Cat(both, s[3])
        BY <3>3
      <4>2. Flat(g)[i] = Cat(g[i-1], s[i])
        BY <3>3
      <4> QED BY <3>3, <4>1, <4>2
    <3>4. i \in {1, 2, 3}
      BY <1>0
    <3> QED BY <3>1, <3>2, <3>3, <3>4
  <2> HIDE DEF both, three
  <2> QED BY <2>1
<1>4. flat = Flat(flat)
  <2> HIDE DEF Flat, g
  <2> QED BY <1>3, Zenon
<1> HIDE DEF flat
<1>5. flat[1] = s[1]
  BY <1>4
<1>6. Len(s) >= 2 => flat[2] = both
  BY <1>4, <1>5
<1>7. Len(s) = 3 => flat[3] = three
  BY <1>4, <1>6
<1> HIDE DEF both, three, g, Flat
<1>8. Len(s) = 1 => FlattenSeq(s) = s[1]
  BY <1>1, <1>5, Zenon
<1>9. Len(s) = 2 => FlattenSeq(s) = both
  <2>1. Len(s) = 2 => Len(s) >= 2
    OBVIOUS
  <2> QED BY <1>1, <1>6, <2>1, Zenon
<1>10. Len(s) = 3 => FlattenSeq(s) = three
  BY <1>1, <1>7, Zenon
<1> QED BY <1>2, <1>8, <1>9, <1>10, Zenon

LEMMA Joined ==
    ASSUME NEW S, NEW a \in Seq(S), NEW b \in Seq(S)
    PROVE  /\ a \o b \in Seq(S) /\ Len(a \o b) = Len(a) + Len(b)
           /\ ToSet(a \o b) = ToSet(a) \cup ToSet(b)
<1>1. a \o b \in Seq(S) /\ Len(a \o b) = Len(a) + Len(b)
  OBVIOUS
<1>2. ASSUME NEW i \in DOMAIN (a \o b) PROVE (a \o b)[i] \in ToSet(a) \cup ToSet(b)
  <2>1. CASE i <= Len(a)
    BY <2>1 DEF ToSet
  <2>2. CASE ~(i <= Len(a))
    <3>1. i - Len(a) \in DOMAIN b /\ (a \o b)[i] = b[i - Len(a)]
      BY <2>2
    <3> QED BY <3>1 DEF ToSet
  <2> QED BY <2>1, <2>2
<1>3. ASSUME NEW i \in DOMAIN a PROVE a[i] \in ToSet(a \o b)
  <2>1. i \in DOMAIN (a \o b) /\ (a \o b)[i] = a[i]
    OBVIOUS
  <2> QED BY <2>1 DEF ToSet
<1>4. ASSUME NEW i \in DOMAIN b PROVE b[i] \in ToSet(a \o b)
  <2>1. Len(a) + i \in DOMAIN (a \o b) /\ (a \o b)[Len(a) + i] = b[i]
    OBVIOUS
  <2> QED BY <2>1 DEF ToSet
<1> QED BY <1>1, <1>2, <1>3, <1>4 DEF ToSet

(* What the sequences of a sequence of at most three hold between them.    *)
LEMMA Together ==
    ASSUME NEW S, NEW s \in Seq(Seq(S)), Len(s) \in {1, 2, 3}
    PROVE  /\ FlattenSeq(s) \in Seq(S)
           /\ ToSet(FlattenSeq(s)) = UNION {ToSet(s[k]) : k \in DOMAIN s}
           /\ Len(s[1]) = 1 /\ (\A k \in DOMAIN s : Len(s[k]) <= 1) =>
                Len(FlattenSeq(s)) \in {1, 2, 3}
<1>0. /\ DOMAIN s = 1..Len(s) /\ \A k \in DOMAIN s : s[k] \in Seq(S)
      /\ 1..1 = {1} /\ 1..2 = {1, 2} /\ 1..3 = {1, 2, 3}
  OBVIOUS
<1>1. CASE Len(s) = 1
  <2>1. DOMAIN s = {1} /\ s[1] \in Seq(S)
    <3>1. DOMAIN s = {1}
      BY <1>0, <1>1, Zenon
    <3> QED BY <1>0, <3>1, Zenon
  <2>2. FlattenSeq(s) = s[1]
    BY <1>1, Flattened
  <2> QED BY <2>1, <2>2
<1>2. CASE Len(s) = 2
  <2>1. DOMAIN s = {1, 2} /\ s[1] \in Seq(S) /\ s[2] \in Seq(S)
    <3>1. DOMAIN s = {1, 2}
      BY <1>0, <1>2, Zenon
    <3> QED BY <1>0, <3>1, Zenon
  <2>2. FlattenSeq(s) = s[1] \o s[2]
    BY <1>2, Flattened
  <2>3. /\ s[1] \o s[2] \in Seq(S) /\ Len(s[1] \o s[2]) = Len(s[1]) + Len(s[2])
        /\ ToSet(s[1] \o s[2]) = ToSet(s[1]) \cup ToSet(s[2])
    BY <2>1, Joined
  <2>4. Len(s[1]) \in Nat /\ Len(s[2]) \in Nat
    BY <2>1
  <2> DEFINE f == FlattenSeq(s)
             u == s[1]
             v == s[2]
  <2>5. /\ f \in Seq(S) /\ Len(f) = Len(u) + Len(v) /\ ToSet(f) = ToSet(u) \cup ToSet(v)
    BY <2>2, <2>3
  <2>6. Len(u) \in Nat /\ Len(v) \in Nat
    BY <2>4
  <2>7. UNION {ToSet(s[k]) : k \in DOMAIN s} = ToSet(u) \cup ToSet(v)
    BY <2>1
  <2>8. Len(u) = 1 /\ Len(v) <= 1 => Len(f) \in {1, 2, 3}
    <3> HIDE DEF f, u, v
    <3> QED BY <2>5, <2>6
  <2>9. (\A k \in DOMAIN s : Len(s[k]) <= 1) => Len(v) <= 1
    BY <2>1
  <2> HIDE DEF f
  <2> QED BY <2>5, <2>7, <2>8, <2>9 DEF f
<1>3. CASE Len(s) = 3
  <2>1. DOMAIN s = {1, 2, 3} /\ s[1] \in Seq(S) /\ s[2] \in Seq(S) /\ s[3] \in Seq(S)
    <3>1. DOMAIN s = {1, 2, 3}
      BY <1>0, <1>3, Zenon
    <3> QED BY <1>0, <3>1, Zenon
  <2>2. FlattenSeq(s) = (s[1] \o s[2]) \o s[3]
    BY <1>3, Flattened
  <2>3. /\ s[1] \o s[2] \in Seq(S) /\ Len(s[1] \o s[2]) = Len(s[1]) + Len(s[2])
        /\ ToSet(s[1] \o s[2]) = ToSet(s[1]) \cup ToSet(s[2])
    BY <2>1, Joined
  <2> DEFINE both == s[1] \o s[2]
             f == FlattenSeq(s)
             u == s[1]
             v == s[2]
             w == s[3]
  <2>4. /\ f \in Seq(S) /\ Len(f) = Len(both) + Len(w)
        /\ ToSet(f) = ToSet(both) \cup ToSet(w)
    <3>1. /\ Len(both \o w) = Len(both) + Len(w) /\ both \o w \in Seq(S)
          /\ ToSet(both \o w) = ToSet(both) \cup ToSet(w)
      <4>1. both \in Seq(S) /\ w \in Seq(S)
        BY <2>1, <2>3
      <4> HIDE DEF both, w
      <4> QED BY <4>1, Joined
    <3> QED BY <2>2, <3>1
  <2>5. /\ Len(u) \in Nat /\ Len(v) \in Nat /\ Len(w) \in Nat
        /\ Len(both) = Len(u) + Len(v) /\ ToSet(both) = ToSet(u) \cup ToSet(v)
    BY <2>1, <2>3
  <2>6. UNION {ToSet(s[k]) : k \in DOMAIN s} = ToSet(u) \cup ToSet(v) \cup ToSet(w)
    BY <2>1
  <2>7. Len(u) = 1 /\ Len(v) <= 1 /\ Len(w) <= 1 => Len(f) \in {1, 2, 3}
    <3>1. \A i, j \in Nat : 1 + i + j \in Nat /\ (i <= 1 /\ j <= 1 => 1 + i + j \in {1, 2, 3})
      OBVIOUS
    <3> HIDE DEF both, f, u, v, w
    <3> QED BY <2>4, <2>5, <3>1
  <2>8. (\A k \in DOMAIN s : Len(s[k]) <= 1) => Len(v) <= 1 /\ Len(w) <= 1
    BY <2>1
  <2>9. ToSet(f) = UNION {ToSet(s[k]) : k \in DOMAIN s}
    <3> HIDE DEF both, f, u, v, w
    <3> QED BY <2>4, <2>5, <2>6
  <2> HIDE DEF f
  <2> QED BY <2>4, <2>7, <2>8, <2>9 DEF f
<1> QED BY <1>1, <1>2, <1>3

(* What the run result says of its steps.                                  *)
Gathered == FlattenSeq([k \in DOMAIN steps |-> steps[k].results])
Concluded == Aggregate(Gathered)

LEMMA StepsKnown ==
    ASSUME job \in [type : SubmissionType, username : BOOLEAN], StepsGood
    PROVE  /\ DOMAIN steps = 1..Len(steps) /\ Len(steps) \in 0..3
           /\ \A k \in DOMAIN steps :
                /\ steps[k].results \in Seq(ValidationResult)
                /\ Len(steps[k].results) <= 1 /\ steps[k].task \in BOOLEAN
                /\ \A i \in DOMAIN steps[k].results :
                     LET v == steps[k].results[i]
                     IN  v.valid => \A j \in DOMAIN v.tasks : v.tasks[j]
           /\ steps # <<>> => Len(steps[1].results) = 1
<1>1. /\ steps \in Seq(StepRecord) /\ DOMAIN steps = 1..Len(steps) /\ Len(steps) \in Nat
      /\ \A k \in 1..Len(steps) : steps[k] \in StepRecord
  BY DEF StepsGood
<1>2. job.type \in SubmissionType /\ Len(Checks(job)) \in 1..3
      /\ Checks(job)[1] \notin ReviewCheck
  BY ProfileShape DEF Checks
<1>3. Len(steps) \in 0..3
  BY <1>1, <1>2 DEF StepsGood
<1>4. ASSUME NEW k \in DOMAIN steps
      PROVE  /\ steps[k].results \in Seq(ValidationResult)
             /\ Len(steps[k].results) <= 1 /\ steps[k].task \in BOOLEAN
             /\ \A i \in DOMAIN steps[k].results :
                  LET v == steps[k].results[i]
                  IN  v.valid => \A j \in DOMAIN v.tasks : v.tasks[j]
  <2>1. steps[k] \in StepRecord /\ StepShape(Checks(job)[k], steps[k])
    BY <1>1 DEF StepsGood
  <2>2. steps[k].results \in Seq(ValidationResult) /\ steps[k].task \in BOOLEAN
    BY <2>1 DEF StepRecord
  <2>3. CASE steps[k].results = <<>>
    BY <2>2, <2>3
  <2>4. CASE Len(steps[k].results) = 1
    <3>1. DOMAIN steps[k].results = {1}
      BY <2>2, <2>4
    <3>2. LET v == steps[k].results[1]
          IN  v.valid => \A j \in DOMAIN v.tasks : v.tasks[j]
      <4>1. steps[k].results # <<>>
        BY <2>4
      <4> QED BY <2>1, <4>1 DEF StepShape
    <3> QED BY <2>2, <2>4, <3>1, <3>2
  <2> QED BY <2>1, <2>3, <2>4 DEF StepShape
<1>5. steps # <<>> => Len(steps[1].results) = 1
  <2> SUFFICES ASSUME steps # <<>> PROVE Len(steps[1].results) = 1
    OBVIOUS
  <2>1. 1 \in 1..Len(steps)
    BY <1>1
  <2>2. StepShape(Checks(job)[1], steps[1])
    BY <2>1 DEF StepsGood
  <2> QED BY <1>2, <2>2 DEF StepShape
<1> QED BY <1>1, <1>3, <1>4, <1>5

LEMMA GatheredResults ==
    ASSUME job \in [type : SubmissionType, username : BOOLEAN], StepsGood, steps # <<>>
    PROVE  /\ Gathered \in Seq(ValidationResult) /\ Len(Gathered) \in {1, 2, 3}
           /\ \A v : v \in ToSet(Gathered) <=>
                \E k \in DOMAIN steps : v \in ToSet(steps[k].results)
<1> DEFINE s == [k \in DOMAIN steps |-> steps[k].results]
<1>1. DOMAIN steps = 1..Len(steps) /\ Len(steps) \in {1, 2, 3}
  <2>1. DOMAIN steps = 1..Len(steps) /\ Len(steps) \in 0..3
    BY StepsKnown
  <2>2. Len(steps) # 0
    BY DEF StepsGood
  <2> QED BY <2>1, <2>2
<1>2. s \in Seq(Seq(ValidationResult)) /\ Len(s) = Len(steps) /\ DOMAIN s = DOMAIN steps
  <2>1. \A k \in 1..Len(steps) : steps[k].results \in Seq(ValidationResult)
    BY <1>1, StepsKnown
  <2> QED BY <1>1, <2>1
<1>3. 1 \in DOMAIN steps /\ s[1] = steps[1].results
  BY <1>1
<1>4. Len(s[1]) = 1 /\ \A k \in DOMAIN s : Len(s[k]) <= 1
  BY <1>2, <1>3, StepsKnown
<1>5. UNION {ToSet(s[k]) : k \in DOMAIN s} = UNION {ToSet(steps[k].results) : k \in DOMAIN steps}
  OBVIOUS
<1>6. Gathered = FlattenSeq(s)
  BY DEF Gathered
<1> HIDE DEF s
<1>7. /\ FlattenSeq(s) \in Seq(ValidationResult)
      /\ ToSet(FlattenSeq(s)) = UNION {ToSet(s[k]) : k \in DOMAIN s}
      /\ Len(FlattenSeq(s)) \in {1, 2, 3}
  BY <1>1, <1>2, <1>4, Together
<1> QED BY <1>5, <1>6, <1>7

LEMMA Aggregated ==
    ASSUME job \in [type : SubmissionType, username : BOOLEAN], StepsGood, steps # <<>>
    PROVE  /\ Concluded \in ValidationResult
           /\ Concluded.valid <=> ~Stopped
           /\ Concluded.completed <=> \A k \in DOMAIN steps :
                \A i \in DOMAIN steps[k].results : steps[k].results[i].completed
           /\ Concluded.valid => \A j \in DOMAIN Concluded.tasks : Concluded.tasks[j]
<1> DEFINE g == Gathered
           t == [k \in DOMAIN g |-> g[k].tasks]
           v == Concluded
<1>1. g \in Seq(ValidationResult) /\ Len(g) \in {1, 2, 3} /\ DOMAIN g = 1..Len(g)
  BY GatheredResults
<1>2. \A r : (\E i \in DOMAIN g : g[i] = r)
               <=> \E k \in DOMAIN steps : \E i \in DOMAIN steps[k].results : steps[k].results[i] = r
  BY GatheredResults DEF ToSet
<1>3. /\ v.valid <=> \A i \in DOMAIN g : g[i].valid
      /\ v.completed <=> \A i \in DOMAIN g : g[i].completed
      /\ v.tasks = FlattenSeq(t)
      /\ v.valid \in BOOLEAN /\ v.completed \in BOOLEAN
      /\ v = [valid |-> v.valid, completed |-> v.completed, tasks |-> v.tasks]
  BY DEF Concluded, Aggregate, Verdict
<1>4. t \in Seq(Seq(BOOLEAN)) /\ Len(t) = Len(g) /\ DOMAIN t = DOMAIN g
  <2>1. \A i \in 1..Len(g) : g[i].tasks \in Seq(BOOLEAN)
    <3> HIDE DEF g
    <3>1. \A i \in 1..Len(g) : g[i] \in ValidationResult
      BY <1>1
    <3>2. \A r \in ValidationResult : r.tasks \in Seq(BOOLEAN)
      BY DEF ValidationResult
    <3> QED BY <3>1, <3>2, Zenon
  <2> HIDE DEF g
  <2> QED BY <1>1, <2>1
<1>5. \A k \in DOMAIN t : t[k] = g[k].tasks
  OBVIOUS
<1>6. \A i \in DOMAIN g : g[i].valid => \A j \in DOMAIN g[i].tasks : g[i].tasks[j]
  <2> TAKE i \in DOMAIN g
  <2>1. PICK k \in DOMAIN steps : \E n \in DOMAIN steps[k].results : steps[k].results[n] = g[i]
    BY <1>2
  <2>2. PICK n \in DOMAIN steps[k].results : steps[k].results[n] = g[i]
    BY <2>1
  <2>3. LET r == steps[k].results[n] IN r.valid => \A j \in DOMAIN r.tasks : r.tasks[j]
    BY StepsKnown
  <2> HIDE DEF g
  <2> QED BY <2>2, <2>3
<1>7. v.valid <=> ~Stopped
  BY <1>2, <1>3 DEF Stopped, Passed
<1>8. v.completed <=> \A k \in DOMAIN steps :
         \A i \in DOMAIN steps[k].results : steps[k].results[i].completed
  BY <1>2, <1>3
<1> HIDE DEF g, t, v
<1>9. /\ FlattenSeq(t) \in Seq(BOOLEAN)
      /\ ToSet(FlattenSeq(t)) = UNION {ToSet(t[k]) : k \in DOMAIN t}
  BY <1>1, <1>4, Together
<1>10. v \in ValidationResult
  BY <1>3, <1>9 DEF ValidationResult
<1>11. ASSUME v.valid PROVE \A j \in DOMAIN v.tasks : v.tasks[j]
  <2>1. \A k \in DOMAIN t : \A x \in ToSet(t[k]) : x = TRUE
    <3> TAKE k \in DOMAIN t
    <3> TAKE x \in ToSet(t[k])
    <3>1. k \in 1..Len(g) /\ g[k] \in ValidationResult
      BY <1>1, <1>4
    <3>2. t[k] \in Seq(BOOLEAN) /\ \A j \in DOMAIN t[k] : t[k][j]
      BY <1>1, <1>3, <1>4, <1>5, <1>6, <1>11, <3>1 DEF ValidationResult
    <3>3. PICK j \in DOMAIN t[k] : t[k][j] = x
      BY DEF ToSet
    <3>4. t[k][j] \in BOOLEAN
      BY <3>2
    <3> QED BY <3>2, <3>3, <3>4
  <2>2. \A x \in ToSet(v.tasks) : x = TRUE
    BY <1>3, <1>9, <2>1
  <2> QED BY <2>2 DEF ToSet
<1> QED BY <1>7, <1>8, <1>10, <1>11 DEF v

(* Only the last step of a profile asks for grading, and only after every  *)
(* gate has passed; a profile with a rubric never ends without it.         *)
LEMMA Requested ==
    ASSUME job \in [type : SubmissionType, username : BOOLEAN], StepsGood
    PROVE  /\ Requests \in {0, 1}
           /\ Requests = 1 =>
                Profile[job.type].rubric /\ ~Stopped /\ Len(steps) = Len(Checks(job))
           /\ Requests = 0 /\ Profile[job.type].rubric /\ Len(steps) = Len(Checks(job)) =>
                Stopped
<1> DEFINE n == Len(Checks(job))
           asking == {k \in DOMAIN steps : steps[k].task}
<1>1. /\ n \in 1..3
      /\ \A k \in 1..(n - 1) : Checks(job)[k] \notin ReviewCheck
      /\ Profile[job.type].rubric <=> Checks(job)[n] \in ReviewCheck
  BY ProfileShape DEF Checks
<1>2. /\ DOMAIN steps = 1..Len(steps) /\ Len(steps) \in 0..n
      /\ \A k \in 1..Len(steps) : StepShape(Checks(job)[k], steps[k])
  BY StepsKnown DEF StepsGood
<1>3. ASSUME NEW k \in asking
      PROVE  k = n /\ k = Len(steps) /\ Checks(job)[k] \in ReviewCheck /\ Passed(steps[k])
  <2>1. k \in 1..Len(steps) /\ steps[k].task /\ StepShape(Checks(job)[k], steps[k])
    BY <1>2
  <2>2. Checks(job)[k] \in ReviewCheck /\ steps[k].results = <<>>
    BY <2>1 DEF StepShape
  <2>3. k \in Int /\ 1 <= k /\ k <= Len(steps) /\ Len(steps) <= n /\ n \in Int /\ Len(steps) \in Int
    BY <1>1, <1>2, <2>1
  <2>4. k \notin 1..(n - 1)
    BY <1>1, <2>2
  <2> HIDE DEF n
  <2>5. k = n /\ k = Len(steps)
    BY <2>3, <2>4
  <2> QED BY <2>2, <2>5 DEF Passed
<1>4. asking = {} \/ asking = {n}
  BY <1>3
<1>5. Requests \in {0, 1} /\ (Requests = 0 <=> asking = {})
  BY <1>4, FS_EmptySet, FS_Singleton DEF Requests
<1>6. ASSUME Requests = 1
      PROVE  Profile[job.type].rubric /\ ~Stopped /\ Len(steps) = Len(Checks(job))
  <2>1. n \in asking
    BY <1>4, <1>5, <1>6
  <2>2. n = Len(steps) /\ Checks(job)[n] \in ReviewCheck /\ Passed(steps[n])
    BY <1>3, <2>1
  <2>3. \A k \in DOMAIN steps : k = n \/ k \in 1..(Len(steps) - 1)
    BY <1>1, <1>2, <2>2
  <2>4. \A k \in DOMAIN steps : Passed(steps[k])
    BY <2>2, <2>3 DEF StepsGood
  <2> QED BY <1>1, <2>2, <2>4 DEF Stopped
<1>7. ASSUME Requests = 0, Profile[job.type].rubric, Len(steps) = n
      PROVE  Stopped
  <2>1. n \in DOMAIN steps /\ n \in 1..Len(steps)
    BY <1>1, <1>2, <1>7
  <2>2. StepShape(Checks(job)[n], steps[n]) /\ ~steps[n].task
    BY <1>2, <1>5, <1>7, <2>1
  <2>3. Len(steps[n].results) = 1 /\ ~steps[n].results[1].valid
    BY <1>1, <1>7, <2>2 DEF StepShape
  <2>4. 1 \in DOMAIN steps[n].results
    BY <2>1, <2>3, StepsKnown
  <2> QED BY <2>1, <2>3, <2>4 DEF Stopped, Passed
<1> QED BY <1>5, <1>6, <1>7

-----------------------------------------------------------------------------
(* The engine keeps its invariant, action by action.                       *)
LEMMA EngineInit ==
    ASSUME Init
    PROVE  EngineInv
<1>1. NoRun.result \in ValidationResult /\ NoRun.disposition = "unset"
  BY Verdicts DEF NoRun, RunResult
<1>2. steps = <<>> /\ <<>> \in Seq(StepRecord) /\ read = {} /\ pc = "engine"
  BY DEF Init
<1>3. job.type \in SubmissionType /\ Len(Checks(job)) \in 1..3
  BY ProfileShape DEF Init, Checks
<1>4. StepsGood
  BY <1>2, <1>3 DEF StepsGood
<1> QED BY <1>1, <1>2, <1>4, AttemptsAssumption
        DEF Init, EngineInv, PC, EveryRunExplained, GateOutageNotBlamed,
            SuccessFullyEarned, FeedbackAgrees

(* A check of the profile that ends well grows the steps by a good one, or *)
(* the activity starts again.                                              *)
LEMMA EvaluateGood ==
    ASSUME EngineInv, NEW check, NEW outcomes, Evaluate(check, outcomes),
           \A o \in outcomes : o.raises \/ EndsWell(check, o)
    PROVE  EngineInv'
<1>1. /\ pc = "engine" /\ HasIdentity /\ ~Stopped /\ Len(steps) < Len(Checks(job))
      /\ Checks(job)[Len(steps) + 1] = check
      /\ UNCHANGED <<job, run, decisions, cause, crashes>>
  BY DEF Evaluate, At
<1>2. /\ job.type \in SubmissionType /\ Len(Checks(job)) \in 1..3
      /\ DOMAIN steps = 1..Len(steps) /\ Len(steps) \in Nat /\ steps \in Seq(StepRecord)
  BY ProfileShape DEF EngineInv, Checks, StepsGood
<1>3. StepsGood' /\ pc' \in {"engine", "terminalize"}
  <2>1. PICK o \in outcomes :
          IF o.raises THEN RetryVerify
          ELSE /\ steps' = Append(steps, StepOf(o))
               /\ read' = read \cup ({check} \X o.read)
               /\ UNCHANGED <<pc, tries>>
    BY DEF Evaluate, StepOf
  <2>2. CASE o.raises
    <3>1. steps' = <<>> /\ read' = {} /\ pc' \in {"engine", "terminalize"}
      BY <2>1, <2>2 DEF RetryVerify
    <3>2. <<>> \in Seq(StepRecord) /\ Len(<<>>) = 0
      OBVIOUS
    <3> QED BY <1>1, <1>2, <3>1, <3>2 DEF StepsGood, Checks, HasIdentity
  <2>3. CASE ~o.raises
    <3> DEFINE s == StepOf(o)
               n == Len(steps)
    <3>1. /\ steps' = Append(steps, s) /\ read' = read \cup ({check} \X o.read)
          /\ pc' = "engine" /\ s \in StepRecord /\ StepShape(check, s)
          /\ check \notin ReviewCheck => \A a \in o.read : Explains(check, s, a)
      BY <1>1, <2>1, <2>3 DEF EndsWell
    <3>2. /\ steps' \in Seq(StepRecord) /\ Len(steps') = n + 1 /\ steps'[n+1] = s
          /\ \A k \in 1..n : steps'[k] = steps[k]
      <4> HIDE DEF s
      <4> QED BY <1>2, <3>1
    <3> HIDE DEF s
    <3>3. \A k \in 1..Len(steps') : k = n + 1 \/ k \in 1..n
      BY <1>2, <3>2
    <3>4. \A k \in 1..Len(steps') : StepShape(Checks(job)[k], steps'[k])
      BY <1>1, <3>1, <3>2, <3>3 DEF EngineInv, StepsGood
    <3>5. \A k \in 1..(Len(steps') - 1) : Passed(steps'[k])
      <4>1. 1..(Len(steps') - 1) = 1..n
        BY <1>2, <3>2
      <4> QED BY <1>1, <1>2, <3>2, <4>1 DEF Stopped
    <3>6. ASSUME NEW x \in read'
          PROVE  \E k \in 1..Len(steps') :
                   /\ x[1] = Checks(job)[k]
                   /\ x[1] \notin ReviewCheck => Explains(x[1], steps'[k], x[2])
      <4>1. CASE x \in read
        <5>1. PICK k \in 1..n : /\ x[1] = Checks(job)[k]
                                /\ x[1] \notin ReviewCheck => Explains(x[1], steps[k], x[2])
          BY <4>1 DEF EngineInv, StepsGood
        <5>2. k \in 1..Len(steps') /\ steps'[k] = steps[k]
          BY <1>2, <3>2
        <5> QED BY <5>1, <5>2
      <4>2. CASE x \in {check} \X o.read
        <5>1. x[1] = check /\ x[2] \in o.read
          BY <4>2
        <5>2. n + 1 \in 1..Len(steps') /\ steps'[n+1] = s /\ Checks(job)[n+1] = check
          BY <1>1, <1>2, <3>2
        <5> QED BY <3>1, <5>1, <5>2
      <4> QED BY <3>1, <4>1, <4>2
    <3>7. Len(steps') <= Len(Checks(job))
      BY <1>1, <1>2, <3>2
    <3>8. job' = job /\ HasIdentity'
      BY <1>1 DEF HasIdentity
    <3> QED BY <3>1, <3>2, <3>4, <3>5, <3>6, <3>7, <3>8 DEF StepsGood, Checks
  <2> QED BY <2>2, <2>3
<1>4. run = NoRun /\ decisions = <<>>
  BY <1>1 DEF EngineInv
<1> QED BY <1>1, <1>3, <1>4
        DEF EngineInv, PC, EveryRunExplained, GateOutageNotBlamed, SuccessFullyEarned,
            FeedbackAgrees

(* While the answers read are explained by their steps, a run that may be  *)
(* blamed on the learner saw no outage, and one that passed every gate saw *)
(* only favourable answers.                                                *)
LEMMA AnswersExplained ==
    ASSUME job \in [type : SubmissionType, username : BOOLEAN], StepsGood,
           NEW x \in read, x[1] \notin ReviewCheck
    PROVE  /\ (\A k \in DOMAIN steps : \A i \in DOMAIN steps[k].results :
                 steps[k].results[i].completed) /\ Operational(x[2]) =>
                PageRefused(x[1], x[2])
           /\ ~Stopped => x[2] \in Favourable
<1>1. PICK k \in 1..Len(steps) :
        x[1] = Checks(job)[k] /\ Explains(x[1], steps[k], x[2])
  BY DEF StepsGood
<1>2. k \in DOMAIN steps /\ StepShape(Checks(job)[k], steps[k])
  BY <1>1, StepsKnown DEF StepsGood
<1>3. 1 \in DOMAIN steps[k].results
  <2>1. Len(steps[k].results) = 1 /\ steps[k].results \in Seq(ValidationResult)
    BY <1>1, <1>2, StepsKnown DEF StepShape
  <2> QED BY <2>1
<1> QED BY <1>1, <1>2, <1>3 DEF Explains, Stopped, Passed

LEMMA RefuseGood ==
    ASSUME EngineInv, RefuseUsername
    PROVE  EngineInv'
<1>1. /\ pc = "engine" /\ ~HasIdentity /\ read = {} /\ decisions = <<>>
      /\ UNCHANGED <<job, steps, read, decisions, cause, crashes>>
  BY DEF EngineInv, RefuseUsername, StepsGood
<1>2. pc' = "finalize" /\ run'.result = Failed /\ run'.disposition = "skipped_missing_username"
  BY DEF RefuseUsername, HandOver, RunResult
<1>3. StepsGood'
  BY <1>1 DEF EngineInv, StepsGood, Checks, HasIdentity
<1> QED BY <1>1, <1>2, <1>3, Verdicts
        DEF EngineInv, PC, EveryRunExplained, GateOutageNotBlamed, SuccessFullyEarned,
            FeedbackAgrees, OutcomeOf

LEMMA FinishGood ==
    ASSUME EngineInv, FinishRun
    PROVE  EngineInv'
<1>1. /\ pc = "engine" /\ HasIdentity /\ decisions = <<>>
      /\ Stopped \/ Len(steps) = Len(Checks(job))
      /\ UNCHANGED <<job, steps, read, decisions, cause, crashes>>
      /\ job \in [type : SubmissionType, username : BOOLEAN] /\ StepsGood
  BY DEF EngineInv, FinishRun
<1>2. steps # <<>>
  <2>1. Len(Checks(job)) \in 1..3
    BY <1>1, ProfileShape DEF Checks
  <2>2. steps = <<>> => Len(steps) = 0 /\ ~Stopped
    BY DEF Stopped
  <2> QED BY <1>1, <2>1, <2>2
<1>3. /\ run' = RunResult(Concluded, Requests, Disposition(Profile[job.type].rubric, Requests))
      /\ pc' = IF Requests = 0 THEN "finalize" ELSE "config"
  BY DEF FinishRun, HandOver, RunResult, Concluded, Gathered
<1>4. /\ run'.result = Concluded /\ run'.requests = Requests
      /\ run'.disposition = Disposition(Profile[job.type].rubric, Requests)
  BY <1>3 DEF RunResult
<1>5. /\ Concluded \in ValidationResult
      /\ Concluded.valid <=> ~Stopped
      /\ Concluded.completed <=> \A k \in DOMAIN steps :
           \A i \in DOMAIN steps[k].results : steps[k].results[i].completed
      /\ Concluded.valid => \A j \in DOMAIN Concluded.tasks : Concluded.tasks[j]
  BY <1>1, <1>2, Aggregated
<1>6. /\ Requests \in {0, 1}
      /\ Requests = 1 =>
           Profile[job.type].rubric /\ ~Stopped /\ Len(steps) = Len(Checks(job))
      /\ Requests = 0 /\ Profile[job.type].rubric => Stopped
  BY <1>1, Requested
<1>7. StepsGood' /\ job' \in [type : SubmissionType, username : BOOLEAN]
      /\ HasIdentity' /\ Stopped' = Stopped /\ Checks(job') = Checks(job)
  BY <1>1 DEF StepsGood, Checks, HasIdentity, Stopped
<1>8. EveryRunExplained'
  BY <1>4, <1>6 DEF EveryRunExplained, Disposition
<1>9. CASE Requests = 1
  <2>1. pc' = "config" /\ GradingGood'
    <3>1. run'.disposition = "requested"
      BY <1>4, <1>6, <1>9 DEF Disposition
    <3>2. <<>> \in Seq(Decision) /\ Len(<<>>) = 0
      OBVIOUS
    <3>3. pc' = "config"
      BY <1>3, <1>9
    <3> QED BY <1>1, <1>4, <1>5, <1>6, <1>7, <1>9, <3>1, <3>2, <3>3 DEF GradingGood
  <2> QED BY <1>1, <1>4, <1>5, <1>7, <1>8, <2>1
          DEF EngineInv, PC, GateOutageNotBlamed, SuccessFullyEarned, FeedbackAgrees
<1>10. CASE Requests = 0
  <2>1. pc' = "finalize"
    BY <1>3, <1>10
  <2>2. GateOutageNotBlamed'
    <3> SUFFICES ASSUME OutcomeOf(Concluded) = "failed", NEW x \in read,
                        x[1] \notin ReviewCheck, Operational(x[2])
                 PROVE  PageRefused(x[1], x[2])
      BY <1>1, <1>4 DEF GateOutageNotBlamed
    <3>1. Concluded.completed
      BY DEF OutcomeOf
    <3> QED BY <1>1, <1>5, <3>1, AnswersExplained
  <2>3. SuccessFullyEarned'
    <3> SUFFICES ASSUME OutcomeOf(Concluded) = "succeeded"
                 PROVE  /\ HasIdentity /\ Len(steps) = Len(Checks(job))
                        /\ \A x \in read : x[1] \notin ReviewCheck => x[2] \in Favourable
                        /\ ~Profile[job.type].rubric
      BY <1>1, <1>4, <1>7 DEF SuccessFullyEarned, Favourable
    <3>1. ~Stopped
      BY <1>5 DEF OutcomeOf
    <3> QED BY <1>1, <1>6, <1>10, <3>1, AnswersExplained
  <2>4. FeedbackAgrees'
    BY <1>1, <1>4, <1>5 DEF FeedbackAgrees
  <2> QED BY <1>1, <1>4, <1>5, <1>7, <1>8, <2>1, <2>2, <2>3, <2>4 DEF EngineInv, PC
<1> QED BY <1>6, <1>9, <1>10

LEMMA CrashGood ==
    ASSUME EngineInv, CrashInEngine
    PROVE  EngineInv'
<1>1. /\ pc = "engine" /\ pc' = "engine" /\ steps' = <<>> /\ read' = {}
      /\ crashes' \in 0..MaxCrashes /\ UNCHANGED <<job, run, decisions, cause>>
  BY AttemptsAssumption DEF EngineInv, CrashInEngine
<1>2. <<>> \in Seq(StepRecord) /\ Len(<<>>) = 0 /\ Len(Checks(job)) \in 1..3
  BY ProfileShape DEF EngineInv, Checks
<1>3. StepsGood'
  BY <1>1, <1>2 DEF StepsGood, Checks
<1> QED BY <1>1, <1>3
        DEF EngineInv, PC, EveryRunExplained, GateOutageNotBlamed, SuccessFullyEarned,
            FeedbackAgrees

(* The grading.                                                            *)
LEMMA ConfigGood ==
    ASSUME EngineInv, CheckConfig
    PROVE  EngineInv'
<1>1. /\ pc = "config" /\ pc' \in {"grading", "failing", "terminalize"} /\ GradingGood
      /\ UNCHANGED <<job, steps, read, run, decisions, crashes>>
  BY DEF EngineInv, CheckConfig, FailGrading
<1>2. StepsGood'
  BY <1>1 DEF EngineInv, StepsGood, Checks, HasIdentity
<1>3. GradingGood'
  BY <1>1 DEF GradingGood, Checks, HasIdentity, Stopped
<1> QED BY <1>1, <1>2, <1>3
        DEF EngineInv, PC, EveryRunExplained, GateOutageNotBlamed, SuccessFullyEarned,
            FeedbackAgrees

LEMMA GradeGood ==
    ASSUME EngineInv, GradeRequest
    PROVE  EngineInv'
<1>1. /\ pc = "grading" /\ GradingGood /\ decisions = <<>>
      /\ UNCHANGED <<job, steps, read, run, crashes>>
  BY DEF EngineInv, GradeRequest, GradingGood
<1>2. StepsGood'
  BY <1>1 DEF EngineInv, StepsGood, Checks, HasIdentity
<1>3. pc' \in {"grading", "apply", "failing"} /\ GradingGood'
  <2>1. CASE \E decision \in Decision :
               /\ decisions' = Append(decisions, decision)
               /\ pc' = IF Len(decisions') = run.requests THEN "apply" ELSE "grading"
    <3>1. PICK decision \in Decision : decisions' = <<decision>>
      BY <1>1, <2>1
    <3>2. <<decision>> \in Seq(Decision) /\ Len(<<decision>>) = 1
      OBVIOUS
    <3>3. pc' = "apply"
      BY <1>1, <2>1, <3>1, <3>2 DEF GradingGood
    <3> QED BY <1>1, <3>1, <3>2, <3>3 DEF GradingGood, Checks, HasIdentity, Stopped
  <2>2. CASE decisions' = decisions /\ pc' \in {"grading", "failing"}
    BY <1>1, <2>2 DEF GradingGood, Checks, HasIdentity, Stopped
  <2> QED BY <1>1, <2>1, <2>2 DEF GradeRequest, FailGrading
<1> QED BY <1>1, <1>2, <1>3
        DEF EngineInv, PC, EveryRunExplained, GateOutageNotBlamed, SuccessFullyEarned,
            FeedbackAgrees

(* The grader's decision joins the verdict and the tasks of the gates.     *)
LEMMA DecisionsJoined ==
    ASSUME GradingGood, run.result \in ValidationResult, Len(decisions) = 1
    PROVE  LET v == WithDecisions(run.result)
           IN  /\ v \in ValidationResult /\ v.completed = run.result.completed
               /\ v.valid <=> decisions[1] = "accept"
               /\ v.valid => \A k \in DOMAIN v.tasks : v.tasks[k]
               /\ ~v.valid => \E k \in DOMAIN v.tasks : ~v.tasks[k]
<1> DEFINE r == run.result
           t == r.tasks
           d == [k \in DOMAIN decisions |-> GradingPassed(decisions[k])]
           v == WithDecisions(r)
<1>1. DOMAIN decisions = {1}
  BY DEF GradingGood
<1>2. d \in Seq(BOOLEAN) /\ Len(d) = 1 /\ (d[1] <=> decisions[1] = "accept")
  <2> DEFINE x == GradingPassed(decisions[1])
  <2>1. x \in BOOLEAN /\ (x <=> decisions[1] = "accept")
    BY DEF GradingPassed
  <2>2. d = [k \in {1} |-> x]
    BY <1>1
  <2> HIDE DEF x, d
  <2>3. d = <<x>>
    BY <2>2
  <2>4. <<x>> \in Seq(BOOLEAN) /\ Len(<<x>>) = 1 /\ <<x>>[1] = x
    BY <2>1
  <2> QED BY <2>1, <2>3, <2>4
<1>3. t \in Seq(BOOLEAN) /\ r.valid /\ r.valid \in BOOLEAN /\ r.completed \in BOOLEAN
      /\ \A k \in DOMAIN t : t[k]
  BY DEF ValidationResult, GradingGood
<1>4. /\ v.valid \in BOOLEAN /\ (v.valid <=> decisions[1] = "accept")
      /\ v.completed = r.completed /\ v.tasks = t \o d
      /\ v = [valid |-> v.valid, completed |-> v.completed, tasks |-> v.tasks]
  <2> DEFINE ok == r.valid /\ \A k \in DOMAIN decisions : GradingPassed(decisions[k])
             tasks == t \o d
  <2>1. ok \in BOOLEAN /\ (ok <=> decisions[1] = "accept")
    BY <1>1, <1>3 DEF GradingPassed
  <2>2. v = [r EXCEPT !.valid = ok, !.tasks = tasks]
    BY DEF WithDecisions
  <2>3. r \in ValidationResult
    OBVIOUS
  <2> HIDE DEF ok, tasks, r, v
  <2>4. /\ v.valid = ok /\ v.completed = r.completed /\ v.tasks = tasks
        /\ v = [valid |-> v.valid, completed |-> v.completed, tasks |-> v.tasks]
    BY <2>2, <2>3 DEF ValidationResult
  <2> QED BY <2>1, <2>4 DEF tasks
<1> HIDE DEF d, t, v, r
<1>5. /\ t \o d \in Seq(BOOLEAN) /\ DOMAIN (t \o d) = 1..(Len(t) + 1)
      /\ \A k \in 1..Len(t) : (t \o d)[k] = t[k]
      /\ (t \o d)[Len(t) + 1] = d[1] /\ Len(t) \in Nat /\ DOMAIN t = 1..Len(t)
  <2>1. t \in Seq(BOOLEAN) /\ d \in Seq(BOOLEAN) /\ Len(d) = 1
    BY <1>2, <1>3
  <2>2. Len(t) \in Nat /\ DOMAIN t = 1..Len(t)
    BY <2>1
  <2>3. t \o d \in Seq(BOOLEAN) /\ Len(t \o d) = Len(t) + 1
    BY <2>1, Joined
  <2>4. DOMAIN (t \o d) = 1..(Len(t) + 1)
    BY <2>3
  <2>5. \A k \in 1..Len(t) : (t \o d)[k] = t[k]
    BY <2>1, <2>2
  <2>6. (t \o d)[Len(t) + 1] = d[1]
    BY <2>1, <2>2
  <2> QED BY <2>2, <2>3, <2>4, <2>5, <2>6
<1>6. v \in ValidationResult
  BY <1>3, <1>4, <1>5 DEF ValidationResult
<1>7. v.valid => \A k \in DOMAIN v.tasks : v.tasks[k]
  <2>1. \A k \in 1..(Len(t) + 1) : k \in 1..Len(t) \/ k = Len(t) + 1
    BY <1>5
  <2> QED BY <1>2, <1>3, <1>4, <1>5, <2>1
<1>8. ~v.valid => \E k \in DOMAIN v.tasks : ~v.tasks[k]
  <2>1. Len(t) + 1 \in 1..(Len(t) + 1)
    BY <1>5
  <2> QED BY <1>2, <1>4, <1>5, <2>1
<1>9. v.completed = r.completed /\ (v.valid <=> decisions[1] = "accept")
  BY <1>4
<1> QED BY <1>6, <1>7, <1>8, <1>9 DEF v, r

LEMMA ApplyGood ==
    ASSUME EngineInv, ApplyDecisions
    PROVE  EngineInv'
<1>1. /\ pc = "apply" /\ GradingGood /\ run.result \in ValidationResult
      /\ UNCHANGED <<job, steps, read, tries, decisions, crashes>>
      /\ decisions \in Seq(Decision) /\ Len(decisions) = 1
      /\ HasIdentity /\ ~Stopped /\ Len(steps) = Len(Checks(job))
      /\ run.disposition = "requested"
  BY DEF EngineInv, ApplyDecisions, GradingGood
<1>2. StepsGood' /\ (job \in [type : SubmissionType, username : BOOLEAN])'
      /\ crashes' \in 0..MaxCrashes
  BY <1>1 DEF EngineInv, StepsGood, Checks, HasIdentity
<1>3. CASE pc' = "failing" /\ run' = run
  <2>1. GradingGood'
    BY <1>1, <1>3 DEF GradingGood, Checks, HasIdentity, Stopped
  <2> QED BY <1>1, <1>2, <1>3, <2>1
          DEF EngineInv, PC, EveryRunExplained, GateOutageNotBlamed, SuccessFullyEarned,
              FeedbackAgrees
<1>4. CASE /\ run' = RunResult(WithDecisions(run.result), 0, run.disposition)
           /\ pc' = "finalize"
  <2> DEFINE v == WithDecisions(run.result)
  <2>1. run'.result = v /\ run'.disposition = "requested"
    BY <1>1, <1>4 DEF RunResult
  <2>2. /\ v \in ValidationResult /\ (v.valid <=> decisions[1] = "accept")
        /\ v.valid => \A k \in DOMAIN v.tasks : v.tasks[k]
        /\ ~v.valid => \E k \in DOMAIN v.tasks : ~v.tasks[k]
    BY <1>1, DecisionsJoined
  <2>3. \A x \in read : x[1] \notin ReviewCheck => x[2] \in Favourable
    BY <1>1, AnswersExplained DEF EngineInv
  <2> HIDE DEF v
  <2>4. GateOutageNotBlamed'
    <3>1. \A a \in Favourable : ~Operational(a)
      BY DEF Favourable, Operational
    <3> QED BY <1>1, <2>3, <3>1 DEF GateOutageNotBlamed
  <2>5. SuccessFullyEarned'
    <3>1. v.valid => decisions = <<"accept">>
      <4>1. decisions = <<decisions[1]>>
        BY <1>1
      <4> QED BY <2>2, <4>1
    <3>2. OutcomeOf(v) = "succeeded" => v.valid
      BY DEF OutcomeOf
    <3> QED BY <1>1, <2>1, <2>3, <3>1, <3>2 DEF SuccessFullyEarned, HasIdentity, Checks,
              Favourable
  <2>6. FeedbackAgrees'
    <3>1. OutcomeOf(v) = "failed" => ~v.valid
      BY DEF OutcomeOf
    <3> QED BY <2>1, <2>2, <3>1 DEF FeedbackAgrees
  <2>7. EveryRunExplained'
    BY <2>1 DEF EveryRunExplained
  <2>8. ~Stopped'
    BY <1>1 DEF Stopped
  <2> QED BY <1>2, <1>4, <2>1, <2>2, <2>4, <2>5, <2>6, <2>7, <2>8 DEF EngineInv, PC
<1> QED BY <1>3, <1>4 DEF ApplyDecisions, FailGrading

LEMMA FailureGood ==
    ASSUME EngineInv, RecordGradingFailure
    PROVE  EngineInv'
<1>1. /\ pc = "failing" /\ GradingGood /\ run.result \in ValidationResult
      /\ UNCHANGED <<job, steps, read, decisions, crashes>>
      /\ run.disposition = "requested"
  BY DEF EngineInv, RecordGradingFailure, GradingGood
<1>2. StepsGood'
  BY <1>1 DEF EngineInv, StepsGood, Checks, HasIdentity
<1>3. CASE pc' = "terminalize" /\ run' = run
  BY <1>1, <1>2, <1>3
     DEF EngineInv, PC, EveryRunExplained, GateOutageNotBlamed, SuccessFullyEarned,
         FeedbackAgrees
<1>4. CASE /\ run' = RunResult(GradingFailure(run.result), 0, run.disposition)
           /\ pc' = "finalize"
  <2> DEFINE v == GradingFailure(run.result)
  <2>1. run'.result = v /\ run'.disposition = "requested"
    BY <1>1, <1>4 DEF RunResult
  <2>2. v \in ValidationResult /\ ~v.valid /\ ~v.completed
    BY <1>1 DEF GradingFailure, ValidationResult
  <2>3. OutcomeOf(v) = "server_error"
    BY <2>2 DEF OutcomeOf
  <2> HIDE DEF v
  <2> QED BY <1>1, <1>2, <1>4, <2>1, <2>2, <2>3
          DEF EngineInv, PC, EveryRunExplained, GateOutageNotBlamed, SuccessFullyEarned,
              FeedbackAgrees
<1> QED BY <1>1, <1>3, <1>4 DEF RecordGradingFailure

-----------------------------------------------------------------------------
(* The composition.                                                        *)
LEMMA ExecutionIsCall == EngineInv => Execution \in Calls /\ 1..crashes \subseteq Calls
BY AttemptsAssumption DEF EngineInv, Execution, Calls

(* The challenge is the only check of its profile, and of no other.        *)
LEMMA ChallengeProfile ==
    ASSUME NEW t \in SubmissionType
    PROVE  /\ t = "deployed_api" => Len(Profile[t].checks) = 1
                                   /\ Profile[t].checks[1] = "deployed_api_check"
           /\ t # "deployed_api" =>
                \A k \in DOMAIN Profile[t].checks : Profile[t].checks[k] # "deployed_api_check"
<1>1. t = "deployed_api" => Profile[t].checks = <<"deployed_api_check">>
  BY DEF Profile
<1>2. ASSUME t # "deployed_api", NEW k \in DOMAIN Profile[t].checks
      PROVE  Profile[t].checks[k] # "deployed_api_check"
  <2>1. t \in {"profile_readme", "repo_fork", "ctf_token", "networking_token",
               "journal_api_verifier", "deployment_architecture",
               "devops_analysis", "security_scanning", "career_reflection"}
    BY <1>2 DEF SubmissionType, Profile
  <2> QED BY <1>2, <2>1 DEF Profile
<1> QED BY <1>1, <1>2

LEMMA NextKeepsEngine ==
    ASSUME EngineInv, [AllNext]_allVars
    PROVE  EngineInv'
<1>1. CASE EvaluateSimple
  <2>1. PICK check \in Check \ {"deployed_api_check", "llm_discover_review"} :
             Evaluate(check, StepOutcomes(check))
    BY <1>1 DEF EvaluateSimple
  <2>2. \A o \in StepOutcomes(check) : o.raises \/ EndsWell(check, o)
    BY SimpleEndsWell
  <2> QED BY <2>1, <2>2, EvaluateGood
<1>2. CASE EndChallenge
  <2>1. Evaluate("deployed_api_check", ChallengeOutcomes)
    BY <1>2 DEF EndChallenge
  <2> QED BY <2>1, CompositeEndsWell, EvaluateGood
<1>3. CASE EndCollection
  <2>1. Evaluate("llm_discover_review", CollectionOutcomes)
    BY <1>3 DEF EndCollection
  <2> QED BY <2>1, CompositeEndsWell, EvaluateGood
<1>4. CASE UNCHANGED vars
  BY <1>4 DEF vars, EngineInv, StepsGood, GradingGood, Checks, HasIdentity, Stopped,
     EveryRunExplained, GateOutageNotBlamed, SuccessFullyEarned, FeedbackAgrees
<1>5. CASE EngineStep
  BY <1>5, RefuseGood, FinishGood, ConfigGood, GradeGood, ApplyGood, FailureGood
     DEF EngineStep
<1>6. CASE Redeliver
  BY <1>6, CrashGood DEF Redeliver
<1> QED BY <1>1, <1>2, <1>3, <1>4, <1>5, <1>6
        DEF AllNext, Progress, ChallengeStep, CollectionStep, OldWorkerStep, LearnerWrites,
            allVars

LEMMA NextKeepsChallenge ==
    ASSUME EngineInv, ChallengeInv, [AllNext]_allVars
    PROVE  ChallengeInv'
<1>1. CASE \E r \in Calls : Challenge!Step(r)
  BY <1>1, ChallengeStepGood
<1>2. CASE Challenge!LearnerWrites
  BY <1>2, LearnerWritesGood
<1>3. CASE UNCHANGED challengeVars
  BY <1>3 DEF challengeVars, ChallengeInv, ChallengeType, CallGood
<1>4. ChallengeStep \/ OldWorkerStep => \E r \in Calls : Challenge!Step(r)
  BY ExecutionIsCall DEF ChallengeStep, OldWorkerStep
<1> QED BY <1>1, <1>2, <1>3, <1>4
        DEF AllNext, Progress, EvaluateSimple, EndChallenge, EndCollection, CollectionStep,
            EngineStep, Redeliver, LearnerWrites, allVars

(* The step of the challenge is recorded once its run is over, from what   *)
(* that run found; an older worker's run is another.                       *)
LEMMA NextKeepsReport ==
    ASSUME EngineInv, ChallengeInv, ChallengeReported, [AllNext]_allVars
    PROVE  ChallengeReported'
<1> SUFFICES ASSUME job'.type = "deployed_api", steps' # <<>>
             PROVE  /\ callAt'[Execution'] = "done"
                    /\ steps'[1].results[1].valid = (result'[Execution'] = "valid")
  BY DEF ChallengeReported
<1>0. /\ job' = job /\ job.type = "deployed_api"
      /\ Len(Checks(job)) = 1 /\ Checks(job)[1] = "deployed_api_check"
  <2>1. job' = job
    BY DEF AllNext, Progress, EvaluateSimple, EndChallenge, EndCollection, Evaluate,
       ChallengeStep, CollectionStep, EngineStep, RefuseUsername, FinishRun, CheckConfig,
       GradeRequest, ApplyDecisions, RecordGradingFailure, Redeliver, CrashInEngine,
       OldWorkerStep, LearnerWrites, allVars, vars
  <2> QED BY <2>1, ChallengeProfile DEF EngineInv, Checks
<1>1. steps \in Seq(StepRecord) /\ Len(steps) \in Nat
  BY DEF EngineInv, StepsGood
<1>2. ASSUME NEW check, At(check) PROVE check = "deployed_api_check" /\ steps = <<>>
  <2>1. Len(steps) = 0
    BY <1>0, <1>1, <1>2 DEF At
  <2> QED BY <1>0, <1>1, <1>2, <2>1 DEF At
<1>3. CASE UNCHANGED <<steps, callAt, result, crashes>>
  BY <1>0, <1>3 DEF ChallengeReported, Execution
<1>4. CASE EndChallenge
  <2>1. /\ Evaluate("deployed_api_check", ChallengeOutcomes)
        /\ UNCHANGED <<callAt, result, crashes>>
    BY <1>4 DEF EndChallenge, challengeVars, Evaluate
  <2>2. steps = <<>>
    BY <1>2, <2>1 DEF Evaluate
  <2>3. PICK o \in ChallengeOutcomes :
             steps' = <<>> \/ steps' = Append(steps, [results |-> o.results, task |-> o.task])
    BY <2>1 DEF Evaluate, RetryVerify
  <2>4. steps' = <<[results |-> o.results, task |-> o.task]>>
    BY <2>2, <2>3
  <2>5. steps'[1].results = o.results
    BY <2>4
  <2>6. callAt[Execution] = "done" /\ o.results[1].valid = (result[Execution] = "valid")
    BY DEF ChallengeOutcomes
  <2> QED BY <2>1, <2>5, <2>6 DEF Execution
<1>5. CASE Redeliver
  BY <1>5 DEF Redeliver, CrashInEngine
<1>6. CASE ChallengeStep
  BY <1>2, <1>6 DEF ChallengeStep, vars
<1>7. CASE OldWorkerStep
  <2>1. PICK r \in 1..crashes : Challenge!Step(r)
    BY <1>7 DEF OldWorkerStep
  <2>2. r \in Calls /\ Execution \in Calls /\ r # Execution
    BY ExecutionIsCall DEF EngineInv, Execution
  <2>3. callAt'[Execution] = callAt[Execution] /\ result'[Execution] = result[Execution]
    BY <2>1, <2>2, OthersKeep
  <2>4. UNCHANGED <<job, steps, crashes>>
    BY <1>7 DEF OldWorkerStep, vars
  <2> QED BY <1>0, <2>3, <2>4 DEF ChallengeReported, Execution
<1>8. CASE EvaluateSimple \/ EndCollection
  <2>1. PICK check, outcomes : check # "deployed_api_check" /\ Evaluate(check, outcomes)
    BY <1>8 DEF EvaluateSimple, EndCollection
  <2> QED BY <1>2, <2>1 DEF Evaluate
<1>9. CASE EngineStep
  <2>1. UNCHANGED <<steps, callAt, result, crashes>>
    BY <1>9 DEF EngineStep, challengeVars, RefuseUsername, FinishRun, CheckConfig,
       GradeRequest, ApplyDecisions, RecordGradingFailure
  <2> QED BY <1>3, <2>1
<1>10. CASE CollectionStep \/ LearnerWrites \/ UNCHANGED allVars
  <2>1. UNCHANGED <<steps, callAt, result, crashes>>
    BY <1>10 DEF CollectionStep, LearnerWrites, Challenge!LearnerWrites, allVars, vars,
       challengeVars
  <2> QED BY <1>3, <2>1
<1> QED BY <1>4, <1>5, <1>6, <1>7, <1>8, <1>9, <1>10 DEF AllNext, Progress

THEOREM VerificationInvHolds == VerificationSpec => []VerificationInv
<1>1. AllInit => VerificationInv
  <2>1. Init /\ steps = <<>> => EngineInv /\ ChallengeReported
    BY EngineInit DEF ChallengeReported
  <2>2. AllInit => Init /\ steps = <<>> /\ Challenge!Init
    BY DEF AllInit, Init
  <2> QED BY <2>1, <2>2, ChallengeInit DEF VerificationInv
<1>2. VerificationInv /\ [AllNext]_allVars => VerificationInv'
  BY NextKeepsEngine, NextKeepsChallenge, NextKeepsReport DEF VerificationInv
<1> QED BY <1>1, <1>2, PTL DEF VerificationSpec

(* The counters stay within the attempts Durable allows.                   *)
CountersGood ==
    /\ pc = "engine" => tries \in 0..(VerifyAttempts - 1)
    /\ pc = "config" => tries = 0
    /\ pc = "grading" => tries \in 0..(GradeAttempts - 1)
    /\ tries \in 0..VerifyAttempts \cup 0..GradeAttempts
    /\ run.requests \in 0..1 /\ cause \in {"none"} \cup GradeFault

LEMMA NextKeepsCounters ==
    ASSUME EngineInv, CountersGood, [AllNext]_allVars
    PROVE  CountersGood'
<1> USE AttemptsAssumption DEF CountersGood
<1>1. ASSUME NEW check, NEW outcomes, Evaluate(check, outcomes) PROVE CountersGood'
  <2>1. /\ pc = "engine" /\ run' = run /\ cause' = cause
        /\ \/ tries' = tries /\ pc' = pc
           \/ tries' = tries + 1 /\ pc' = IF tries' < VerifyAttempts THEN "engine" ELSE "terminalize"
    BY <1>1 DEF Evaluate, At, RetryVerify
  <2> QED BY <2>1
<1>2. CASE RefuseUsername \/ FinishRun
  <2>1. /\ tries' = 0 /\ pc' \in {"finalize", "config"} /\ cause' = cause
        /\ run'.requests \in {0, Requests}
    BY <1>2 DEF RefuseUsername, FinishRun, HandOver, RunResult
  <2>2. Requests \in {0, 1}
    BY Requested DEF EngineInv
  <2> QED BY <2>1, <2>2
<1>3. CASE CheckConfig
  BY <1>3 DEF CheckConfig, FailGrading, GradeFault
<1>4. CASE GradeRequest
  <2>1. /\ pc = "grading" /\ run' = run
        /\ \/ tries' = 0 /\ cause' = cause /\ pc' \in {"apply", "grading"}
           \/ /\ tries' = tries + 1
              /\ \/ tries' < GradeAttempts /\ pc' = pc /\ cause' = cause
                 \/ pc' = "failing" /\ cause' \in GradeFault
    BY <1>4 DEF GradeRequest, FailGrading
  <2> QED BY <2>1
<1>5. CASE ApplyDecisions \/ RecordGradingFailure
  BY <1>5 DEF ApplyDecisions, RecordGradingFailure, FailGrading, GradeFault, RunResult
<1>6. CASE UNCHANGED vars \/ CrashInEngine
  BY <1>6 DEF vars, CrashInEngine
<1> QED BY <1>1, <1>2, <1>3, <1>4, <1>5, <1>6
        DEF AllNext, Progress, EvaluateSimple, EndChallenge, EndCollection, ChallengeStep,
            CollectionStep, EngineStep, Redeliver, OldWorkerStep, LearnerWrites, allVars

(* Types and counters of the engine and of the challenge, for every number *)
(* of attempts and of executions that meet.                                *)
THEOREM TypeCorrect == VerificationSpec => [](TypeOK /\ Challenge!TypeOK)
<1>1. AllInit => CountersGood
  BY AttemptsAssumption DEF AllInit, Init, CountersGood, NoRun, RunResult
<1>2. VerificationInv /\ CountersGood /\ [AllNext]_allVars => CountersGood'
  BY NextKeepsCounters DEF VerificationInv
<1>3. VerificationInv /\ CountersGood => TypeOK /\ Challenge!TypeOK
  BY ChallengePromises, StepsKnown DEF VerificationInv, EngineInv, CountersGood, TypeOK
<1> QED BY <1>1, <1>2, <1>3, VerificationInvHolds, PTL DEF VerificationSpec

(* A verified API stored this run's nonce on a public address, and an      *)
(* attempt succeeds only on the run of the execution that reported it,     *)
(* however many workers of the attempt were thought dead.                  *)
THEOREM OwnershipAlwaysProven == VerificationSpec => []OwnershipProven
<1>1. ASSUME VerificationInv PROVE OwnershipProven
  <2> USE DEF VerificationInv
  <2>1. Challenge!OwnershipProven
    BY <1>1, ChallengePromises
  <2>2. ASSUME pc = "finalize", job.type = "deployed_api",
               OutcomeOf(run.result) = "succeeded"
        PROVE  result[Execution] = "valid"
    <3>1. run.result.valid /\ ~Stopped /\ Len(steps) = Len(Checks(job))
      BY <1>1, <2>2 DEF EngineInv, OutcomeOf, SuccessFullyEarned
    <3>2. Len(Checks(job)) = 1 /\ Checks(job)[1] = "deployed_api_check"
      BY <1>1, <2>2, ChallengeProfile DEF EngineInv, Checks
    <3>3. steps # <<>> /\ 1 \in DOMAIN steps /\ Len(steps[1].results) = 1
          /\ steps[1].results \in Seq(ValidationResult)
      <4>1. Len(steps) = 1 /\ DOMAIN steps = 1..Len(steps)
        BY <1>1, <3>1, <3>2, StepsKnown DEF EngineInv
      <4>2. 1 \in DOMAIN steps /\ steps # <<>>
        BY <4>1
      <4> QED BY <1>1, <4>2, StepsKnown DEF EngineInv
    <3>4. steps[1].results[1].valid
      <4>1. 1 \in DOMAIN steps[1].results
        BY <3>3
      <4> QED BY <3>1, <3>3, <4>1 DEF Stopped, Passed
    <3> QED BY <1>1, <2>2, <3>3, <3>4 DEF ChallengeReported
  <2> QED BY <2>1, <2>2 DEF OwnershipProven
<1> QED BY <1>1, VerificationInvHolds, PTL

(* A verified run whose POST was answered at once and whose DELETE was     *)
(* confirmed leaves nothing of its own on the learner's API.               *)
THEOREM NothingLeftBehind == VerificationSpec => []CleanAfterSuccess
<1>1. VerificationInv => CleanAfterSuccess
  BY ChallengePromises DEF VerificationInv, CleanAfterSuccess
<1> QED BY <1>1, VerificationInvHolds, PTL

(* Whatever executions meet on the API, a DELETE removes only the entry    *)
(* the run that sends it has posted itself.                                *)
THEOREM OnlyOwnEntriesDeleted == VerificationSpec => DeletesOwnEntry
<1>1. ASSUME VerificationInv, [AllNext]_allVars
      PROVE  [\A c \in held \ held' : callAt[c[1]] = "clean" /\ known[c[1]] = c]_(Challenge!vars)
  <2>1. Challenge!LearnerWrites \/ (\E r \in Calls : Challenge!Step(r)) \/ held' = held
    BY <1>1, ExecutionIsCall
       DEF VerificationInv, AllNext, Progress, EvaluateSimple, EndChallenge, EndCollection,
           ChallengeStep, CollectionStep, EngineStep, Redeliver, OldWorkerStep,
           LearnerWrites, allVars, challengeVars
  <2> QED BY <1>1, <2>1, OnlyOwnDeleted DEF VerificationInv
<1>2. VerificationInv /\ [AllNext]_allVars =>
        [\A c \in held \ held' : callAt[c[1]] = "clean" /\ known[c[1]] = c]_(Challenge!vars)
  BY <1>1
<1> QED BY <1>2, VerificationInvHolds, PTL
        DEF VerificationSpec, DeletesOwnEntry, Challenge!DeletesOwnEntry

(* An attempt that failed saw no outage at any of its gates, except a      *)
(* refused profile page.                                                   *)
THEOREM OutagesNeverBlamed == VerificationSpec => []GateOutageNotBlamed
<1>1. VerificationInv => GateOutageNotBlamed
  BY DEF VerificationInv, EngineInv
<1> QED BY <1>1, VerificationInvHolds, PTL

(* An attempt that succeeded passed every step of its profile on           *)
(* favourable answers, and was accepted by the grader if it has a rubric.  *)
THEOREM SuccessIsEarned == VerificationSpec => []SuccessFullyEarned
<1>1. VerificationInv => SuccessFullyEarned
  BY DEF VerificationInv, EngineInv
<1> QED BY <1>1, VerificationInvHolds, PTL

(* Neither ValueError of the grading disposition can be raised.            *)
THEOREM RunsAreExplained == VerificationSpec => []EveryRunExplained
<1>1. VerificationInv => EveryRunExplained
  BY DEF VerificationInv, EngineInv
<1> QED BY <1>1, VerificationInvHolds, PTL

(* A verdict and the feedback stored with it never disagree.               *)
THEOREM FeedbackAlwaysAgrees == VerificationSpec => []FeedbackAgrees
<1>1. VerificationInv => FeedbackAgrees
  BY DEF VerificationInv, EngineInv
<1> QED BY <1>1, VerificationInvHolds, PTL

(* What a step may do to the stage of the run and to its result.           *)
Grading == {"config", "grading", "apply", "failing"}
LEMMA StageSteps ==
    ASSUME EngineInv, [AllNext]_allVars
    PROVE  \/ UNCHANGED <<pc, run>>
           \/ pc = "engine" /\ pc' = "terminalize" /\ run' = run
           \/ pc = "engine" /\ pc' \in {"finalize", "config"} /\ run'.disposition # "unset"
           \/ pc \in Grading /\ pc' \in Grading \cup {"terminalize"} /\ run' = run
           \/ pc \in Grading /\ pc' = "finalize" /\ run'.disposition = "requested"
<1> USE DEF Grading
<1>1. ASSUME NEW check, NEW outcomes, Evaluate(check, outcomes)
      PROVE  pc = "engine" /\ pc' \in {"engine", "terminalize"} /\ run' = run
  BY <1>1 DEF Evaluate, At, RetryVerify
<1>2. CASE RefuseUsername \/ FinishRun
  BY <1>2 DEF RefuseUsername, FinishRun, HandOver, RunResult, Disposition
<1>3. CASE CheckConfig \/ GradeRequest
  BY <1>3 DEF CheckConfig, GradeRequest, FailGrading
<1>4. CASE ApplyDecisions \/ RecordGradingFailure
  <2>1. run.disposition = "requested"
    BY <1>4 DEF EngineInv, GradingGood, ApplyDecisions, RecordGradingFailure
  <2> QED BY <1>4, <2>1 DEF ApplyDecisions, RecordGradingFailure, FailGrading, RunResult
<1>5. CASE UNCHANGED vars \/ CrashInEngine
  BY <1>5 DEF vars, CrashInEngine
<1> QED BY <1>1, <1>2, <1>3, <1>4, <1>5
        DEF AllNext, Progress, EvaluateSimple, EndChallenge, EndCollection, ChallengeStep,
            CollectionStep, EngineStep, Redeliver, OldWorkerStep, LearnerWrites, allVars

(* The engine and the grading keep the contract the orchestrator relies    *)
(* on: one verdict, a grading only of what succeeded, and no way back.     *)
THEOREM ContractKept == VerificationSpec => ImplementsRunContract
<1> DEFINE Stage == CASE pc = "engine" -> "verify"
                      [] pc \in {"finalize", "terminalize"} -> pc
                      [] OTHER -> "grade"
           Given == IF run = NoRun THEN "none" ELSE OutcomeOf(run.result)
<1>1. AllInit => Contract!Init
  BY DEF AllInit, Init, Contract!Init
<1>2. ASSUME EngineInv, EngineInv', [AllNext]_allVars
      PROVE  [Contract!Next]_<<Stage, Given>>
  <2>1. /\ pc = "engine" => Stage = "verify" /\ Given = "none"
        /\ pc \in Grading => Stage = "grade"
        /\ pc' = "engine" => Stage' = "verify"
        /\ pc' \in Grading => Stage' = "grade"
        /\ pc' \in {"finalize", "terminalize"} => Stage' = pc'
    BY <1>2 DEF EngineInv, Grading
  <2>2. NoRun.disposition = "unset"
    BY DEF NoRun, RunResult
  <2>3. ASSUME run'.disposition # "unset"
        PROVE  /\ Given' = OutcomeOf(run'.result) /\ Given' \in Contract!Outcome
               /\ run'.result.valid => Given' = "succeeded"
    <3>1. run' # NoRun
      BY <2>2, <2>3
    <3> QED BY <3>1 DEF OutcomeOf, Contract!Outcome, NoRun, RunResult
  <2>4. run' = run => Given' = Given
    BY DEF NoRun, RunResult
  <2>5. pc' = pc => Stage' = Stage
    OBVIOUS
  <2> HIDE DEF Stage, Given
  <2>6. CASE UNCHANGED <<pc, run>>
    BY <2>4, <2>5, <2>6
  <2>7. CASE pc = "engine" /\ pc' = "terminalize" /\ run' = run
    BY <2>1, <2>4, <2>7 DEF Contract!Next, Contract!Verify, Stage, Given
  <2>8. CASE pc = "engine" /\ pc' \in {"finalize", "config"} /\ run'.disposition # "unset"
    <3>1. pc' = "config" => run'.result.valid
      BY <1>2 DEF EngineInv, GradingGood
    <3> QED BY <2>1, <2>3, <2>8, <3>1
            DEF Contract!Next, Contract!Verify, Grading, Stage, Given
  <2>9. CASE pc \in Grading /\ pc' \in Grading \cup {"terminalize"} /\ run' = run
    BY <2>1, <2>4, <2>9 DEF Contract!Next, Contract!Grade, Stage, Given
  <2>10. CASE pc \in Grading /\ pc' = "finalize" /\ run'.disposition = "requested"
    BY <2>1, <2>3, <2>10 DEF Contract!Next, Contract!Grade, Stage, Given
  <2> QED BY <1>2, <2>6, <2>7, <2>8, <2>9, <2>10, StageSteps
<1>3. VerificationInv /\ VerificationInv' /\ [AllNext]_allVars => [Contract!Next]_<<Stage, Given>>
  BY <1>2 DEF VerificationInv
<1> QED BY <1>1, <1>3, VerificationInvHolds, PTL
        DEF VerificationSpec, ImplementsRunContract, Contract!Spec
=============================================================================
