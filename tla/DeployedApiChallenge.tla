------------------------ MODULE DeployedApiChallenge ------------------------
(***************************************************************************)
(* validate_deployed_api: runs post an entry carrying a nonce of their own *)
(* to a learner's Journal API, look for it in the list of entries, judge   *)
(* the learner's own entries, and delete the entry.  Every request is      *)
(* retried, the POST included, and the API may act on a request whose      *)
(* answer never arrives.  Two runs meet on one API when Durable delivers   *)
(* the activity again while the first worker is still at it.               *)
(***************************************************************************)
EXTENDS Naturals, FiniteSets

CONSTANTS
    Run,        \* executions of the check, each with its own nonce
    MaxAttempts \* attempts of _fetch_with_retry

VARIABLES
    url,      \* what the learner submitted
    real,     \* the learner's own entries, each as the set of its defects
    held,     \* the challenge entries on the API, as <<run, number>>
    pc, tries,
    sent,     \* challenge entries the API has stored for a run so far
    known,    \* the entry id a run will clean up
    result,
    seen,     \* the learner's entries as a run's GET showed them
    cleaned   \* the API confirmed a run's DELETE

vars == <<url, real, held, pc, tries, sent, known, result, seen, cleaned>>
unread == <<url, real, seen>>

-----------------------------------------------------------------------------
(* The outcome of the checks made before the first request.                *)
Url == {"blank", "notHttps", "private", "unresolved", "public"}
UrlAccepted == url = "public"

(* Defects of an entry: the first two keep it from being looked at.        *)
Unseen == {"notObject", "workNotString"}
Judged == {"missingField", "badField"}
Entry == {{}} \cup {{d} : d \in Unseen \cup Judged}

(* Defect: only the first entry is validated.                              *)
FirstEntryValid(entries) == entries = {} \/ \E e \in entries : e = {}

(* _validate_entries_json over the entries that are objects with a text    *)
(* work field.                                                             *)
EntriesValid(entries) ==
    \A e \in {x \in entries : x \cap Unseen = {}} : e \cap Judged = {}

NoId == <<>>
Mine(r) == {c \in held : c[1] = r}

Init ==
    /\ url \in Url
    /\ real \in {s \in SUBSET Entry : Cardinality(s) <= 1}
    /\ held = {}
    /\ pc = [r \in Run |-> "url"]
    /\ tries = [r \in Run |-> 0]
    /\ sent = [r \in Run |-> 0]
    /\ known = [r \in Run |-> NoId]
    /\ result = [r \in Run |-> "none"]
    /\ seen = [r \in Run |-> {}]
    /\ cleaned = [r \in Run |-> FALSE]

Goto(r, next) == pc' = [pc EXCEPT ![r] = next] /\ tries' = [tries EXCEPT ![r] = 0]
Conclude(r, verdict) == result' = [result EXCEPT ![r] = verdict]

CheckUrl(r) ==
    /\ pc[r] = "url"
    /\ IF UrlAccepted THEN Goto(r, "post") /\ UNCHANGED result
                      ELSE Goto(r, "done") /\ Conclude(r, "failed")
    /\ UNCHANGED <<unread, held, sent, known, cleaned>>

(* Whether the API acts on a request is its own affair: it may store an    *)
(* entry and lose the answer.                                              *)
Store(r) ==
    /\ sent' = [sent EXCEPT ![r] = @ + 1]
    /\ held' = held \cup {<<r, sent[r] + 1>>}

(* An attempt without a usable answer: a timeout, a network error, a 5xx.  *)
Retry(r, exhausted) ==
    IF tries[r] + 1 < MaxAttempts
      THEN tries' = [tries EXCEPT ![r] = @ + 1] /\ UNCHANGED <<pc, result>>
      ELSE exhausted

PostChallenge(r) ==
    /\ pc[r] = "post"
    /\ \/ /\ Store(r)
          /\ known' \in {known, [known EXCEPT ![r] = <<r, sent'[r]>>]}
          /\ Goto(r, "get")
          /\ UNCHANGED result
       \/ /\ Store(r) \/ UNCHANGED <<held, sent>>
          /\ \/ Retry(r, Goto(r, "done") /\ Conclude(r, "failed"))
             \/ Goto(r, "done") /\ Conclude(r, "failed")
          /\ UNCHANGED known
    /\ UNCHANGED <<unread, cleaned>>

(* Defect: the entry the list shows is not remembered.                     *)
ReadWithoutId(r) ==
    /\ pc[r] = "get"
    /\ Conclude(r, IF EntriesValid(real) THEN "valid" ELSE "failed")
    /\ Goto(r, "clean")
    /\ seen' = [seen EXCEPT ![r] = real]
    /\ UNCHANGED <<url, real, held, sent, known, cleaned>>

(* Defect: any challenge entry of the list is taken for the run's own.     *)
ReadAnyChallenge(r) ==
    /\ pc[r] = "get"
    /\ \E c \in held :
          known' = [known EXCEPT ![r] = IF known[r] = NoId THEN c ELSE @]
    /\ Conclude(r, IF EntriesValid(real) THEN "valid" ELSE "failed")
    /\ Goto(r, "clean")
    /\ seen' = [seen EXCEPT ![r] = real]
    /\ UNCHANGED <<url, real, held, sent, cleaned>>

(* The list shows the run's entry, or does not, or cannot be read.  An API *)
(* lists entries with their ids, as the journal starter does.              *)
ReadEntries(r) ==
    /\ pc[r] = "get"
    /\ \/ /\ \E c \in Mine(r) :
               known' = [known EXCEPT ![r] = IF known[r] = NoId THEN c ELSE @]
          /\ Conclude(r, IF EntriesValid(real) THEN "valid" ELSE "failed")
          /\ Goto(r, "clean")
          /\ seen' = [seen EXCEPT ![r] = real]
       \/ /\ Goto(r, "clean") /\ Conclude(r, "failed")
          /\ UNCHANGED <<known, seen>>
       \/ /\ Retry(r, Goto(r, "clean") /\ Conclude(r, "failed"))
          /\ UNCHANGED <<known, seen>>
    /\ UNCHANGED <<url, real, held, sent, cleaned>>

(* The best-effort DELETE of the finally block.                            *)
Cleanup(r) ==
    /\ pc[r] = "clean"
    /\ IF known[r] = NoId THEN Goto(r, "done") /\ UNCHANGED <<held, cleaned, result>>
       ELSE \/ /\ held' = held \ {known[r]}
               /\ cleaned' = [cleaned EXCEPT ![r] = TRUE]
               /\ Goto(r, "done") /\ UNCHANGED result
            \/ /\ held' \in {held, held \ {known[r]}}
               /\ \/ Retry(r, Goto(r, "done") /\ UNCHANGED result)
                  \/ Goto(r, "done") /\ UNCHANGED result
               /\ UNCHANGED cleaned
    /\ UNCHANGED <<unread, sent, known>>

(* The learner adds a well-formed entry or removes one meanwhile.          *)
LearnerWrites ==
    /\ real' \in {real \cup {{}}} \cup {real \ {e} : e \in real}
    /\ \E r \in Run : pc[r] \in {"post", "get"}
    /\ UNCHANGED <<url, held, pc, tries, sent, known, result, seen, cleaned>>

Step(r) == CheckUrl(r) \/ PostChallenge(r) \/ ReadEntries(r) \/ Cleanup(r)

-----------------------------------------------------------------------------
TypeOK ==
    /\ url \in Url /\ real \subseteq Entry
    /\ held \subseteq Run \X (1..MaxAttempts)
    /\ pc \in [Run -> {"url", "post", "get", "clean", "done"}]
    /\ tries \in [Run -> 0..(MaxAttempts - 1)]
    /\ sent \in [Run -> 0..MaxAttempts]
    /\ result \in [Run -> {"none", "valid", "failed"}]
    /\ cleaned \in [Run -> BOOLEAN]

(* A run deletes nothing but entries it posted itself, however many runs   *)
(* meet on the API: the learner's entries and other runs' nonces stay.     *)
DeletesOwnEntry ==
    [][\A c \in held \ held' : pc[c[1]] = "clean" /\ known[c[1]] = c]_vars

(* A verified API stored this run's nonce, on a public address, and every  *)
(* entry the checks looked at was well formed when it was listed.          *)
OwnershipProven ==
    \A r \in Run : result[r] = "valid" =>
        url = "public" /\ sent[r] > 0 /\ (\A e \in seen[r] : e \cap Judged = {})

(* A run that verified the API after a POST answered at once, and whose    *)
(* DELETE was confirmed, leaves none of its entries behind, with or        *)
(* without an id in the answer to the POST.                                *)
CleanAfterSuccess ==
    \A r \in Run :
        pc[r] = "done" /\ result[r] = "valid" /\ sent[r] = 1 =>
            known[r] \in Run \X {1} /\ (cleaned[r] => Mine(r) = {})
=============================================================================
