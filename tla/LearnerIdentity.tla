--------------------------- MODULE LearnerIdentity ---------------------------
(***************************************************************************)
(* Who a submission is about.  A learner is a GitHub account; its login    *)
(* can change, and a login given up can be taken by another account.  The  *)
(* app keeps the login in three places that are written at different       *)
(* times: the user row (every sign-in), the session cookie of a browser    *)
(* (its own sign-in) and the snapshot in an attempt (its submission).      *)
(* The value of a submission is derived from the cookie, stored as a kind  *)
(* and a text, read back by the Functions app and verified against a       *)
(* target built from the snapshot; lab tokens carry a login of their own.  *)
(*                                                                         *)
(* GitHub, the lab and the OAuth exchange are external.  The transaction   *)
(* that inserts an attempt is one step here and several in                 *)
(* AttemptLifecycle.                                                       *)
(***************************************************************************)
EXTENDS Naturals, FiniteSets

CONSTANTS
    Account,     \* GitHub accounts, by their immutable numeric id
    Login,       \* logins, in lower case
    Browser,
    AttemptId,
    Type,        \* the submission types in play
    MaxRenames,
    None

(* submission_values.py and submission_derivation.py                       *)
GithubUrlTypes == {"profile_readme", "repo_fork", "journal_api_verifier",
                   "devops_analysis", "security_scanning"}
TokenTypes == {"ctf_token", "networking_token"}
DeployedUrlTypes == {"deployed_api"}
TextTypes == {"career_reflection", "deployment_architecture"}
DerivableTypes == GithubUrlTypes
RepoTargetTypes == (GithubUrlTypes \ {"profile_readme"})
                      \cup {"deployment_architecture"}

SubmissionType == GithubUrlTypes \cup TokenTypes \cup DeployedUrlTypes \cup TextTypes

ASSUME TypeAssumption == Type \subseteq SubmissionType
ASSUME RenameAssumption == MaxRenames \in Nat

VARIABLES
    login,     \* GitHub: the login of each account, as it spells it
    held,      \* every <<account, login>> there has been
    renames,
    row,       \* the user row's github_username, or None
    session,   \* the cookie of each browser: account and login, or None
    callback,  \* an OAuth callback under way in the browser
    attempt    \* rows of verification_attempts

appVars == <<row, session, callback, attempt>>
githubVars == <<login, held, renames>>
vars == <<githubVars, appVars>>

-----------------------------------------------------------------------------
(* Logins and texts.  A learner chose a login with capitals at GitHub; the *)
(* lab may be given it in either spelling.                                 *)

Capital(l) == <<"capital", l>>
Chosen == {Capital(l) : l \in Login}
Spelling == Login \cup Chosen
Lower(s) == IF s \in Login THEN s ELSE s[2]

ASSUME LoginAssumption == \A l \in Login : Capital(l) \notin Login

Text(form, owner) == [form |-> form, owner |-> owner]
Urls == {Text(form, l) : form \in {"profile", "fork"}, l \in Login}
Tokens == {Text("token", s) : s \in Spelling}
Address == Text("address", None)
OtherTexts == {Text(form, None) : form \in {"blank", "prose", "tooLong"}}
Texts == Urls \cup Tokens \cup {Address} \cup OtherTexts

ASSUME NoneAssumption == None \notin Texts

(* value_kind_for_submission_type                                          *)
KindOf(type) ==
    CASE type \in GithubUrlTypes -> "github_url"
      [] type \in TokenTypes -> "token"
      [] type \in DeployedUrlTypes -> "deployed_url"
      [] type \in TextTypes -> "text"

Kinds == {"github_url", "token", "deployed_url", "text"}

(* SubmittedValue.from_raw: what a kind accepts.                           *)
Accepts(kind, text) ==
    /\ text.form # "blank"
    /\ kind = "github_url" => text \in Urls
    /\ kind = "deployed_url" => text \in Urls \cup {Address}
    /\ kind = "text" => text.form # "tooLong"

(* derive_submission_value                                                 *)
Derive(type, l, input) ==
    IF type = "profile_readme" THEN Text("profile", l)
    ELSE IF type \in DerivableTypes THEN Text("fork", l) ELSE input

(* build_target                                                            *)
Target(type, l) ==
    IF type = "profile_readme" THEN Text("profile", l)
    ELSE IF type \in RepoTargetTypes THEN Text("fork", l) ELSE None

Unused == [k \in Kinds |-> None]

(* from_kind_and_value: one typed column per kind.                         *)
FromKindAndValue(kind, text) == [Unused EXCEPT ![kind] = text]

(* _single_value_for_kind, the check of from_payload.                      *)
SingleValue(kind, columns) ==
    \A k \in Kinds : (columns[k] # None) <=> (k = kind)

-----------------------------------------------------------------------------
(* States and GitHub.                                                      *)

(* A cookie; person, which it does not hold, is who authorised at GitHub.   *)
Session == [account : Account, login : Login, person : Account]
NoRow == [stage |-> "none"]
Stages == {"none", "stored", "prepared", "invalid", "settled"}

TypeOK ==
    /\ login \in [Account -> Spelling] /\ held \subseteq Account \X Login
    /\ renames \in 0 .. MaxRenames
    /\ row \in [Account -> Login \cup {None}]
    /\ session \in [Browser -> Session \cup {None}]
    /\ callback \in [Browser -> [account : Account, fetched : Spelling] \cup {None}]
    /\ \A i \in AttemptId : attempt[i].stage \in Stages

Init ==
    /\ login \in [Account -> Chosen]
    /\ \A a, b \in Account : a # b => Lower(login[a]) # Lower(login[b])
    /\ held = {<<a, Lower(login[a])>> : a \in Account}
    /\ renames = 0
    /\ row = [a \in Account |-> None]
    /\ session = [b \in Browser |-> None]
    /\ callback = [b \in Browser |-> None]
    /\ attempt = [i \in AttemptId |-> NoRow]

(* A learner changes the login; one that was given up may be taken.        *)
Rename(a, s) ==
    /\ renames < MaxRenames
    /\ \A b \in Account : Lower(login[b]) # Lower(s)
    /\ login' = [login EXCEPT ![a] = s]
    /\ held' = held \cup {<<a, Lower(s)>>}
    /\ renames' = renames + 1
    /\ UNCHANGED appVars

-----------------------------------------------------------------------------
(* Sign-in, sign-out and account deletion.                                 *)

(* The profile is read before the database session is opened.              *)
FetchProfile(b, a) ==
    /\ callback[b] = None
    /\ callback' = [callback EXCEPT ![b] = [account |-> a, fetched |-> login[a]]]
    /\ UNCHANGED <<githubVars, row, session, attempt>>

(* Defect: the upsert resolves its conflict on the login.                  *)
UpsertedByLogin(a, l) ==
    IF \E o \in Account : row[o] = l THEN CHOOSE o \in Account : row[o] = l ELSE a

(* normalize_github_username                                               *)
Normalized(s) == Lower(s)

(* The row that upsert inserts or updates, by its id.                      *)
Upserted(a, l) == a

(* The cookie takes the id and the login of the row that was returned.  A  *)
(* worker that dies in between leaves the row without a cookie.            *)
SignIn(b) ==
    /\ callback[b] # None
    /\ LET l == Normalized(callback[b].fetched)
           id == Upserted(callback[b].account, l) IN
       /\ row' = [row EXCEPT ![id] = l]
       /\ session' \in {session,
             [session EXCEPT ![b] = [account |-> id, login |-> l,
                                     person |-> callback[b].account]]}
    /\ callback' = [callback EXCEPT ![b] = None]
    /\ UNCHANGED <<githubVars, attempt>>

Logout(b) ==
    /\ session[b] # None
    /\ session' = [session EXCEPT ![b] = None]
    /\ UNCHANGED <<githubVars, row, callback, attempt>>

(* Only this browser's cookie goes; without a row the answer is 404.       *)
DeleteAccount(b) ==
    /\ session[b] # None /\ row[session[b].account] # None
    /\ row' = [row EXCEPT ![session[b].account] = None]
    /\ attempt' = [i \in AttemptId |->
                     IF /\ attempt[i] # NoRow
                        /\ attempt[i].learner = session[b].account
                     THEN NoRow ELSE attempt[i]]
    /\ session' = [session EXCEPT ![b] = None]
    /\ UNCHANGED <<githubVars, callback>>

-----------------------------------------------------------------------------
(* The submission.                                                         *)

Mine(b, i) ==
    session[b] # None /\ attempt[i] # NoRow /\ attempt[i].learner = session[b].account

Running(i) == attempt[i].stage \in {"stored", "prepared"}

(* The value of a type comes from the cookie's login or from the form.     *)
(* Without a user row the insert violates its foreign key.                 *)
Insert(b, type, text) ==
    /\ row[session[b].account] # None
    /\ ~ \E i \in AttemptId :
            /\ Mine(b, i) /\ attempt[i].type = type
            /\ Running(i) \/ attempt[i].accepted
    /\ \E i \in AttemptId :
          /\ attempt[i] = NoRow
          /\ attempt' = [attempt EXCEPT ![i] =
                [stage |-> "stored", learner |-> session[b].account,
                 type |-> type, kind |-> KindOf(type), text |-> text,
                 snapshot |-> session[b].login, read |-> None, target |-> None,
                 accepted |-> FALSE]]

(* An active attempt of the same requirement is answered instead, and      *)
(* nothing changes.                                                        *)
Submit(b, type) ==
    /\ session[b] # None
    /\ \E text \in {Derive(type, session[b].login, input) : input \in Texts} :
          Accepts(KindOf(type), text) /\ Insert(b, type, text)
    /\ UNCHANGED <<githubVars, row, session, callback>>

-----------------------------------------------------------------------------
(* The Functions app.                                                      *)

(* Defect: the target is built from the learner's current row.             *)
PrepareFromRow(i) ==
    /\ attempt[i].stage = "stored"
    /\ LET a == attempt[i] IN
       attempt' = [attempt EXCEPT ![i] =
           [a EXCEPT !.stage = "prepared", !.read = a.text,
                     !.target = Target(a.type, row[a.learner])]]
    /\ UNCHANGED <<githubVars, row, session, callback>>

(* prepare_verification_attempt, and the payload's way to the activity.    *)
Prepare(i) ==
    /\ attempt[i].stage = "stored"
    /\ LET a == attempt[i]
           columns == FromKindAndValue(a.kind, a.text) IN
       attempt' = [attempt EXCEPT ![i] =
           IF a.kind = KindOf(a.type) /\ SingleValue(a.kind, columns)
           THEN [a EXCEPT !.stage = "prepared", !.read = columns[a.kind],
                          !.target = Target(a.type, a.snapshot)]
           ELSE [a EXCEPT !.stage = "invalid"]]
    /\ UNCHANGED <<githubVars, row, session, callback>>

(* Defect: any well-formed token is accepted, whoever it was issued to.    *)
TokenOfAnyone(text, snapshot) == text \in Tokens

(* verify_lab_token                                                        *)
TokenMatches(text, snapshot) ==
    text \in Tokens /\ Lower(text.owner) = Lower(snapshot)

(* The verdict on anything but a lab token is the matter of VerificationRun. *)
Settle(i) ==
    /\ attempt[i].stage = "prepared"
    /\ LET a == attempt[i] IN
       \E verdict \in IF a.type \in TokenTypes
                      THEN {TokenMatches(a.read, a.snapshot)} ELSE BOOLEAN :
          attempt' = [attempt EXCEPT ![i] =
                         [a EXCEPT !.stage = "settled", !.accepted = verdict]]
    /\ UNCHANGED <<githubVars, row, session, callback>>

Next ==
    \/ \E a \in Account, s \in Chosen : Rename(a, s)
    \/ \E b \in Browser :
          \/ \E a \in Account : FetchProfile(b, a)
          \/ SignIn(b) \/ Logout(b) \/ DeleteAccount(b)
          \/ \E type \in Type : Submit(b, type)
    \/ \E i \in AttemptId : Prepare(i) \/ Settle(i)

Spec == Init /\ [][Next]_vars

-----------------------------------------------------------------------------
(* Properties.                                                             *)

(* A cookie is for the account that signed in, and a cookie, a row and a   *)
(* snapshot name a login that their own account has held, however logins   *)
(* are given up and taken between the profile read and the upsert, and     *)
(* whichever browsers sign in at once.                                     *)
LoginsAreOwn ==
    /\ \A b \in Browser :
          session[b] # None => /\ session[b].account = session[b].person
                               /\ <<session[b].account, session[b].login>> \in held
    /\ \A a \in Account : row[a] # None => <<a, row[a]>> \in held
    /\ \A i \in AttemptId :
          attempt[i] # NoRow => <<attempt[i].learner, attempt[i].snapshot>> \in held

(* What is verified is what was submitted: the repository or profile that  *)
(* build_target gives the run is the URL derive_submission_value stored,   *)
(* although the two are built in different processes and the learner may   *)
(* rename the account, sign in again or delete it in between.              *)
TargetIsSubmittedUrl ==
    \A i \in AttemptId :
        /\ attempt[i].stage \in {"prepared", "settled"}
        /\ attempt[i].type \in DerivableTypes
        => attempt[i].target = attempt[i].text

(* A lab token that was accepted had been issued to a login its learner    *)
(* has held: the token carries a login in the lab's spelling, it is        *)
(* compared with a snapshot of a cookie that may be older than the user    *)
(* row, and others may have taken the login since.                         *)
LabTokensAreOwn ==
    \A i \in AttemptId :
        attempt[i].stage = "settled" /\ attempt[i].type \in TokenTypes /\ attempt[i].accepted
        => /\ attempt[i].text \in Tokens
           /\ <<attempt[i].learner, Lower(attempt[i].text.owner)>> \in held

=============================================================================
