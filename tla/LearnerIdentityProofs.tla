------------------------ MODULE LearnerIdentityProofs ------------------------
(***************************************************************************)
(* Theorems about LearnerIdentity for any number of accounts, logins,      *)
(* browsers, attempts and renames.                                         *)
(*                                                                         *)
(* A login travels GitHub -> profile read -> user row and cookie ->        *)
(* snapshot -> target, and every arrow is a step another browser or a      *)
(* rename can come between.  IdentityInv says of each station what the     *)
(* next one needs: the login still in a callback was held by the account   *)
(* it was fetched for, and the text of an attempt is the target that its   *)
(* snapshot builds.                                                        *)
(***************************************************************************)
EXTENDS LearnerIdentity, TLAPS

Callback == [account : Account, fetched : Chosen]
AttemptRow == [stage : Stages \ {"none"}, learner : Account, type : Type, kind : Kinds,
               text : Texts, snapshot : Login, read : Texts \cup {None},
               target : Texts \cup {None}, accepted : BOOLEAN]

(* TypeOK with the shape of the rows, and logins as GitHub spells them.    *)
StateType ==
    /\ login \in [Account -> Chosen]
    /\ held \subseteq Account \X Login
    /\ renames \in 0 .. MaxRenames
    /\ row \in [Account -> Login \cup {None}]
    /\ session \in [Browser -> Session \cup {None}]
    /\ callback \in [Browser -> Callback \cup {None}]
    /\ attempt \in [AttemptId -> AttemptRow \cup {NoRow}]

(* GitHub's present logins are among those there have been, and so is a    *)
(* profile that was read a while ago.                                      *)
LoginsAtHand ==
    /\ \A a \in Account : <<a, Lower(login[a])>> \in held
    /\ \A b \in Browser : callback[b] # None =>
          <<callback[b].account, Lower(callback[b].fetched)>> \in held

(* A stored row's kind is its type's, its text is the target its snapshot  *)
(* builds, a prepared row's target is built from the snapshot and its text *)
(* is read back as stored, and an accepted token matches the snapshot.     *)
RowConsistent(r) ==
    /\ r.kind = KindOf(r.type)
    /\ r.type \in DerivableTypes => r.text = Target(r.type, r.snapshot)
    /\ r.stage \in {"prepared", "settled"} =>
          r.target = Target(r.type, r.snapshot) /\ r.read = r.text
    /\ r.stage = "settled" /\ r.type \in TokenTypes /\ r.accepted =>
          TokenMatches(r.text, r.snapshot)

RowsConsistent == \A i \in AttemptId : attempt[i] # NoRow => RowConsistent(attempt[i])

IdentityInv == /\ StateType
               /\ LoginsAtHand
               /\ LoginsAreOwn
               /\ RowsConsistent

-----------------------------------------------------------------------------
(* Logins and values                                                       *)

LEMMA LowerOfChosen ==
    ASSUME NEW s \in Chosen
    PROVE  Lower(s) \in Login /\ \E l \in Login : s = Capital(l) /\ Lower(s) = l
<1>1. PICK l \in Login : s = Capital(l)
  BY DEF Chosen
<1>2. s \notin Login
  BY <1>1, LoginAssumption
<1>3. Lower(s) = l
  BY <1>1, <1>2 DEF Lower, Capital
<1>4. QED
  BY <1>1, <1>3

LEMMA KindOfType ==
    ASSUME NEW type \in SubmissionType
    PROVE  KindOf(type) \in Kinds
BY DEF KindOf, Kinds, SubmissionType, GithubUrlTypes, TokenTypes, DeployedUrlTypes,
   TextTypes

(* derive_submission_value stays among the texts, and for a type whose      *)
(* value is derived it agrees with build_target.                           *)
LEMMA DeriveIsTarget ==
    ASSUME NEW type \in SubmissionType, NEW l \in Login, NEW input \in Texts
    PROVE  /\ Derive(type, l, input) \in Texts
           /\ Target(type, l) \in Texts \cup {None}
           /\ type \in DerivableTypes => Derive(type, l, input) = Target(type, l)
<1>1. Text("profile", l) \in Texts /\ Text("fork", l) \in Texts
  BY DEF Texts, Urls
<1>2. type \in DerivableTypes /\ type # "profile_readme" => type \in RepoTargetTypes
  BY DEF DerivableTypes, RepoTargetTypes, GithubUrlTypes
<1>3. QED
  BY <1>1, <1>2 DEF Derive, Target

-----------------------------------------------------------------------------
LEMMA InitIdentityInv == Init => IdentityInv
<1>. SUFFICES ASSUME Init PROVE IdentityInv
  OBVIOUS
<1>1. \A a \in Account : Lower(login[a]) \in Login
  BY LowerOfChosen DEF Init
<1>2. StateType
  BY <1>1, RenameAssumption DEF Init, StateType
<1>3. LoginsAtHand /\ LoginsAreOwn /\ RowsConsistent
  BY DEF Init, LoginsAtHand, LoginsAreOwn, RowsConsistent
<1>4. QED
  BY <1>2, <1>3 DEF IdentityInv

-----------------------------------------------------------------------------
(* The logins: GitHub's side, the callback, the row and the cookie.        *)

(* A step that leaves the attempts alone keeps what is said of them, as    *)
(* long as no login is forgotten.                                          *)
LEMMA AttemptsKept ==
    ASSUME IdentityInv, attempt' = attempt, held \subseteq held'
    PROVE  /\ RowsConsistent'
           /\ \A i \in AttemptId : attempt'[i] # NoRow =>
                 <<attempt'[i].learner, attempt'[i].snapshot>> \in held'
BY DEF IdentityInv, RowsConsistent, RowConsistent, LoginsAreOwn

LEMMA RenameStep ==
    ASSUME IdentityInv, NEW a \in Account, NEW s \in Chosen, Rename(a, s)
    PROVE  IdentityInv'
<1>. USE DEF Rename, appVars, IdentityInv
<1>1. StateType'
  BY LowerOfChosen, RenameAssumption DEF StateType
<1>2. LoginsAtHand'
  BY DEF LoginsAtHand, StateType
<1>3. LoginsAreOwn' /\ RowsConsistent'
  BY AttemptsKept DEF LoginsAreOwn
<1>4. QED
  BY <1>1, <1>2, <1>3

LEMMA FetchProfileStep ==
    ASSUME IdentityInv, NEW b \in Browser, NEW a \in Account, FetchProfile(b, a)
    PROVE  IdentityInv'
<1>. USE DEF FetchProfile, githubVars, IdentityInv
<1>1. StateType'
  BY DEF StateType, Callback
<1>2. LoginsAtHand'
  BY DEF LoginsAtHand, StateType
<1>3. LoginsAreOwn' /\ RowsConsistent'
  BY AttemptsKept DEF LoginsAreOwn
<1>4. QED
  BY <1>1, <1>2, <1>3

LEMMA SignInStep ==
    ASSUME IdentityInv, NEW b \in Browser, SignIn(b)
    PROVE  IdentityInv'
<1>. USE DEF IdentityInv
<1>. DEFINE id == callback[b].account
            l == Lower(callback[b].fetched)
            cookie == [account |-> id, login |-> l, person |-> id]
<1>1. callback[b] \in Callback
  BY DEF SignIn, StateType
<1>2. id \in Account /\ l \in Login /\ <<id, l>> \in held
  BY <1>1, LowerOfChosen DEF SignIn, LoginsAtHand, Callback
<1>3. /\ row' = [row EXCEPT ![id] = l]
      /\ session' = session \/ session' = [session EXCEPT ![b] = cookie]
      /\ callback' = [callback EXCEPT ![b] = None]
      /\ UNCHANGED <<login, held, renames, attempt>>
  BY DEF SignIn, Upserted, Normalized, githubVars
<1>. HIDE DEF id, l
<1>4. StateType'
  BY <1>2, <1>3 DEF StateType, Session
<1>5. LoginsAtHand'
  BY <1>3 DEF LoginsAtHand, StateType
<1>6. LoginsAreOwn'
  <2>1. \A a \in Account : row'[a] # None => <<a, row'[a]>> \in held'
    BY <1>2, <1>3 DEF LoginsAreOwn, StateType
  <2>2. \A c \in Browser : session'[c] # None =>
           /\ session'[c].account = session'[c].person
           /\ <<session'[c].account, session'[c].login>> \in held'
    <3>1. CASE session' = session
      BY <1>3, <3>1 DEF LoginsAreOwn
    <3>2. CASE session' = [session EXCEPT ![b] = cookie]
      BY <1>2, <1>3, <3>2 DEF LoginsAreOwn, StateType
    <3>3. QED
      BY <1>3, <3>1, <3>2
  <2>3. QED
    BY <1>3, <2>1, <2>2, AttemptsKept DEF LoginsAreOwn
<1>7. RowsConsistent'
  BY <1>3, AttemptsKept
<1>8. QED
  BY <1>4, <1>5, <1>6, <1>7

LEMMA LogoutStep ==
    ASSUME IdentityInv, NEW b \in Browser, Logout(b)
    PROVE  IdentityInv'
<1>. USE DEF Logout, githubVars, IdentityInv
<1>1. StateType'
  BY DEF StateType
<1>2. LoginsAtHand' /\ LoginsAreOwn' /\ RowsConsistent'
  BY AttemptsKept DEF LoginsAtHand, LoginsAreOwn, StateType
<1>3. QED
  BY <1>1, <1>2

LEMMA DeleteAccountStep ==
    ASSUME IdentityInv, NEW b \in Browser, DeleteAccount(b)
    PROVE  IdentityInv'
<1>. USE DEF DeleteAccount, githubVars, IdentityInv
<1>1. session[b].account \in Account
  BY DEF StateType, Session
<1>2. \A i \in AttemptId : attempt'[i] = attempt[i] \/ attempt'[i] = NoRow
  OBVIOUS
<1>3. StateType'
  <2>1. attempt' \in [AttemptId -> AttemptRow \cup {NoRow}]
    BY DEF StateType
  <2>2. QED
    BY <1>1, <2>1 DEF StateType
<1>4. LoginsAtHand'
  BY DEF LoginsAtHand
<1>5. LoginsAreOwn'
  <2>1. \A i \in AttemptId : attempt'[i] # NoRow =>
           <<attempt'[i].learner, attempt'[i].snapshot>> \in held'
    BY <1>2 DEF LoginsAreOwn
  <2>2. QED
    BY <1>1, <2>1 DEF LoginsAreOwn, StateType
<1>6. RowsConsistent'
  <2>1. SUFFICES ASSUME NEW i \in AttemptId, attempt'[i] # NoRow
                 PROVE  RowConsistent(attempt'[i])
    BY DEF RowsConsistent, RowConsistent
  <2>2. QED
    BY <1>2, <2>1 DEF RowsConsistent
<1>7. QED
  BY <1>3, <1>4, <1>5, <1>6

-----------------------------------------------------------------------------
(* The attempts.                                                           *)

(* What replacing one row by a good one keeps.                             *)
LEMMA AttemptWrite ==
    ASSUME IdentityInv, NEW i \in AttemptId, NEW r \in AttemptRow,
           attempt' = [attempt EXCEPT ![i] = r], RowConsistent(r),
           <<r.learner, r.snapshot>> \in held,
           UNCHANGED <<githubVars, row, session, callback>>
    PROVE  IdentityInv'
<1>. USE DEF IdentityInv, githubVars
<1>1. StateType'
  BY DEF StateType
<1>2. \A j \in AttemptId : attempt'[j] = r \/ attempt'[j] = attempt[j]
  BY DEF StateType
<1>3. LoginsAreOwn'
  BY <1>2 DEF LoginsAreOwn
<1>4. RowsConsistent'
  <2>1. SUFFICES ASSUME NEW j \in AttemptId, attempt'[j] # NoRow
                 PROVE  RowConsistent(attempt'[j])
    BY DEF RowsConsistent, RowConsistent
  <2>2. QED
    BY <1>2, <2>1 DEF RowsConsistent
<1>5. LoginsAtHand'
  BY DEF LoginsAtHand
<1>6. QED
  BY <1>1, <1>3, <1>4, <1>5

LEMMA SubmitStep ==
    ASSUME IdentityInv, NEW b \in Browser, NEW type \in Type, Submit(b, type)
    PROVE  IdentityInv'
<1>1. session[b] \in Session /\ type \in SubmissionType
  BY TypeAssumption DEF Submit, IdentityInv, StateType
<1>2. <<session[b].account, session[b].login>> \in held
  BY DEF Submit, IdentityInv, LoginsAreOwn
<1>3. PICK input \in Texts :
         Insert(b, type, Derive(type, session[b].login, input))
  BY DEF Submit
<1>4. UNCHANGED <<githubVars, row, session, callback>>
  BY DEF Submit
<1>. DEFINE text == Derive(type, session[b].login, input)
            r == [stage |-> "stored", learner |-> session[b].account,
                  type |-> type, kind |-> KindOf(type), text |-> text,
                  snapshot |-> session[b].login, read |-> None, target |-> None,
                  accepted |-> FALSE]
<1>5. PICK i \in AttemptId : attempt' = [attempt EXCEPT ![i] = r]
  BY <1>3 DEF Insert
<1>6. /\ text \in Texts
      /\ type \in DerivableTypes => text = Target(type, session[b].login)
  BY <1>1, DeriveIsTarget DEF Session
<1>. HIDE DEF text
<1>7. r \in AttemptRow
  BY <1>1, <1>6, KindOfType DEF AttemptRow, Session, Stages
<1>8. RowConsistent(r)
  BY <1>6 DEF RowConsistent
<1>9. <<r.learner, r.snapshot>> \in held
  BY <1>2
<1>. HIDE DEF r
<1>10. QED
  BY <1>4, <1>5, <1>7, <1>8, <1>9, AttemptWrite

-----------------------------------------------------------------------------
(* The Functions app.                                                      *)

(* The row a running attempt has.                                          *)
LEMMA RowOf ==
    ASSUME IdentityInv, NEW i \in AttemptId, attempt[i].stage # "none"
    PROVE  /\ attempt[i] \in AttemptRow
           /\ RowConsistent(attempt[i])
           /\ <<attempt[i].learner, attempt[i].snapshot>> \in held
BY DEF IdentityInv, StateType, RowsConsistent, LoginsAreOwn, NoRow

LEMMA PrepareStep ==
    ASSUME IdentityInv, NEW i \in AttemptId, Prepare(i)
    PROVE  IdentityInv'
<1>. DEFINE a == attempt[i]
            columns == FromKindAndValue(a.kind, a.text)
            prepared == [a EXCEPT !.stage = "prepared", !.read = columns[a.kind],
                                  !.target = Target(a.type, a.snapshot)]
            invalid == [a EXCEPT !.stage = "invalid"]
<1>1. /\ a \in AttemptRow /\ RowConsistent(a) /\ <<a.learner, a.snapshot>> \in held
      /\ a.stage = "stored"
  BY RowOf DEF Prepare
<1>2. columns[a.kind] = a.text /\ Target(a.type, a.snapshot) \in Texts \cup {None}
  BY <1>1, DeriveIsTarget, TypeAssumption DEF AttemptRow, FromKindAndValue, Unused
<1>3. /\ \/ attempt' = [attempt EXCEPT ![i] = prepared]
         \/ attempt' = [attempt EXCEPT ![i] = invalid]
      /\ UNCHANGED <<githubVars, row, session, callback>>
  BY DEF Prepare, IdentityInv, StateType
<1>. HIDE DEF a, columns
<1>4. /\ prepared \in AttemptRow /\ RowConsistent(prepared)
      /\ <<prepared.learner, prepared.snapshot>> \in held
  BY <1>1, <1>2 DEF AttemptRow, RowConsistent, Stages
<1>5. /\ invalid \in AttemptRow /\ RowConsistent(invalid)
      /\ <<invalid.learner, invalid.snapshot>> \in held
  BY <1>1 DEF AttemptRow, RowConsistent, Stages
<1>. HIDE DEF prepared, invalid
<1>6. QED
  BY <1>3, <1>4, <1>5, AttemptWrite

LEMMA SettleStep ==
    ASSUME IdentityInv, NEW i \in AttemptId, Settle(i)
    PROVE  IdentityInv'
<1>. DEFINE a == attempt[i]
<1>1. /\ a \in AttemptRow /\ RowConsistent(a) /\ <<a.learner, a.snapshot>> \in held
      /\ a.stage = "prepared"
  BY RowOf DEF Settle
<1>2. PICK verdict \in BOOLEAN :
         /\ a.type \in TokenTypes => verdict = TokenMatches(a.read, a.snapshot)
         /\ attempt' = [attempt EXCEPT ![i] =
                           [a EXCEPT !.stage = "settled", !.accepted = verdict]]
  BY DEF Settle, TokenMatches
<1>. DEFINE r == [a EXCEPT !.stage = "settled", !.accepted = verdict]
<1>3. /\ UNCHANGED <<githubVars, row, session, callback>>
  BY DEF Settle, IdentityInv, StateType
<1>. HIDE DEF a
<1>4. /\ r \in AttemptRow /\ RowConsistent(r) /\ <<r.learner, r.snapshot>> \in held
  BY <1>1, <1>2 DEF AttemptRow, RowConsistent, Stages
<1>5. attempt' = [attempt EXCEPT ![i] = r]
  BY <1>2
<1>. HIDE DEF r
<1>6. QED
  BY <1>3, <1>4, <1>5, AttemptWrite

-----------------------------------------------------------------------------
(* IdentityInv is inductive. *)
LEMMA IdentityInvStep == IdentityInv /\ [Next]_vars => IdentityInv'
<1>. SUFFICES ASSUME IdentityInv, [Next]_vars PROVE IdentityInv'
  OBVIOUS
<1>1. CASE UNCHANGED vars
  BY <1>1 DEF vars, githubVars, appVars, IdentityInv, StateType, LoginsAtHand,
     LoginsAreOwn, RowsConsistent, RowConsistent
<1>2. ASSUME NEW a \in Account, NEW s \in Chosen, Rename(a, s)
      PROVE  IdentityInv'
  BY <1>2, RenameStep
<1>3. ASSUME NEW b \in Browser,
             \/ \E a \in Account : FetchProfile(b, a)
             \/ SignIn(b) \/ Logout(b) \/ DeleteAccount(b)
             \/ \E type \in Type : Submit(b, type)
      PROVE  IdentityInv'
  BY <1>3, FetchProfileStep, SignInStep, LogoutStep, DeleteAccountStep,
     SubmitStep
<1>4. ASSUME NEW i \in AttemptId, Prepare(i) \/ Settle(i)
      PROVE  IdentityInv'
  BY <1>4, PrepareStep, SettleStep
<1>5. QED
  BY <1>1, <1>2, <1>3, <1>4 DEF Next

LEMMA IdentityInvHolds == Spec => []IdentityInv
BY InitIdentityInv, IdentityInvStep, PTL DEF Spec

(* Every variable keeps to its type, the shape of the rows included.       *)
THEOREM TypeCorrect == Spec => []TypeOK
<1>1. IdentityInv => TypeOK
  BY DEF IdentityInv, StateType, TypeOK, Spelling, Callback,
     AttemptRow, NoRow, Stages
<1>2. QED
  BY <1>1, IdentityInvHolds, PTL

(* A cookie, a user row and a snapshot name a login their own account has  *)
(* held, whoever takes a given-up login while a sign-in is under way.      *)
THEOREM LoginsStayOwn == Spec => []LoginsAreOwn
<1>1. IdentityInv => LoginsAreOwn
  BY DEF IdentityInv
<1>2. QED
  BY <1>1, IdentityInvHolds, PTL

(* The target that is verified is the URL that was submitted, across       *)
(* renames, new sign-ins and deletions in between.                         *)
THEOREM SubmittedUrlIsVerified == Spec => []TargetIsSubmittedUrl
<1>1. IdentityInv => TargetIsSubmittedUrl
  <2>1. SUFFICES ASSUME IdentityInv, NEW i \in AttemptId,
                        attempt[i].stage \in {"prepared", "settled"},
                        attempt[i].type \in DerivableTypes
                 PROVE  attempt[i].target = attempt[i].text
    BY DEF TargetIsSubmittedUrl
  <2>2. RowConsistent(attempt[i])
    BY <2>1, RowOf
  <2>3. QED
    BY <2>1, <2>2 DEF RowConsistent
<1>2. QED
  BY <1>1, IdentityInvHolds, PTL


(* An accepted lab token was issued to a login that the attempt's learner  *)
(* has held, whatever was renamed and taken over since.                    *)
THEOREM LabTokensStayOwn == Spec => []LabTokensAreOwn
<1>1. IdentityInv => LabTokensAreOwn
  <2>1. SUFFICES ASSUME IdentityInv, NEW i \in AttemptId,
                        attempt[i].stage = "settled",
                        attempt[i].type \in TokenTypes, attempt[i].accepted
                 PROVE  /\ attempt[i].text \in Tokens
                        /\ <<attempt[i].learner, Lower(attempt[i].text.owner)>> \in held
    BY DEF LabTokensAreOwn
  <2>2. /\ TokenMatches(attempt[i].text, attempt[i].snapshot)
        /\ attempt[i].snapshot \in Login
        /\ <<attempt[i].learner, attempt[i].snapshot>> \in held
    BY <2>1, RowOf DEF RowConsistent, AttemptRow
  <2>3. Lower(attempt[i].snapshot) = attempt[i].snapshot
    BY <2>2 DEF Lower
  <2>4. QED
    BY <2>2, <2>3 DEF TokenMatches
<1>2. QED
  BY <1>1, IdentityInvHolds, PTL
=============================================================================
