-------------------------- MODULE ProgressionProofs --------------------------
(***************************************************************************)
(* What a page may promise, for every curriculum, every number of learners *)
(* and every interleaving of its queries with their writes.                *)
(***************************************************************************)
EXTENDS Progression, FiniteSetTheorems, TLAPS

-----------------------------------------------------------------------------
(* The state of a page, field by field.                                    *)
Row == Outcome \cup {"active"}
Submission ==
    [kind : {"submit", "looked"}, requirement : Requirement, phase : 0..7,
     cat : Catalogs, life : 1..MaxLives]
Field ==
    {"kind", "user", "cat", "phase", "life", "at", "steps", "verified", "latest",
     "active", "locked", "destination", "completers", "accounts", "members"}

StateType ==
    /\ life \in [User -> 1..MaxLives] /\ alive \in SUBSET User
    /\ done \in [User -> SUBSET Step]
    /\ rows \in [User -> [Requirement -> Seq(Row)]]
    /\ pending \in [User -> {None} \cup Submission]
    /\ live # {} /\ live \in SUBSET Catalogs
    /\ overtaken \in [User -> SUBSET Requirement]
    /\ gone = [u \in User |-> gone[u]]

(* An erased account leaves room for another one.                          *)
LivesBounded == \A u \in User : u \notin alive => life[u] < MaxLives

(* Only the last attempt of a requirement is active, and only it is a      *)
(* success, unless a submit overtook that success.                         *)
EarlierSettled ==
    \A u \in User, r \in Requirement :
        \A i \in 1..(Len(rows[u][r]) - 1) :
            /\ rows[u][r][i] # "active"
            /\ r \notin overtaken[u] => rows[u][r][i] # "succeeded"

(* Attempts go with their user, and are inserted for no one else.          *)
RowsOfAlive ==
    \A u \in User : u \notin alive => \A r \in Requirement : rows[u][r] = <<>>

(* The success a gate saw is still there when the insert comes, unless the *)
(* account it saw is gone.                                                 *)
GateStillOpen ==
    \A u \in User : pending[u] # None =>
        /\ pending[u].life <= life[u]
        /\ pending[u].life = life[u] /\ u \in alive =>
             \A prereq \in Prerequisite(pending[u].phase) :
                 RequirementsOf(pending[u].cat, prereq) \subseteq Succeeded(u)

ViewType ==
    /\ DOMAIN view = Field
    /\ view.kind \in Pages /\ view.user \in User
    /\ view.cat \in Catalogs /\ view.phase \in view.cat.phases
    /\ view.life \in [User -> 1..MaxLives]
    /\ \A u \in User : view.life[u] <= life[u]

(* Which queries a kind of page makes.                                     *)
ViewStage ==
    /\ view.kind = "phase" =>
         view.at \in {"steps", "succeeded", "latest", "active", "lock", "shown"}
    /\ view.kind = "community" =>
         view.at \in {"completions", "accounts", "members", "shown"}
    /\ view.kind \notin {"phase", "community"} =>
         view.at \in {"steps", "succeeded", "continue", "shown"}

Same(u) == u \in alive /\ life[u] = view.life[u]

(* What each query saw is still true of an account that has not changed    *)
(* hands: a success stays, and with it the card it decides.                *)
PhaseSeen ==
    /\ Same(view.user) => view.verified \subseteq Succeeded(view.user)
    /\ view.kind = "phase" /\ Same(view.user) =>
         /\ view.at \in {"active", "lock", "shown"} =>
              \A r \in view.cat.requirements[view.phase] \cap view.verified :
                  r \in overtaken[view.user] \/ view.latest[r] = "succeeded"
         /\ view.at \in {"lock", "shown"} =>
              view.active \cap view.verified \subseteq overtaken[view.user]
         /\ view.at = "shown" /\ ~view.locked =>
              \A prereq \in Prerequisite(view.phase) :
                  RequirementsOf(view.cat, prereq) \subseteq Succeeded(view.user)

(* The same for every user at once, on the community page: what a read saw *)
(* of an account is still true unless it was erased since.                 *)
CommunitySeen ==
    view.kind = "community" =>
        /\ view.at \in {"accounts", "members", "shown"} =>
             /\ DOMAIN view.completers = Completable(view.cat)
             /\ \A p \in Completable(view.cat) :
                  /\ view.completers[p] \subseteq User
                  /\ \A u \in view.completers[p] :
                       gone[u] \subseteq {"completions"} =>
                           view.cat.requirements[p] \subseteq Succeeded(u)
        /\ view.at = "accounts" =>
             \A p \in Completable(view.cat) : \A u \in view.completers[p] :
                 "accounts" \notin gone[u] => u \in alive
        /\ view.at \in {"members", "shown"} =>
             \A p \in Completable(view.cat) : \A u \in view.completers[p] :
                 "accounts" \notin gone[u] => u \in view.accounts
        /\ view.at = "shown" =>
             /\ view.members \subseteq Graduates
             /\ \A u \in view.members : "shown" \notin gone[u] => u \in alive

ViewGood ==
    view # None =>
        ViewType /\ ViewStage /\ PhaseSeen /\ CommunitySeen /\ ContinueLeadsToWork

ProgressInv ==
    /\ StateType /\ LivesBounded /\ EarlierSettled /\ RowsOfAlive
    /\ GateStillOpen /\ ViewGood

-----------------------------------------------------------------------------
(* Counting what is covered of a finite set tells whether all of it is.    *)
LEMMA Counts ==
    ASSUME NEW S, NEW T, IsFiniteSet(T)
    PROVE  /\ Cardinality(T) \in Nat /\ Cardinality(S \cap T) \in Nat
           /\ Cardinality(S \cap T) >= Cardinality(T) <=> T \subseteq S
           /\ Cardinality(S \cap T) = 0 <=> S \cap T = {}
<1>1. /\ IsFiniteSet(S \cap T)
      /\ Cardinality(S \cap T) <= Cardinality(T)
      /\ Cardinality(T) = Cardinality(S \cap T) => T = S \cap T
  <2>1. S \cap T \in SUBSET T
    OBVIOUS
  <2> QED BY <2>1, FS_Subset
<1>2. Cardinality(T) \in Nat /\ Cardinality(S \cap T) \in Nat
  BY <1>1, FS_CardinalityType
<1>3. T \subseteq S => S \cap T = T
  OBVIOUS
<1>4. ASSUME Cardinality(S \cap T) >= Cardinality(T) PROVE T \subseteq S
  <2>1. Cardinality(T) = Cardinality(S \cap T)
    BY <1>1, <1>2, <1>4
  <2> QED BY <1>1, <2>1
<1>5. Cardinality(S \cap T) = 0 <=> S \cap T = {}
  BY <1>1, FS_EmptySet
<1> QED BY <1>2, <1>3, <1>4, <1>5

(* The first and the last of some phases.                                  *)
LEMMA Extremes ==
    ASSUME NEW S \in SUBSET (0..7), S # {}
    PROVE  /\ Min(S) \in S /\ \A y \in S : Min(S) <= y
           /\ Max(S) \in S /\ \A y \in S : Max(S) >= y
<1> DEFINE Least == \E x \in S : \A y \in S : x <= y
           Greatest == \E x \in S : \A y \in S : x >= y
           From(k) == \A y \in S : k <= y
           UpTo(k) == \A y \in S : y <= k
<1>1. ASSUME NEW k \in 0..7
      PROVE  /\ From(k) => From(k + 1) \/ Least
             /\ UpTo(k) => UpTo(k - 1) \/ Greatest
  <2>1. CASE k \in S
    BY <2>1
  <2>2. CASE k \notin S
    <3>1. \A y \in S : y \in Int /\ y # k
      BY <2>2
    <3> QED BY <3>1
  <2> QED BY <2>1, <2>2
<1>2. From(0) /\ UpTo(7) /\ ~From(8) /\ ~UpTo(0 - 1)
  <2>1. PICK x \in S : TRUE
    OBVIOUS
  <2>2. \A y \in S : y \in Int /\ 0 <= y /\ y <= 7
    OBVIOUS
  <2> QED BY <2>1, <2>2
<1>3. Least /\ Greatest
  <2> HIDE DEF Least, Greatest, From, UpTo
  <2>1. /\ From(1) \/ Least
        /\ UpTo(6) \/ Greatest
    BY <1>1, <1>2
  <2>2. /\ From(2) \/ Least
        /\ UpTo(5) \/ Greatest
    BY <1>1, <2>1
  <2>3. /\ From(3) \/ Least
        /\ UpTo(4) \/ Greatest
    BY <1>1, <2>2
  <2>4. /\ From(4) \/ Least
        /\ UpTo(3) \/ Greatest
    BY <1>1, <2>3
  <2>5. /\ From(5) \/ Least
        /\ UpTo(2) \/ Greatest
    BY <1>1, <2>4
  <2>6. /\ From(6) \/ Least
        /\ UpTo(1) \/ Greatest
    BY <1>1, <2>5
  <2>7. /\ From(7) \/ Least
        /\ UpTo(0) \/ Greatest
    BY <1>1, <2>6
  <2> QED BY <1>1, <1>2, <2>7
<1> QED BY <1>3 DEF Min, Max

(* What a catalog asks for is finite, and among what the tables hold.      *)
LEMMA Asked ==
    ASSUME NEW cat \in Catalogs
    PROVE  /\ \A p \in cat.phases :
                /\ IsFiniteSet(StepsOf(cat, p))
                /\ cat.requirements[p] \subseteq Requirement
                /\ IsFiniteSet(cat.requirements[p])
           /\ \A p : /\ RequirementsOf(cat, p) \subseteq Requirement
                     /\ IsFiniteSet(RequirementsOf(cat, p))
<1>1. ASSUME NEW p \in cat.phases
      PROVE  /\ IsFiniteSet(StepsOf(cat, p))
             /\ cat.requirements[p] \subseteq Requirement
             /\ IsFiniteSet(cat.requirements[p])
  <2>1. cat.topics[p] \in Seq(SUBSET Step) /\ cat.requirements[p] \in SUBSET Requirement
    BY CatalogAssumption
  <2>2. StepsOf(cat, p) \in SUBSET Step
    BY <2>1 DEF StepsOf, ToSet
  <2> QED BY <2>1, <2>2, FiniteAssumption, FS_Subset
<1>2. IsFiniteSet({})
  BY FS_EmptySet
<1> QED BY <1>1, <1>2 DEF RequirementsOf

(* An unlocked gate has all the successes of the phase before.             *)
LEMMA GateIsOpen ==
    ASSUME NEW u \in User, NEW cat \in Catalogs, NEW p \in 0..7, ~Locked(u, cat, p)
    PROVE  \A prereq \in Prerequisite(p) :
               RequirementsOf(cat, prereq) \subseteq Succeeded(u)
<1> SUFFICES ASSUME NEW prereq \in Prerequisite(p),
                    RequirementsOf(cat, prereq) # {}
             PROVE  RequirementsOf(cat, prereq) \subseteq Succeeded(u)
  OBVIOUS
<1>1. AllSucceeded(u, RequirementsOf(cat, prereq))
  BY DEF Locked
<1> QED BY <1>1, Asked, Counts DEF AllSucceeded

-----------------------------------------------------------------------------
(* Sequences of attempts.                                                  *)
LEMMA AppendRow ==
    ASSUME NEW s \in Seq(Row), NEW x \in Row
    PROVE  /\ Append(s, x) \in Seq(Row) /\ Len(Append(s, x)) = Len(s) + 1
           /\ \A i \in 1..Len(s) : Append(s, x)[i] = s[i]
           /\ Append(s, x)[Len(s) + 1] = x
OBVIOUS

LEMMA FrontRow ==
    ASSUME NEW s \in Seq(Row), s # <<>>
    PROVE  /\ Front(s) \in Seq(Row) /\ Len(Front(s)) = Len(s) - 1
           /\ \A i \in 1..(Len(s) - 1) : Front(s)[i] = s[i]
BY DEF Front

(* The one place where a requirement can be active is the end, and unless  *)
(* it was overtaken a success is there too and is the latest result.       *)
LEMMA OnlyTheLast ==
    ASSUME StateType, EarlierSettled, NEW u \in User, NEW r \in Requirement
    PROVE  /\ rows[u][r] \in Seq(Row) /\ Len(rows[u][r]) \in Nat
           /\ r \in Succeeded(u) \cup Active(u) => rows[u][r] # <<>> /\ Len(rows[u][r]) > 0
           /\ r \in Active(u) <=>
                Len(rows[u][r]) > 0 /\ rows[u][r][Len(rows[u][r])] = "active"
           /\ r \notin overtaken[u] =>
                (r \in Succeeded(u) <=>
                   Len(rows[u][r]) > 0 /\ rows[u][r][Len(rows[u][r])] = "succeeded")
           /\ r \in Succeeded(u) /\ r \notin overtaken[u] =>
                LatestTerminal(u, r) = "succeeded"
<1> DEFINE s == rows[u][r]
           n == Len(s)
<1>1. s \in Seq(Row) /\ n \in Nat /\ DOMAIN s = 1..n
  BY DEF StateType
<1>2. \A i \in 1..(n - 1) :
          s[i] # "active" /\ (r \notin overtaken[u] => s[i] # "succeeded")
  BY DEF EarlierSettled
<1>3. \A x \in ToSet(s) :
          n > 0 /\ (x = s[n] \/ (x # "active" /\ (r \notin overtaken[u] => x # "succeeded")))
  <2> SUFFICES ASSUME NEW i \in 1..n
               PROVE  s[i] = s[n] \/ (s[i] # "active"
                        /\ (r \notin overtaken[u] => s[i] # "succeeded"))
    BY <1>1 DEF ToSet
  <2>1. i \in 1..(n - 1) \/ i = n
    BY <1>1
  <2> QED BY <1>2, <2>1
<1>4. n > 0 => s[n] \in ToSet(s) /\ s # <<>>
  BY <1>1 DEF ToSet
<1>5. /\ r \in Active(u) <=> n > 0 /\ s[n] = "active"
      /\ r \notin overtaken[u] => (r \in Succeeded(u) <=> n > 0 /\ s[n] = "succeeded")
  BY <1>3, <1>4 DEF Succeeded, Active
<1>6. ASSUME r \in Succeeded(u), r \notin overtaken[u]
      PROVE  LatestTerminal(u, r) = "succeeded"
  <2>1. n \in Terminal(u, r) /\ Terminal(u, r) \subseteq 1..n
    BY <1>1, <1>5, <1>6 DEF Terminal
  <2>2. Max(Terminal(u, r)) = n
    BY <1>1, <2>1 DEF Max
  <2> QED BY <1>5, <1>6, <2>1, <2>2 DEF LatestTerminal
<1>7. r \in Succeeded(u) \cup Active(u) => n > 0 /\ s # <<>>
  BY <1>3, <1>4 DEF Succeeded, Active
<1> QED BY <1>1, <1>5, <1>6, <1>7

-----------------------------------------------------------------------------
(* Writes to the tables.                                                   *)
SuccessKept ==
    \A u \in User :
        /\ life[u] <= life'[u]
        /\ u \in alive' /\ life'[u] = life[u] =>
             /\ u \in alive /\ Succeeded(u) \subseteq Succeeded(u)'
             /\ overtaken[u] \subseteq overtaken'[u]

(* While a community page is open, what an account has stays or its        *)
(* erasure is noted.                                                       *)
ErasuresNoted ==
    view' = view /\ view.kind = "community" => \A u \in User :
        /\ gone[u] \subseteq gone'[u]
        /\ view.at \notin gone'[u] =>
             /\ Succeeded(u) \subseteq Succeeded(u)'
             /\ u \in alive => u \in alive'

TablesGood == StateType /\ LivesBounded /\ EarlierSettled /\ RowsOfAlive

(* A write that takes nothing from anyone.                                 *)
LEMMA OnlyAdds ==
    ASSUME StateType, UNCHANGED <<life, alive, gone>>,
           \A u \in User : /\ Succeeded(u) \subseteq Succeeded(u)'
                           /\ overtaken[u] \subseteq overtaken'[u]
    PROVE  SuccessKept /\ ErasuresNoted
BY LivesAssumption DEF SuccessKept, ErasuresNoted, StateType

(* A write to the attempts of a requirement that keeps its success.        *)
LEMMA RowWrite ==
    ASSUME TablesGood, NEW u \in alive, NEW r \in Requirement, NEW s \in Seq(Row),
           r \in Succeeded(u) => "succeeded" \in ToSet(s),
           \A i \in 1..(Len(s) - 1) :
               s[i] # "active" /\ (r \notin overtaken'[u] => s[i] # "succeeded"),
           rows' = [rows EXCEPT ![u][r] = s],
           overtaken' \in [User -> SUBSET Requirement],
           \A v \in User : overtaken[v] \subseteq overtaken'[v],
           UNCHANGED <<life, alive, done, live, gone>>,
           pending' \in [User -> {None} \cup Submission]
    PROVE  TablesGood' /\ SuccessKept /\ ErasuresNoted
<1> USE DEF TablesGood, StateType
<1>1. \A v \in User, q \in Requirement :
          rows'[v][q] = IF v = u /\ q = r THEN s ELSE rows[v][q]
  OBVIOUS
<1>2. rows' \in [User -> [Requirement -> Seq(Row)]]
  OBVIOUS
<1>3. EarlierSettled'
  <2> SUFFICES ASSUME NEW v \in User, NEW q \in Requirement
               PROVE  \A i \in 1..(Len(rows'[v][q]) - 1) :
                          /\ rows'[v][q][i] # "active"
                          /\ q \notin overtaken'[v] => rows'[v][q][i] # "succeeded"
    BY DEF EarlierSettled
  <2>1. CASE v = u /\ q = r
    BY <1>1, <2>1
  <2>2. CASE ~(v = u /\ q = r)
    BY <1>1, <2>2 DEF EarlierSettled
  <2> QED BY <2>1, <2>2
<1>4. ASSUME NEW v \in User PROVE Succeeded(v) \subseteq Succeeded(v)'
  <2> SUFFICES ASSUME NEW q \in Succeeded(v) PROVE q \in Succeeded(v)'
    OBVIOUS
  <2>1. q \in Requirement /\ "succeeded" \in ToSet(rows[v][q])
    BY DEF Succeeded
  <2>2. CASE v = u /\ q = r
    BY <1>1, <2>1, <2>2 DEF Succeeded
  <2>3. CASE ~(v = u /\ q = r)
    <3>1. rows'[v][q] = rows[v][q]
      BY <1>1, <2>1, <2>3
    <3> QED BY <2>1, <3>1 DEF Succeeded
  <2> QED BY <2>2, <2>3
<1>5. LivesBounded'
  BY DEF LivesBounded
<1>6. RowsOfAlive'
  BY <1>1 DEF RowsOfAlive
<1>7. SuccessKept /\ ErasuresNoted
  BY <1>4, OnlyAdds
<1> QED BY <1>2, <1>3, <1>5, <1>6, <1>7

(* A write that leaves accounts and attempts alone.                        *)
LEMMA RowsKept ==
    ASSUME TablesGood, StateType',
           UNCHANGED <<life, alive, rows, overtaken, gone>>
    PROVE  TablesGood' /\ SuccessKept /\ ErasuresNoted
<1>1. LivesBounded' /\ EarlierSettled' /\ RowsOfAlive'
  BY DEF TablesGood, LivesBounded, EarlierSettled, RowsOfAlive
<1>2. SuccessKept /\ ErasuresNoted
  BY OnlyAdds DEF TablesGood, Succeeded
<1> QED BY <1>1, <1>2 DEF TablesGood

LEMMA SubmitWrite ==
    ASSUME TablesGood, NEW u \in User, CheckPreconditions(u) \/ CheckSucceeded(u)
    PROVE  TablesGood' /\ SuccessKept /\ ErasuresNoted
<1>1. CASE CheckPreconditions(u)
  <2>1. PICK cat \in live : \E p \in cat.phases : \E r \in cat.requirements[p] :
             pending' = [pending EXCEPT ![u] =
               [kind |-> "submit", requirement |-> r, phase |-> p,
                cat |-> cat, life |-> life[u]]]
    BY <1>1 DEF CheckPreconditions
  <2>2. ASSUME NEW p \in cat.phases, NEW r \in cat.requirements[p]
        PROVE  [kind |-> "submit", requirement |-> r, phase |-> p,
                cat |-> cat, life |-> life[u]] \in Submission
    <3>1. cat \in Catalogs /\ p \in 0..7 /\ r \in Requirement /\ life[u] \in 1..MaxLives
      BY CatalogAssumption, Asked DEF TablesGood, StateType
    <3> QED BY <3>1 DEF Submission
  <2>3. pending' \in [User -> {None} \cup Submission]
    BY <2>1, <2>2 DEF TablesGood, StateType
  <2>4. UNCHANGED <<life, alive, done, rows, live, overtaken, gone>>
    BY <1>1 DEF CheckPreconditions
  <2>5. StateType'
    BY <2>3, <2>4 DEF TablesGood, StateType
  <2> QED BY <2>4, <2>5, RowsKept
<1>2. CASE CheckSucceeded(u)
  <2>1. UNCHANGED <<life, alive, done, rows, live, overtaken, gone>>
    BY <1>2 DEF CheckSucceeded
  <2>2. pending[u] \in Submission
    BY <1>2 DEF CheckSucceeded, TablesGood, StateType, None
  <2>3. [pending[u] EXCEPT !.kind = "looked"] \in Submission
    BY <2>2 DEF Submission
  <2>4. pending' \in [User -> {None} \cup Submission]
    BY <1>2, <2>3 DEF CheckSucceeded, TablesGood, StateType
  <2>5. StateType'
    BY <2>1, <2>4 DEF TablesGood, StateType
  <2> QED BY <2>1, <2>5, RowsKept
<1> QED BY <1>1, <1>2

LEMMA InsertWrite ==
    ASSUME TablesGood, NEW u \in User, InsertAttempt(u)
    PROVE  TablesGood' /\ SuccessKept /\ ErasuresNoted
<1> DEFINE r == pending[u].requirement
           s == rows[u][r]
           created == u \in alive /\ r \notin Active(u)
<1>1. r \in Requirement
  BY DEF InsertAttempt, TablesGood, StateType, Submission, None
<1>2. /\ pending' \in [User -> {None} \cup Submission]
      /\ UNCHANGED <<life, alive, done, live, gone>>
  BY DEF InsertAttempt, TablesGood, StateType
<1>3. CASE ~created
  <2>1. rows' = rows /\ overtaken' = overtaken
    BY <1>3 DEF InsertAttempt
  <2>2. StateType'
    BY <1>2, <2>1 DEF TablesGood, StateType
  <2> QED BY <1>2, <2>1, <2>2, RowsKept
<1>4. CASE created
  <2>1. rows' = [rows EXCEPT ![u][r] = Append(s, "active")]
    BY <1>4 DEF InsertAttempt
  <2>2. /\ overtaken' \in [User -> SUBSET Requirement]
        /\ \A v \in User : overtaken[v] \subseteq overtaken'[v]
        /\ r \in Succeeded(u) => r \in overtaken'[u]
    BY <1>1, <1>4 DEF InsertAttempt, TablesGood, StateType
  <2>3. s \in Seq(Row) /\ Len(s) \in Nat /\ DOMAIN s = 1..Len(s)
    BY <1>1, OnlyTheLast DEF TablesGood
  <2>4. ASSUME NEW i \in 1..Len(s)
        PROVE  s[i] # "active" /\ (r \notin overtaken'[u] => s[i] # "succeeded")
    <3>1. s[i] \in ToSet(s)
      BY <2>3 DEF ToSet
    <3> QED BY <1>1, <1>4, <2>2, <3>1 DEF Succeeded, Active
  <2>5. /\ Append(s, "active") \in Seq(Row)
        /\ \A i \in 1..Len(s) : Append(s, "active")[i] = s[i]
        /\ Len(Append(s, "active")) = Len(s) + 1
    BY <2>3, AppendRow DEF Row
  <2>6. r \in Succeeded(u) => "succeeded" \in ToSet(Append(s, "active"))
    <3> SUFFICES ASSUME r \in Succeeded(u)
                 PROVE  "succeeded" \in ToSet(Append(s, "active"))
      OBVIOUS
    <3>1. PICK i \in 1..Len(s) : s[i] = "succeeded"
      BY <2>3 DEF Succeeded, ToSet
    <3>2. i \in DOMAIN Append(s, "active") /\ Append(s, "active")[i] = "succeeded"
      BY <2>3, <2>5, <3>1
    <3> QED BY <3>2 DEF ToSet
  <2>7. \A i \in 1..(Len(Append(s, "active")) - 1) :
            /\ Append(s, "active")[i] # "active"
            /\ r \notin overtaken'[u] => Append(s, "active")[i] # "succeeded"
    BY <2>3, <2>4, <2>5
  <2>8. u \in alive
    BY <1>4
  <2> HIDE DEF r, s, created
  <2> QED BY <1>1, <1>2, <2>1, <2>2, <2>5, <2>6, <2>7, <2>8, RowWrite
<1> QED BY <1>3, <1>4

LEMMA SettleWrite ==
    ASSUME TablesGood, NEW u \in User, Settle(u) \/ Release(u)
    PROVE  TablesGood' /\ SuccessKept /\ ErasuresNoted
<1>1. PICK r \in Active(u) :
           \E t \in {Front(rows[u][r])} \cup
              {Append(Front(rows[u][r]), outcome) : outcome \in Outcome} :
             rows' = [rows EXCEPT ![u][r] = t]
  BY DEF Settle, Release
<1> DEFINE s == rows[u][r]
           front == Front(s)
<1>2. /\ r \in Requirement /\ s # <<>> /\ s \in Seq(Row) /\ Len(s) \in Nat
      /\ Len(s) > 0 /\ s[Len(s)] = "active" /\ DOMAIN s = 1..Len(s)
  BY OnlyTheLast DEF Active, TablesGood
<1>3. u \in alive
  BY <1>2 DEF TablesGood, RowsOfAlive
<1>3a. /\ front \in Seq(Row) /\ Len(front) = Len(s) - 1
       /\ \A i \in 1..(Len(s) - 1) : front[i] = s[i]
  <2> HIDE DEF s
  <2> QED BY <1>2, FrontRow
<1>4. /\ front \in Seq(Row) /\ Len(front) = Len(s) - 1 /\ DOMAIN front = 1..Len(front)
      /\ \A i \in 1..Len(front) : front[i] = s[i]
  <2> HIDE DEF front, s
  <2> QED BY <1>2, <1>3a
<1>5. \A i \in 1..Len(front) :
          /\ front[i] # "active"
          /\ r \notin overtaken[u] => front[i] # "succeeded"
  BY <1>2, <1>4 DEF TablesGood, EarlierSettled
<1>6. ASSUME r \in Succeeded(u)
      PROVE  \E i \in 1..Len(front) : front[i] = "succeeded"
  <2>1. PICK i \in 1..Len(s) : s[i] = "succeeded"
    BY <1>2, <1>6 DEF Succeeded, ToSet
  <2>2. i # Len(s)
    BY <1>2, <2>1
  <2>3. i \in 1..Len(front)
    BY <1>2, <1>4, <2>2
  <2> QED BY <1>4, <2>1, <2>3
<1>7. ASSUME NEW t \in {front} \cup {Append(front, outcome) : outcome \in Outcome}
      PROVE  /\ t \in Seq(Row)
             /\ r \in Succeeded(u) => "succeeded" \in ToSet(t)
             /\ \A i \in 1..(Len(t) - 1) :
                  t[i] # "active" /\ (r \notin overtaken[u] => t[i] # "succeeded")
  <2>1. CASE t = front
    BY <1>2, <1>4, <1>5, <1>6, <2>1 DEF ToSet
  <2>2. ASSUME NEW outcome \in Outcome, t = Append(front, outcome)
        PROVE  /\ t \in Seq(Row) /\ Len(t) = Len(front) + 1 /\ DOMAIN t = 1..Len(t)
               /\ \A i \in 1..Len(front) : t[i] = front[i]
    BY <1>4, <2>2, AppendRow DEF Row
  <2>3. ASSUME NEW outcome \in Outcome, t = Append(front, outcome)
        PROVE  /\ t \in Seq(Row)
               /\ r \in Succeeded(u) => "succeeded" \in ToSet(t)
               /\ \A i \in 1..(Len(t) - 1) :
                    t[i] # "active" /\ (r \notin overtaken[u] => t[i] # "succeeded")
    <3>1. /\ t \in Seq(Row) /\ Len(t) = Len(front) + 1 /\ DOMAIN t = 1..Len(t)
          /\ \A i \in 1..Len(front) : t[i] = front[i] /\ i \in DOMAIN t
          /\ Len(t) - 1 = Len(front)
      BY <1>2, <1>4, <2>2, <2>3
    <3>2. r \in Succeeded(u) => "succeeded" \in ToSet(t)
      BY <1>6, <3>1 DEF ToSet
    <3> QED BY <1>5, <3>1, <3>2
  <2> QED BY <2>1, <2>3
<1>8. /\ UNCHANGED <<life, alive, done, live, gone, overtaken>>
      /\ pending' \in [User -> {None} \cup Submission]
      /\ overtaken' \in [User -> SUBSET Requirement]
      /\ \A v \in User : overtaken[v] \subseteq overtaken'[v]
  BY DEF Settle, Release, TablesGood, StateType
<1>9. PICK t \in {front} \cup {Append(front, outcome) : outcome \in Outcome} :
           rows' = [rows EXCEPT ![u][r] = t]
  BY <1>1
<1>10. /\ t \in Seq(Row)
       /\ r \in Succeeded(u) => "succeeded" \in ToSet(t)
       /\ \A i \in 1..(Len(t) - 1) :
            t[i] # "active" /\ (r \notin overtaken'[u] => t[i] # "succeeded")
  BY <1>7, <1>8
<1> HIDE DEF front, s
<1> QED BY <1>2, <1>3, <1>8, <1>9, <1>10, RowWrite

LEMMA AccountWrite ==
    ASSUME TablesGood, NEW u \in User, EraseAccount(u) \/ SignInAgain(u)
    PROVE  TablesGood' /\ SuccessKept /\ ErasuresNoted
<1> USE DEF TablesGood
<1>1. CASE EraseAccount(u)
  <2> USE <1>1 DEF EraseAccount
  <2>1. <<>> \in Seq(Row) /\ Len(<<>>) = 0
    OBVIOUS
  <2>2. /\ gone' = [v \in User |-> gone'[v]]
        /\ \A v \in User : gone[v] \subseteq gone'[v]
        /\ view.kind = "community" => view.at \in gone'[u]
    <3>1. gone = [v \in User |-> gone[v]]
      BY DEF StateType
    <3>2. CASE view.kind = "community"
      <4>1. gone' = [gone EXCEPT ![u] = gone[u] \cup {view.at}]
        BY <3>2 DEF NoteErasure
      <4> QED BY <3>1, <4>1
    <3>3. CASE view.kind # "community"
      BY <3>1, <3>3 DEF NoteErasure
    <3> QED BY <3>2, <3>3
  <2>3. StateType' /\ LivesBounded'
    BY <2>1, <2>2 DEF StateType, LivesBounded
  <2>4. \A v \in User :
            /\ rows'[v] = IF v = u THEN [r \in Requirement |-> <<>>] ELSE rows[v]
            /\ overtaken'[v] = IF v = u THEN {} ELSE overtaken[v]
    BY DEF StateType
  <2>5. EarlierSettled' /\ RowsOfAlive'
    BY <2>1, <2>4 DEF EarlierSettled, RowsOfAlive
  <2>6. \A v \in User \ {u} : Succeeded(v)' = Succeeded(v)
    BY <2>4 DEF Succeeded
  <2>7. SuccessKept
    BY <2>4, <2>6, LivesAssumption DEF SuccessKept, StateType
  <2>8. ErasuresNoted
    BY <2>2, <2>6 DEF ErasuresNoted
  <2> QED BY <2>3, <2>5, <2>7, <2>8
<1>2. CASE SignInAgain(u)
  <2> USE <1>2 DEF SignInAgain
  <2>1. life[u] \in 1..MaxLives /\ life[u] < MaxLives
    BY DEF StateType, LivesBounded
  <2>2. life[u] + 1 \in 1..MaxLives
    BY <2>1, LivesAssumption
  <2>3. StateType' /\ LivesBounded'
    BY <2>2 DEF StateType, LivesBounded
  <2>4. EarlierSettled' /\ RowsOfAlive'
    BY DEF EarlierSettled, RowsOfAlive
  <2>5. \A v \in User : life'[v] = IF v = u THEN life[u] + 1 ELSE life[v]
    BY DEF StateType
  <2>6. \A v \in User : Succeeded(v)' = Succeeded(v)
    BY DEF Succeeded
  <2>7. \A v \in User : life[v] \in Nat
    BY LivesAssumption DEF StateType
  <2>8. SuccessKept /\ ErasuresNoted
    BY <2>5, <2>6, <2>7 DEF SuccessKept, ErasuresNoted
  <2> QED BY <2>3, <2>4, <2>8
<1> QED BY <1>1, <1>2

LEMMA TableWrite ==
    ASSUME TablesGood, [Next]_vars
    PROVE  TablesGood' /\ SuccessKept /\ ErasuresNoted
<1> USE DEF TablesGood
<1>1. CASE UNCHANGED <<tables, gone>>
  <2>1. StateType' /\ UNCHANGED <<life, alive, rows, overtaken, gone>>
    BY <1>1 DEF tables, StateType
  <2> QED BY <2>1, RowsKept
<1>2. CASE ClosePage
  <2>1. StateType' /\ UNCHANGED <<life, alive, rows, overtaken>>
    BY <1>2 DEF ClosePage, tables, StateType
  <2>2. LivesBounded' /\ EarlierSettled' /\ RowsOfAlive'
    BY <2>1 DEF LivesBounded, EarlierSettled, RowsOfAlive
  <2>3. SuccessKept /\ ErasuresNoted
    BY <1>2, <2>1, LivesAssumption DEF ClosePage, SuccessKept, ErasuresNoted,
       Succeeded, StateType
  <2> QED BY <2>1, <2>2, <2>3
<1>3. CASE Page
  BY <1>1, <1>2, <1>3 DEF Page, ReadSteps, ReadSucceeded, ReadLatest, ReadActive,
     ReadLock, ReadContinue, ReadCompletions, ReadAccounts, ReadMembers, Load
<1>4. CASE UNCHANGED vars
  BY <1>1, <1>4 DEF vars
<1>5. CASE Deploy
  <2>1. live' # {} /\ live' \in SUBSET Catalogs
    BY <1>5 DEF Deploy, StateType
  <2>2. StateType' /\ UNCHANGED <<life, alive, rows, overtaken, gone>>
    BY <1>5, <2>1 DEF Deploy, StateType
  <2> QED BY <2>2, RowsKept
<1>6. ASSUME NEW u \in User, CompleteStep(u) \/ UncompleteStep(u)
      PROVE  TablesGood' /\ SuccessKept /\ ErasuresNoted
  <2>1. done' \in [User -> SUBSET Step]
    <3>1. done \in [User -> SUBSET Step]
      BY DEF StateType
    <3>2. \/ \E step \in Step : done' = [done EXCEPT ![u] = @ \cup {step}]
          \/ \E step \in done[u] : done' = [done EXCEPT ![u] = @ \ {step}]
      BY <1>6 DEF CompleteStep, UncompleteStep
    <3> QED BY <3>1, <3>2
  <2>2. UNCHANGED <<life, alive, rows, pending, live, overtaken, gone>>
    BY <1>6 DEF CompleteStep, UncompleteStep
  <2>3. StateType'
    BY <2>1, <2>2 DEF StateType
  <2> QED BY <2>2, <2>3, RowsKept
<1>7. ASSUME NEW u \in User, Learner(u)
      PROVE  TablesGood' /\ SuccessKept /\ ErasuresNoted
  <2>1. CASE OpenPage(u)
    BY <1>1, <2>1 DEF OpenPage
  <2> QED
    BY <1>6, <1>7, <2>1, SubmitWrite, InsertWrite, SettleWrite, AccountWrite DEF Learner
<1> QED BY <1>3, <1>4, <1>5, <1>7 DEF Next

-----------------------------------------------------------------------------
(* The gate.                                                               *)

(* Only an insert makes a learner's attempts longer, and only for someone  *)
(* who has an account.                                                     *)
LEMMA OnlyInsertsGrow ==
    ASSUME TablesGood, [Next]_vars, NEW u \in User, NEW r \in Requirement,
           Len(rows'[u][r]) > Len(rows[u][r])
    PROVE  InsertAttempt(u) /\ u \in alive
<1> USE DEF TablesGood
<1>1. rows[u][r] \in Seq(Row) /\ Len(rows[u][r]) \in Nat
  BY OnlyTheLast
<1>2. rows' # rows
  BY <1>1
<1>3. PICK v \in User : InsertAttempt(v) \/ Settle(v) \/ Release(v) \/ EraseAccount(v)
  BY <1>2 DEF Next, Learner, Deploy, Page, vars, tables, ReadSteps, ReadSucceeded,
     ReadLatest, ReadActive, ReadLock, ReadContinue, ReadCompletions, ReadAccounts,
     ReadMembers, ClosePage, Load, CheckPreconditions, CheckSucceeded, CompleteStep, UncompleteStep,
     SignInAgain, OpenPage
<1>4. CASE InsertAttempt(v)
  <2>1. rows' # rows => v \in alive
        /\ rows' = [rows EXCEPT ![v][pending[v].requirement] = Append(@, "active")]
    BY <1>4 DEF InsertAttempt
  <2>2. v = u
    BY <1>1, <1>2, <2>1 DEF StateType
  <2> QED BY <1>2, <1>4, <2>1, <2>2
<1>5. CASE Settle(v) \/ Release(v)
  <2>1. PICK q \in Active(v) :
             \E s \in {Front(rows[v][q])} \cup
                {Append(Front(rows[v][q]), outcome) : outcome \in Outcome} :
               rows' = [rows EXCEPT ![v][q] = s]
    BY <1>5 DEF Settle, Release
  <2>2. q \in Requirement /\ rows[v][q] \in Seq(Row) /\ rows[v][q] # <<>>
        /\ Len(rows[v][q]) \in Nat
    BY OnlyTheLast DEF Active
  <2> DEFINE front == Front(rows[v][q])
  <2>3. front \in Seq(Row) /\ Len(front) = Len(rows[v][q]) - 1
    BY <2>2, FrontRow
  <2>4. ASSUME NEW s \in {front} \cup {Append(front, outcome) : outcome \in Outcome}
        PROVE  Len(s) <= Len(rows[v][q])
    <3>1. CASE s = front
      BY <2>2, <2>3, <3>1
    <3>2. ASSUME NEW outcome \in Outcome, s = Append(front, outcome)
          PROVE  Len(s) <= Len(rows[v][q])
      BY <2>2, <2>3, <3>2, AppendRow DEF Row
    <3> QED BY <3>1, <3>2
  <2>5. CASE u = v /\ r = q
    BY <2>1, <2>2, <2>4, <2>5 DEF StateType
  <2>6. CASE ~(u = v /\ r = q)
    BY <1>1, <2>1, <2>2, <2>6 DEF StateType
  <2> QED BY <2>5, <2>6
<1>6. CASE EraseAccount(v)
  <2>1. rows'[u][r] = rows[u][r] \/ rows'[u][r] = <<>>
    BY <1>6 DEF EraseAccount, StateType
  <2>2. Len(<<>>) = 0
    OBVIOUS
  <2> QED BY <1>1, <2>1, <2>2
<1> QED BY <1>3, <1>4, <1>5, <1>6

LEMMA GateStep ==
    ASSUME TablesGood, GateStillOpen, [Next]_vars
    PROVE  GateStillOpen'
<1> SUFFICES ASSUME NEW u \in User, pending'[u] # None
             PROVE  /\ pending'[u].life <= life'[u]
                    /\ pending'[u].life = life'[u] /\ u \in alive' =>
                         \A prereq \in Prerequisite(pending'[u].phase) :
                             RequirementsOf(pending'[u].cat, prereq) \subseteq Succeeded(u)'
  BY DEF GateStillOpen
<1>1. TablesGood' /\ SuccessKept
  BY TableWrite
<1>2. life[u] \in Nat /\ life'[u] \in Nat /\ life[u] <= life'[u]
  BY <1>1, LivesAssumption DEF SuccessKept, TablesGood, StateType
<1>3. CASE pending'[u] = pending[u]
  <2>1. pending[u].life \in Nat
    BY <1>3, LivesAssumption DEF TablesGood, StateType, Submission
  <2> QED BY <1>1, <1>2, <1>3, <2>1 DEF GateStillOpen, SuccessKept
<1>4. CASE pending'[u] # pending[u]
  <2>1. PICK v \in User : CheckPreconditions(v) \/ CheckSucceeded(v) \/ InsertAttempt(v)
    BY <1>4 DEF Next, Learner, Deploy, Page, vars, tables, ReadSteps, ReadSucceeded,
       ReadLatest, ReadActive, ReadLock, ReadContinue, ReadCompletions, ReadAccounts,
       ReadMembers, ClosePage, Load, Settle, Release, CompleteStep, UncompleteStep,
       EraseAccount, SignInAgain, OpenPage
  <2>2. v = u /\ (CheckPreconditions(u) \/ CheckSucceeded(u))
    BY <1>4, <2>1 DEF CheckPreconditions, CheckSucceeded, InsertAttempt, TablesGood,
       StateType
  <2>3. CASE CheckSucceeded(u)
    <3>1. pending[u] \in Submission
      BY <2>3 DEF CheckSucceeded, TablesGood, StateType, None
    <3>2. pending'[u] = [pending[u] EXCEPT !.kind = "looked"]
      BY <2>3 DEF CheckSucceeded, TablesGood, StateType
    <3>3. /\ pending'[u].life = pending[u].life /\ pending'[u].cat = pending[u].cat
          /\ pending'[u].phase = pending[u].phase /\ pending[u] # None
          /\ pending[u].life \in Nat
      BY <2>3, <3>1, <3>2, LivesAssumption DEF CheckSucceeded, Submission, None
    <3> QED BY <1>1, <1>2, <3>3 DEF GateStillOpen, SuccessKept
  <2>4. CASE CheckPreconditions(u)
    <3>1. PICK cat \in live : \E p \in cat.phases : \E r \in cat.requirements[p] :
             /\ ~Locked(u, cat, p)
             /\ pending' = [pending EXCEPT ![u] =
                  [kind |-> "submit", requirement |-> r, phase |-> p,
                   cat |-> cat, life |-> life[u]]]
      BY <2>4 DEF CheckPreconditions
    <3>2. PICK p \in cat.phases : \E r \in cat.requirements[p] :
             /\ ~Locked(u, cat, p)
             /\ pending' = [pending EXCEPT ![u] =
                  [kind |-> "submit", requirement |-> r, phase |-> p,
                   cat |-> cat, life |-> life[u]]]
      BY <3>1
    <3>3. pending'[u].phase = p /\ pending'[u].cat = cat /\ pending'[u].life = life[u]
      BY <3>2 DEF TablesGood, StateType
    <3>4. cat \in Catalogs /\ p \in 0..7
      BY CatalogAssumption DEF TablesGood, StateType
    <3>5. \A prereq \in Prerequisite(p) :
              RequirementsOf(cat, prereq) \subseteq Succeeded(u)
      BY <3>2, <3>4, GateIsOpen
    <3> QED BY <1>1, <1>2, <3>3, <3>5 DEF SuccessKept
  <2> QED BY <2>2, <2>3, <2>4
<1> QED BY <1>3, <1>4

-----------------------------------------------------------------------------
(* A query changes the fields it loads and the page's stage, no others.    *)
LEMMA Loaded ==
    ASSUME NEW at, NEW next, NEW seen, Load(at, next, seen), ViewType
    PROVE  /\ view.at = at /\ view'.at = next /\ DOMAIN view' = Field
           /\ \A f \in Field \ {"at"} :
                view'[f] = IF f \in DOMAIN seen THEN seen[f] ELSE view[f]
BY DEF Load, ViewType, Field

(* The counts of a phase say which of its sets are covered.                *)
LEMMA CountedPhase ==
    ASSUME ViewType, NEW p \in view.cat.phases
    PROVE  /\ LearningComplete(p) <=> StepsOf(view.cat, p) \subseteq view.steps
           /\ VerificationComplete(p) <=>
                view.cat.requirements[p] \subseteq view.verified
           /\ Checked(p) \in Nat /\ Validated(p) \in Nat
           /\ Checked(p) = 0 <=> view.steps \cap StepsOf(view.cat, p) = {}
           /\ Validated(p) = 0 <=> view.verified \cap view.cat.requirements[p] = {}
<1>1. IsFiniteSet(StepsOf(view.cat, p)) /\ IsFiniteSet(view.cat.requirements[p])
  BY Asked DEF ViewType
<1> DEFINE steps == StepsOf(view.cat, p)
           requirements == view.cat.requirements[p]
           checked == view.steps
           verified == view.verified
<1>2. /\ Checked(p) = Cardinality(checked \cap steps)
      /\ Validated(p) = Cardinality(verified \cap requirements)
      /\ LearningComplete(p) <=> Cardinality(checked \cap steps) >= Cardinality(steps)
      /\ VerificationComplete(p) <=>
           Cardinality(verified \cap requirements) >= Cardinality(requirements)
  BY DEF Checked, Validated, LearningComplete, VerificationComplete
<1>3. IsFiniteSet(steps) /\ IsFiniteSet(requirements)
  BY <1>1
<1> HIDE DEF steps, requirements, checked, verified
<1>4. /\ Cardinality(checked \cap steps) >= Cardinality(steps) <=> steps \subseteq checked
      /\ Cardinality(checked \cap steps) \in Nat
      /\ Cardinality(checked \cap steps) = 0 <=> checked \cap steps = {}
  BY <1>3, Counts
<1>5. /\ Cardinality(verified \cap requirements) >= Cardinality(requirements)
           <=> requirements \subseteq verified
      /\ Cardinality(verified \cap requirements) \in Nat
      /\ Cardinality(verified \cap requirements) = 0 <=> verified \cap requirements = {}
  BY <1>3, Counts
<1> QED BY <1>2, <1>4, <1>5 DEF steps, requirements, checked, verified

(* Continue points into a phase of the catalog whose predecessors are done.*)
LEMMA CurrentPhaseIs ==
    ASSUME ViewType
    PROVE  /\ CurrentPhase \in view.cat.phases
           /\ ~ProgramComplete => ~PhaseComplete(CurrentPhase)
           /\ ~ProgramComplete => \A p \in view.cat.phases :
                p < CurrentPhase => PhaseComplete(p)
<1> DEFINE open == {p \in view.cat.phases : ~PhaseComplete(p)}
<1>1. view.cat.phases \in SUBSET (0..7) /\ view.cat.phases # {}
  BY CatalogAssumption DEF ViewType
<1>2. CASE ProgramComplete
  <2>1. Max(view.cat.phases) \in view.cat.phases
    BY <1>1, Extremes
  <2> QED BY <1>2, <2>1 DEF CurrentPhase
<1>3. CASE ~ProgramComplete
  <2>1. open \in SUBSET (0..7) /\ open # {}
    BY <1>1, <1>3 DEF ProgramComplete
  <2>2. Min(open) \in open /\ \A p \in open : Min(open) <= p
    BY <2>1, Extremes
  <2>3. CurrentPhase = Min(open)
    BY <1>3 DEF CurrentPhase
  <2>4. \A p \in view.cat.phases : p < Min(open) => p \notin open
    BY <1>1, <2>1, <2>2
  <2> HIDE DEF open
  <2>5. CurrentPhase \in view.cat.phases /\ ~PhaseComplete(CurrentPhase)
    BY <2>2, <2>3 DEF open
  <2>6. \A p \in view.cat.phases : p < CurrentPhase => PhaseComplete(p)
    BY <2>3, <2>4 DEF open
  <2> QED BY <1>3, <2>5, <2>6
<1> QED BY <1>2, <1>3

-----------------------------------------------------------------------------
(* The page being rendered.                                                *)

(* A write leaves the page as true as it was: an account that is the same  *)
(* after the write was the same before, and kept its successes.            *)
LEMMA WriteKeepsView ==
    ASSUME TablesGood, TablesGood', SuccessKept, ErasuresNoted, ViewGood, view' = view
    PROVE  ViewGood'
<1> SUFFICES ASSUME view # None
             PROVE  ViewType' /\ ViewStage' /\ PhaseSeen' /\ CommunitySeen'
                    /\ ContinueLeadsToWork'
  BY DEF ViewGood
<1>1. ViewType /\ ViewStage /\ PhaseSeen /\ CommunitySeen /\ ContinueLeadsToWork
  BY DEF ViewGood
<1>2. \A u \in User : /\ life[u] \in Nat /\ life'[u] \in Nat /\ life[u] <= life'[u]
                      /\ view.life[u] \in Nat /\ view.life[u] <= life[u]
  BY <1>1, LivesAssumption DEF TablesGood, StateType, SuccessKept, ViewType
<1>3. \A u \in User : Same(u)' => /\ Same(u) /\ Succeeded(u) \subseteq Succeeded(u)'
                                  /\ overtaken[u] \subseteq overtaken'[u]
  BY <1>2 DEF Same, SuccessKept
<1>4. ViewType'
  <2>1. \A u \in User : view'.life[u] <= life'[u]
    BY <1>2
  <2> QED BY <1>1, <2>1 DEF ViewType
<1>5. ViewStage' /\ ContinueLeadsToWork'
  BY <1>1 DEF ViewStage, ContinueLeadsToWork, Shown, LearningComplete, Checked
<1>6. PhaseSeen'
  <2> SUFFICES ASSUME Same(view.user)' PROVE PhaseSeen'
    BY DEF PhaseSeen
  <2>1. /\ Same(view.user) /\ Succeeded(view.user) \subseteq Succeeded(view.user)'
        /\ overtaken[view.user] \subseteq overtaken'[view.user]
    BY <1>1, <1>3 DEF ViewType
  <2> QED BY <1>1, <2>1 DEF PhaseSeen
<1>7. CommunitySeen'
  <2> SUFFICES ASSUME view.kind = "community" PROVE CommunitySeen'
    BY DEF CommunitySeen
  <2>1. \A u \in User :
            /\ gone[u] \subseteq gone'[u]
            /\ view.at \notin gone'[u] =>
                 Succeeded(u) \subseteq Succeeded(u)' /\ (u \in alive => u \in alive')
    BY DEF ErasuresNoted
  <2>2. Graduates' = Graduates /\ Completable(view.cat)' = Completable(view.cat)
    BY DEF Graduates, Completable
  <2>3. view.members \subseteq User \/ view.at # "shown"
    BY <1>1 DEF CommunitySeen, Graduates
  <2>4. ASSUME view.at \in {"accounts", "members", "shown"},
               NEW p \in Completable(view.cat), NEW u \in view.completers[p],
               gone'[u] \subseteq {"completions"}
        PROVE  view.cat.requirements[p] \subseteq Succeeded(u)'
    <3>1. u \in User
      BY <1>1, <2>4 DEF CommunitySeen
    <3>2. gone[u] \subseteq {"completions"} /\ view.at \notin gone'[u]
      BY <2>1, <2>4, <3>1
    <3>3. view.cat.requirements[p] \subseteq Succeeded(u)
      BY <1>1, <2>4, <3>2 DEF CommunitySeen
    <3> QED BY <2>1, <3>1, <3>2, <3>3
  <2> QED BY <1>1, <2>1, <2>2, <2>3, <2>4 DEF CommunitySeen
<1> QED BY <1>4, <1>5, <1>6, <1>7

(* What every query leaves alone.                                          *)
Framed ==
    /\ UNCHANGED <<tables, gone>> /\ view' # None
    /\ alive' = alive /\ overtaken' = overtaken /\ gone' = gone
    /\ ViewType' /\ ViewType /\ ViewStage /\ PhaseSeen /\ CommunitySeen
    /\ view'.kind = view.kind /\ view'.user = view.user
    /\ view'.cat = view.cat /\ view'.life = view.life
    /\ \A u \in User : Same(u)' <=> Same(u)
    /\ \A u \in User : Succeeded(u)' = Succeeded(u)

LEMMA QueryFrame ==
    ASSUME ViewGood, NEW at, NEW next, NEW seen, Load(at, next, seen),
           {"kind", "user", "cat", "life", "at"} \cap DOMAIN seen = {},
           "phase" \in DOMAIN seen => seen["phase"] \in view.cat.phases
    PROVE  Framed
<1>1. view # None /\ ViewType /\ ViewStage /\ PhaseSeen /\ CommunitySeen
      /\ UNCHANGED <<tables, gone>>
  BY DEF ViewGood, Load
<1>2. /\ DOMAIN view' = Field
      /\ \A f \in Field \ {"at"} : view'[f] = IF f \in DOMAIN seen THEN seen[f] ELSE view[f]
  BY <1>1, Loaded
<1>3. {"kind", "user", "cat", "life", "phase"} \subseteq Field \ {"at"}
  BY DEF Field
<1>4. /\ view'.kind = view.kind /\ view'.user = view.user
      /\ view'.cat = view.cat /\ view'.life = view.life
      /\ view'.phase \in view.cat.phases
  BY <1>1, <1>2, <1>3 DEF ViewType
<1>5. view' # None
  BY <1>2 DEF None, Field
<1>6. ViewType'
  BY <1>1, <1>2, <1>4 DEF ViewType, tables
<1>7. \A u \in User : /\ Same(u)' <=> Same(u)
                      /\ Succeeded(u)' = Succeeded(u)
  BY <1>1, <1>4 DEF Same, Succeeded, tables
<1>8. alive' = alive /\ overtaken' = overtaken /\ gone' = gone
  BY <1>1 DEF tables
<1> QED BY <1>1, <1>4, <1>5, <1>6, <1>7, <1>8 DEF Framed

LEMMA StepsRead ==
    ASSUME ViewGood, ReadSteps
    PROVE  ViewGood'
<1> DEFINE seen == [steps |-> done[view.user] \cap AllSteps(view.cat)]
<1>1. Load("steps", "succeeded", seen) /\ DOMAIN seen = {"steps"}
  BY DEF ReadSteps
<1>2. Framed
  BY <1>1, QueryFrame
<1> HIDE DEF seen
<1>3. /\ view.at = "steps" /\ view'.at = "succeeded"
      /\ view'.verified = view.verified
  BY <1>1, <1>2, Loaded DEF Framed, Field
<1>4. view.user \in User
  BY <1>2 DEF Framed, ViewType
<1> QED
  BY <1>2, <1>3, <1>4 DEF Framed, ViewGood, ViewStage, PhaseSeen, CommunitySeen,
     ContinueLeadsToWork, Shown

LEMMA SucceededRead ==
    ASSUME ViewGood, ReadSucceeded
    PROVE  ViewGood'
<1> DEFINE seen == [verified |-> Succeeded(view.user) \cap AllRequirements(view.cat)]
           next == IF view.kind = "phase" THEN "latest" ELSE "continue"
<1>1. Load("succeeded", next, seen) /\ DOMAIN seen = {"verified"}
  BY DEF ReadSucceeded
<1>2. Framed
  BY <1>1, QueryFrame
<1> HIDE DEF seen, next
<1>3. /\ view.at = "succeeded" /\ view'.at = next
      /\ view'.verified = seen["verified"]
  BY <1>1, <1>2, Loaded DEF Framed, Field
<1>4. view'.verified \subseteq Succeeded(view.user)
  BY <1>3 DEF seen
<1>5. next \in {"latest", "continue"} /\ (next = "latest" <=> view.kind = "phase")
  BY DEF next
<1>6. view.user \in User
  BY <1>2 DEF Framed, ViewType
<1> QED
  BY <1>2, <1>3, <1>4, <1>5, <1>6 DEF Framed, ViewGood, ViewStage, PhaseSeen,
     CommunitySeen, ContinueLeadsToWork, Shown

LEMMA LatestRead ==
    ASSUME TablesGood, ViewGood, ReadLatest
    PROVE  ViewGood'
<1> DEFINE seen == [latest |-> [r \in view.cat.requirements[view.phase] |->
                      LatestTerminal(view.user, r)]]
<1>1. Load("latest", "active", seen) /\ DOMAIN seen = {"latest"}
  BY DEF ReadLatest
<1>2. Framed
  BY <1>1, QueryFrame
<1>3. seen["latest"] = [r \in view.cat.requirements[view.phase] |->
                          LatestTerminal(view.user, r)]
  OBVIOUS
<1> HIDE DEF seen
<1>4. /\ view.at = "latest" /\ view'.at = "active"
      /\ view'.phase = view.phase /\ view'.verified = view.verified
      /\ view'.latest = seen["latest"]
  BY <1>1, <1>2, Loaded DEF Framed, Field
<1>5. ASSUME Same(view.user),
             NEW r \in view.cat.requirements[view.phase] \cap view.verified
      PROVE  r \in overtaken[view.user] \/ view'.latest[r] = "succeeded"
  <2>1. r \in Succeeded(view.user) /\ view.user \in User /\ r \in Requirement
    BY <1>2, <1>5, Asked DEF Framed, ViewType, PhaseSeen
  <2>2. r \in overtaken[view.user] \/ LatestTerminal(view.user, r) = "succeeded"
    BY <2>1, OnlyTheLast DEF TablesGood
  <2> QED BY <1>3, <1>4, <2>2
<1>6. view.user \in User
  BY <1>2 DEF Framed, ViewType
<1> QED
  BY <1>2, <1>4, <1>5, <1>6 DEF Framed, ViewGood, ViewStage, PhaseSeen, CommunitySeen,
     ContinueLeadsToWork, Shown

LEMMA ActiveRead ==
    ASSUME TablesGood, ViewGood, ReadActive
    PROVE  ViewGood'
<1> DEFINE seen == [active |-> Active(view.user) \cap view.cat.requirements[view.phase]]
<1>1. Load("active", "lock", seen) /\ DOMAIN seen = {"active"}
  BY DEF ReadActive
<1>2. Framed
  BY <1>1, QueryFrame
<1>3. seen["active"] = Active(view.user) \cap view.cat.requirements[view.phase]
  OBVIOUS
<1> HIDE DEF seen
<1>4. /\ view.at = "active" /\ view'.at = "lock"
      /\ view'.phase = view.phase /\ view'.verified = view.verified
      /\ view'.latest = view.latest /\ view'.active = seen["active"]
  BY <1>1, <1>2, Loaded DEF Framed, Field
<1>5. ASSUME Same(view.user)
      PROVE  view'.active \cap view'.verified \subseteq overtaken[view.user]
  <2>1. view.verified \subseteq Succeeded(view.user) /\ view.user \in User
    BY <1>2, <1>5 DEF Framed, ViewType, PhaseSeen
  <2>2. \A r \in Requirement :
            r \in Succeeded(view.user) /\ r \in Active(view.user) =>
                r \in overtaken[view.user]
    BY <2>1, OnlyTheLast DEF TablesGood
  <2>3. Active(view.user) \subseteq Requirement
    BY DEF Active
  <2> QED BY <1>3, <1>4, <2>1, <2>2, <2>3
<1>6. view.user \in User
  BY <1>2 DEF Framed, ViewType
<1> QED
  BY <1>2, <1>4, <1>5, <1>6 DEF Framed, ViewGood, ViewStage, PhaseSeen, CommunitySeen,
     ContinueLeadsToWork, Shown

LEMMA LockRead ==
    ASSUME TablesGood, ViewGood, ReadLock
    PROVE  ViewGood'
<1> DEFINE seen == [locked |-> Locked(view.user, view.cat, view.phase)]
<1>1. Load("lock", "shown", seen) /\ DOMAIN seen = {"locked"}
  BY DEF ReadLock
<1>2. Framed
  BY <1>1, QueryFrame
<1>3. seen["locked"] = Locked(view.user, view.cat, view.phase)
  OBVIOUS
<1> HIDE DEF seen
<1>4. /\ view.at = "lock" /\ view'.at = "shown"
      /\ view'.phase = view.phase /\ view'.verified = view.verified
      /\ view'.latest = view.latest /\ view'.active = view.active
      /\ view'.locked = seen["locked"]
  BY <1>1, <1>2, Loaded DEF Framed, Field
<1>5. ASSUME ~view'.locked
      PROVE  \A prereq \in Prerequisite(view.phase) :
                 RequirementsOf(view.cat, prereq) \subseteq Succeeded(view.user)
  <2>1. view.user \in User /\ view.cat \in Catalogs /\ view.phase \in 0..7
    BY <1>2, CatalogAssumption DEF Framed, ViewType
  <2> QED BY <1>3, <1>4, <1>5, <2>1, GateIsOpen
<1>6. view.user \in User
  BY <1>2 DEF Framed, ViewType
<1> QED
  BY <1>2, <1>4, <1>5, <1>6 DEF Framed, ViewGood, ViewStage, PhaseSeen, CommunitySeen,
     ContinueLeadsToWork, Shown

(* Continue: the phase it names comes after complete ones only, and the    *)
(* part of it that it names is one with work left, as far as was counted.  *)
LEMMA ContinueRead ==
    ASSUME ViewGood, ReadContinue
    PROVE  ViewGood'
<1> DEFINE way == IF ProgramComplete THEN <<>>
                  ELSE Destination(CurrentPhase, done[view.user])
           seen == [phase |-> CurrentPhase, destination |-> way]
<1>1. Load("continue", "shown", seen) /\ DOMAIN seen = {"phase", "destination"}
  BY DEF ReadContinue
<1>2. view # None /\ ViewType
  BY DEF ViewGood, ReadContinue, Load
<1>3. seen["phase"] = CurrentPhase /\ seen["destination"] = way
  OBVIOUS
<1>4. CurrentPhase \in view.cat.phases
  BY <1>2, CurrentPhaseIs
<1> HIDE DEF seen, way
<1>5. Framed
  BY <1>1, <1>3, <1>4, QueryFrame
<1>6. /\ view.at = "continue" /\ view'.at = "shown"
      /\ view'.phase = CurrentPhase /\ view'.destination = way
      /\ view'.steps = view.steps /\ view'.verified = view.verified
  BY <1>1, <1>3, <1>5, Loaded DEF Framed, Field
<1>7. view.user \in User /\ view.kind \notin {"phase", "community"}
  BY <1>5, <1>6 DEF Framed, ViewType, ViewStage
<1>8. ASSUME view'.destination # <<>>
      PROVE  /\ \A prereq \in Prerequisite(CurrentPhase) :
                  RequirementsOf(view.cat, prereq) \subseteq view.verified
             /\ view'.destination[1] # "topic" /\ LearningComplete(CurrentPhase) =>
                  /\ view'.destination[1] = "verification"
                  /\ ~(view.cat.requirements[CurrentPhase] \subseteq view.verified)
  <2>1. ~ProgramComplete /\ way = Destination(CurrentPhase, done[view.user])
    BY <1>6, <1>8 DEF way
  <2>2. ASSUME NEW prereq \in Prerequisite(CurrentPhase)
        PROVE  RequirementsOf(view.cat, prereq) \subseteq view.verified
    <3>1. CASE prereq \notin view.cat.phases
      BY <3>1 DEF RequirementsOf
    <3>2. CASE prereq \in view.cat.phases
      <4>1. prereq < CurrentPhase
        BY <2>2 DEF Prerequisite
      <4>2. VerificationComplete(prereq)
        BY <1>2, <2>1, <3>2, <4>1, CurrentPhaseIs DEF PhaseComplete
      <4> QED BY <1>2, <3>2, <4>2, CountedPhase DEF RequirementsOf
    <3> QED BY <3>1, <3>2
  <2>3. ASSUME view'.destination[1] # "topic", LearningComplete(CurrentPhase)
        PROVE  /\ view'.destination[1] = "verification"
               /\ ~(view.cat.requirements[CurrentPhase] \subseteq view.verified)
    <3>1. ~VerificationComplete(CurrentPhase)
      BY <1>2, <2>1, <2>3, CurrentPhaseIs DEF PhaseComplete
    <3>2. ~(view.cat.requirements[CurrentPhase] \subseteq view.verified)
      BY <1>2, <1>4, <3>1, CountedPhase
    <3>3. view.cat.requirements[CurrentPhase] # {}
      BY <3>2
    <3> QED BY <1>6, <2>1, <2>3, <3>2, <3>3 DEF Destination
  <2> QED BY <2>2, <2>3
<1>9. ContinueLeadsToWork'
  <2>1. LearningComplete(CurrentPhase) <=>
            StepsOf(view.cat, CurrentPhase) \subseteq view.steps
    BY <1>2, <1>4, CountedPhase
  <2>2. LearningComplete(view.phase)' <=>
            StepsOf(view.cat, CurrentPhase) \subseteq view.steps
    <3>1. LearningComplete(view.phase)' <=>
              Cardinality(view'.steps \cap StepsOf(view'.cat, view'.phase))
                >= Cardinality(StepsOf(view'.cat, view'.phase))
      BY DEF LearningComplete, Checked, StepsOf
    <3>2. LearningComplete(CurrentPhase) <=>
              Cardinality(view.steps \cap StepsOf(view.cat, CurrentPhase))
                >= Cardinality(StepsOf(view.cat, CurrentPhase))
      BY DEF LearningComplete, Checked
    <3> QED BY <1>5, <1>6, <2>1, <3>1, <3>2 DEF Framed
  <2> QED BY <1>5, <1>6, <1>8, <2>1, <2>2 DEF ContinueLeadsToWork, Framed
<1> QED
  BY <1>5, <1>6, <1>7, <1>9 DEF Framed, ViewGood, ViewStage, PhaseSeen, CommunitySeen

LEMMA CompletionsRead ==
    ASSUME TablesGood, ViewGood, ReadCompletions
    PROVE  ViewGood'
<1> DEFINE seen == [completers |->
              [p \in Completable(view.cat) |-> Completers(view.cat, p)]]
<1>1. Load("completions", "accounts", seen) /\ DOMAIN seen = {"completers"}
  BY DEF ReadCompletions
<1>2. Framed
  BY <1>1, QueryFrame
<1>3. seen["completers"] = [p \in Completable(view.cat) |-> Completers(view.cat, p)]
  OBVIOUS
<1> HIDE DEF seen
<1>4. /\ view.at = "completions" /\ view'.at = "accounts"
      /\ view'.verified = view.verified /\ view'.completers = seen["completers"]
  BY <1>1, <1>2, Loaded DEF Framed, Field
<1>5. ASSUME NEW p \in Completable(view.cat)
      PROVE  /\ view'.completers[p] \subseteq User
             /\ \A u \in view'.completers[p] :
                  /\ view.cat.requirements[p] \subseteq Succeeded(u)
                  /\ u \in alive
  <2>1. view'.completers[p] = Completers(view.cat, p)
    BY <1>3, <1>4
  <2>2. p \in view.cat.phases /\ view.cat \in Catalogs
    BY <1>2 DEF Completable, Framed, ViewType
  <2>3. ASSUME NEW u \in Completers(view.cat, p)
        PROVE  u \in User /\ view.cat.requirements[p] \subseteq Succeeded(u) /\ u \in alive
    <3>1. u \in User /\ view.cat.requirements[p] \subseteq Succeeded(u)
      BY <2>2, Asked, Counts DEF Completers, AllSucceeded
    <3>2. PICK r \in Requirement : r \in Succeeded(u)
      BY <3>1 DEF Completable, Succeeded
    <3>3. rows[u][r] # <<>>
      BY <3>1, <3>2, OnlyTheLast DEF TablesGood
    <3> QED BY <3>1, <3>3 DEF TablesGood, RowsOfAlive
  <2> QED BY <2>1, <2>3
<1>6. view.user \in User /\ view.kind = "community"
  BY <1>2, <1>4 DEF Framed, ViewType, ViewStage
<1>7. /\ DOMAIN view'.completers = Completable(view.cat)
      /\ Completable(view.cat)' = Completable(view.cat)
  BY <1>2, <1>3, <1>4 DEF Framed, Completable
<1> QED
  BY <1>2, <1>4, <1>5, <1>6, <1>7 DEF Framed, ViewGood, ViewStage, PhaseSeen,
     CommunitySeen, ContinueLeadsToWork, Shown

LEMMA AccountsRead ==
    ASSUME ViewGood, ReadAccounts
    PROVE  ViewGood'
<1> DEFINE seen == [accounts |-> alive]
<1>1. Load("accounts", "members", seen) /\ DOMAIN seen = {"accounts"}
  BY DEF ReadAccounts
<1>2. Framed
  BY <1>1, QueryFrame
<1>3. seen["accounts"] = alive
  OBVIOUS
<1> HIDE DEF seen
<1>4. /\ view.at = "accounts" /\ view'.at = "members"
      /\ view'.verified = view.verified /\ view'.completers = view.completers
      /\ view'.accounts = alive
  BY <1>1, <1>2, <1>3, Loaded DEF Framed, Field
<1>5. view.user \in User /\ view.kind = "community"
  BY <1>2, <1>4 DEF Framed, ViewType, ViewStage
<1>6. Completable(view.cat)' = Completable(view.cat)
  BY <1>2 DEF Framed, Completable
<1>7. \A p \in Completable(view.cat) : \A u \in view.completers[p] :
          "accounts" \notin gone[u] => u \in view'.accounts
  BY <1>2, <1>4, <1>5 DEF Framed, CommunitySeen
<1> QED
  BY <1>2, <1>4, <1>5, <1>6, <1>7 DEF Framed, ViewGood, ViewStage, PhaseSeen,
     CommunitySeen, ContinueLeadsToWork, Shown

LEMMA MembersRead ==
    ASSUME ViewGood, ReadMembers
    PROVE  ViewGood'
<1> DEFINE seen == [members |-> Graduates \cap alive]
<1>1. Load("members", "shown", seen) /\ DOMAIN seen = {"members"}
  BY DEF ReadMembers
<1>2. Framed
  BY <1>1, QueryFrame
<1>3. seen["members"] \subseteq Graduates /\ seen["members"] \subseteq alive
  OBVIOUS
<1> HIDE DEF seen
<1>4. /\ view.at = "members" /\ view'.at = "shown"
      /\ view'.verified = view.verified /\ view'.completers = view.completers
      /\ view'.accounts = view.accounts /\ view'.members = seen["members"]
  BY <1>1, <1>2, Loaded DEF Framed, Field
<1>5. view.user \in User /\ view.kind = "community"
  BY <1>2, <1>4 DEF Framed, ViewType, ViewStage
<1>6. Completable(view.cat)' = Completable(view.cat) /\ Graduates' = Graduates
  BY <1>2, <1>4 DEF Framed, Completable, Graduates
<1> QED
  BY <1>2, <1>3, <1>4, <1>5, <1>6 DEF Framed, ViewGood, ViewStage, PhaseSeen,
     CommunitySeen, ContinueLeadsToWork, Shown

LEMMA PageOpened ==
    ASSUME TablesGood, NEW u \in User, OpenPage(u)
    PROVE  ViewGood'
<1>1. PICK kind \in Pages, cat \in live : \E p \in cat.phases :
           view' =
             [kind |-> kind, user |-> u, cat |-> cat, phase |-> p, life |-> life,
              at |-> IF kind = "community" THEN "completions" ELSE "steps",
              steps |-> {}, verified |-> {}, latest |-> <<>>, active |-> {},
              locked |-> FALSE, destination |-> <<>>,
              completers |-> <<>>, accounts |-> {}, members |-> {}]
  BY DEF OpenPage
<1>2. PICK p \in cat.phases :
           view' =
             [kind |-> kind, user |-> u, cat |-> cat, phase |-> p, life |-> life,
              at |-> IF kind = "community" THEN "completions" ELSE "steps",
              steps |-> {}, verified |-> {}, latest |-> <<>>, active |-> {},
              locked |-> FALSE, destination |-> <<>>,
              completers |-> <<>>, accounts |-> {}, members |-> {}]
  BY <1>1
<1>3. /\ DOMAIN view' = Field
      /\ view'.kind = kind /\ view'.user = u /\ view'.cat = cat /\ view'.phase = p
      /\ view'.life = life /\ view'.verified = {}
      /\ view'.at = IF kind = "community" THEN "completions" ELSE "steps"
  BY <1>2 DEF Field
<1>4. life' = life /\ cat \in Catalogs
  BY DEF OpenPage, tables, TablesGood, StateType
<1>5. ViewType'
  <2>1. \A v \in User : view'.life[v] <= life'[v]
    BY <1>3, <1>4, LivesAssumption DEF TablesGood, StateType
  <2> QED BY <1>3, <1>4, <2>1 DEF ViewType, TablesGood, StateType
<1> QED
  BY <1>3, <1>5 DEF ViewGood, ViewStage, PhaseSeen, CommunitySeen,
     ContinueLeadsToWork, Shown

LEMMA ViewStep ==
    ASSUME TablesGood, ViewGood, [Next]_vars
    PROVE  ViewGood'
<1>1. TablesGood' /\ SuccessKept /\ ErasuresNoted
  BY TableWrite
<1>2. CASE view' = view
  BY <1>1, <1>2, WriteKeepsView
<1>3. CASE Page
  <2>1. CASE ClosePage
    BY <2>1 DEF ClosePage, ViewGood
  <2> QED
    BY <1>3, <2>1, StepsRead, SucceededRead, LatestRead, ActiveRead, LockRead,
       ContinueRead, CompletionsRead, AccountsRead, MembersRead DEF Page
<1>4. CASE Deploy
  BY <1>2, <1>4 DEF Deploy
<1>5. ASSUME NEW u \in User, Learner(u) PROVE ViewGood'
  <2>1. CASE OpenPage(u)
    BY <2>1, PageOpened
  <2> QED
    BY <1>2, <1>5, <2>1 DEF Learner, CheckPreconditions, CheckSucceeded, InsertAttempt,
       Settle, Release, CompleteStep, UncompleteStep, EraseAccount, SignInAgain
<1> QED BY <1>2, <1>3, <1>4, <1>5 DEF Next, vars

(* The inductive invariant.                                                *)
LEMMA ProgressHolds == Spec => []ProgressInv
<1>1. Init => ProgressInv
  <2> SUFFICES ASSUME Init PROVE ProgressInv
    OBVIOUS
  <2> USE DEF Init
  <2>1. <<>> \in Seq(Row) /\ Len(<<>>) = 0
    OBVIOUS
  <2>2. StateType /\ LivesBounded
    BY <2>1, LivesAssumption, CatalogAssumption DEF StateType, LivesBounded
  <2>3. EarlierSettled /\ RowsOfAlive /\ GateStillOpen /\ ViewGood
    BY <2>1 DEF EarlierSettled, RowsOfAlive, GateStillOpen, ViewGood
  <2> QED BY <2>2, <2>3 DEF ProgressInv
<1>2. ProgressInv /\ [Next]_vars => ProgressInv'
  BY TableWrite, GateStep, ViewStep DEF ProgressInv, TablesGood
<1> QED BY <1>1, <1>2, PTL DEF Spec

-----------------------------------------------------------------------------
(* The theorems.                                                           *)

(* The tables and the page being rendered hold what their columns may.     *)
THEOREM TypeCorrect == Spec => []TypeOK
<1>1. ProgressInv => TypeOK
  <2> SUFFICES ASSUME ProgressInv PROVE TypeOK
    OBVIOUS
  <2>1. ASSUME NEW u \in User, NEW r \in Requirement
        PROVE  /\ ToSet(rows[u][r]) \subseteq Outcome \cup {"active"}
               /\ rows[u][r] # <<>> => "active" \notin ToSet(Front(rows[u][r]))
    <3>1. rows[u][r] \in Seq(Row)
      BY DEF ProgressInv, StateType
    <3>2. ToSet(rows[u][r]) \subseteq Outcome \cup {"active"}
      BY <3>1 DEF ToSet, Row
    <3>3. ASSUME rows[u][r] # <<>>
          PROVE  "active" \notin ToSet(Front(rows[u][r]))
      <4> DEFINE front == Front(rows[u][r])
      <4>1. /\ front \in Seq(Row) /\ Len(front) = Len(rows[u][r]) - 1
            /\ \A i \in 1..(Len(rows[u][r]) - 1) : front[i] = rows[u][r][i]
        BY <3>1, <3>3, FrontRow
      <4>2. \A i \in DOMAIN front : front[i] # "active"
        BY <4>1 DEF ProgressInv, EarlierSettled
      <4> QED BY <4>2 DEF ToSet
    <3> QED BY <3>2, <3>3
  <2> QED BY <2>1 DEF TypeOK, ProgressInv, StateType, ViewGood, ViewType
<1> QED BY <1>1, ProgressHolds, PTL

(* Within one account, an attempt of a gated phase is inserted only when   *)
(* every requirement of the phase before has succeeded, although           *)
(* create_or_get_active does not look at the gate and the request read it  *)
(* in a session it has closed since.                                       *)
THEOREM GateHolds == Spec => GateHeldWithinLife
<1>1. ProgressInv /\ [Next]_vars =>
        [\A u \in User, r \in Requirement :
           Len(rows'[u][r]) > Len(rows[u][r]) /\ pending[u].life = life[u] =>
               \A prereq \in Prerequisite(pending[u].phase) :
                   RequirementsOf(pending[u].cat, prereq) \subseteq Succeeded(u)]_vars
  <2> SUFFICES ASSUME ProgressInv, [Next]_vars,
                      NEW u \in User, NEW r \in Requirement,
                      Len(rows'[u][r]) > Len(rows[u][r]), pending[u].life = life[u]
               PROVE  \A prereq \in Prerequisite(pending[u].phase) :
                          RequirementsOf(pending[u].cat, prereq) \subseteq Succeeded(u)
    OBVIOUS
  <2>1. InsertAttempt(u) /\ u \in alive
    BY OnlyInsertsGrow DEF ProgressInv, TablesGood
  <2>2. pending[u] # None
    BY <2>1 DEF InsertAttempt, None
  <2> QED BY <2>1, <2>2 DEF ProgressInv, GateStillOpen
<1> QED BY <1>1, ProgressHolds, PTL DEF Spec, GateHeldWithinLife

(* A page is told no less than the tables of its account hold.             *)
LEMMA ShownIsGood ==
    ASSUME ProgressInv, NEW kind, Shown(kind)
    PROVE  /\ ViewType /\ PhaseSeen /\ CommunitySeen /\ ContinueLeadsToWork
           /\ view.at = "shown" /\ view.kind = kind
           /\ SameAccount <=> Same(view.user)
BY DEF ProgressInv, ViewGood, Shown, SameAccount, Same

(* A phase page whose header counts every requirement as verified shows    *)
(* every card as passed: get_latest_terminal_for_requirements and          *)
(* get_active_for_requirements run after the header's query, but a success *)
(* is the last attempt of its requirement, unless it was overtaken.        *)
THEOREM CardsAgree == Spec => []CardsAgreeUnlessOvertaken
<1>1. ProgressInv => CardsAgreeUnlessOvertaken
  <2> SUFFICES ASSUME ProgressInv, Shown("phase"), SameAccount,
                      VerificationComplete(view.phase),
                      NEW r \in view.cat.requirements[view.phase]
               PROVE  CardState(r) = "passed" \/ r \in overtaken[view.user]
    BY DEF CardsAgreeUnlessOvertaken
  <2>1. ViewType /\ PhaseSeen /\ Same(view.user)
        /\ view.at = "shown" /\ view.kind = "phase"
    BY ShownIsGood
  <2>2. r \in view.verified
    BY <2>1, CountedPhase DEF ViewType
  <2>3. \/ r \in overtaken[view.user]
        \/ view.latest[r] = "succeeded" /\ r \notin view.active
    BY <2>1, <2>2 DEF PhaseSeen
  <2> QED BY <2>3 DEF CardState
<1> QED BY <1>1, ProgressHolds, PTL

(* A phase page without a lock stays right: as long as the account lives,  *)
(* is_phase_verification_locked lets a submission from it pass.            *)
THEOREM UnlockedStaysAccepted == Spec => []UnlockedIsAccepted
<1>1. ProgressInv => UnlockedIsAccepted
  BY ShownIsGood DEF UnlockedIsAccepted, PhaseSeen
<1> QED BY <1>1, ProgressHolds, PTL

(* resolve_continue_destination leads past the gate, to work that is left. *)
THEOREM ContinueLeads == Spec => []ContinueLeadsToWork
<1>1. ProgressInv => ContinueLeadsToWork
  BY DEF ProgressInv, ViewGood, ContinueLeadsToWork, Shown
<1> QED BY <1>1, ProgressHolds, PTL

(* The status PhaseProgress derives from its counts names what is left of  *)
(* the sets that were counted.                                             *)
THEOREM StatusIsHonest == Spec => []StatusNamesWhatIsLeft
<1>1. ProgressInv => StatusNamesWhatIsLeft
  <2> SUFFICES ASSUME ProgressInv, Shown("phase") \/ Shown("dashboard"),
                      NEW p \in view.cat.phases
               PROVE  LET left == StepsOf(view.cat, p) \ view.steps
                          unverified == view.cat.requirements[p] \ view.verified
                          status == PhaseStatus(p)
                      IN /\ status = "completed" /\ SameAccount =>
                              left = {} /\ view.cat.requirements[p] \subseteq Succeeded(view.user)
                         /\ status = "learning_complete" => left = {} /\ unverified # {}
                         /\ status = "verification_complete" => left # {} /\ unverified = {}
                         /\ status = "not_started" =>
                              left = StepsOf(view.cat, p) /\ unverified = view.cat.requirements[p]
    BY DEF StatusNamesWhatIsLeft
  <2> DEFINE steps == StepsOf(view.cat, p)
             requirements == view.cat.requirements[p]
             learned == steps \subseteq view.steps
             validated == requirements \subseteq view.verified
             status == PhaseStatus(p)
  <2>1. ViewType /\ PhaseSeen /\ (SameAccount <=> Same(view.user))
    BY ShownIsGood
  <2>2. /\ LearningComplete(p) <=> learned
        /\ VerificationComplete(p) <=> validated
        /\ Checked(p) \in Nat /\ Validated(p) \in Nat
        /\ Checked(p) = 0 <=> view.steps \cap steps = {}
        /\ Validated(p) = 0 <=> view.verified \cap requirements = {}
    BY <2>1, CountedPhase
  <2>3. Checked(p) + Validated(p) > 0 <=> ~(Checked(p) = 0 /\ Validated(p) = 0)
    BY <2>2
  <2>4. /\ status = "completed" => learned /\ validated
        /\ status = "learning_complete" => learned /\ ~validated
        /\ status = "verification_complete" => ~learned /\ validated
        /\ status = "not_started" =>
             view.steps \cap steps = {} /\ view.verified \cap requirements = {}
    BY <2>2, <2>3 DEF PhaseStatus, PhaseComplete
  <2>5. SameAccount => view.verified \subseteq Succeeded(view.user)
    BY <2>1 DEF PhaseSeen
  <2>6. /\ learned => steps \ view.steps = {}
        /\ ~learned => steps \ view.steps # {}
        /\ validated => requirements \ view.verified = {}
        /\ ~validated => requirements \ view.verified # {}
        /\ view.steps \cap steps = {} => steps \ view.steps = steps
        /\ view.verified \cap requirements = {} =>
             requirements \ view.verified = requirements
    OBVIOUS
  <2>7. validated /\ SameAccount => requirements \subseteq Succeeded(view.user)
    BY <2>5
  <2> HIDE DEF status, learned, validated
  <2> QED BY <2>4, <2>6, <2>7 DEF status
<1> QED BY <1>1, ProgressHolds, PTL

(* The graduates that get_community_page_data lists have an account and    *)
(* what the catalog asks for, save for those erased in the meantime.       *)
THEOREM CommunityTellsTheTruth == Spec => []CommunityIsTruthful
<1>1. ProgressInv => CommunityIsTruthful
  <2> SUFFICES ASSUME ProgressInv, Shown("community"), NEW u \in view.members
               PROVE  /\ "shown" \notin gone[u] => u \in alive
                      /\ gone[u] \subseteq {"completions"} =>
                            AllRequirements(view.cat) \subseteq Succeeded(u)
    BY DEF CommunityIsTruthful
  <2>1. CommunitySeen /\ view.at = "shown" /\ view.kind = "community"
    BY ShownIsGood
  <2>2. "shown" \notin gone[u] => u \in alive
    BY <2>1 DEF CommunitySeen
  <2>3. ASSUME gone[u] \subseteq {"completions"}
        PROVE  AllRequirements(view.cat) \subseteq Succeeded(u)
    <3>1. \A p \in Completable(view.cat) : u \in view.completers[p]
      BY <2>1 DEF CommunitySeen, Graduates
    <3>2. \A p \in Completable(view.cat) :
              view.cat.requirements[p] \subseteq Succeeded(u)
      BY <2>1, <2>3, <3>1 DEF CommunitySeen
    <3>3. \A p \in view.cat.phases : view.cat.requirements[p] \subseteq Succeeded(u)
      BY <3>2 DEF Completable
    <3> QED BY <3>3 DEF AllRequirements
  <2> QED BY <2>2, <2>3
<1> QED BY <1>1, ProgressHolds, PTL

(* No level of list_phase_completions has a user whom the count of the     *)
(* accounts lacks, but one erased between the two queries.                 *)
THEOREM FunnelFits == Spec => []FunnelFitsAccounts
<1>1. ProgressInv => FunnelFitsAccounts
  <2> SUFFICES ASSUME ProgressInv, Shown("community")
               PROVE  FunnelFitsAccounts
    BY DEF FunnelFitsAccounts
  <2>1. CommunitySeen /\ view.at = "shown" /\ view.kind = "community"
    BY ShownIsGood
  <2> QED BY <2>1 DEF CommunitySeen, FunnelFitsAccounts
<1> QED BY <1>1, ProgressHolds, PTL
=============================================================================
