--------------------------- MODULE EvidenceProofs ---------------------------
(***************************************************************************)
(* What the grader is shown of a repository, for any files, patterns,      *)
(* sizes and caps: the loops of the collection select the right files, and *)
(* pack the longest run of them that fits.                                 *)
(***************************************************************************)
EXTENDS VerificationProofs, WellFoundedInduction

-----------------------------------------------------------------------------
(* The selection so far: the exact loop has taken a chosen file just when  *)
(* its pattern has been looked at, the directory loop when its path has,   *)
(* and what the limit shuts out comes last.                                *)
SelectionGood ==
    /\ Evidence!ToSet(selected) \subseteq Evidence!Chosen /\ Evidence!InOrder(selected)
    /\ loop = "exact" =>
         /\ at \in DOMAIN ExactPatterns \cup {1}
         /\ \A p \in Evidence!Chosen :
              p \in Evidence!ToSet(selected) <=> \E k \in 1..(at - 1) : ExactPatterns[k] = Fold[p]
    /\ loop = "directories" =>
         \A p \in Evidence!Chosen :
              p \in Evidence!ToSet(selected) <=> Fold[p] \in Evidence!ToSet(ExactPatterns) \/ p < at
    /\ loop = "limit" =>
         /\ at = 1
         /\ \A p \in Evidence!Chosen \ Evidence!ToSet(selected) :
              /\ Len(selected) >= MaxFiles
              /\ \A q \in Evidence!ToSet(selected) : Evidence!Precedes(q, p)
    /\ Evidence!SelectionIsChoice

(* What has been fetched is what can be read of the files passed.          *)
FetchedGood ==
    /\ Evidence!InOrder(fetched)
    /\ loop \in {"exact", "directories", "limit"} => fetched = <<>>
    /\ loop = "fetch" =>
         /\ at \in DOMAIN selected
         /\ Evidence!ToSet(fetched) = {selected[i] : i \in 1..(at - 1)} \cap readable
    /\ loop \in {"pack", "done"} => Evidence!ToSet(fetched) = Evidence!ToSet(selected) \cap readable

(* Packing stands right behind what it has packed.                         *)
PackedGood ==
    /\ loop \notin {"pack", "done"} => items = <<>>
    /\ loop = "pack" => at = Len(items) + 1 /\ (at \in DOMAIN fetched \/ fetched = <<>>)
    /\ Evidence!BundleIsLongestFit

EvidenceInv == Evidence!TypeOK /\ SelectionGood /\ FetchedGood /\ PackedGood

-----------------------------------------------------------------------------
(* Numbers.                                                                *)
LEMMA LeastOf ==
    ASSUME NEW S, S \subseteq Nat, S # {}
    PROVE  \E m \in S : \A n \in S : m <= n
<1>. DEFINE less == OpToRel(<, Nat)
<1>1. IsWellFoundedOn(less, Nat)
  BY NatLessThanWellFounded
<1>2. \A x, y \in Nat : y < x => <<y, x>> \in less
  BY DEF OpToRel
<1>. HIDE DEF less
<1>3. PICK m \in S : \A n \in S : ~(<<n, m>> \in less)
  BY <1>1, WFMin
<1>4. ASSUME NEW n \in S PROVE m <= n
  <2>1. m \in Nat /\ n \in Nat /\ ~(n < m)
    BY <1>2, <1>3, <1>4
  <2> QED BY <2>1
<1> QED BY <1>4

LEMMA SetInduction ==
    ASSUME NEW T, 0 \in T, \A n \in Nat : n \in T => n + 1 \in T
    PROVE  \A n \in Nat : n \in T
<1>1. SUFFICES ASSUME Nat \ T # {} PROVE FALSE
  OBVIOUS
<1>2. PICK m \in Nat \ T : \A n \in Nat \ T : m <= n
  <2>1. Nat \ T \subseteq Nat
    OBVIOUS
  <2> QED BY <1>1, <2>1, LeastOf
<1>3. m # 0 /\ m - 1 \in Nat /\ ~(m <= m - 1) /\ (m - 1) + 1 = m
  BY <1>2
<1>4. m - 1 \in T
  BY <1>2, <1>3
<1> QED BY <1>2, <1>3, <1>4

-----------------------------------------------------------------------------
(* Lists of files.                                                         *)
LEMMA AppendFacts ==
    ASSUME NEW S, NEW s \in Seq(S), NEW x \in S
    PROVE  /\ Append(s, x) \in Seq(S) /\ Len(s) \in Nat /\ DOMAIN s = 1..Len(s)
           /\ Len(Append(s, x)) = Len(s) + 1
           /\ DOMAIN Append(s, x) = 1..(Len(s) + 1)
           /\ \A i \in 1..Len(s) : Append(s, x)[i] = s[i]
           /\ Append(s, x)[Len(s) + 1] = x
  OBVIOUS

LEMMA AppendSet ==
    ASSUME NEW S, NEW s \in Seq(S), NEW x \in S
    PROVE  Evidence!ToSet(Append(s, x)) = Evidence!ToSet(s) \cup {x}
<1>. DEFINE t == Append(s, x)
<1>1. /\ Len(s) \in Nat /\ DOMAIN s = 1..Len(s) /\ DOMAIN t = 1..(Len(s) + 1)
      /\ \A i \in 1..Len(s) : t[i] = s[i]
      /\ t[Len(s) + 1] = x
  BY AppendFacts
<1>. HIDE DEF t
<1>2. Evidence!ToSet(t) = Evidence!ToSet(s) \cup {x}
  BY <1>1 DEF Evidence!ToSet
<1> QED BY <1>2 DEF t

LEMMA AppendInOrder ==
    ASSUME NEW S, NEW s \in Seq(S), NEW x \in S, Evidence!InOrder(s),
           \A q \in Evidence!ToSet(s) : Evidence!Precedes(q, x)
    PROVE  Evidence!InOrder(Append(s, x))
<1>. DEFINE t == Append(s, x)
<1>1. /\ Len(s) \in Nat /\ DOMAIN s = 1..Len(s) /\ DOMAIN t = 1..(Len(s) + 1)
      /\ \A i \in 1..Len(s) : t[i] = s[i]
      /\ t[Len(s) + 1] = x
  BY AppendFacts
<1>. HIDE DEF t
<1>2. ASSUME NEW i \in DOMAIN t, NEW j \in DOMAIN t, i < j
      PROVE  Evidence!Precedes(t[i], t[j])
  <2>1. i \in DOMAIN s /\ t[i] = s[i]
    BY <1>1, <1>2
  <2>2. CASE j = Len(s) + 1
    <3>1. t[i] \in Evidence!ToSet(s) /\ t[j] = x
      BY <1>1, <2>1, <2>2 DEF Evidence!ToSet
    <3> QED BY <3>1
  <2>3. CASE j # Len(s) + 1
    <3>1. j \in DOMAIN s /\ t[j] = s[j]
      BY <1>1, <2>3
    <3> QED BY <1>2, <2>1, <3>1 DEF Evidence!InOrder
  <2> QED BY <2>2, <2>3
<1>3. Evidence!InOrder(t)
  BY <1>2 DEF Evidence!InOrder
<1> QED BY <1>3 DEF t

LEMMA SamePrefix ==
    ASSUME NEW S, NEW s \in Seq(S), NEW t \in Seq(S), Len(s) <= Len(t),
           \A i \in 1..Len(s) : s[i] = t[i]
    PROVE  Evidence!IsPrefix(s, t) /\ (Len(s) = Len(t) => s = t)
<1>1. SubSeq(s, 1, Len(s)) = SubSeq(t, 1, Len(s))
  OBVIOUS
<1>2. Len(s) = Len(t) => s = t
  OBVIOUS
<1> QED BY <1>1, <1>2 DEF Evidence!IsPrefix

LEMMA AtMost ==
    ASSUME NEW m \in Nat, NEW n \in Nat, m <= n, ~(m < n)
    PROVE  m = n
  OBVIOUS

-----------------------------------------------------------------------------
(* The choice: every wanted name has one chosen file, its first spelling.  *)
LEMMA OneSpelling ==
    ASSUME Evidence!TypeOK,
           NEW p \in Evidence!Chosen, NEW q \in Evidence!Chosen, Fold[p] = Fold[q]
    PROVE  p = q
<1>1. p \in Nat /\ q \in Nat
  BY PolicyAssumption DEF Evidence!TypeOK, Evidence!Chosen, Evidence!Path
<1>2. p <= q /\ q <= p
  BY DEF Evidence!Chosen
<1> QED BY <1>1, <1>2

LEMMA FirstSpelling ==
    ASSUME Evidence!TypeOK,
           NEW p \in tree, Fold[p] \in Evidence!ToSet(ExactPatterns) \cup InDirectory
    PROVE  \E q \in Evidence!Chosen : Fold[q] = Fold[p] /\ q <= p
<1>. DEFINE S == {q \in tree : Fold[q] = Fold[p]}
<1>1. S \subseteq Nat /\ p \in S
  BY PolicyAssumption DEF Evidence!TypeOK, Evidence!Path
<1>2. PICK q \in S : \A r \in S : q <= r
  <2>. HIDE DEF S
  <2> QED BY <1>1, LeastOf
<1>3. q \in Evidence!Chosen
  BY <1>2 DEF Evidence!Chosen
<1> QED BY <1>1, <1>2, <1>3

LEMMA TakenByName ==
    ASSUME Evidence!TypeOK, Evidence!ToSet(selected) \subseteq Evidence!Chosen,
           NEW p \in Evidence!Chosen
    PROVE  Fold[p] \in Evidence!Folded(selected) <=> p \in Evidence!ToSet(selected)
  BY OneSpelling DEF Evidence!Folded
LEMMA ChosenKept ==
    ASSUME tree' = tree
    PROVE  Evidence!Chosen' = Evidence!Chosen
  BY DEF Evidence!Chosen

LEMMA TakeFile ==
    ASSUME Evidence!TypeOK, Evidence!ToSet(selected) \subseteq Evidence!Chosen,
           Evidence!InOrder(selected), NEW p \in Evidence!Chosen,
           \A q \in Evidence!ToSet(selected) : Evidence!Precedes(q, p)
    PROVE  /\ Append(selected, p) \in Seq(tree)
           /\ Evidence!ToSet(Append(selected, p)) = Evidence!ToSet(selected) \cup {p}
           /\ Evidence!InOrder(Append(selected, p))
<1>1. p \in tree /\ selected \in Seq(tree)
  BY DEF Evidence!Chosen, Evidence!TypeOK
<1> QED BY <1>1, AppendFacts, AppendSet, AppendInOrder

-----------------------------------------------------------------------------
(* The exact patterns: each takes the chosen file of its name, if any.     *)
LEMMA ExactKeeps ==
    ASSUME EvidenceInv, Evidence!SelectExact
    PROVE  selected' \in Seq(tree) /\ SelectionGood'
<1>. DEFINE Looked(n) == {ExactPatterns[k] : k \in 1..n}
            Taken == Evidence!ToSet(selected)
            matches == {p \in tree : /\ at \in DOMAIN ExactPatterns
                                     /\ Fold[p] = ExactPatterns[at]
                                     /\ Fold[p] \notin Evidence!Folded(selected)}
<1>1. /\ loop = "exact" /\ at \in Nat \ {0} /\ selected \in Seq(tree)
      /\ at \in DOMAIN ExactPatterns \cup {1}
      /\ Taken \subseteq Evidence!Chosen /\ Evidence!InOrder(selected)
      /\ \A p \in Evidence!Chosen : p \in Taken <=> Fold[p] \in Looked(at - 1)
  BY DEF EvidenceInv, SelectionGood, Evidence!TypeOK, Evidence!SelectExact
<1>2. /\ tree' = tree
      /\ \/ matches = {} /\ selected' = selected
         \/ \E p \in Evidence!First(matches) : selected' = Append(selected, p)
      /\ \/ at < Len(ExactPatterns) /\ at' = at + 1 /\ loop' = "exact"
         \/ ~(at < Len(ExactPatterns)) /\ at' = 1 /\ loop' = "directories"
  BY <1>1 DEF Evidence!SelectExact, Evidence!Advance
<1>3. /\ DOMAIN ExactPatterns = 1..Len(ExactPatterns) /\ Len(ExactPatterns) \in Nat
  BY PolicyAssumption DEF ToSet
<1>. HIDE DEF matches
<1>4. /\ selected' \in Seq(tree)
      /\ Evidence!ToSet(selected') \subseteq Evidence!Chosen
      /\ Evidence!InOrder(selected')
      /\ \A p \in Evidence!Chosen : p \in Evidence!ToSet(selected') <=>
              p \in Taken \/ (at \in DOMAIN ExactPatterns /\ Fold[p] = ExactPatterns[at])
  <2>1. ASSUME NEW p \in Evidence!Chosen, at \in DOMAIN ExactPatterns,
               Fold[p] = ExactPatterns[at], p \notin Taken
        PROVE  p \in matches
    BY <1>1, <2>1, TakenByName DEF EvidenceInv, matches, Evidence!Chosen
  <2>2. CASE matches = {} /\ selected' = selected
    BY <1>1, <2>1, <2>2
  <2>3. CASE \E p \in Evidence!First(matches) : selected' = Append(selected, p)
    <3>1. PICK p \in matches : /\ \A q \in matches : p <= q
                               /\ selected' = Append(selected, p)
      BY <2>3 DEF Evidence!First
    <3>2. /\ p \in tree /\ at \in DOMAIN ExactPatterns /\ Fold[p] = ExactPatterns[at]
          /\ Fold[p] \notin Evidence!Folded(selected)
      BY DEF matches
    <3>3. p \in Evidence!Chosen
      <4>1. ASSUME NEW q \in tree, Fold[q] = Fold[p] PROVE p <= q
        BY <3>1, <3>2, <4>1 DEF matches
      <4>2. Fold[p] \in Evidence!ToSet(ExactPatterns)
        BY <3>2 DEF Evidence!ToSet
      <4> QED BY <3>2, <4>1, <4>2 DEF Evidence!Chosen
    <3>4. p \notin Taken /\ Fold[p] \notin Looked(at - 1)
      BY <1>1, <3>2, <3>3, TakenByName DEF EvidenceInv
    <3>5. ASSUME NEW q \in Taken PROVE Evidence!Precedes(q, p)
      <4>1. PICK k \in 1..(at - 1) : ExactPatterns[k] = Fold[q]
        BY <1>1
      <4>2. k \in DOMAIN ExactPatterns /\ \A l \in 1..k : l \in 1..(at - 1)
        BY <1>1, <1>3, <3>2
      <4>3. \A l \in 1..k : ExactPatterns[l] # Fold[p]
        BY <3>4, <4>2
      <4> QED BY <4>1, <4>2, <4>3 DEF Evidence!Precedes
    <3>6. /\ Append(selected, p) \in Seq(tree)
          /\ Evidence!ToSet(Append(selected, p)) = Taken \cup {p}
          /\ Evidence!InOrder(Append(selected, p))
      BY <1>1, <3>3, <3>5, TakeFile DEF EvidenceInv
    <3>7. ASSUME NEW q \in Evidence!Chosen, Fold[q] = ExactPatterns[at] PROVE q = p
      BY <3>2, <3>3, <3>7, OneSpelling DEF EvidenceInv
    <3> QED BY <1>1, <3>1, <3>2, <3>3, <3>6, <3>7
  <2> QED BY <1>2, <2>2, <2>3
<1>5. Evidence!Chosen' = Evidence!Chosen
  BY <1>2, ChosenKept
<1>6. CASE at < Len(ExactPatterns) /\ at' = at + 1 /\ loop' = "exact"
  <2>1. at' \in DOMAIN ExactPatterns /\ at \in DOMAIN ExactPatterns /\ at' - 1 = at
    BY <1>1, <1>3, <1>6
  <2>2. 1..at = 1..(at - 1) \cup {at}
    BY <1>1
  <2>3. \A p \in Evidence!Chosen : p \in Evidence!ToSet(selected') <=> Fold[p] \in Looked(at)
    BY <1>1, <1>4, <2>1, <2>2
  <2> QED BY <1>4, <1>5, <1>6, <2>1, <2>3 DEF SelectionGood, Evidence!SelectionIsChoice
<1>7. CASE ~(at < Len(ExactPatterns)) /\ at' = 1 /\ loop' = "directories"
  <2>1. \A p \in Evidence!Chosen :
             p \in Evidence!ToSet(selected') <=> Fold[p] \in Evidence!ToSet(ExactPatterns)
    <3>1. CASE at \in DOMAIN ExactPatterns
      <4>1. at = Len(ExactPatterns)
        <5>1. at \in Nat /\ Len(ExactPatterns) \in Nat /\ at \in 1..Len(ExactPatterns)
          BY <1>1, <1>3, <3>1
        <5>2. ~(at < Len(ExactPatterns))
          BY <1>7
        <5> QED BY <5>1, <5>2, AtMost
      <4>2. 1..at = 1..(at - 1) \cup {at}
        BY <1>1
      <4>3. DOMAIN ExactPatterns = 1..(at - 1) \cup {at}
        BY <1>3, <4>1, <4>2
      <4> QED BY <1>1, <1>4, <4>3 DEF Evidence!ToSet
    <3>2. CASE at \notin DOMAIN ExactPatterns
      <4>1. at = 1 /\ DOMAIN ExactPatterns = {} /\ 1..(at - 1) = {}
        BY <1>1, <1>3, <3>2
      <4> QED BY <1>1, <1>4, <3>2, <4>1 DEF Evidence!ToSet
    <3> QED BY <3>1, <3>2
  <2>2. \A p \in Evidence!Chosen : p \in Nat /\ ~(p < 1)
    BY PolicyAssumption DEF EvidenceInv, Evidence!TypeOK, Evidence!Chosen, Evidence!Path
  <2> QED BY <1>4, <1>5, <1>7, <2>1, <2>2 DEF SelectionGood, Evidence!SelectionIsChoice
<1> QED BY <1>2, <1>4, <1>6, <1>7
(* The directories: a file is taken unless its name has been, and what the *)
(* limit cuts off comes after everything taken.                            *)
LEMMA DirectoryKeeps ==
    ASSUME EvidenceInv, Evidence!SelectDirectory
    PROVE  selected' \in Seq(tree) /\ at' \in Nat \ {0} /\ SelectionGood'
<1>. DEFINE Taken == Evidence!ToSet(selected)
            Exact == Evidence!ToSet(ExactPatterns)
<1>1. /\ loop = "directories" /\ at \in Nat \ {0} /\ selected \in Seq(tree)
      /\ Taken \subseteq Evidence!Chosen /\ Evidence!InOrder(selected)
      /\ \A p \in Evidence!Chosen : p \in Taken <=> Fold[p] \in Exact \/ p < at
  BY DEF EvidenceInv, SelectionGood, Evidence!TypeOK, Evidence!SelectDirectory
<1>2. tree' = tree /\ tree \subseteq Nat \ {0} /\ Evidence!Chosen \subseteq tree
  BY PolicyAssumption DEF EvidenceInv, Evidence!TypeOK, Evidence!Path, Evidence!Chosen,
     Evidence!SelectDirectory
<1>3. Evidence!Chosen' = Evidence!Chosen
  BY <1>2, ChosenKept
<1>4. ASSUME NEW q \in Taken, NEW p \in tree, Fold[p] \notin Exact, Fold[q] \in Exact \/ q < p
      PROVE  Evidence!Precedes(q, p)
  <2>1. CASE Fold[q] \in Exact
    <3>1. PICK k \in DOMAIN ExactPatterns : ExactPatterns[k] = Fold[q]
      BY <2>1 DEF Evidence!ToSet
    <3>2. \A l \in 1..k : l \in DOMAIN ExactPatterns
      BY PolicyAssumption DEF ToSet
    <3>3. \A l \in 1..k : ExactPatterns[l] # Fold[p]
      BY <1>4, <3>2 DEF Evidence!ToSet
    <3> QED BY <3>1, <3>3 DEF Evidence!Precedes
  <2>2. CASE Fold[q] \notin Exact
    BY <1>4, <2>2 DEF Evidence!Precedes
  <2> QED BY <2>1, <2>2
<1>5. CASE Evidence!Left = {} /\ at' = 1 /\ loop' = "limit" /\ selected' = selected
  <2>1. \A p \in Evidence!Chosen : p < at
    BY <1>1, <1>2, <1>5 DEF Evidence!Left
  <2>2. Evidence!Chosen \ Taken = {}
    BY <1>1, <2>1
  <2> QED BY <1>1, <1>3, <1>5, <2>2 DEF SelectionGood, Evidence!SelectionIsChoice
<1>6. ASSUME NEW p \in Evidence!First(Evidence!Left)
      PROVE  /\ p \in tree /\ at <= p
             /\ \A q \in Evidence!Chosen : q < p + 1 <=> q < at \/ q = p
             /\ p \in Evidence!Chosen => (p \in Taken <=> Fold[p] \in Exact)
             /\ \A q \in Taken : Fold[q] \in Exact \/ q < p
  <2>1. p \in tree /\ at <= p /\ \A q \in tree : q >= at => p <= q
    BY <1>1, <1>2 DEF Evidence!First, Evidence!Left
  <2>2. \A q \in tree : q < p + 1 <=> q < at \/ q = p
    BY <1>1, <1>2, <2>1
  <2>3. \A q \in tree : q < at => q < p
    BY <1>1, <1>2, <2>1
  <2>4. ~(p < at)
    BY <1>1, <1>2, <2>1
  <2> QED BY <1>1, <1>2, <2>1, <2>2, <2>3, <2>4
<1>7. ASSUME NEW p \in Evidence!First(Evidence!Left), Fold[p] \in Evidence!Folded(selected),
             at' = p + 1, loop' = loop, selected' = selected
      PROVE  selected' \in Seq(tree) /\ at' \in Nat \ {0} /\ SelectionGood'
  <2>1. p \in Evidence!Chosen => p \in Taken
    BY <1>1, <1>7, TakenByName DEF EvidenceInv
  <2>2. \A q \in Evidence!Chosen : q \in Taken <=> Fold[q] \in Exact \/ q < p + 1
    BY <1>1, <1>6, <2>1
  <2>3. at' \in Nat \ {0}
    <3>1. p \in Nat \ {0} /\ at' = p + 1
      BY <1>2, <1>6, <1>7
    <3> QED BY <3>1
  <2> QED BY <1>1, <1>3, <1>7, <2>2, <2>3 DEF SelectionGood, Evidence!SelectionIsChoice
<1>8. ASSUME NEW p \in Evidence!First(Evidence!Left), Fold[p] \notin Evidence!Folded(selected),
             selected' = IF Fold[p] \in InDirectory THEN Append(selected, p) ELSE selected,
             \/ Len(selected') >= MaxFiles /\ at' = 1 /\ loop' = "limit"
             \/ at' = p + 1 /\ loop' = loop
      PROVE  selected' \in Seq(tree) /\ at' \in Nat \ {0} /\ SelectionGood'
  <2>1. p \in tree /\ at <= p /\ p \in Nat \ {0}
    BY <1>2, <1>6, <1>8
  <2>2. ASSUME NEW q \in Evidence!Chosen, Fold[q] = Fold[p] PROVE q \notin Taken
    BY <1>1, <1>8, <2>2, TakenByName DEF EvidenceInv
  <2>3. Fold[p] \notin Exact
    <3>1. SUFFICES ASSUME Fold[p] \in Exact PROVE FALSE
      OBVIOUS
    <3>2. PICK q \in Evidence!Chosen : Fold[q] = Fold[p]
      BY <2>1, <3>1, FirstSpelling DEF EvidenceInv
    <3> QED BY <1>1, <2>2, <3>1, <3>2
  <2>4. p \in Evidence!Chosen <=> Fold[p] \in InDirectory
    <3>1. ASSUME Fold[p] \in InDirectory PROVE p \in Evidence!Chosen
      <4>1. PICK q \in Evidence!Chosen : Fold[q] = Fold[p] /\ q <= p
        BY <2>1, <3>1, FirstSpelling DEF EvidenceInv
      <4>2. ~(q < at)
        BY <1>1, <2>2, <4>1
      <4>3. q \in tree /\ q \in Evidence!Left
        BY <1>1, <1>2, <4>1, <4>2 DEF Evidence!Left
      <4>4. p <= q
        BY <1>8, <4>3 DEF Evidence!First
      <4>5. p = q
        BY <1>2, <2>1, <4>1, <4>3, <4>4
      <4> QED BY <4>1, <4>5
    <3>2. p \in Evidence!Chosen => Fold[p] \in InDirectory
      BY <2>3 DEF Evidence!Chosen
    <3> QED BY <3>1, <3>2
  <2>5. \A q \in Taken : Evidence!Precedes(q, p)
    BY <1>4, <1>6, <1>8, <2>1, <2>3
  <2>6. /\ selected' \in Seq(tree) /\ Evidence!InOrder(selected')
        /\ Evidence!ToSet(selected') = Taken \cup ({p} \cap Evidence!Chosen)
    <3>1. CASE p \in Evidence!Chosen
      BY <1>1, <1>8, <2>4, <2>5, <3>1, TakeFile DEF EvidenceInv
    <3>2. CASE p \notin Evidence!Chosen
      BY <1>1, <1>8, <2>4, <3>2
    <3> QED BY <3>1, <3>2
  <2>7. \A q \in Evidence!Chosen :
             q \in Evidence!ToSet(selected') <=> Fold[q] \in Exact \/ q < p + 1
    BY <1>1, <1>6, <1>8, <2>6
  <2>8. ASSUME NEW q \in Evidence!Chosen \ Evidence!ToSet(selected'),
               NEW r \in Evidence!ToSet(selected')
        PROVE  Evidence!Precedes(r, q)
    <3>1. Fold[q] \notin Exact /\ ~(q < p + 1) /\ q \in tree
      BY <1>2, <2>7
    <3>2. r \in Evidence!Chosen /\ (Fold[r] \in Exact \/ r < p + 1)
      BY <1>1, <2>6, <2>7
    <3>3. Fold[r] \in Exact \/ r < q
      BY <1>2, <2>1, <3>1, <3>2
    <3>4. CASE r \in Taken
      BY <1>4, <3>1, <3>3, <3>4
    <3>5. CASE r = p
      BY <2>3, <3>1, <3>3, <3>5 DEF Evidence!Precedes
    <3> QED BY <2>6, <3>4, <3>5
  <2>9. Evidence!ToSet(selected') \subseteq Evidence!Chosen
    BY <1>1, <2>6
  <2>10. CASE Len(selected') >= MaxFiles /\ at' = 1 /\ loop' = "limit"
    BY <1>3, <2>6, <2>8, <2>9, <2>10 DEF SelectionGood, Evidence!SelectionIsChoice
  <2>11. CASE at' = p + 1 /\ loop' = loop
    BY <1>1, <1>3, <2>1, <2>6, <2>7, <2>9, <2>11 DEF SelectionGood, Evidence!SelectionIsChoice
  <2> QED BY <1>8, <2>10, <2>11
<1> QED BY <1>5, <1>7, <1>8 DEF Evidence!SelectDirectory

LEMMA LimitKeeps ==
    ASSUME EvidenceInv, Evidence!LimitSelection
    PROVE  selected' \in Seq(tree) /\ SelectionGood'
<1>. DEFINE n == IF Len(selected) > MaxFiles THEN MaxFiles ELSE Len(selected)
<1>1. /\ loop = "limit" /\ selected \in Seq(tree) /\ MaxFiles \in Nat
      /\ Evidence!ToSet(selected) \subseteq Evidence!Chosen /\ Evidence!InOrder(selected)
      /\ \A p \in Evidence!Chosen \ Evidence!ToSet(selected) :
           /\ Len(selected) >= MaxFiles
           /\ \A q \in Evidence!ToSet(selected) : Evidence!Precedes(q, p)
  BY PolicyAssumption DEF EvidenceInv, SelectionGood, Evidence!TypeOK, Evidence!LimitSelection
<1>2. /\ tree' = tree /\ at' = at /\ selected' = SubSeq(selected, 1, n)
      /\ loop' \in {"fetch", "done"}
  BY DEF Evidence!LimitSelection
<1>3. /\ Len(selected) \in Nat /\ DOMAIN selected = 1..Len(selected)
      /\ n \in Nat /\ n <= Len(selected) /\ n <= MaxFiles
  BY <1>1
<1>4. n = Len(selected) \/ (n = MaxFiles /\ n < Len(selected))
  BY <1>1, <1>3
<1>. HIDE DEF n
<1>5. Len(selected) >= MaxFiles => n = MaxFiles
  <2>1. MaxFiles \in Nat /\ Len(selected) \in Nat /\ n \in Nat /\ n <= MaxFiles
    BY <1>1, <1>3
  <2> QED BY <1>4, <2>1
<1>6. /\ selected' \in Seq(tree) /\ Len(selected') = n /\ DOMAIN selected' = 1..n
      /\ \A i \in 1..n : i \in DOMAIN selected /\ selected'[i] = selected[i]
  BY <1>1, <1>2, <1>3
<1>7. Evidence!ToSet(selected') \subseteq Evidence!ToSet(selected)
  BY <1>6 DEF Evidence!ToSet
<1>8. Evidence!InOrder(selected')
  BY <1>1, <1>6 DEF Evidence!InOrder
<1>9. ASSUME NEW p \in Evidence!Chosen \ Evidence!ToSet(selected')
      PROVE  n = MaxFiles /\ \A q \in Evidence!ToSet(selected') : Evidence!Precedes(q, p)
  <2>1. CASE p \notin Evidence!ToSet(selected)
    BY <1>1, <1>5, <1>7, <2>1
  <2>2. CASE p \in Evidence!ToSet(selected)
    <3>1. PICK j \in DOMAIN selected : selected[j] = p
      BY <2>2 DEF Evidence!ToSet
    <3>2. j \notin 1..n
      BY <1>6, <1>9, <3>1 DEF Evidence!ToSet
    <3>3. n = MaxFiles
      BY <1>3, <1>4, <3>2
    <3>4. ASSUME NEW q \in Evidence!ToSet(selected') PROVE Evidence!Precedes(q, p)
      <4>1. PICK i \in 1..n : selected'[i] = q
        BY <1>6 DEF Evidence!ToSet
      <4>2. i \in DOMAIN selected /\ i < j /\ selected[i] = q
        BY <1>3, <1>6, <3>2, <4>1
      <4> QED BY <1>1, <3>1, <4>2 DEF Evidence!InOrder
    <3> QED BY <3>3, <3>4
  <2> QED BY <2>1, <2>2
<1>10. Evidence!Chosen' = Evidence!Chosen
  BY <1>2, ChosenKept
<1> QED BY <1>1, <1>2, <1>3, <1>6, <1>7, <1>8, <1>9, <1>10
        DEF SelectionGood, Evidence!SelectionIsChoice
-----------------------------------------------------------------------------
(* The weight of a list is the last of its running totals.                 *)
Running(f, s) ==
    f[0] = 0 /\ \A i \in 1..Len(s) : f[i] = f[i - 1] + Evidence!Stored(s[i])

LEMMA StoredIsNat ==
    ASSUME Evidence!TypeOK, NEW p \in tree
    PROVE  Evidence!Stored(p) \in Nat
<1>1. size[p] \in Nat /\ MaxFileSize \in Nat
  BY PolicyAssumption DEF Evidence!TypeOK
<1> QED BY <1>1 DEF Evidence!Stored

LEMMA TotalsExist ==
    ASSUME Evidence!TypeOK, NEW s \in Seq(tree)
    PROVE  \E f \in [0..Len(s) -> Nat] : Running(f, s)
<1>. DEFINE Upto(f, n) ==
              f[0] = 0 /\ \A i \in 1..n : f[i] = f[i - 1] + Evidence!Stored(s[i])
            T == {n \in Nat : n <= Len(s) => \E f \in [0..n -> Nat] : Upto(f, n)}
<1>1. 0 \in T
  <2>1. [i \in 0..0 |-> 0] \in [0..0 -> Nat] /\ Upto([i \in 0..0 |-> 0], 0)
    OBVIOUS
  <2>. HIDE DEF Upto
  <2> QED BY <2>1
<1>2. ASSUME NEW n \in Nat, n \in T PROVE n + 1 \in T
  <2>1. ASSUME n + 1 <= Len(s) PROVE \E f \in [0..(n + 1) -> Nat] : Upto(f, n + 1)
    <3>1. PICK f \in [0..n -> Nat] : Upto(f, n)
      <4>1. n <= Len(s)
        BY <2>1
      <4>. HIDE DEF Upto
      <4> QED BY <1>2, <4>1
    <3>. DEFINE g == [i \in 0..(n + 1) |-> IF i = n + 1 THEN f[n] + Evidence!Stored(s[n + 1])
                                                       ELSE f[i]]
    <3>2. f[n] + Evidence!Stored(s[n + 1]) \in Nat
      <4>1. s[n + 1] \in tree /\ f[n] \in Nat
        BY <2>1
      <4>2. Evidence!Stored(s[n + 1]) \in Nat
        BY <4>1, StoredIsNat
      <4> QED BY <4>1, <4>2
    <3>3. g \in [0..(n + 1) -> Nat]
      <4>1. \A i \in 0..(n + 1) : i # n + 1 => f[i] \in Nat
        OBVIOUS
      <4> QED BY <3>2, <4>1
    <3>4. ASSUME NEW i \in 1..(n + 1) PROVE g[i] = g[i - 1] + Evidence!Stored(s[i])
      <4>1. i \in 0..(n + 1) /\ i - 1 \in 0..(n + 1) /\ i - 1 # n + 1
        OBVIOUS
      <4>2. CASE i = n + 1
        <5>1. i - 1 = n
          BY <4>2
        <5>2. g[i] = f[n] + Evidence!Stored(s[n + 1]) /\ g[i - 1] = f[n]
          BY <4>1, <4>2, <5>1
        <5> QED BY <4>2, <5>2
      <4>3. CASE i # n + 1
        <5>1. i \in 1..n /\ g[i] = f[i] /\ g[i - 1] = f[i - 1]
          BY <4>1, <4>3
        <5> QED BY <3>1, <5>1
      <4> QED BY <4>2, <4>3
    <3>5. g[0] = 0
      BY <3>1
    <3>6. Upto(g, n + 1)
      <4>. HIDE DEF g
      <4> QED BY <3>4, <3>5
    <3>. HIDE DEF Upto, g
    <3> QED BY <3>3, <3>6
  <2>. HIDE DEF Upto
  <2> QED BY <2>1
<1>. HIDE DEF T
<1>3. Len(s) \in T
  <2>1. \A n \in Nat : n \in T
    BY <1>1, <1>2, SetInduction
  <2> QED BY <2>1
<1>4. PICK f \in [0..Len(s) -> Nat] : Upto(f, Len(s))
  <2>. HIDE DEF Upto
  <2> QED BY <1>3 DEF T
<1> QED BY <1>4 DEF Running

LEMMA WeightIsTotal ==
    ASSUME NEW S, NEW s \in Seq(S), NEW f \in [0..Len(s) -> Nat], Running(f, s)
    PROVE  Evidence!Weight(s) = f[Len(s)]
<1>. DEFINE Sums(h) == [n \in 0..Len(s) |->
                          IF n = 0 THEN 0 ELSE h[n - 1] + Evidence!Stored(s[n])]
            total == CHOOSE h : h = Sums(h)
<1>1. Evidence!Weight(s) = total[Len(s)]
  BY Zenon DEF Evidence!Weight
<1>2. f = Sums(f)
  <2>1. ASSUME NEW n \in 0..Len(s) PROVE f[n] = Sums(f)[n]
    <3>1. n # 0 => n \in 1..Len(s)
      OBVIOUS
    <3> QED BY <3>1 DEF Running
  <2> QED BY <2>1
<1>3. total = Sums(total)
  <2>. HIDE DEF Sums
  <2> QED BY <1>2, Zenon
<1>. HIDE DEF total
<1>. DEFINE T == {n \in Nat : n <= Len(s) => total[n] = f[n]}
<1>4. 0 \in T
  BY <1>3 DEF Running
<1>5. ASSUME NEW n \in Nat, n \in T PROVE n + 1 \in T
  <2>1. ASSUME n + 1 <= Len(s) PROVE total[n + 1] = f[n + 1]
    <3>1. /\ n <= Len(s) /\ n + 1 \in 0..Len(s) /\ n + 1 \in 1..Len(s)
          /\ n + 1 # 0 /\ (n + 1) - 1 = n
      BY <2>1
    <3>2. total[n + 1] = total[n] + Evidence!Stored(s[n + 1])
      BY <1>3, <3>1
    <3>3. f[n + 1] = f[n] + Evidence!Stored(s[n + 1])
      BY <3>1 DEF Running
    <3> QED BY <1>5, <3>1, <3>2, <3>3
  <2> QED BY <2>1
<1>. HIDE DEF T
<1>6. Len(s) \in T
  <2>1. \A n \in Nat : n \in T
    BY <1>4, <1>5, SetInduction
  <2> QED BY <2>1
<1>7. total[Len(s)] = f[Len(s)]
  BY <1>6 DEF T
<1> QED BY <1>1, <1>7

LEMMA WeightOfNothing == Evidence!Weight(<<>>) = 0
<1>. DEFINE f == [i \in 0..0 |-> 0]
<1>1. <<>> \in Seq(tree) /\ Len(<<>>) = 0 /\ f \in [0..Len(<<>>) -> Nat] /\ f[0] = 0
      /\ Running(f, <<>>)
  BY DEF Running
<1>. HIDE DEF f
<1>2. Evidence!Weight(<<>>) = f[Len(<<>>)]
  BY <1>1, WeightIsTotal
<1> QED BY <1>1, <1>2

LEMMA WeightOfAppend ==
    ASSUME Evidence!TypeOK, NEW s \in Seq(tree), NEW x \in tree
    PROVE  /\ Evidence!Weight(s) \in Nat
           /\ Evidence!Weight(Append(s, x)) = Evidence!Weight(s) + Evidence!Stored(x)
<1>. DEFINE t == Append(s, x)
<1>1. /\ t \in Seq(tree) /\ Len(s) \in Nat /\ Len(t) = Len(s) + 1
      /\ \A i \in 1..Len(s) : t[i] = s[i]
      /\ t[Len(s) + 1] = x
  BY AppendFacts
<1>. HIDE DEF t
<1>2. PICK f \in [0..Len(t) -> Nat] : Running(f, t)
  BY <1>1, TotalsExist
<1>. DEFINE g == [i \in 0..Len(s) |-> f[i]]
<1>3. g \in [0..Len(s) -> Nat]
  <2>1. \A i \in 0..Len(s) : i \in 0..Len(t)
    BY <1>1
  <2> QED BY <2>1
<1>4. Running(g, s)
  <2>1. ASSUME NEW i \in 1..Len(s) PROVE g[i] = g[i - 1] + Evidence!Stored(s[i])
    <3>1. i \in 0..Len(s) /\ i - 1 \in 0..Len(s) /\ i \in 1..Len(t)
      BY <1>1
    <3>2. f[i] = f[i - 1] + Evidence!Stored(t[i])
      BY <1>2, <3>1 DEF Running
    <3> QED BY <1>1, <3>1, <3>2
  <2>2. g[0] = 0
    BY <1>1, <1>2 DEF Running
  <2>. HIDE DEF g
  <2> QED BY <2>1, <2>2 DEF Running
<1>5. g[Len(s)] = f[Len(s)] /\ Len(s) \in 0..Len(s)
  BY <1>1
<1>. HIDE DEF g
<1>6. Evidence!Weight(s) = f[Len(s)] /\ Evidence!Weight(s) \in Nat
  BY <1>3, <1>4, <1>5, WeightIsTotal
<1>7. Evidence!Weight(t) = f[Len(t)]
  BY <1>1, <1>2, WeightIsTotal
<1>8. f[Len(t)] = f[Len(s)] + Evidence!Stored(x)
  <2>1. Len(t) \in 1..Len(t) /\ Len(t) - 1 = Len(s) /\ t[Len(t)] = x
    BY <1>1
  <2> QED BY <1>2, <2>1 DEF Running
<1> QED BY <1>6, <1>7, <1>8 DEF t
LEMMA WeightKept ==
    ASSUME size' = size
    PROVE  /\ \A s : Evidence!Weight(s)' = Evidence!Weight(s)
           /\ \A p : Evidence!Stored(p)' = Evidence!Stored(p)
<1>1. ASSUME NEW p PROVE Evidence!Stored(p)' = Evidence!Stored(p)
  BY DEF Evidence!Stored
<1>2. ASSUME NEW s PROVE Evidence!Weight(s)' = Evidence!Weight(s)
  BY Zenon DEF Evidence!Weight, Evidence!Stored
<1> QED BY <1>1, <1>2

LEMMA NothingPacked == (Evidence!Weight(<<>>) = 0)'
  BY WeightOfNothing, PTL
-----------------------------------------------------------------------------
(* A collection that begins has selected, fetched and packed nothing.      *)
Fresh ==
    /\ tree \subseteq Evidence!Path /\ size \in [tree -> Sizes] /\ readable \subseteq tree
    /\ loop = "exact" /\ at = 1
    /\ selected = <<>> /\ fetched = <<>> /\ items = <<>>

LEMMA FreshGood == Fresh => EvidenceInv
<1> SUFFICES ASSUME Fresh PROVE EvidenceInv
  OBVIOUS
<1>1. Evidence!TypeOK
  BY DEF Fresh, Evidence!TypeOK
<1>2. /\ Evidence!ToSet(<<>>) = {} /\ Evidence!InOrder(<<>>)
      /\ Evidence!IsPrefix(<<>>, <<>>)
  BY DEF Evidence!ToSet, Evidence!InOrder, Evidence!IsPrefix
<1>3. SelectionGood
  <2>1. 1..(at - 1) = {}
    BY DEF Fresh
  <2> QED BY <1>2, <2>1 DEF Fresh, SelectionGood, Evidence!SelectionIsChoice
<1>4. FetchedGood
  BY <1>2 DEF Fresh, FetchedGood
<1>5. PackedGood
  <2>1. Evidence!Weight(items) <= MaxTotal /\ Len(items) <= MaxFiles
    BY WeightOfNothing, PolicyAssumption DEF Fresh
  <2> QED BY <1>2, <2>1 DEF Fresh, PackedGood, Evidence!BundleIsLongestFit
<1> QED BY <1>1, <1>3, <1>4, <1>5 DEF EvidenceInv

LEMMA FreshAgain ==
    ASSUME EvidenceInv, Evidence!Restart \/ Evidence!Release
    PROVE  EvidenceInv'
<1>1. CASE Evidence!Restart
  <2>1. Fresh'
    BY <1>1 DEF Evidence!Restart, EvidenceInv, Evidence!TypeOK, Fresh, Evidence!Path
  <2> QED BY <2>1, FreshGood, PTL
<1>2. CASE Evidence!Release
  <2>1. Fresh'
    BY <1>2 DEF Evidence!Release, Fresh, Evidence!Path
  <2> QED BY <2>1, FreshGood, PTL
<1> QED BY <1>1, <1>2

(* Nothing the invariant speaks of changes when the collection rests.      *)
LEMMA RestGood ==
    ASSUME EvidenceInv, UNCHANGED evidenceVars
    PROVE  EvidenceInv'
<1>1. /\ tree' = tree /\ size' = size /\ readable' = readable /\ loop' = loop /\ at' = at
      /\ selected' = selected /\ fetched' = fetched /\ items' = items
  BY DEF evidenceVars
<1>2. Evidence!Chosen' = Evidence!Chosen
  BY <1>1, ChosenKept
<1>3. Evidence!TypeOK'
  BY <1>1 DEF EvidenceInv, Evidence!TypeOK, Evidence!Path
<1>4. SelectionGood'
  BY <1>1, <1>2 DEF EvidenceInv, SelectionGood, Evidence!SelectionIsChoice
<1>5. FetchedGood'
  BY <1>1 DEF EvidenceInv, FetchedGood
<1>6. PackedGood'
  BY <1>1, WeightKept DEF EvidenceInv, PackedGood, Evidence!BundleIsLongestFit
<1> QED BY <1>3, <1>4, <1>5, <1>6 DEF EvidenceInv

(* While the selection is made, nothing is fetched or packed.              *)
LEMMA SelectingGood ==
    ASSUME EvidenceInv,
           Evidence!SelectExact \/ Evidence!SelectDirectory \/ Evidence!LimitSelection
    PROVE  EvidenceInv'
<1>1. /\ tree' = tree /\ size' = size /\ readable' = readable
      /\ fetched' = <<>> /\ items' = <<>> /\ fetched = <<>> /\ items = <<>>
  BY DEF EvidenceInv, FetchedGood, PackedGood, Evidence!SelectExact,
     Evidence!SelectDirectory, Evidence!LimitSelection
<1>2. selected' \in Seq(tree) /\ SelectionGood'
  BY ExactKeeps, DirectoryKeeps, LimitKeeps
<1>3. /\ at' \in Nat \ {0}
      /\ \/ loop' \in {"exact", "directories", "limit"}
         \/ loop' = "fetch" /\ at' \in DOMAIN selected'
         \/ loop' = "done" /\ selected' = <<>>
  <2>1. CASE Evidence!SelectExact
    BY <2>1 DEF EvidenceInv, Evidence!TypeOK, Evidence!SelectExact, Evidence!Advance
  <2>2. CASE Evidence!SelectDirectory
    BY <2>2, DirectoryKeeps DEF Evidence!SelectDirectory
  <2>3. CASE Evidence!LimitSelection
    <3>1. at = 1 /\ at' = at
      BY <2>3 DEF EvidenceInv, SelectionGood, Evidence!LimitSelection
    <3>2. selected' # <<>> => 1 \in DOMAIN selected'
      BY <1>2
    <3> QED BY <2>3, <3>1, <3>2 DEF Evidence!LimitSelection
  <2> QED BY <2>1, <2>2, <2>3
<1>4. Evidence!TypeOK'
  BY <1>1, <1>2, <1>3 DEF EvidenceInv, Evidence!TypeOK, Evidence!Path
<1>5. /\ Evidence!ToSet(<<>>) = {} /\ Evidence!InOrder(<<>>)
      /\ Evidence!IsPrefix(<<>>, <<>>)
  BY DEF Evidence!ToSet, Evidence!InOrder, Evidence!IsPrefix
<1>6. FetchedGood'
  <2>1. loop' = "fetch" => 1..(at' - 1) = {}
    <3>1. loop' = "fetch" => at' = 1
      BY DEF EvidenceInv, SelectionGood, Evidence!SelectExact, Evidence!Advance,
         Evidence!SelectDirectory, Evidence!LimitSelection
    <3> QED BY <3>1
  <2> QED BY <1>1, <1>3, <1>5, <2>1 DEF FetchedGood
<1>7. PackedGood'
  <2>1. (Evidence!Weight(items) <= MaxTotal /\ Len(items) <= MaxFiles)'
    BY <1>1, NothingPacked, PolicyAssumption
  <2> QED BY <1>1, <1>3, <1>5, <2>1 DEF PackedGood, Evidence!BundleIsLongestFit
<1> QED BY <1>2, <1>4, <1>6, <1>7 DEF EvidenceInv

(* A fetch adds the file at hand if it can be read; the files before it    *)
(* are those the selection put before it.                                  *)
LEMMA FetchGood ==
    ASSUME EvidenceInv, Evidence!Fetch
    PROVE  EvidenceInv'
<1>. DEFINE here == selected[at]
            Before(n) == {selected[i] : i \in 1..n}
<1>1. /\ tree' = tree /\ size' = size /\ readable' = readable /\ selected' = selected
      /\ items' = <<>> /\ items = <<>> /\ loop = "fetch"
      /\ fetched' = IF here \in readable THEN Append(fetched, here) ELSE fetched
      /\ \/ at < Len(selected) /\ at' = at + 1 /\ loop' = "fetch"
         \/ ~(at < Len(selected)) /\ at' = 1 /\ loop' = "pack"
  BY DEF EvidenceInv, PackedGood, Evidence!Fetch, Evidence!Advance
<1>2. /\ selected \in Seq(tree) /\ fetched \in Seq(tree) /\ readable \subseteq tree
      /\ at \in DOMAIN selected /\ at \in Nat \ {0}
      /\ Evidence!InOrder(selected) /\ Evidence!InOrder(fetched)
      /\ Evidence!ToSet(fetched) = Before(at - 1) \cap readable
  BY <1>1 DEF EvidenceInv, SelectionGood, FetchedGood, Evidence!TypeOK
<1>3. /\ DOMAIN selected = 1..Len(selected) /\ Len(selected) \in Nat /\ here \in tree
      /\ at <= Len(selected)
  BY <1>2
<1>4. ASSUME NEW q \in Evidence!ToSet(fetched) PROVE Evidence!Precedes(q, here)
  <2>1. PICK i \in 1..(at - 1) : selected[i] = q
    BY <1>2
  <2>2. i \in DOMAIN selected /\ i < at
    BY <1>2, <1>3
  <2> QED BY <1>2, <2>1, <2>2 DEF Evidence!InOrder
<1>5. Before(at) = Before(at - 1) \cup {here}
  <2>1. 1..at = 1..(at - 1) \cup {at}
    BY <1>2
  <2> QED BY <2>1
<1>. HIDE DEF here
<1>6. /\ fetched' \in Seq(tree) /\ Evidence!InOrder(fetched')
      /\ Evidence!ToSet(fetched') = Before(at) \cap readable
  <2>1. CASE here \in readable
    <3>1. /\ Append(fetched, here) \in Seq(tree) /\ Evidence!InOrder(Append(fetched, here))
          /\ Evidence!ToSet(Append(fetched, here)) = Evidence!ToSet(fetched) \cup {here}
      BY <1>2, <1>3, <1>4, AppendFacts, AppendSet, AppendInOrder
    <3>. HIDE DEF Before
    <3> QED BY <1>1, <1>2, <1>5, <2>1, <3>1
  <2>2. CASE here \notin readable
    <3>. HIDE DEF Before
    <3> QED BY <1>1, <1>2, <1>5, <2>2
  <2> QED BY <2>1, <2>2
<1>7. Evidence!Chosen' = Evidence!Chosen
  BY <1>1, ChosenKept
<1>8. SelectionGood'
  <2>1. Evidence!SelectionIsChoice'
    BY <1>1, <1>7 DEF EvidenceInv, SelectionGood, Evidence!SelectionIsChoice
  <2> QED BY <1>1, <1>7, <2>1 DEF EvidenceInv, SelectionGood
<1>9. PackedGood'
  <2>1. (Evidence!Weight(items) <= MaxTotal /\ Len(items) <= MaxFiles)'
    BY <1>1, NothingPacked, PolicyAssumption
  <2>2. Evidence!IsPrefix(<<>>, fetched')
    BY <1>6 DEF Evidence!IsPrefix
  <2>3. fetched' # <<>> => 1 \in DOMAIN fetched'
    BY <1>6
  <2>4. Len(<<>>) = 0
    OBVIOUS
  <2> QED BY <1>1, <2>1, <2>2, <2>3, <2>4 DEF PackedGood, Evidence!BundleIsLongestFit
<1>10. CASE at < Len(selected) /\ at' = at + 1 /\ loop' = "fetch"
  <2>1. at' \in DOMAIN selected /\ at' - 1 = at /\ at' \in Nat \ {0}
    BY <1>2, <1>3, <1>10
  <2>2. FetchedGood'
    BY <1>1, <1>6, <1>10, <2>1 DEF FetchedGood
  <2>3. Evidence!TypeOK'
    BY <1>1, <1>6, <1>10, <2>1 DEF EvidenceInv, Evidence!TypeOK, Evidence!Path
  <2> QED BY <1>8, <1>9, <2>2, <2>3 DEF EvidenceInv
<1>11. CASE ~(at < Len(selected)) /\ at' = 1 /\ loop' = "pack"
  <2>1. at = Len(selected)
    BY <1>2, <1>3, <1>11
  <2>2. Before(at) = Evidence!ToSet(selected)
    BY <1>3, <2>1 DEF Evidence!ToSet
  <2>3. FetchedGood'
    <3>. HIDE DEF Before
    <3> QED BY <1>1, <1>6, <1>11, <2>2 DEF FetchedGood
  <2>4. Evidence!TypeOK'
    BY <1>1, <1>6, <1>11 DEF EvidenceInv, Evidence!TypeOK, Evidence!Path
  <2> QED BY <1>8, <1>9, <2>3, <2>4 DEF EvidenceInv
<1> QED BY <1>1, <1>10, <1>11

(* Packing takes the next file while it fits, and stops for a reason.      *)
LEMMA PackGood ==
    ASSUME EvidenceInv, Evidence!Pack
    PROVE  EvidenceInv'
<1>. DEFINE stops == \/ fetched = <<>> \/ Len(items) >= MaxFiles
                     \/ Evidence!Weight(items) + Evidence!Stored(fetched[at]) > MaxTotal
<1>1. /\ tree' = tree /\ size' = size /\ readable' = readable /\ selected' = selected
      /\ fetched' = fetched /\ loop = "pack"
      /\ \/ stops /\ loop' = "done" /\ at' = at /\ items' = items
         \/ /\ ~stops /\ items' = Append(items, fetched[at])
            /\ \/ at < Len(fetched) /\ at' = at + 1 /\ loop' = "pack"
               \/ ~(at < Len(fetched)) /\ at' = 1 /\ loop' = "done"
  BY DEF Evidence!Pack, Evidence!Advance
<1>2. /\ fetched \in Seq(tree) /\ items \in Seq(tree) /\ at \in Nat \ {0}
      /\ at = Len(items) + 1 /\ (at \in DOMAIN fetched \/ fetched = <<>>)
      /\ Evidence!Weight(items) <= MaxTotal /\ Len(items) <= MaxFiles
      /\ Evidence!IsPrefix(items, fetched) /\ MaxFiles \in Nat /\ MaxTotal \in Nat
      /\ Evidence!InOrder(fetched)
      /\ Evidence!ToSet(fetched) = Evidence!ToSet(selected) \cap readable
  BY <1>1, PolicyAssumption DEF EvidenceInv, FetchedGood, PackedGood,
     Evidence!BundleIsLongestFit, Evidence!TypeOK
<1>3. /\ Len(items) \in Nat /\ Len(fetched) \in Nat /\ Len(items) <= Len(fetched)
      /\ DOMAIN fetched = 1..Len(fetched) /\ DOMAIN items = 1..Len(items)
      /\ \A i \in 1..Len(items) : items[i] = fetched[i]
  <2>1. /\ Len(items) \in Nat /\ Len(fetched) \in Nat /\ Len(items) <= Len(fetched)
        /\ SubSeq(items, 1, Len(items)) = SubSeq(fetched, 1, Len(items))
    BY <1>2 DEF Evidence!IsPrefix
  <2>2. ASSUME NEW i \in 1..Len(items) PROVE items[i] = fetched[i]
    <3>1. /\ SubSeq(items, 1, Len(items))[i] = items[i]
          /\ SubSeq(fetched, 1, Len(items))[i] = fetched[i]
      BY <1>2, <2>1
    <3> QED BY <2>1, <3>1
  <2> QED BY <1>2, <2>1, <2>2
<1>4. Evidence!Chosen' = Evidence!Chosen
  BY <1>1, ChosenKept
<1>5. SelectionGood'
  <2>1. Evidence!SelectionIsChoice'
    BY <1>1, <1>4 DEF EvidenceInv, SelectionGood, Evidence!SelectionIsChoice
  <2> QED BY <1>1, <1>4, <2>1 DEF EvidenceInv, SelectionGood
<1>6. FetchedGood'
  BY <1>1, <1>2 DEF FetchedGood
<1>7. CASE stops /\ loop' = "done" /\ at' = at /\ items' = items
  <2>1. Evidence!TypeOK'
    BY <1>1, <1>7 DEF EvidenceInv, Evidence!TypeOK, Evidence!Path
  <2>2. items # fetched =>
             \/ Len(items) = MaxFiles
             \/ Evidence!Weight(items) + Evidence!Stored(fetched[Len(items) + 1]) > MaxTotal
    <3>1. fetched = <<>> => items = fetched
      BY <1>2, <1>3
    <3>2. Len(items) >= MaxFiles => Len(items) = MaxFiles
      <4>1. /\ Len(items) \in Nat /\ MaxFiles \in Nat /\ Len(items) <= MaxFiles
        BY <1>2, <1>3
      <4>2. Len(items) >= MaxFiles => ~(Len(items) < MaxFiles)
        BY <4>1
      <4> QED BY <4>1, <4>2, AtMost, Zenon
    <3> QED BY <1>2, <1>7, <3>1, <3>2
  <2>. HIDE DEF stops
  <2>3. PackedGood'
    BY <1>1, <1>2, <1>7, <2>2, WeightKept DEF PackedGood, Evidence!BundleIsLongestFit
  <2> QED BY <1>5, <1>6, <2>1, <2>3 DEF EvidenceInv
<1>8. ASSUME ~stops, items' = Append(items, fetched[at]),
             \/ at < Len(fetched) /\ at' = at + 1 /\ loop' = "pack"
             \/ ~(at < Len(fetched)) /\ at' = 1 /\ loop' = "done"
      PROVE  EvidenceInv'
  <2>1. at \in DOMAIN fetched /\ fetched[at] \in tree /\ at <= Len(fetched)
    BY <1>2, <1>3, <1>8
  <2>2. /\ Evidence!Weight(items) \in Nat
        /\ Evidence!Weight(items') = Evidence!Weight(items) + Evidence!Stored(fetched[at])
    BY <1>2, <1>8, <2>1, WeightOfAppend DEF EvidenceInv
  <2>3. Evidence!Weight(items') <= MaxTotal
    <3>1. Evidence!Stored(fetched[at]) \in Nat
      BY <2>1, StoredIsNat DEF EvidenceInv
    <3>2. ~(Evidence!Weight(items) + Evidence!Stored(fetched[at]) > MaxTotal)
      BY <1>8
    <3> QED BY <1>2, <2>2, <3>1, <3>2
  <2>4. /\ items' \in Seq(tree) /\ Len(items') = Len(items) + 1 /\ Len(items') = at
        /\ DOMAIN items' = 1..at /\ items'[at] = fetched[at]
        /\ \A i \in 1..Len(items) : items'[i] = items[i]
    BY <1>2, <1>8, <2>1, AppendFacts
  <2>5. Len(items') <= MaxFiles
    <3>1. ~(Len(items) >= MaxFiles)
      BY <1>8
    <3> QED BY <1>2, <1>3, <2>4, <3>1
  <2>6. \A i \in 1..at : i \in DOMAIN fetched /\ items'[i] = fetched[i]
    <3>1. \A i \in 1..at : i = at \/ i \in 1..Len(items)
      BY <1>2, <1>3
    <3> QED BY <1>2, <1>3, <2>1, <2>4, <3>1
  <2>7. Evidence!IsPrefix(items', fetched) /\ (at = Len(fetched) => items' = fetched)
    BY <1>2, <2>1, <2>4, <2>6, SamePrefix
  <2>. HIDE DEF stops
  <2>8. CASE at < Len(fetched) /\ at' = at + 1 /\ loop' = "pack"
    <3>1. at' \in DOMAIN fetched /\ at' \in Nat \ {0} /\ at' = Len(items') + 1
      BY <1>2, <1>3, <2>4, <2>8
    <3>2. Evidence!TypeOK'
      BY <1>1, <2>4, <2>8, <3>1 DEF EvidenceInv, Evidence!TypeOK, Evidence!Path
    <3>3. PackedGood'
      BY <1>1, <2>3, <2>5, <2>7, <2>8, <3>1, WeightKept
         DEF PackedGood, Evidence!BundleIsLongestFit
    <3> QED BY <1>5, <1>6, <3>2, <3>3 DEF EvidenceInv
  <2>9. CASE ~(at < Len(fetched)) /\ at' = 1 /\ loop' = "done"
    <3>1. at = Len(fetched)
      <4>1. at \in Nat
        BY <1>2
      <4> QED BY <1>3, <2>1, <2>9, <4>1, AtMost, Zenon
    <3>2. items' = fetched
      BY <2>7, <3>1
    <3>3. Evidence!TypeOK'
      BY <1>1, <2>4, <2>9 DEF EvidenceInv, Evidence!TypeOK, Evidence!Path
    <3>4. PackedGood'
      BY <1>1, <1>2, <2>3, <2>5, <2>7, <2>9, <3>2, WeightKept
         DEF PackedGood, Evidence!BundleIsLongestFit
    <3> QED BY <1>5, <1>6, <3>3, <3>4 DEF EvidenceInv
  <2> QED BY <1>8, <2>8, <2>9
<1> QED BY <1>1, <1>7, <1>8

-----------------------------------------------------------------------------
LEMMA EvidenceIsInvariant == VerificationSpec => []EvidenceInv
<1>1. AllInit => EvidenceInv
  <2>1. Evidence!Init => Fresh
    BY DEF Evidence!Init, Fresh
  <2>2. Evidence!Released => Fresh
    BY DEF Evidence!Released, Fresh, Evidence!Path
  <2> QED BY <2>1, <2>2, FreshGood DEF AllInit
<1>2. EvidenceInv /\ [AllNext]_allVars => EvidenceInv'
  <2> SUFFICES ASSUME EvidenceInv, [AllNext]_allVars PROVE EvidenceInv'
    OBVIOUS
  <2>1. CASE UNCHANGED evidenceVars
    BY <2>1, RestGood
  <2>2. CASE Evidence!Restart \/ Evidence!Release
    BY <2>2, FreshAgain
  <2>3. CASE Evidence!Next
    BY <2>3, SelectingGood, FetchGood, PackGood DEF Evidence!Next
  <2> QED BY <2>1, <2>2, <2>3
          DEF AllNext, Progress, EvaluateSimple, EndChallenge, EndCollection, ChallengeStep,
              CollectionStep, EngineStep, Redeliver, OldWorkerStep, LearnerWrites, allVars
<1> QED BY <1>1, <1>2, PTL DEF VerificationSpec

(* A collection selects exactly the chosen files, in order and up to the   *)
(* limit, and the grader sees the longest run of those that can be read    *)
(* that fits the caps, however often a worker dies and begins anew.        *)
THEOREM EvidenceAlwaysRight == VerificationSpec => []EvidenceIsRight
<1>1. EvidenceInv => EvidenceIsRight
  BY DEF EvidenceInv, SelectionGood, PackedGood, EvidenceIsRight
<1> QED BY <1>1, EvidenceIsInvariant, PTL

(* With the types of the engine and of the challenge, those of the whole   *)
(* composition: the lists hold files of the tree, whatever it holds.       *)
THEOREM AllAlwaysTyped == VerificationSpec => []AllTyped
<1>1. EvidenceInv => Evidence!TypeOK
  BY DEF EvidenceInv
<1>2. TypeOK /\ Challenge!TypeOK /\ Evidence!TypeOK => AllTyped
  BY DEF AllTyped
<1> QED BY <1>1, <1>2, EvidenceIsInvariant, TypeCorrect, PTL

=============================================================================
