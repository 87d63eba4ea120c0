------------------------ MODULE CurriculumTreeProofs ------------------------
(***************************************************************************)
(* Theorems about CurriculumTree for any file names, files and edits.      *)
(***************************************************************************)
EXTENDS CurriculumTree, FiniteSetTheorems, WellFoundedInduction, TLAPS

-----------------------------------------------------------------------------
(* Induction over numbers, for a set: the least number outside it would    *)
(* have a predecessor.                                                     *)
LEMMA SetInduction ==
    ASSUME NEW T, 0 \in T, \A n \in Nat : n \in T => n + 1 \in T
    PROVE  \A n \in Nat : n \in T
<1>. DEFINE less == OpToRel(<, Nat)
            bad == Nat \ T
<1>1. IsWellFoundedOn(less, Nat)
  BY NatLessThanWellFounded
<1>2. \A x, y \in Nat : y < x => <<y, x>> \in less
  BY DEF OpToRel
<1>. HIDE DEF less
<1>3. ASSUME bad # {} PROVE FALSE
  <2>1. PICK x \in bad : \A y \in bad : ~(<<y, x>> \in less)
    <3>1. bad \subseteq Nat
      OBVIOUS
    <3>. HIDE DEF bad
    <3>2. QED
      BY <1>1, <1>3, <3>1, WFMin
  <2>2. x # 0 /\ x - 1 \in Nat
    OBVIOUS
  <2>3. x - 1 \in bad
    BY <2>2
  <2>4. <<x - 1, x>> \in less
    <3>1. x \in Nat /\ x - 1 < x
      OBVIOUS
    <3>2. QED
      BY <1>2, <2>2, <3>1
  <2>. HIDE DEF bad
  <2>5. QED
    BY <2>1, <2>3, <2>4, Zenon
<1>4. QED
  BY <1>3

(* A filter that keeps everything keeps every position where it was.       *)
LEMMA AscendingAll ==
    ASSUME NEW n \in Nat
    PROVE  Ascending(1..n) = [i \in 1..n |-> i]
<1>. DEFINE Rises(f) == \A i, j \in DOMAIN f : i < j => f[i] < f[j]
            kept == CHOOSE f \in [1..n -> 1..n] : Rises(f)
<1>1. Ascending(1..n) = kept
  <2>1. Cardinality(1..n) = n
    <3>1. n \in Int /\ 1 \in Int
      OBVIOUS
    <3>2. Cardinality(1..n) = IF 1 > n THEN 0 ELSE n - 1 + 1
      BY <3>1, FS_Interval
    <3>3. QED
      BY <3>2
  <2>2. QED
    BY <2>1 DEF Ascending
<1>2. kept \in [1..n -> 1..n] /\ Rises(kept)
  <2>1. [i \in 1..n |-> i] \in [1..n -> 1..n] /\ Rises([i \in 1..n |-> i])
    OBVIOUS
  <2>. HIDE DEF Rises
  <2>2. QED
    BY <2>1, Zenon
<1>. HIDE DEF kept
<1>3. \A i \in 1..n : kept[i] >= i
  <2>. DEFINE T == {m \in Nat : m \in 1..n => kept[m] >= m}
  <2>1. 0 \in T
    OBVIOUS
  <2>2. ASSUME NEW m \in Nat, m \in T PROVE m + 1 \in T
    <3>1. CASE m + 1 \in 1..n /\ m # 0
      <4>1. m \in 1..n /\ m < m + 1 /\ kept[m] >= m
        BY <2>2, <3>1
      <4>2. kept[m] < kept[m + 1] /\ kept[m] \in Nat /\ kept[m + 1] \in Nat
        BY <1>2, <3>1, <4>1
      <4>3. QED
        BY <4>1, <4>2
    <3>2. CASE m = 0
      BY <1>2, <3>2
    <3>3. QED
      BY <3>1, <3>2
  <2>. HIDE DEF T
  <2>3. \A m \in Nat : m \in T
    BY <2>1, <2>2, SetInduction
  <2>4. QED
    BY <2>3 DEF T
<1>4. \A i \in 1..n : kept[i] <= i
  <2>. DEFINE T == {m \in Nat : m < n => kept[n - m] <= n - m}
  <2>1. 0 \in T
    BY <1>2
  <2>2. ASSUME NEW m \in Nat, m \in T PROVE m + 1 \in T
    <3>1. CASE m + 1 < n
      <4>1. /\ n - m \in 1..n /\ n - (m + 1) \in 1..n /\ n - (m + 1) < n - m
            /\ kept[n - m] <= n - m
        BY <2>2, <3>1
      <4>2. /\ kept[n - (m + 1)] < kept[n - m]
            /\ kept[n - m] \in Nat /\ kept[n - (m + 1)] \in Nat
        BY <1>2, <4>1
      <4>3. QED
        BY <4>1, <4>2
    <3>2. QED
      BY <3>1
  <2>. HIDE DEF T
  <2>3. \A m \in Nat : m \in T
    BY <2>1, <2>2, SetInduction
  <2>4. ASSUME NEW i \in 1..n PROVE kept[i] <= i
    <3>1. n - i \in Nat /\ n - i < n /\ n - (n - i) = i
      OBVIOUS
    <3>2. QED
      BY <2>3, <3>1 DEF T
  <2>5. QED
    BY <2>4
<1>5. ASSUME NEW i \in 1..n PROVE kept[i] = i
  BY <1>2, <1>3, <1>4
<1>6. kept = [i \in 1..n |-> i]
  BY <1>2, <1>5
<1>7. QED
  BY <1>1, <1>6

-----------------------------------------------------------------------------
(* Sequences as the functions they are.                                    *)
LEMMA SeqFacts ==
    ASSUME NEW S, NEW s \in Seq(S)
    PROVE  /\ Len(s) \in Nat /\ DOMAIN s = 1..Len(s)
           /\ \A i \in 1..Len(s) : s[i] \in S
  OBVIOUS

LEMMA ListOf ==
    ASSUME NEW S, NEW n \in Nat, NEW f \in [1..n -> S]
    PROVE  f \in Seq(S) /\ Len(f) = n /\ DOMAIN f = 1..n
  OBVIOUS

\* Concatenation under a name, so that a lemma about it applies as it stands.
Join(a, b) == a \o b

LEMMA JoinFacts ==
    ASSUME NEW S, NEW a \in Seq(S), NEW b \in Seq(S)
    PROVE  /\ Join(a, b) \in Seq(S) /\ Len(Join(a, b)) = Len(a) + Len(b)
           /\ \A i \in 1..Len(a) : Join(a, b)[i] = a[i]
           /\ \A i \in 1..Len(Join(a, b)) : i > Len(a) => Join(a, b)[i] = b[i - Len(a)]
  BY DEF Join

LEMMA JoinAssoc ==
    ASSUME NEW S, NEW a \in Seq(S), NEW b \in Seq(S), NEW c \in Seq(S)
    PROVE  Join(a, Join(b, c)) = Join(Join(a, b), c)
  BY DEF Join

LEMMA JoinNothing ==
    ASSUME NEW S, NEW a \in Seq(S)
    PROVE  Join(a, <<>>) = a /\ Join(<<>>, a) = a
  BY DEF Join

-----------------------------------------------------------------------------
(* Flattening. What FlattenSeq yields is the last of its partial results,  *)
(* numbered from an empty one; the lemmas after these two exhibit the      *)
(* partial results and need no induction of their own.                     *)
Partial(f, ss) ==
  /\ f[0] = <<>>
  /\ \A i \in 1..Len(ss) : f[i] = Join(f[i-1], ss[i])

LEMMA PartialsExist ==
    ASSUME NEW S, NEW ss \in Seq(Seq(S))
    PROVE  \E f \in [0..Len(ss) -> Seq(S)] : Partial(f, ss)
<1>. DEFINE Upto(f, n) == f[0] = <<>> /\ \A i \in 1..n : f[i] = Join(f[i-1], ss[i])
            T == {n \in Nat : n <= Len(ss) => \E f \in [0..n -> Seq(S)] : Upto(f, n)}
<1>1. 0 \in T
  <2>1. [i \in 0..0 |-> <<>>] \in [0..0 -> Seq(S)] /\ Upto([i \in 0..0 |-> <<>>], 0)
    OBVIOUS
  <2>. HIDE DEF Upto
  <2>2. QED
    BY <2>1
<1>2. ASSUME NEW n \in Nat, n \in T PROVE n + 1 \in T
  <2>1. CASE n + 1 <= Len(ss)
    <3>1. PICK f \in [0..n -> Seq(S)] : Upto(f, n)
      <4>1. n <= Len(ss)
        BY <2>1
      <4>. HIDE DEF Upto
      <4>2. QED
        BY <1>2, <4>1
    <3>. DEFINE g == [i \in 0..(n + 1) |-> IF i = n + 1 THEN Join(f[n], ss[n + 1]) ELSE f[i]]
    <3>2. Join(f[n], ss[n + 1]) \in Seq(S)
      <4>1. n \in 0..n /\ n + 1 \in 1..Len(ss)
        BY <2>1
      <4>2. f[n] \in Seq(S) /\ ss[n + 1] \in Seq(S)
        BY <4>1
      <4>3. QED
        BY <4>2, JoinFacts
    <3>3. g \in [0..(n + 1) -> Seq(S)]
      <4>1. ASSUME NEW i \in 0..(n + 1), i # n + 1 PROVE f[i] \in Seq(S)
        BY <4>1
      <4>2. QED
        BY <3>2, <4>1
    <3>4. ASSUME NEW i \in 1..(n + 1) PROVE g[i] = Join(g[i-1], ss[i])
      <4>1. i \in 0..(n + 1) /\ i - 1 \in 0..(n + 1) /\ i - 1 # n + 1
        OBVIOUS
      <4>2. CASE i = n + 1
        <5>1. i - 1 = n
          BY <4>2
        <5>2. g[i] = Join(f[n], ss[n + 1]) /\ g[i-1] = f[n]
          BY <4>1, <4>2, <5>1
        <5>3. QED
          BY <4>2, <5>2
      <4>3. CASE i # n + 1
        <5>1. i \in 1..n
          BY <4>3
        <5>2. f[i] = Join(f[i-1], ss[i])
          BY <3>1, <5>1
        <5>3. g[i] = f[i] /\ g[i-1] = f[i-1]
          BY <4>1, <4>3
        <5>4. QED
          BY <5>2, <5>3
      <4>4. QED
        BY <4>2, <4>3
    <3>5. g[0] = <<>>
      BY <3>1
    <3>6. Upto(g, n + 1)
      <4>. HIDE DEF g
      <4>1. QED
        BY <3>4, <3>5
    <3>. HIDE DEF Upto, g
    <3>7. QED
      BY <3>3, <3>6
  <2>2. CASE ~(n + 1 <= Len(ss))
    <3>. HIDE DEF Upto
    <3>1. QED
      BY <2>2
  <2>3. QED
    BY <2>1, <2>2
<1>. HIDE DEF T
<1>3. \A n \in Nat : n \in T
  BY <1>1, <1>2, SetInduction
<1>4. Len(ss) \in T
  BY <1>3
<1>5. PICK f \in [0..Len(ss) -> Seq(S)] : Upto(f, Len(ss))
  <2>. HIDE DEF Upto
  <2>1. QED
    BY <1>4 DEF T
<1>6. QED
  BY <1>5 DEF Partial

LEMMA FlattenIsLast ==
    ASSUME NEW S, NEW ss \in Seq(Seq(S)),
           NEW f \in [0..Len(ss) -> Seq(S)], Partial(f, ss)
    PROVE  FlattenSeq(ss) = f[Len(ss)]
<1>. DEFINE Flat(h) == [i \in 1..Len(ss) |-> IF i = 1 THEN ss[i] ELSE Join(h[i-1], ss[i])]
            flat == CHOOSE h : h = Flat(h)
            g == [i \in 1..Len(ss) |-> f[i]]
<1>1. CASE Len(ss) = 0
  <2>1. FlattenSeq(ss) = ss
    BY <1>1, Zenon DEF FlattenSeq
  <2>2. ss = <<>>
    BY <1>1
  <2>3. f[Len(ss)] = <<>>
    BY <1>1 DEF Partial
  <2>4. QED
    BY <2>1, <2>2, <2>3
<1>2. CASE Len(ss) # 0
  <2>1. FlattenSeq(ss) = flat[Len(ss)]
    BY <1>2, Zenon DEF FlattenSeq, Join
  <2>2. \A i \in 1..Len(ss) : f[i] = Join(f[i-1], ss[i])
    BY DEF Partial
  <2>3. 1 \in 1..Len(ss) => f[1] = ss[1]
    <3>1. SUFFICES ASSUME 1 \in 1..Len(ss) PROVE f[1] = ss[1]
      OBVIOUS
    <3>2. f[1] = Join(<<>>, ss[1])
      <4>1. f[1] = Join(f[1-1], ss[1])
        BY <3>1, Zenon DEF Partial
      <4>2. 1 - 1 = 0
        OBVIOUS
      <4>3. QED
        BY <4>1, <4>2 DEF Partial
    <3>3. ss[1] \in Seq(S)
      BY <3>1
    <3>4. QED
      BY <3>2, <3>3, JoinNothing
  <2>4. g = Flat(g)
    <3>1. ASSUME NEW i \in 1..Len(ss) PROVE g[i] = Flat(g)[i]
      <4>1. CASE i = 1
        BY <2>3, <4>1
      <4>2. CASE i # 1
        <5>1. i - 1 \in 1..Len(ss)
          BY <4>2
        <5>2. g[i] = Join(f[i-1], ss[i])
          BY <2>2
        <5>3. g[i-1] = f[i-1]
          BY <5>1
        <5>4. QED
          BY <4>2, <5>2, <5>3
      <4>3. QED
        BY <4>1, <4>2
    <3>2. QED
      BY <3>1
  <2>5. flat = Flat(flat)
    <3>. HIDE DEF Flat, g
    <3>1. QED
      BY <2>4, Zenon
  <2>. HIDE DEF flat
  <2>6. \A n \in Nat : n \in 1..Len(ss) => flat[n] = f[n]
    <3>. DEFINE T == {n \in Nat : n \in 1..Len(ss) => flat[n] = f[n]}
    <3>1. 0 \in T
      OBVIOUS
    <3>2. ASSUME NEW n \in Nat, n \in T PROVE n + 1 \in T
      <4>1. CASE n + 1 \in 1..Len(ss) /\ n # 0
        <5>1. n \in 1..Len(ss) /\ (n + 1) - 1 = n /\ n + 1 # 1
          BY <4>1
        <5>2. flat[n + 1] = Join(flat[n], ss[n + 1])
          BY <2>5, <4>1, <5>1
        <5>3. f[n + 1] = Join(f[n], ss[n + 1])
          BY <2>2, <4>1, <5>1
        <5>4. flat[n] = f[n]
          BY <3>2, <5>1
        <5>5. QED
          BY <5>2, <5>3, <5>4
      <4>2. CASE n = 0
        <5>1. 1 \in 1..Len(ss) => flat[1] = ss[1]
          BY <2>5
        <5>2. QED
          BY <2>3, <4>2, <5>1
      <4>3. QED
        BY <4>1, <4>2
    <3>. HIDE DEF T
    <3>3. \A n \in Nat : n \in T
      BY <3>1, <3>2, SetInduction
    <3>4. QED
      BY <3>3 DEF T
  <2>7. Len(ss) \in Nat /\ Len(ss) \in 1..Len(ss)
    BY <1>2
  <2>8. QED
    BY <2>1, <2>6, <2>7
<1>3. QED
  BY <1>1, <1>2

LEMMA FlattenType ==
    ASSUME NEW S, NEW ss \in Seq(Seq(S))
    PROVE  FlattenSeq(ss) \in Seq(S)
<1>1. PICK f \in [0..Len(ss) -> Seq(S)] : Partial(f, ss)
  BY PartialsExist
<1>2. FlattenSeq(ss) = f[Len(ss)]
  BY <1>1, FlattenIsLast
<1>3. Len(ss) \in 0..Len(ss)
  OBVIOUS
<1>4. QED
  BY <1>2, <1>3

LEMMA FlattenNothing == FlattenSeq(<<>>) = <<>>
<1>1. Len(<<>>) = 0
  OBVIOUS
<1>2. QED
  BY <1>1, Zenon DEF FlattenSeq

(* Two lists of sequences, one after the other.                            *)
LEMMA FlattenJoin ==
    ASSUME NEW S, NEW a \in Seq(Seq(S)), NEW b \in Seq(Seq(S))
    PROVE  FlattenSeq(Join(a, b)) = Join(FlattenSeq(a), FlattenSeq(b))
<1>1. PICK f \in [0..Len(a) -> Seq(S)] : Partial(f, a)
  BY PartialsExist
<1>2. PICK g \in [0..Len(b) -> Seq(S)] : Partial(g, b)
  BY PartialsExist
<1>. DEFINE left == f[Len(a)]
            h == [i \in 0..Len(Join(a, b)) |->
                    IF i <= Len(a) THEN f[i] ELSE Join(left, g[i - Len(a)])]
<1>3. /\ Join(a, b) \in Seq(Seq(S)) /\ Len(Join(a, b)) = Len(a) + Len(b)
      /\ \A i \in 1..Len(a) : Join(a, b)[i] = a[i]
      /\ \A i \in 1..Len(Join(a, b)) : i > Len(a) => Join(a, b)[i] = b[i - Len(a)]
  BY JoinFacts
<1>4. left \in Seq(S)
  <2>1. Len(a) \in 0..Len(a)
    OBVIOUS
  <2>2. QED
    BY <2>1
<1>. HIDE DEF left
<1>5. h \in [0..Len(Join(a, b)) -> Seq(S)]
  <2>1. ASSUME NEW i \in 0..Len(Join(a, b))
        PROVE  (IF i <= Len(a) THEN f[i] ELSE Join(left, g[i - Len(a)])) \in Seq(S)
    <3>1. CASE i <= Len(a)
      <4>1. i \in 0..Len(a)
        BY <3>1
      <4>2. f[i] \in Seq(S)
        BY <4>1
      <4>3. QED
        BY <3>1, <4>2
    <3>2. CASE ~(i <= Len(a))
      <4>1. i - Len(a) \in 0..Len(b)
        BY <1>3, <3>2
      <4>2. g[i - Len(a)] \in Seq(S)
        BY <4>1
      <4>3. Join(left, g[i - Len(a)]) \in Seq(S)
        BY <1>4, <4>2, JoinFacts
      <4>4. QED
        BY <3>2, <4>3
    <3>3. QED
      BY <3>1, <3>2
  <2>2. QED
    BY <2>1
<1>6. Partial(h, Join(a, b))
  <2>1. h[0] = <<>>
    <3>1. 0 <= Len(a) /\ 0 \in 0..Len(Join(a, b))
      BY <1>3
    <3>2. QED
      BY <1>1, <3>1 DEF Partial
  <2>2. ASSUME NEW i \in 1..Len(Join(a, b)) PROVE h[i] = Join(h[i-1], Join(a, b)[i])
    <3>0. i \in 0..Len(Join(a, b)) /\ i - 1 \in 0..Len(Join(a, b))
      BY <1>3
    <3>1. CASE i <= Len(a)
      <4>1. i \in 1..Len(a) /\ i - 1 <= Len(a)
        BY <3>1
      <4>2. f[i] = Join(f[i-1], a[i]) /\ Join(a, b)[i] = a[i]
        BY <1>1, <1>3, <4>1 DEF Partial
      <4>3. h[i] = f[i] /\ h[i-1] = f[i-1]
        BY <3>0, <3>1, <4>1
      <4>. HIDE DEF h
      <4>4. QED
        BY <4>2, <4>3
    <3>2. CASE ~(i <= Len(a))
      <4>. DEFINE j == i - Len(a)
      <4>1. j \in 1..Len(b) /\ i > Len(a)
        BY <1>3, <3>2
      <4>2. Join(a, b)[i] = b[j]
        BY <1>3, <4>1
      <4>3. g[j] = Join(g[j-1], b[j])
        BY <1>2, <4>1 DEF Partial
      <4>4. h[i] = Join(left, g[j])
        BY <3>0, <3>2
      <4>5. h[i-1] = Join(left, g[j-1])
        <5>1. CASE j = 1
          <6>1. i - 1 = Len(a)
            BY <5>1
          <6>2. h[i-1] = left
            BY <3>0, <6>1 DEF left
          <6>3. j - 1 = 0
            BY <5>1
          <6>4. g[j-1] = <<>>
            BY <1>2, <6>3, Zenon DEF Partial
          <6>5. QED
            BY <1>4, <6>2, <6>4, JoinNothing
        <5>2. CASE j # 1
          <6>1. ~(i - 1 <= Len(a)) /\ (i - 1) - Len(a) = j - 1
            BY <4>1, <5>2
          <6>2. QED
            BY <3>0, <6>1
        <5>3. QED
          BY <5>1, <5>2
      <4>6. g[j-1] \in Seq(S) /\ b[j] \in Seq(S)
        <5>1. j - 1 \in 0..Len(b)
          BY <4>1
        <5>2. b[j] \in Seq(S)
          BY <4>1, SeqFacts
        <5>. HIDE DEF j
        <5>3. QED
          BY <5>1, <5>2
      <4>. HIDE DEF h, j
      <4>7. Join(left, Join(g[j-1], b[j])) = Join(Join(left, g[j-1]), b[j])
        BY <1>4, <4>6, JoinAssoc
      <4>8. QED
        BY <4>2, <4>3, <4>4, <4>5, <4>7
    <3>3. QED
      BY <3>1, <3>2
  <2>. HIDE DEF h
  <2>3. QED
    BY <2>1, <2>2 DEF Partial
<1>7. h[Len(Join(a, b))] = Join(left, g[Len(b)])
  <2>1. CASE Len(b) = 0
    <3>1. Len(Join(a, b)) = Len(a) /\ g[Len(b)] = <<>>
      BY <1>2, <1>3, <2>1 DEF Partial
    <3>2. h[Len(Join(a, b))] = left
      BY <3>1 DEF left
    <3>3. QED
      BY <1>4, <3>1, <3>2, JoinNothing
  <2>2. CASE Len(b) # 0
    <3>1. ~(Len(Join(a, b)) <= Len(a)) /\ Len(Join(a, b)) - Len(a) = Len(b)
          /\ Len(Join(a, b)) \in 0..Len(Join(a, b))
      BY <1>3, <2>2
    <3>2. QED
      BY <3>1
  <2>3. QED
    BY <2>1, <2>2
<1>8. FlattenSeq(Join(a, b)) = h[Len(Join(a, b))]
  <2>. HIDE DEF h
  <2>1. QED
    BY <1>3, <1>5, <1>6, FlattenIsLast
<1>9. FlattenSeq(a) = left
  BY <1>1, FlattenIsLast DEF left
<1>10. FlattenSeq(b) = g[Len(b)]
  BY <1>2, FlattenIsLast
<1>. HIDE DEF h
<1>11. QED
  BY <1>7, <1>8, <1>9, <1>10

(* A field of the entities of a list, and of a flattened list.             *)
LEMMA FieldFacts ==
    ASSUME NEW S, NEW s \in Seq(S), NEW name
    PROVE  /\ Field(s, name) \in Seq({e[name] : e \in S})
           /\ Len(Field(s, name)) = Len(s) /\ DOMAIN Field(s, name) = 1..Len(s)
           /\ \A i \in 1..Len(s) : Field(s, name)[i] = s[i][name]
<1>1. Field(s, name) = [i \in 1..Len(s) |-> s[i][name]]
  BY DEF Field
<1>2. \A i \in 1..Len(s) : s[i][name] \in {e[name] : e \in S}
  OBVIOUS
<1>3. Field(s, name) \in Seq({e[name] : e \in S})
  <2>. DEFINE V == {e[name] : e \in S}
  <2>1. \A i \in 1..Len(s) : s[i][name] \in V
    BY <1>2
  <2>. HIDE DEF V
  <2>2. Field(s, name) \in Seq(V)
    BY <1>1, <2>1
  <2>3. QED
    BY <2>2 DEF V
<1>4. QED
  BY <1>1, <1>3

LEMMA FieldJoin ==
    ASSUME NEW S, NEW a \in Seq(S), NEW b \in Seq(S), NEW name
    PROVE  Field(Join(a, b), name) = Join(Field(a, name), Field(b, name))
<1>. DEFINE V == {e[name] : e \in S}
            n == Len(a) + Len(b)
            left == Field(Join(a, b), name)
            right == Join(Field(a, name), Field(b, name))
<1>1. /\ Field(a, name) \in Seq(V) /\ Len(Field(a, name)) = Len(a)
      /\ \A i \in 1..Len(a) : Field(a, name)[i] = a[i][name]
  BY FieldFacts
<1>2. /\ Field(b, name) \in Seq(V) /\ Len(Field(b, name)) = Len(b)
      /\ \A i \in 1..Len(b) : Field(b, name)[i] = b[i][name]
  BY FieldFacts
<1>3. /\ Join(a, b) \in Seq(S) /\ Len(Join(a, b)) = n
      /\ \A i \in 1..Len(a) : Join(a, b)[i] = a[i]
      /\ \A i \in 1..n : i > Len(a) => Join(a, b)[i] = b[i - Len(a)]
  BY JoinFacts
<1>4. /\ left \in Seq(V) /\ Len(left) = n
      /\ \A i \in 1..n : left[i] = Join(a, b)[i][name]
  <2>. DEFINE c == Join(a, b)
  <2>1. c \in Seq(S) /\ Len(c) = n
    BY <1>3
  <2>. HIDE DEF c, V, n
  <2>2. /\ Field(c, name) \in Seq({e[name] : e \in S}) /\ Len(Field(c, name)) = Len(c)
        /\ \A i \in 1..Len(c) : Field(c, name)[i] = c[i][name]
    BY <2>1, FieldFacts, Zenon
  <2>3. QED
    BY <2>1, <2>2 DEF V, c
<1>. HIDE DEF V
<1>5. /\ right \in Seq(V) /\ Len(right) = n
      /\ \A i \in 1..Len(a) : right[i] = Field(a, name)[i]
      /\ \A i \in 1..n : i > Len(a) => right[i] = Field(b, name)[i - Len(a)]
  <2>. DEFINE x == Field(a, name)
              y == Field(b, name)
  <2>1. x \in Seq(V) /\ y \in Seq(V) /\ Len(x) = Len(a) /\ Len(y) = Len(b)
    BY <1>1, <1>2
  <2>. HIDE DEF x, y
  <2>2. /\ Join(x, y) \in Seq(V) /\ Len(Join(x, y)) = Len(x) + Len(y)
        /\ \A i \in 1..Len(x) : Join(x, y)[i] = x[i]
        /\ \A i \in 1..Len(Join(x, y)) : i > Len(x) => Join(x, y)[i] = y[i - Len(x)]
    BY <2>1, JoinFacts, Zenon
  <2>3. QED
    BY <2>1, <2>2 DEF x, y
<1>. HIDE DEF left, right
<1>6. ASSUME NEW i \in 1..n PROVE left[i] = right[i]
  <2>1. CASE i <= Len(a)
    <3>1. i \in 1..Len(a)
      BY <2>1
    <3>2. QED
      BY <1>1, <1>3, <1>4, <1>5, <3>1
  <2>2. CASE ~(i <= Len(a))
    <3>1. i - Len(a) \in 1..Len(b) /\ i > Len(a)
      BY <2>2
    <3>2. QED
      BY <1>2, <1>3, <1>4, <1>5, <3>1
  <2>3. QED
    BY <2>1, <2>2
<1>7. left = right
  <2>1. n \in Nat
    OBVIOUS
  <2>. HIDE DEF n
  <2>2. QED
    BY <1>4, <1>5, <1>6, <2>1
<1>8. QED
  BY <1>7 DEF left, right

LEMMA FieldFlatten ==
    ASSUME NEW S, NEW ss \in Seq(Seq(S)), NEW name
    PROVE  Field(FlattenSeq(ss), name) = FlattenSeq([i \in DOMAIN ss |-> Field(ss[i], name)])
<1>. DEFINE V == {e[name] : e \in S}
            fields == [i \in DOMAIN ss |-> Field(ss[i], name)]
<1>1. PICK f \in [0..Len(ss) -> Seq(S)] : Partial(f, ss)
  BY PartialsExist
<1>. DEFINE h == [i \in 0..Len(ss) |-> Field(f[i], name)]
<1>2. \A s \in Seq(S) : Field(s, name) \in Seq(V)
  BY FieldFacts
<1>3. fields \in Seq(Seq(V)) /\ Len(fields) = Len(ss)
  <2>1. \A i \in 1..Len(ss) : Field(ss[i], name) \in Seq(V)
    <3>. HIDE DEF V
    <3>1. QED
      BY <1>2, SeqFacts
  <2>. DEFINE n == Len(ss)
              W == Seq(V)
  <2>2. n \in Nat /\ fields \in [1..n -> W]
    BY <2>1, SeqFacts
  <2>. HIDE DEF n, W, V
  <2>3. fields \in Seq(W) /\ Len(fields) = n
    <3>. HIDE DEF fields
    <3>1. QED
      BY <2>2
  <2>4. QED
    BY <2>3 DEF n, W
<1>. HIDE DEF V
<1>4. h \in [0..Len(fields) -> Seq(V)]
  BY <1>2, <1>3
<1>5. Partial(h, fields)
  <2>1. h[0] = <<>>
    <3>1. Field(<<>>, name) = <<>>
      BY DEF Field
    <3>2. f[0] = <<>> /\ 0 \in 0..Len(ss)
      BY <1>1 DEF Partial
    <3>3. QED
      BY <3>1, <3>2
  <2>2. ASSUME NEW i \in 1..Len(ss) PROVE h[i] = Join(h[i-1], fields[i])
    <3>1. i \in 0..Len(ss) /\ i - 1 \in 0..Len(ss)
      OBVIOUS
    <3>2. f[i] = Join(f[i-1], ss[i])
      BY <1>1 DEF Partial
    <3>3. ss[i] \in Seq(S)
      BY SeqFacts
    <3>4. h[i] = Field(f[i], name) /\ h[i-1] = Field(f[i-1], name)
          /\ fields[i] = Field(ss[i], name)
      BY <3>1
    <3>. HIDE DEF h, fields
    <3>5. f[i-1] \in Seq(S)
      BY <3>1
    <3>6. Field(Join(f[i-1], ss[i]), name) = Join(Field(f[i-1], name), Field(ss[i], name))
      BY <3>3, <3>5, FieldJoin
    <3>7. QED
      BY <3>2, <3>4, <3>6
  <2>. HIDE DEF h, fields
  <2>3. QED
    BY <1>3, <2>1, <2>2 DEF Partial
<1>6. FlattenSeq(fields) = h[Len(fields)]
  <2>. HIDE DEF h, fields
  <2>1. QED
    BY <1>3, <1>4, <1>5, FlattenIsLast
<1>7. FlattenSeq(ss) = f[Len(ss)]
  BY <1>1, FlattenIsLast
<1>8. h[Len(fields)] = Field(f[Len(ss)], name)
  <2>1. Len(ss) \in 0..Len(ss)
    OBVIOUS
  <2>. HIDE DEF fields
  <2>2. QED
    BY <1>3, <2>1
<1>9. QED
  <2>. HIDE DEF h
  <2>1. QED
    BY <1>6, <1>7, <1>8

(* Flattening twice, from the outside or from the inside.                  *)
LEMMA FlattenTwice ==
    ASSUME NEW S, NEW sss \in Seq(Seq(Seq(S)))
    PROVE  FlattenSeq(FlattenSeq(sss)) = FlattenSeq([i \in DOMAIN sss |-> FlattenSeq(sss[i])])
<1>. DEFINE inner == [i \in DOMAIN sss |-> FlattenSeq(sss[i])]
<1>1. PICK f \in [0..Len(sss) -> Seq(Seq(S))] : Partial(f, sss)
  BY PartialsExist
<1>. DEFINE h == [i \in 0..Len(sss) |-> FlattenSeq(f[i])]
<1>2. \A ss \in Seq(Seq(S)) : FlattenSeq(ss) \in Seq(S)
  BY FlattenType
<1>3. inner \in Seq(Seq(S)) /\ Len(inner) = Len(sss)
  <2>1. \A i \in 1..Len(sss) : sss[i] \in Seq(Seq(S))
    BY SeqFacts
  <2>2. DOMAIN sss = 1..Len(sss) /\ Len(sss) \in Nat
    BY SeqFacts
  <2>3. inner \in [1..Len(sss) -> Seq(S)]
    BY <1>2, <2>1, <2>2
  <2>. HIDE DEF inner
  <2>4. QED
    <3>. DEFINE n == Len(sss)
                V == Seq(S)
    <3>1. n \in Nat /\ inner \in [1..n -> V]
      BY <2>2, <2>3
    <3>. HIDE DEF n, V
    <3>2. inner \in Seq(V) /\ Len(inner) = n
      BY <3>1
    <3>3. QED
      BY <3>2 DEF n, V
<1>4. h \in [0..Len(inner) -> Seq(S)]
  BY <1>2, <1>3
<1>5. Partial(h, inner)
  <2>1. h[0] = <<>>
    <3>1. f[0] = <<>> /\ 0 \in 0..Len(sss)
      BY <1>1 DEF Partial
    <3>2. QED
      BY <3>1, FlattenNothing
  <2>2. ASSUME NEW i \in 1..Len(sss) PROVE h[i] = Join(h[i-1], inner[i])
    <3>1. i \in 0..Len(sss) /\ i - 1 \in 0..Len(sss)
      OBVIOUS
    <3>2. f[i] = Join(f[i-1], sss[i])
      BY <1>1 DEF Partial
    <3>3. sss[i] \in Seq(Seq(S))
      BY SeqFacts
    <3>4. h[i] = FlattenSeq(f[i]) /\ h[i-1] = FlattenSeq(f[i-1])
          /\ inner[i] = FlattenSeq(sss[i])
      BY <3>1
    <3>. HIDE DEF h, inner
    <3>5. f[i-1] \in Seq(Seq(S))
      BY <3>1
    <3>6. FlattenSeq(Join(f[i-1], sss[i])) = Join(FlattenSeq(f[i-1]), FlattenSeq(sss[i]))
      BY <3>3, <3>5, FlattenJoin
    <3>7. QED
      BY <3>2, <3>4, <3>6
  <2>. HIDE DEF h, inner
  <2>3. QED
    BY <1>3, <2>1, <2>2 DEF Partial
<1>6. FlattenSeq(inner) = h[Len(inner)]
  <2>. HIDE DEF h, inner
  <2>1. QED
    BY <1>3, <1>4, <1>5, FlattenIsLast
<1>7. FlattenSeq(sss) = f[Len(sss)]
  BY <1>1, FlattenIsLast
<1>8. h[Len(inner)] = FlattenSeq(f[Len(sss)])
  <2>1. Len(sss) \in 0..Len(sss)
    OBVIOUS
  <2>. HIDE DEF inner
  <2>2. QED
    BY <1>3, <2>1
<1>9. QED
  <2>. HIDE DEF h
  <2>1. QED
    BY <1>6, <1>7, <1>8

-----------------------------------------------------------------------------
(* Injective sequences, and the indexes built over them.                   *)
LEMMA InjectiveParts ==
    ASSUME NEW V, NEW a \in Seq(V), NEW b \in Seq(V), IsInjective(Join(a, b))
    PROVE  IsInjective(a) /\ IsInjective(b)
<1>1. /\ Len(Join(a, b)) = Len(a) + Len(b) /\ DOMAIN Join(a, b) = 1..Len(Join(a, b))
      /\ \A i \in 1..Len(a) : Join(a, b)[i] = a[i]
      /\ \A i \in 1..Len(Join(a, b)) : i > Len(a) => Join(a, b)[i] = b[i - Len(a)]
  <2>1. Join(a, b) \in Seq(V)
    BY JoinFacts
  <2>2. QED
    BY <2>1, JoinFacts, SeqFacts
<1>2. \A i, j \in 1..Len(Join(a, b)) : Join(a, b)[i] = Join(a, b)[j] => i = j
  BY <1>1 DEF IsInjective
<1>3. ASSUME NEW i \in DOMAIN a, NEW j \in DOMAIN a, a[i] = a[j] PROVE i = j
  <2>1. /\ i \in 1..Len(a) /\ j \in 1..Len(a)
        /\ i \in 1..Len(Join(a, b)) /\ j \in 1..Len(Join(a, b))
    BY <1>1, SeqFacts
  <2>2. Join(a, b)[i] = a[i] /\ Join(a, b)[j] = a[j]
    BY <1>1, <2>1
  <2>3. QED
    BY <1>2, <1>3, <2>1, <2>2
<1>4. ASSUME NEW i \in DOMAIN b, NEW j \in DOMAIN b, b[i] = b[j] PROVE i = j
  <2>. DEFINE m == Len(a) + i
              n == Len(a) + j
  <2>0. i \in 1..Len(b) /\ j \in 1..Len(b)
    BY SeqFacts
  <2>1. /\ m \in 1..Len(Join(a, b)) /\ n \in 1..Len(Join(a, b))
        /\ m > Len(a) /\ n > Len(a) /\ m - Len(a) = i /\ n - Len(a) = j
    BY <1>1, <2>0
  <2>. HIDE DEF m, n
  <2>2. Join(a, b)[m] = b[i] /\ Join(a, b)[n] = b[j]
    BY <1>1, <2>1
  <2>3. m = n
    BY <1>2, <1>4, <2>1, <2>2
  <2>4. QED
    BY <2>1, <2>3
<1>5. QED
  BY <1>3, <1>4 DEF IsInjective

(* An index over distinct keys has one entry per entity.                   *)
LEMMA IndexComplete ==
    ASSUME NEW S, NEW s \in Seq(S), NEW name, IsInjective(Field(s, name))
    PROVE  Cardinality(DOMAIN Indexed(s, name)) = Len(s)
<1>. DEFINE keys == {s[i][name] : i \in DOMAIN s}
            f == [i \in 1..Len(s) |-> s[i][name]]
<1>1. DOMAIN Indexed(s, name) = keys
  BY DEF Indexed
<1>2. f = Field(s, name) /\ DOMAIN s = 1..Len(s) /\ Len(s) \in Nat
  BY DEF Field
<1>3. f \in Injection(1..Len(s), keys)
  <2>1. f \in [1..Len(s) -> keys]
    BY <1>2
  <2>2. IsInjective(f)
    BY <1>2
  <2>. HIDE DEF f, keys
  <2>3. QED
    BY <2>1, <2>2 DEF Injection
<1>4. f \in Surjection(1..Len(s), keys)
  BY <1>2, <1>3 DEF Surjection, Injection
<1>5. ExistsBijection(1..Len(s), keys)
  <2>. HIDE DEF f, keys
  <2>1. QED
    BY <1>3, <1>4 DEF ExistsBijection, Bijection
<1>. HIDE DEF keys
<1>6. Cardinality(keys) = Len(s)
  BY <1>2, <1>5, FS_CountingElements
<1>7. QED
  BY <1>1, <1>6

(* What a list of sequences holds once flattened is what its parts hold.   *)
Held(s) == {s[i] : i \in DOMAIN s}

LEMMA HeldJoin ==
    ASSUME NEW S, NEW a \in Seq(S), NEW b \in Seq(S)
    PROVE  Held(Join(a, b)) = Held(a) \cup Held(b)
<1>1. /\ Len(a) \in Nat /\ DOMAIN a = 1..Len(a)
      /\ Len(b) \in Nat /\ DOMAIN b = 1..Len(b)
  BY SeqFacts
<1>2. /\ Join(a, b) \in Seq(S) /\ Len(Join(a, b)) = Len(a) + Len(b)
      /\ \A i \in 1..Len(a) : Join(a, b)[i] = a[i]
      /\ \A i \in 1..Len(Join(a, b)) : i > Len(a) => Join(a, b)[i] = b[i - Len(a)]
  BY JoinFacts
<1>3. DOMAIN Join(a, b) = 1..(Len(a) + Len(b))
  BY <1>2, SeqFacts
<1>4. ASSUME NEW i \in 1..(Len(a) + Len(b))
      PROVE  Join(a, b)[i] \in Held(a) \cup Held(b)
  <2>1. CASE i \in 1..Len(a)
    BY <1>1, <1>2, <2>1 DEF Held
  <2>2. CASE i > Len(a)
    <3>1. i - Len(a) \in 1..Len(b)
      BY <1>1, <2>2
    <3>2. Join(a, b)[i] = b[i - Len(a)]
      BY <1>2, <2>2
    <3>3. QED
      BY <1>1, <3>1, <3>2 DEF Held
  <2>3. QED
    BY <1>1, <2>1, <2>2
<1>5. ASSUME NEW i \in 1..Len(a) PROVE a[i] \in Held(Join(a, b))
  <2>1. i \in 1..(Len(a) + Len(b)) /\ Join(a, b)[i] = a[i]
    BY <1>1, <1>2
  <2>2. QED
    BY <1>3, <2>1 DEF Held
<1>6. ASSUME NEW i \in 1..Len(b) PROVE b[i] \in Held(Join(a, b))
  <2>1. Len(a) + i \in 1..(Len(a) + Len(b)) /\ Len(a) + i > Len(a)
        /\ (Len(a) + i) - Len(a) = i
    BY <1>1
  <2>2. Join(a, b)[Len(a) + i] = b[i]
    BY <1>2, <2>1
  <2>3. QED
    BY <1>3, <2>1, <2>2 DEF Held
<1>7. QED
  BY <1>1, <1>3, <1>4, <1>5, <1>6 DEF Held

LEMMA FlattenHolds ==
    ASSUME NEW S, NEW ss \in Seq(Seq(S))
    PROVE  \A e : e \in Held(FlattenSeq(ss)) <=> \E i \in 1..Len(ss) : e \in Held(ss[i])
<1>1. PICK f \in [0..Len(ss) -> Seq(S)] : Partial(f, ss)
  BY PartialsExist
<1>2. FlattenSeq(ss) = f[Len(ss)]
  BY <1>1, FlattenIsLast
<1>3. Len(ss) \in Nat /\ \A i \in 1..Len(ss) : ss[i] \in Seq(S)
  BY SeqFacts
<1>. DEFINE Upto(n) == \A e : e \in Held(f[n]) <=> \E i \in 1..n : e \in Held(ss[i])
            T == {n \in Nat : n <= Len(ss) => Upto(n)}
<1>4. 0 \in T
  <2>1. Held(f[0]) = {}
    BY <1>1 DEF Partial, Held
  <2>2. Upto(0)
    BY <2>1
  <2>3. QED
    BY <2>2
<1>5. ASSUME NEW n \in Nat, n \in T PROVE n + 1 \in T
  <2>1. CASE n + 1 <= Len(ss)
    <3>1. n + 1 \in 1..Len(ss) /\ (n + 1) - 1 = n /\ n \in 0..Len(ss) /\ n <= Len(ss)
      BY <1>3, <2>1
    <3>2. f[n + 1] = Join(f[n], ss[n + 1])
      BY <1>1, <3>1 DEF Partial
    <3>3. f[n] \in Seq(S) /\ ss[n + 1] \in Seq(S)
      BY <1>1, <1>3, <3>1
    <3>4. Held(f[n + 1]) = Held(f[n]) \cup Held(ss[n + 1])
      BY <3>2, <3>3, HeldJoin
    <3>5. Upto(n)
      BY <1>5, <3>1
    <3>6. 1..(n + 1) = (1..n) \cup {n + 1}
      OBVIOUS
    <3>7. Upto(n + 1)
      BY <3>4, <3>5, <3>6
    <3>. HIDE DEF Upto
    <3>8. QED
      BY <3>7
  <2>2. QED
    BY <2>1
<1>. HIDE DEF T
<1>6. \A n \in Nat : n \in T
  BY <1>4, <1>5, SetInduction
<1>7. Len(ss) \in T /\ Len(ss) <= Len(ss)
  BY <1>3, <1>6
<1>8. QED
  BY <1>2, <1>7 DEF T

(* The last entity under a key of an index is one of the entities, and has *)
(* the key.                                                                *)
LEMMA Greatest ==
    ASSUME NEW n \in Nat, NEW I \in SUBSET (1..n), I # {}
    PROVE  Max(I) \in I
<1>. DEFINE T == {m \in Nat : m <= n => \A J \in SUBSET (1..m) :
                                J # {} => \E x \in J : \A y \in J : x >= y}
<1>1. 0 \in T
  <2>1. 1..0 = {}
    OBVIOUS
  <2>2. \A J \in SUBSET (1..0) : J = {}
    BY <2>1
  <2>3. QED
    BY <2>2
<1>2. ASSUME NEW m \in Nat, m \in T PROVE m + 1 \in T
  <2>1. CASE m + 1 <= n
    <3>1. ASSUME NEW J \in SUBSET (1..(m + 1)), J # {}
          PROVE  \E x \in J : \A y \in J : x >= y
      <4>1. CASE m + 1 \in J
        BY <4>1
      <4>2. CASE ~(m + 1 \in J)
        <5>1. J \in SUBSET (1..m) /\ m <= n
          BY <2>1, <4>2
        <5>2. QED
          BY <1>2, <3>1, <5>1
      <4>3. QED
        BY <4>1, <4>2
    <3>2. QED
      BY <3>1
  <2>2. QED
    BY <2>1
<1>. HIDE DEF T
<1>3. n \in T
  BY <1>1, <1>2, SetInduction
<1>4. \E x \in I : \A y \in I : x >= y
  BY <1>3 DEF T
<1>5. QED
  BY <1>4 DEF Max

LEMMA Looked ==
    ASSUME NEW S, NEW s \in Seq(S), NEW name, NEW e \in Held(s)
    PROVE  /\ Indexed(s, name)[e[name]] \in Held(s)
           /\ Indexed(s, name)[e[name]][name] = e[name]
<1>. DEFINE k == e[name]
            I == {i \in 1..Len(s) : s[i][name] = k}
            Named(x) == x[name] = k
<1>1. Len(s) \in Nat /\ DOMAIN s = 1..Len(s)
  BY SeqFacts
<1>2. PICK i \in 1..Len(s) : s[i] = e
  BY <1>1 DEF Held
<1>3. k \in {s[j][name] : j \in DOMAIN s}
  BY <1>1, <1>2
<1>4. Indexed(s, name)[k] = s[SelectLastInSeq(s, Named)]
  BY <1>3 DEF Indexed
<1>5. I \in SUBSET (1..Len(s)) /\ I # {}
  BY <1>2
<1>6. SelectLastInSeq(s, Named) = Max(I)
  BY <1>5 DEF SelectLastInSeq
<1>7. Max(I) \in I
  <2>. HIDE DEF I
  <2>1. QED
    BY <1>1, <1>5, Greatest
<1>8. QED
  BY <1>1, <1>4, <1>6, <1>7 DEF Held

-----------------------------------------------------------------------------
(* The entities of a list of phases.                                       *)
LEMMA EntityLists ==
    ASSUME NEW phases \in Seq(Phase)
    PROVE  /\ Field(phases, "topics") \in Seq(Seq(Topic))
           /\ Topics(phases) = FlattenSeq(Field(phases, "topics"))
           /\ Topics(phases) \in Seq(Topic)
           /\ Field(Topics(phases), "steps") \in Seq(Seq(StepEntry))
           /\ Steps(phases) = FlattenSeq(Field(Topics(phases), "steps"))
           /\ Steps(phases) \in Seq(StepEntry)
           /\ Requirements(phases) \in Seq(Requirement)
<1>1. Field(phases, "topics") = [i \in DOMAIN phases |-> phases[i].topics]
  BY DEF Field
<1>2. Field(phases, "topics") \in Seq(Seq(Topic))
  <2>. DEFINE W == Seq(Topic)
              n == Len(phases)
              f == [i \in DOMAIN phases |-> phases[i].topics]
  <2>1. \A i \in 1..n : phases[i] \in Phase
    BY SeqFacts
  <2>2. \A phase \in Phase : phase.topics \in W
    BY DEF Phase
  <2>3. n \in Nat /\ f \in [1..n -> W]
    <3>. HIDE DEF W
    <3>1. QED
      BY <2>1, <2>2, SeqFacts
  <2>. HIDE DEF W, n, f
  <2>4. f \in Seq(W)
    BY <2>3
  <2>5. QED
    BY <1>1, <2>4 DEF f, W
<1>3. Topics(phases) = FlattenSeq(Field(phases, "topics"))
  BY <1>1 DEF Topics
<1>4. Topics(phases) \in Seq(Topic)
  BY <1>2, <1>3, FlattenType
<1>5. Field(Topics(phases), "steps") = [i \in DOMAIN Topics(phases) |-> Topics(phases)[i].steps]
  BY DEF Field
<1>6. Field(Topics(phases), "steps") \in Seq(Seq(StepEntry))
  <2>. DEFINE W == Seq(StepEntry)
              topics == Topics(phases)
              n == Len(topics)
              f == [i \in DOMAIN topics |-> topics[i].steps]
  <2>1. topics \in Seq(Topic)
    BY <1>4
  <2>. HIDE DEF topics
  <2>2. n \in Nat /\ DOMAIN topics = 1..n /\ \A i \in 1..n : topics[i] \in Topic
    BY <2>1, SeqFacts
  <2>3. \A topic \in Topic : topic.steps \in W
    BY DEF Topic
  <2>4. f \in [1..n -> W]
    <3>. HIDE DEF W
    <3>1. QED
      BY <2>2, <2>3
  <2>. HIDE DEF W, n, f
  <2>5. f \in Seq(W)
    BY <2>2, <2>4
  <2>6. QED
    BY <1>5, <2>5 DEF f, W, topics
<1>7. Steps(phases) = FlattenSeq(Field(Topics(phases), "steps"))
  BY <1>5 DEF Steps
<1>8. Steps(phases) \in Seq(StepEntry)
  BY <1>6, <1>7, FlattenType
<1>9. Requirements(phases) \in Seq(Requirement)
  <2>. DEFINE W == Seq(Requirement)
              n == Len(phases)
              f == [i \in DOMAIN phases |-> phases[i].reqs]
  <2>1. \A i \in 1..n : phases[i] \in Phase
    BY SeqFacts
  <2>2. \A phase \in Phase : phase.reqs \in W
    BY DEF Phase
  <2>3. n \in Nat /\ f \in [1..n -> W]
    <3>. HIDE DEF W
    <3>1. QED
      BY <2>1, <2>2, SeqFacts
  <2>. HIDE DEF W, n, f
  <2>4. f \in Seq(W)
    BY <2>3
  <2>5. f \in Seq(Seq(Requirement))
    BY <2>4 DEF W
  <2>6. FlattenSeq(f) \in Seq(Requirement)
    BY <2>5, FlattenType
  <2>7. QED
    BY <2>6 DEF Requirements, f
<1>10. QED
  BY <1>2, <1>3, <1>4, <1>6, <1>7, <1>8, <1>9

(* The owners of the steps carry the uuids of the steps, in their order.   *)
Owner == [uuid : Uuids, topic : Uuids, phase : 0..Cardinality(Dirs)]
OwnedIn(phase) ==
  [j \in DOMAIN phase.topics |->
    [k \in DOMAIN phase.topics[j].steps |->
       [uuid |-> phase.topics[j].steps[k].uuid,
        topic |-> phase.topics[j].uuid,
        phase |-> phase.order]]]

LEMMA OwnedInPhase ==
    ASSUME NEW phase \in Phase
    PROVE  /\ Field(phase.topics, "steps") \in Seq(Seq(StepEntry))
           /\ OwnedIn(phase) \in Seq(Seq(Owner))
           /\ Field(FlattenSeq(OwnedIn(phase)), "uuid")
                = Field(FlattenSeq(Field(phase.topics, "steps")), "uuid")
<1>. DEFINE topics == phase.topics
            n == Len(topics)
            order == phase.order
            steps == Field(topics, "steps")
            owned == OwnedIn(phase)
            W == Seq(StepEntry)
            O == Seq(Owner)
<1>1. topics \in Seq(Topic) /\ order \in 0..Cardinality(Dirs)
  BY DEF Phase
<1>2. n \in Nat /\ DOMAIN topics = 1..n /\ \A j \in 1..n : topics[j] \in Topic
  <2>. HIDE DEF topics
  <2>1. QED
    BY <1>1, SeqFacts
<1>3. \A j \in 1..n : topics[j].steps \in Seq(StepEntry) /\ topics[j].uuid \in Uuids
  <2>1. \A topic \in Topic : topic.steps \in Seq(StepEntry) /\ topic.uuid \in Uuids
    BY DEF Topic
  <2>. HIDE DEF topics, n
  <2>2. QED
    BY <1>2, <2>1
<1>4. /\ DOMAIN steps = 1..n /\ \A j \in 1..n : steps[j] = topics[j].steps
      /\ steps = [j \in 1..n |-> topics[j].steps]
  <2>. HIDE DEF topics, n
  <2>1. QED
    BY <1>2 DEF Field
<1>5. steps \in Seq(W)
  <2>1. steps \in [1..n -> W]
    <3>. HIDE DEF topics, n, steps
    <3>1. QED
      BY <1>3, <1>4
  <2>. HIDE DEF steps, n, W
  <2>2. QED
    BY <1>2, <2>1
<1>6. owned = [j \in 1..n |-> [k \in DOMAIN topics[j].steps |->
                 [uuid |-> topics[j].steps[k].uuid, topic |-> topics[j].uuid,
                  phase |-> order]]]
  BY <1>2 DEF OwnedIn
<1>7. ASSUME NEW j \in 1..n
      PROVE  /\ owned[j] \in O
             /\ Field(owned[j], "uuid") = Field(steps[j], "uuid")
  <2>. DEFINE own == owned[j]
              entries == topics[j].steps
              topic == topics[j].uuid
  <2>1. own = [k \in DOMAIN entries |->
                 [uuid |-> entries[k].uuid, topic |-> topic, phase |-> order]]
    <3>. HIDE DEF owned, topics, n, order
    <3>1. QED
      BY <1>6
  <2>2. entries \in Seq(StepEntry) /\ topic \in Uuids
    BY <1>3
  <2>3. steps[j] = entries
    BY <1>4
  <2>. HIDE DEF own, entries, topic, order
  <2>4. /\ DOMAIN entries = 1..Len(entries) /\ Len(entries) \in Nat
        /\ \A k \in 1..Len(entries) : entries[k].uuid \in Uuids
    <3>1. \A entry \in StepEntry : entry.uuid \in Uuids
      BY DEF StepEntry
    <3>2. QED
      BY <2>2, <3>1, SeqFacts
  <2>5. own \in Seq(Owner)
    <3>1. \A k \in 1..Len(entries) :
            [uuid |-> entries[k].uuid, topic |-> topic, phase |-> order] \in Owner
      BY <1>1, <2>2, <2>4 DEF Owner
    <3>2. own \in [1..Len(entries) -> Owner]
      BY <2>1, <2>4, <3>1
    <3>3. QED
      BY <2>4, <3>2
  <2>6. Field(own, "uuid") = Field(entries, "uuid")
    BY <2>1, <2>4 DEF Field
  <2>7. QED
    BY <2>3, <2>5, <2>6 DEF own
<1>8. owned \in Seq(O)
  <2>1. owned \in [1..n -> O]
    <3>1. owned = [j \in 1..n |-> owned[j]]
      BY <1>6
    <3>. HIDE DEF owned, n, O
    <3>2. QED
      BY <1>7, <3>1
  <2>. HIDE DEF owned, n, O
  <2>2. QED
    BY <1>2, <2>1
<1>9. Field(FlattenSeq(owned), "uuid")
        = FlattenSeq([j \in DOMAIN owned |-> Field(owned[j], "uuid")])
  <2>1. owned \in Seq(Seq(Owner))
    BY <1>8
  <2>. HIDE DEF owned
  <2>2. QED
    BY <2>1, FieldFlatten
<1>10. Field(FlattenSeq(steps), "uuid")
         = FlattenSeq([j \in DOMAIN steps |-> Field(steps[j], "uuid")])
  <2>1. steps \in Seq(Seq(StepEntry))
    BY <1>5
  <2>. HIDE DEF steps
  <2>2. QED
    BY <2>1, FieldFlatten
<1>11. [j \in DOMAIN owned |-> Field(owned[j], "uuid")]
         = [j \in DOMAIN steps |-> Field(steps[j], "uuid")]
  <2>1. DOMAIN owned = 1..n
    BY <1>6
  <2>. HIDE DEF owned, steps, n
  <2>2. QED
    BY <1>4, <1>7, <2>1
<1>12. QED
  <2>1. Field(FlattenSeq(owned), "uuid") = Field(FlattenSeq(steps), "uuid")
    <3>. HIDE DEF owned, steps
    <3>1. QED
      BY <1>9, <1>10, <1>11
  <2>. HIDE DEF owned
  <2>2. QED
    BY <1>5, <1>8, <2>1 DEF owned

LEMMA OwnedUuids ==
    ASSUME NEW phases \in Seq(Phase)
    PROVE  /\ Owned(phases) \in Seq(Owner)
           /\ Field(Owned(phases), "uuid") = Field(Steps(phases), "uuid")
<1>. DEFINE n == Len(phases)
            lists == Field(phases, "topics")
            nested == [i \in DOMAIN lists |-> Field(lists[i], "steps")]
            flat == [i \in DOMAIN nested |-> FlattenSeq(nested[i])]
            owned == [i \in DOMAIN phases |-> FlattenSeq(OwnedIn(phases[i]))]
            W == Seq(Seq(StepEntry))
            S == Seq(StepEntry)
            O == Seq(Owner)
<1>1. n \in Nat /\ DOMAIN phases = 1..n /\ \A i \in 1..n : phases[i] \in Phase
  BY SeqFacts
<1>2. /\ lists \in Seq(Seq(Topic)) /\ DOMAIN lists = 1..n
      /\ \A i \in 1..n : lists[i] = phases[i].topics
  <2>. HIDE DEF n
  <2>1. lists \in Seq(Seq(Topic))
    BY EntityLists
  <2>2. QED
    BY <1>1, <2>1 DEF Field
<1>3. /\ DOMAIN nested = 1..n
      /\ \A i \in 1..n : nested[i] = Field(phases[i].topics, "steps")
  <2>. HIDE DEF lists, n
  <2>1. QED
    BY <1>2
<1>4. nested \in Seq(W)
  <2>1. \A i \in 1..n : nested[i] \in W
    <3>. HIDE DEF nested, n
    <3>1. QED
      BY <1>1, <1>3, OwnedInPhase
  <2>2. nested \in [1..n -> W]
    <3>1. nested = [i \in 1..n |-> nested[i]]
      BY <1>3
    <3>. HIDE DEF nested, n, W
    <3>2. QED
      BY <2>1, <3>1
  <2>. HIDE DEF nested, n, W
  <2>3. QED
    BY <1>1, <2>2
<1>5. Steps(phases) = FlattenSeq(flat)
  <2>1. Topics(phases) = FlattenSeq(lists)
    BY EntityLists
  <2>2. Field(FlattenSeq(lists), "steps") = FlattenSeq(nested)
    <3>. HIDE DEF lists
    <3>1. QED
      BY <1>2, FieldFlatten
  <2>3. Steps(phases) = FlattenSeq(Field(Topics(phases), "steps"))
    BY EntityLists
  <2>4. FlattenSeq(FlattenSeq(nested)) = FlattenSeq(flat)
    <3>. HIDE DEF nested
    <3>1. QED
      BY <1>4, FlattenTwice
  <2>. HIDE DEF lists, nested, flat
  <2>5. QED
    BY <2>1, <2>2, <2>3, <2>4
<1>6. /\ DOMAIN flat = 1..n
      /\ \A i \in 1..n : flat[i] = FlattenSeq(Field(phases[i].topics, "steps"))
  <2>. HIDE DEF nested, n
  <2>1. QED
    BY <1>3
<1>7. flat \in Seq(S)
  <2>1. \A i \in 1..n : flat[i] \in S
    <3>1. TAKE i \in 1..n
    <3>2. Field(phases[i].topics, "steps") \in Seq(Seq(StepEntry))
      BY <1>1, OwnedInPhase
    <3>3. FlattenSeq(Field(phases[i].topics, "steps")) \in Seq(StepEntry)
      BY <3>2, FlattenType
    <3>. HIDE DEF flat, n
    <3>4. QED
      BY <1>6, <3>3
  <2>2. flat \in [1..n -> S]
    <3>1. flat = [i \in 1..n |-> flat[i]]
      BY <1>6
    <3>. HIDE DEF flat, n, S
    <3>2. QED
      BY <2>1, <3>1
  <2>. HIDE DEF flat, n, S
  <2>3. QED
    BY <1>1, <2>2
<1>8. Owned(phases) = FlattenSeq(owned)
  BY DEF Owned, OwnedIn
<1>9. /\ DOMAIN owned = 1..n
      /\ \A i \in 1..n : owned[i] = FlattenSeq(OwnedIn(phases[i]))
  <2>. HIDE DEF n
  <2>1. QED
    BY <1>1
<1>10. owned \in Seq(O)
  <2>1. \A i \in 1..n : owned[i] \in O
    <3>1. TAKE i \in 1..n
    <3>2. OwnedIn(phases[i]) \in Seq(Seq(Owner))
      BY <1>1, OwnedInPhase
    <3>3. FlattenSeq(OwnedIn(phases[i])) \in Seq(Owner)
      BY <3>2, FlattenType
    <3>. HIDE DEF owned, n
    <3>4. QED
      BY <1>9, <3>3
  <2>2. owned \in [1..n -> O]
    <3>1. owned = [i \in 1..n |-> owned[i]]
      BY <1>9
    <3>. HIDE DEF owned, n, O
    <3>2. QED
      BY <2>1, <3>1
  <2>. HIDE DEF owned, n, O
  <2>3. QED
    BY <1>1, <2>2
<1>11. [i \in DOMAIN owned |-> Field(owned[i], "uuid")]
         = [i \in DOMAIN flat |-> Field(flat[i], "uuid")]
  <2>1. \A i \in 1..n : Field(owned[i], "uuid") = Field(flat[i], "uuid")
    <3>. HIDE DEF owned, flat, n
    <3>1. QED
      BY <1>1, <1>6, <1>9, OwnedInPhase
  <2>. HIDE DEF owned, flat, n
  <2>2. QED
    BY <1>6, <1>9, <2>1
<1>12. Field(FlattenSeq(owned), "uuid")
         = FlattenSeq([i \in DOMAIN owned |-> Field(owned[i], "uuid")])
  <2>1. owned \in Seq(Seq(Owner))
    BY <1>10
  <2>. HIDE DEF owned
  <2>2. QED
    BY <2>1, FieldFlatten
<1>13. Field(FlattenSeq(flat), "uuid")
         = FlattenSeq([i \in DOMAIN flat |-> Field(flat[i], "uuid")])
  <2>1. flat \in Seq(Seq(StepEntry))
    BY <1>7
  <2>. HIDE DEF flat
  <2>2. QED
    BY <2>1, FieldFlatten
<1>14. FlattenSeq(owned) \in Seq(Owner)
  <2>1. owned \in Seq(Seq(Owner))
    BY <1>10
  <2>. HIDE DEF owned
  <2>2. QED
    BY <2>1, FlattenType
<1>15. QED
  <2>. HIDE DEF owned, flat
  <2>1. QED
    BY <1>5, <1>8, <1>11, <1>12, <1>13, <1>14

-----------------------------------------------------------------------------
(* What the validators accept is indexed without loss: the uuids of all    *)
(* entities are distinct together, so those of each kind are.              *)
LEMMA UuidFields ==
    ASSUME NEW S, NEW s \in Seq(S), \A e \in S : e["uuid"] \in Uuids
    PROVE  Field(s, "uuid") \in Seq(Uuids)
<1>1. /\ Len(s) \in Nat /\ DOMAIN s = 1..Len(s)
      /\ \A i \in 1..Len(s) : s[i]["uuid"] \in Uuids
  BY SeqFacts
<1>2. Field(s, "uuid") = [i \in 1..Len(s) |-> s[i]["uuid"]]
  BY <1>1 DEF Field
<1>3. QED
  BY <1>1, <1>2

(* A topic a URL names is found in its own phase, under its own slug.      *)
LEMMA TopicsFound ==
    ASSUME artifact \in Seq(Phase), IsInjective(Field(artifact, "dir")),
           NEW i \in DOMAIN artifact, NEW j \in DOMAIN artifact[i].topics
    PROVE  LET slug == artifact[i].topics[j].slug
               found == Catalog(artifact).topics_by_phase_and_slug
                          [<<artifact[i].dir, slug>>].topic
           IN /\ found \in Range(artifact[i].topics)
              /\ found.slug = slug
<1>. DEFINE Site == [at : Dirs \X Stems, topic : Topic]
            SitedIn(phase) == [m \in DOMAIN phase.topics |->
              [at |-> <<phase.dir, phase.topics[m].slug>>, topic |-> phase.topics[m]]]
            lists == [m \in DOMAIN artifact |-> SitedIn(artifact[m])]
            sited == FlattenSeq(lists)
            e == [at |-> <<artifact[i].dir, artifact[i].topics[j].slug>>,
                  topic |-> artifact[i].topics[j]]
            looked == Indexed(sited, "at")[e["at"]]
<1>1. /\ Len(artifact) \in Nat /\ DOMAIN artifact = 1..Len(artifact)
      /\ \A m \in 1..Len(artifact) : artifact[m] \in Phase
  BY SeqFacts
<1>2. ASSUME NEW phase \in Phase
      PROVE  /\ SitedIn(phase) \in Seq(Site)
             /\ DOMAIN SitedIn(phase) = DOMAIN phase.topics
             /\ \A m \in DOMAIN phase.topics :
                  SitedIn(phase)[m] = [at |-> <<phase.dir, phase.topics[m].slug>>,
                                       topic |-> phase.topics[m]]
  <2>1. phase.topics \in Seq(Topic) /\ phase.dir \in Dirs
    BY DEF Phase
  <2>2. /\ Len(phase.topics) \in Nat /\ DOMAIN phase.topics = 1..Len(phase.topics)
        /\ \A m \in 1..Len(phase.topics) : phase.topics[m] \in Topic
    BY <2>1, SeqFacts
  <2>3. \A t \in Topic : t.slug \in Stems
    BY DEF Topic
  <2>4. \A m \in 1..Len(phase.topics) :
          [at |-> <<phase.dir, phase.topics[m].slug>>, topic |-> phase.topics[m]] \in Site
    BY <2>1, <2>2, <2>3
  <2>5. SitedIn(phase) \in [1..Len(phase.topics) -> Site]
    BY <2>2, <2>4
  <2>. HIDE DEF Site
  <2>6. QED
    BY <2>2, <2>5, ListOf
<1>. HIDE DEF Site, SitedIn
<1>3. lists \in Seq(Seq(Site)) /\ Len(lists) = Len(artifact)
  <2>1. lists \in [1..Len(artifact) -> Seq(Site)]
    BY <1>1, <1>2
  <2>. HIDE DEF lists
  <2>2. QED
    BY <1>1, <2>1, ListOf
<1>4. \A m \in 1..Len(artifact) : lists[m] = SitedIn(artifact[m])
  BY <1>1
<1>5. sited \in Seq(Site) /\ \A x : x \in Held(sited) <=> \E m \in 1..Len(artifact) : x \in Held(lists[m])
  <2>. HIDE DEF lists
  <2>1. QED
    BY <1>3, FlattenType, FlattenHolds
<1>6. \A m \in 1..Len(artifact) : \A x :
        x \in Held(lists[m]) <=>
          \E n \in DOMAIN artifact[m].topics :
            x = [at |-> <<artifact[m].dir, artifact[m].topics[n].slug>>,
                 topic |-> artifact[m].topics[n]]
  <2>. HIDE DEF lists
  <2>1. TAKE m \in 1..Len(artifact)
  <2>. TAKE x
  <2>2. /\ lists[m] = SitedIn(artifact[m])
        /\ DOMAIN SitedIn(artifact[m]) = DOMAIN artifact[m].topics
        /\ \A n \in DOMAIN artifact[m].topics :
             SitedIn(artifact[m])[n] = [at |-> <<artifact[m].dir, artifact[m].topics[n].slug>>,
                                        topic |-> artifact[m].topics[n]]
    BY <1>1, <1>2, <1>4
  <2>3. QED
    BY <2>2 DEF Held
<1>7. e \in Held(sited)
  <2>. HIDE DEF lists, sited
  <2>1. e \in Held(lists[i])
    BY <1>1, <1>6
  <2>2. QED
    BY <1>1, <1>5, <2>1
<1>8. looked \in Held(sited) /\ looked["at"] = e["at"]
  <2>. HIDE DEF sited, e
  <2>1. QED
    BY <1>5, <1>7, Looked
<1>9. PICK m \in 1..Len(artifact) : \E n \in DOMAIN artifact[m].topics :
        looked = [at |-> <<artifact[m].dir, artifact[m].topics[n].slug>>,
                  topic |-> artifact[m].topics[n]]
  <2>. HIDE DEF lists, sited, looked
  <2>1. QED
    BY <1>5, <1>6, <1>8
<1>10. PICK n \in DOMAIN artifact[m].topics :
        looked = [at |-> <<artifact[m].dir, artifact[m].topics[n].slug>>,
                  topic |-> artifact[m].topics[n]]
  <2>. HIDE DEF looked
  <2>1. QED
    BY <1>9
<1>11. /\ artifact[m].dir = artifact[i].dir
       /\ artifact[m].topics[n].slug = artifact[i].topics[j].slug
       /\ looked.topic = artifact[m].topics[n]
  <2>1. e["at"] = <<artifact[i].dir, artifact[i].topics[j].slug>>
    OBVIOUS
  <2>2. looked["at"] = <<artifact[m].dir, artifact[m].topics[n].slug>>
        /\ looked.topic = artifact[m].topics[n]
    <3>. HIDE DEF looked
    <3>1. QED
      BY <1>10
  <2>. HIDE DEF looked, e
  <2>3. QED
    BY <1>8, <2>1, <2>2
<1>12. m = i
  <2>1. /\ DOMAIN Field(artifact, "dir") = DOMAIN artifact
        /\ Field(artifact, "dir")[m] = artifact[m].dir
        /\ Field(artifact, "dir")[i] = artifact[i].dir
    BY <1>1 DEF Field
  <2>2. QED
    BY <1>1, <1>11, <2>1 DEF IsInjective
<1>13. Catalog(artifact).topics_by_phase_and_slug = Indexed(sited, "at")
  <2>1. Sited(artifact) = sited
    BY DEF Sited, SitedIn
  <2>. HIDE DEF sited
  <2>2. QED
    BY <2>1 DEF Catalog
<1>14. Catalog(artifact).topics_by_phase_and_slug
         [<<artifact[i].dir, artifact[i].topics[j].slug>>] = looked
  BY <1>13
<1>. HIDE DEF looked
<1>15. QED
  BY <1>11, <1>12, <1>14 DEF Range

LEMMA ValidIsIndexed ==
    ASSUME artifact \in Seq(Phase), ContentValid(artifact),
           IsInjective(Field(artifact, "dir"))
    PROVE  OnlyNamesakesHide
<1>. DEFINE reqs == Requirements(artifact)
            topics == Topics(artifact)
            steps == Steps(artifact)
            owned == Owned(artifact)
            P == Field(artifact, "uuid")
            R == Field(reqs, "uuid")
            T == Field(topics, "uuid")
            U == Field(steps, "uuid")
<1>1. reqs \in Seq(Requirement) /\ topics \in Seq(Topic) /\ steps \in Seq(StepEntry)
  BY EntityLists
<1>2. owned \in Seq(Owner) /\ Field(owned, "uuid") = U
  BY OwnedUuids
<1>3. P \in Seq(Uuids) /\ R \in Seq(Uuids) /\ T \in Seq(Uuids) /\ U \in Seq(Uuids)
  <2>1. /\ \A e \in Phase : e["uuid"] \in Uuids
        /\ \A e \in Requirement : e["uuid"] \in Uuids
        /\ \A e \in Topic : e["uuid"] \in Uuids
        /\ \A e \in StepEntry : e["uuid"] \in Uuids
    BY DEF Phase, Requirement, Topic, StepEntry
  <2>. HIDE DEF reqs, topics, steps
  <2>2. P \in Seq(Uuids)
    BY <2>1, UuidFields
  <2>3. R \in Seq(Uuids)
    BY <1>1, <2>1, UuidFields
  <2>4. T \in Seq(Uuids)
    BY <1>1, <2>1, UuidFields
  <2>5. U \in Seq(Uuids)
    BY <1>1, <2>1, UuidFields
  <2>6. QED
    BY <2>2, <2>3, <2>4, <2>5
<1>4. IsInjective(Join(Join(Join(P, R), T), U))
  BY DEF ContentValid, UuidsUnique, Join
<1>5. IsInjective(R) /\ IsInjective(T) /\ IsInjective(U)
  <2>. HIDE DEF P, R, T, U
  <2>1. Join(P, R) \in Seq(Uuids)
    BY <1>3, JoinFacts
  <2>2. Join(Join(P, R), T) \in Seq(Uuids)
    BY <1>3, <2>1, JoinFacts
  <2>3. IsInjective(Join(Join(P, R), T)) /\ IsInjective(U)
    BY <1>3, <1>4, <2>2, InjectiveParts
  <2>4. IsInjective(Join(P, R)) /\ IsInjective(T)
    BY <1>3, <2>1, <2>3, InjectiveParts
  <2>5. IsInjective(R)
    BY <1>3, <2>4, InjectiveParts
  <2>6. QED
    BY <2>3, <2>4, <2>5
<1>6. IsInjective(Field(reqs, "slug"))
  BY DEF ContentValid, RequirementSlugsUnique
<1>7. IsInjective(Field(artifact, "order"))
  <2>1. Field(artifact, "order") = [i \in DOMAIN artifact |-> i - 1]
    BY DEF ContentValid, OrdersGapless
  <2>2. IsInjective([i \in 1..Len(artifact) |-> i - 1])
    BY DEF IsInjective
  <2>3. DOMAIN artifact = 1..Len(artifact)
    BY SeqFacts
  <2>4. QED
    BY <2>1, <2>2, <2>3
<1>8. Len(owned) = Len(steps)
  <2>. HIDE DEF owned, steps
  <2>1. Len(Field(owned, "uuid")) = Len(owned)
    BY <1>2, FieldFacts
  <2>2. Len(Field(steps, "uuid")) = Len(steps)
    BY <1>1, FieldFacts
  <2>3. QED
    BY <1>2, <2>1, <2>2
<1>9. /\ Cardinality(DOMAIN Indexed(artifact, "order")) = Len(artifact)
      /\ Cardinality(DOMAIN Indexed(artifact, "dir")) = Len(artifact)
  BY <1>7, IndexComplete
<1>10. /\ Cardinality(DOMAIN Indexed(topics, "uuid")) = Len(topics)
       /\ Cardinality(DOMAIN Indexed(steps, "uuid")) = Len(steps)
  <2>. HIDE DEF topics, steps
  <2>1. QED
    BY <1>1, <1>5, IndexComplete
<1>11. Cardinality(DOMAIN Indexed(owned, "uuid")) = Len(steps)
  <2>1. IsInjective(Field(owned, "uuid"))
    BY <1>2, <1>5
  <2>. HIDE DEF owned, steps
  <2>2. QED
    BY <1>2, <1>8, <2>1, IndexComplete
<1>12. /\ Cardinality(DOMAIN Indexed(reqs, "uuid")) = Len(reqs)
       /\ Cardinality(DOMAIN Indexed(reqs, "slug")) = Len(reqs)
  <2>. HIDE DEF reqs
  <2>1. QED
    BY <1>1, <1>5, <1>6, IndexComplete
<1>13. /\ Catalog(artifact).phases_by_slug = Indexed(artifact, "dir")
       /\ Catalog(artifact).phases_by_order = Indexed(artifact, "order")
       /\ Catalog(artifact).topics_by_uuid = Indexed(topics, "uuid")
       /\ Catalog(artifact).steps_by_uuid = Indexed(steps, "uuid")
       /\ Catalog(artifact).owner_by_step_uuid = Indexed(owned, "uuid")
       /\ Catalog(artifact).requirements_by_uuid = Indexed(reqs, "uuid")
       /\ Catalog(artifact).requirements_by_slug = Indexed(reqs, "slug")
  BY DEF Catalog
<1>14. QED
  BY <1>9, <1>10, <1>11, <1>12, <1>13, TopicsFound DEF OnlyNamesakesHide

LEMMA NothingIsValid == ContentValid(<<>>) /\ <<>> \in Seq(Phase)
<1>1. /\ Topics(<<>>) = <<>> /\ Requirements(<<>>) = <<>>
      /\ Steps(<<>>) = <<>>
  <2>1. [i \in DOMAIN <<>> |-> <<>>[i].topics] = <<>>
    OBVIOUS
  <2>2. [i \in DOMAIN <<>> |-> <<>>[i].reqs] = <<>>
    OBVIOUS
  <2>3. [i \in DOMAIN <<>> |-> <<>>[i].steps] = <<>>
    OBVIOUS
  <2>4. Topics(<<>>) = <<>> /\ Requirements(<<>>) = <<>>
    BY <2>1, <2>2, FlattenNothing DEF Topics, Requirements
  <2>5. QED
    BY <2>3, <2>4, FlattenNothing DEF Steps
<1>2. \A name : Field(<<>>, name) = <<>>
  BY DEF Field
<1>3. IsInjective(<<>>)
  BY DEF IsInjective
<1>4. UuidsUnique(<<>>)
  <2>1. ((<<>> \o <<>>) \o <<>>) \o <<>> = <<>>
    OBVIOUS
  <2>2. QED
    BY <1>1, <1>2, <1>3, <2>1 DEF UuidsUnique
<1>5. RequirementSlugsUnique(<<>>)
  BY <1>1, <1>2, <1>3 DEF RequirementSlugsUnique
<1>6. TopicSlugsResolve(<<>>) /\ RequirementSlugsResolve(<<>>)
  BY DEF TopicSlugsResolve, RequirementSlugsResolve
<1>7. StepOrdersUnique(<<>>)
  BY <1>1 DEF StepOrdersUnique
<1>8. OrdersGapless(<<>>)
  BY DEF OrdersGapless, Field
<1>9. QED
  BY <1>4, <1>5, <1>6, <1>7, <1>8 DEF ContentValid

-----------------------------------------------------------------------------
(* What the compiler builds of a tree that loads strictly.                 *)
FilesOK ==
  /\ meta \in [Dirs -> PhaseFile]
  /\ topicFile \in [Dirs \X Stems -> TopicFile]
  /\ reqFile \in [Dirs \X Stems -> RequirementFile]

LEMMA Kept ==
    ASSUME FilesOK, StrictlyLoads, NEW d \in Dirs
    PROVE  /\ meta[d].topics \in Seq(Stems) /\ meta[d].reqs \in Seq(Stems)
           /\ KeptTopics(d) = [i \in 1..Len(meta[d].topics) |-> i]
           /\ KeptRequirements(d) = [i \in 1..Len(meta[d].reqs) |-> i]
           /\ \A i \in 1..Len(meta[d].reqs) : RequirementLoads(d, meta[d].reqs[i])
<1>. DEFINE topics == meta[d].topics
            reqs == meta[d].reqs
<1>1. topics \in Seq(Stems) /\ reqs \in Seq(Stems)
  BY DEF FilesOK, PhaseFile
<1>2. /\ \A s \in Range(topics) : TopicLoads(d, s)
      /\ \A s \in Range(reqs) : RequirementLoads(d, s)
  BY DEF StrictlyLoads
<1>. HIDE DEF topics, reqs
<1>3. /\ DOMAIN topics = 1..Len(topics) /\ Len(topics) \in Nat
      /\ DOMAIN reqs = 1..Len(reqs) /\ Len(reqs) \in Nat
  BY <1>1
<1>4. /\ \A i \in 1..Len(topics) : TopicLoads(d, topics[i])
      /\ \A i \in 1..Len(reqs) : RequirementLoads(d, reqs[i])
  BY <1>2, <1>3 DEF Range
<1>5. /\ {i \in DOMAIN topics : TopicLoads(d, topics[i])} = 1..Len(topics)
      /\ {i \in DOMAIN reqs : RequirementLoads(d, reqs[i])} = 1..Len(reqs)
  BY <1>3, <1>4
<1>6. KeptTopics(d) = Ascending(1..Len(topics)) /\ KeptRequirements(d) = Ascending(1..Len(reqs))
  BY <1>5, Zenon DEF KeptTopics, KeptRequirements, topics, reqs
<1>7. /\ Ascending(1..Len(topics)) = [i \in 1..Len(topics) |-> i]
      /\ Ascending(1..Len(reqs)) = [i \in 1..Len(reqs) |-> i]
  BY <1>3, AscendingAll
<1>8. QED
  BY <1>1, <1>4, <1>6, <1>7 DEF topics, reqs

LEMMA BuiltWhole ==
    ASSUME FilesOK, StrictlyLoads, NEW d \in Dirs
    PROVE  /\ BuiltPhase(d) \in Phase
           /\ BuiltPhase(d).dir = d
           /\ BuiltPhase(d).order = meta[d].order
           /\ BuiltPhase(d).topics
                = [i \in 1..Len(meta[d].topics) |-> BuiltTopic(d, meta[d].topics[i], i)]
           /\ BuiltPhase(d).reqs
                = [i \in 1..Len(meta[d].reqs) |-> BuiltRequirement(d, meta[d].reqs[i])]
           /\ Field(BuiltPhase(d).reqs, "slug") = meta[d].reqs
<1>. DEFINE topics == meta[d].topics
            reqs == meta[d].reqs
            builtTopics == [i \in 1..Len(topics) |-> BuiltTopic(d, topics[i], i)]
            builtReqs == [i \in 1..Len(reqs) |-> BuiltRequirement(d, reqs[i])]
<1>1. /\ topics \in Seq(Stems) /\ reqs \in Seq(Stems)
      /\ KeptTopics(d) = [i \in 1..Len(topics) |-> i]
      /\ KeptRequirements(d) = [i \in 1..Len(reqs) |-> i]
      /\ \A i \in 1..Len(reqs) : RequirementLoads(d, reqs[i])
  BY Kept
<1>2. meta[d].uuid \in Uuids /\ meta[d].order \in 0..Cardinality(Dirs)
  BY DEF FilesOK, PhaseFile
<1>. HIDE DEF topics, reqs
<1>3. [n \in DOMAIN KeptTopics(d) |-> BuiltTopic(d, topics[KeptTopics(d)[n]], KeptTopics(d)[n])]
        = builtTopics
  BY <1>1
<1>4. [n \in DOMAIN KeptRequirements(d) |-> BuiltRequirement(d, reqs[KeptRequirements(d)[n]])]
        = builtReqs
  BY <1>1
<1>5. BuiltPhase(d) =
        [dir |-> d, uuid |-> meta[d].uuid, order |-> meta[d].order,
         topicSlugs |-> topics, reqSlugs |-> reqs, topics |-> builtTopics,
         reqs |-> builtReqs]
  <2>. HIDE DEF builtTopics, builtReqs
  <2>1. BuiltPhase(d) = BuiltFrom(d, builtTopics)
    BY <1>3 DEF BuiltPhase, topics
  <2>2. QED
    BY <1>4, <2>1 DEF BuiltFrom, topics, reqs
<1>6. /\ Len(topics) \in Nat /\ \A i \in 1..Len(topics) : topics[i] \in Stems
      /\ Len(reqs) \in Nat /\ \A i \in 1..Len(reqs) : reqs[i] \in Stems
      /\ DOMAIN reqs = 1..Len(reqs) /\ reqs = [i \in 1..Len(reqs) |-> reqs[i]]
  BY <1>1
<1>7. ASSUME NEW i \in 1..Len(topics) PROVE BuiltTopic(d, topics[i], i) \in Topic
  <2>1. <<d, topics[i]>> \in Dirs \X Stems
    BY <1>6
  <2>2. topicFile[<<d, topics[i]>>] \in TopicFile
    BY <2>1 DEF FilesOK
  <2>3. QED
    BY <2>2, <1>6 DEF BuiltTopic, Topic, TopicFile
<1>8. ASSUME NEW i \in 1..Len(reqs)
      PROVE  BuiltRequirement(d, reqs[i]) \in Requirement
             /\ BuiltRequirement(d, reqs[i]).slug = reqs[i]
  <2>1. <<d, reqs[i]>> \in Dirs \X Stems
    BY <1>6
  <2>2. reqFile[<<d, reqs[i]>>] \in RequirementFile
    BY <2>1 DEF FilesOK
  <2>3. reqFile[<<d, reqs[i]>>].slug = reqs[i]
    BY <1>1 DEF RequirementLoads
  <2>4. QED
    BY <2>2, <2>3 DEF BuiltRequirement, Requirement, RequirementFile
<1>9. builtTopics \in Seq(Topic) /\ builtReqs \in Seq(Requirement)
  <2>1. builtTopics \in [1..Len(topics) -> Topic] /\ builtReqs \in [1..Len(reqs) -> Requirement]
    BY <1>7, <1>8
  <2>. HIDE DEF builtTopics, builtReqs
  <2>2. QED
    BY <1>6, <2>1
<1>10. BuiltPhase(d) \in Phase
  <2>. HIDE DEF builtTopics, builtReqs
  <2>1. QED
    BY <1>1, <1>2, <1>5, <1>9 DEF Phase
<1>11. Field(builtReqs, "slug") = reqs
  <2>1. Field(builtReqs, "slug") = [i \in 1..Len(reqs) |-> BuiltRequirement(d, reqs[i]).slug]
    BY DEF Field
  <2>2. QED
    BY <1>6, <1>8, <2>1
<1>12. /\ BuiltPhase(d).dir = d /\ BuiltPhase(d).order = meta[d].order
       /\ BuiltPhase(d).topics = builtTopics /\ BuiltPhase(d).reqs = builtReqs
  <2>. HIDE DEF builtTopics, builtReqs
  <2>1. QED
    BY <1>5
<1>13. QED
  BY <1>10, <1>11, <1>12 DEF topics, reqs

LEMMA TwoDirs == Cardinality(Dirs) = 2
<1>1. PICK a, b \in Int : a = 1 /\ b = 2
  OBVIOUS
<1>2. Cardinality(a..b) = IF a > b THEN 0 ELSE b - a + 1
  BY FS_Interval
<1>3. QED
  BY <1>1, <1>2 DEF Dirs

LEMMA Pair ==
    ASSUME NEW S, NEW f \in [1..2 -> S]
    PROVE  f \in Seq(S) /\ Len(f) = 2 /\ DOMAIN f = 1..2
<1>1. 2 \in Nat
  OBVIOUS
<1>2. QED
  BY <1>1, ListOf, Zenon

(* Both directories are there, in the order of their numbers.              *)
LEMMA BuiltInOrder ==
    ASSUME FilesOK, StrictlyLoads
    PROVE  /\ InOrder(Dirs) \in Seq(Phase)
           /\ DOMAIN InOrder(Dirs) = 1..2 /\ Len(InOrder(Dirs)) = 2
           /\ \A i \in 1..2 : InOrder(Dirs)[i] = BuiltPhase(InOrder(Dirs)[i].dir)
           /\ {InOrder(Dirs)[i].dir : i \in 1..2} = Dirs
<1>. DEFINE built == {BuiltPhase(d) : d \in Dirs}
            Sorted(p) == \A i, j \in DOMAIN p : i < j => Before(p[i], p[j])
            phases == CHOOSE p \in [1..2 -> built] : Sorted(p)
<1>1. Cardinality(Dirs) = 2
  BY TwoDirs
<1>2. InOrder(Dirs) = phases
  BY <1>1, Zenon DEF InOrder
<1>3. \A d \in Dirs : BuiltPhase(d) \in Phase /\ BuiltPhase(d).dir = d
  BY BuiltWhole
<1>4. /\ BuiltPhase(1).dir = 1 /\ BuiltPhase(2).dir = 2
      /\ BuiltPhase(1).order \in Nat /\ BuiltPhase(2).order \in Nat
  <2>1. 1 \in Dirs /\ 2 \in Dirs
    BY DEF Dirs
  <2>2. \A phase \in Phase : phase.order \in Nat
    BY <1>1 DEF Phase
  <2>3. QED
    BY <1>3, <2>1, <2>2
<1>5. \E p \in [1..2 -> built] : Sorted(p)
  <2>. DEFINE up == [i \in 1..2 |-> IF i = 1 THEN BuiltPhase(1) ELSE BuiltPhase(2)]
              down == [i \in 1..2 |-> IF i = 1 THEN BuiltPhase(2) ELSE BuiltPhase(1)]
  <2>1. up \in [1..2 -> built] /\ down \in [1..2 -> built]
    BY DEF Dirs
  <2>2. CASE Before(BuiltPhase(1), BuiltPhase(2))
    <3>1. Sorted(up)
      BY <2>2
    <3>. HIDE DEF Sorted, up, built
    <3>2. QED
      BY <2>1, <3>1
  <2>3. CASE ~Before(BuiltPhase(1), BuiltPhase(2))
    <3>1. Before(BuiltPhase(2), BuiltPhase(1))
      BY <1>4, <2>3 DEF Before
    <3>2. Sorted(down)
      BY <3>1
    <3>. HIDE DEF Sorted, down, built
    <3>3. QED
      BY <2>1, <3>2
  <2>4. QED
    BY <2>2, <2>3
<1>6. phases \in [1..2 -> built] /\ Sorted(phases)
  <2>. HIDE DEF Sorted, built
  <2>1. QED
    BY <1>5, Zenon
<1>. HIDE DEF phases
<1>7. \A i \in 1..2 : phases[i] = BuiltPhase(phases[i].dir) /\ phases[i] \in Phase
                      /\ phases[i].dir \in Dirs
  <2>1. TAKE i \in 1..2
  <2>2. PICK d \in Dirs : phases[i] = BuiltPhase(d)
    BY <1>6
  <2>3. QED
    BY <1>3, <2>2
<1>8. phases[1].dir # phases[2].dir
  <2>1. Before(phases[1], phases[2])
    BY <1>6
  <2>2. \A phase \in Phase : phase.order \in Nat /\ phase.dir \in Nat
    BY <1>1 DEF Phase, Dirs
  <2>3. 1 \in 1..2 /\ 2 \in 1..2
    OBVIOUS
  <2>4. ASSUME phases[1].dir = phases[2].dir PROVE FALSE
    <3>1. phases[1] = phases[2]
      BY <1>7, <2>3, <2>4
    <3>2. QED
      BY <1>7, <2>1, <2>2, <2>3, <3>1 DEF Before
  <2>5. QED
    BY <2>4
<1>9. {phases[i].dir : i \in 1..2} = Dirs
  <2>1. /\ phases[1].dir \in {1, 2} /\ phases[2].dir \in {1, 2}
    BY <1>7 DEF Dirs
  <2>2. {phases[i].dir : i \in 1..2} = {phases[1].dir, phases[2].dir}
    OBVIOUS
  <2>3. Dirs = {1, 2}
    BY DEF Dirs
  <2>4. QED
    BY <1>8, <2>1, <2>2, <2>3
<1>10. phases \in Seq(Phase) /\ Len(phases) = 2 /\ DOMAIN phases = 1..2
  <2>1. phases \in [1..2 -> Phase]
    <3>1. phases = [i \in 1..2 |-> phases[i]]
      BY <1>6
    <3>2. QED
      BY <1>7, <3>1
  <2>2. QED
    BY <2>1, Pair, Zenon
<1>11. QED
  BY <1>2, <1>7, <1>9, <1>10

-----------------------------------------------------------------------------
(* The inductive invariant. What a process loads is always what the        *)
(* validators accepted when it was compiled, each directory once; as long as the tree has not   *)
(* been edited since a successful compile it loads strictly, and a report  *)
(* of errors is about a tree the validators refuse.                        *)
TreeInv ==
  /\ TypeOK
  /\ \A f \in Dirs \X Stems : topicFile[f].steps # <<>>
  /\ ContentValid(artifact)
  /\ IsInjective(Field(artifact, "dir"))
  /\ compiled = "ok" => StrictlyLoads /\ artifact = InOrder(Dirs)
  /\ validated = "errors" => ~ContentValid(TolerantLoad)

\* What reads the files only does not see the other variables change.
LEMMA SameTree ==
    ASSUME UNCHANGED <<meta, topicFile, reqFile>>
    PROVE  /\ StrictlyLoads' = StrictlyLoads
           /\ InOrder(Dirs)' = InOrder(Dirs)
           /\ TolerantLoad' = TolerantLoad
<1>1. meta' = meta /\ topicFile' = topicFile /\ reqFile' = reqFile
  OBVIOUS
<1>2. StrictlyLoads' = StrictlyLoads
  BY <1>1 DEF StrictlyLoads, TopicLoads, RequirementLoads
<1>3. \A d : BuiltPhase(d)' = BuiltPhase(d)
  <2>1. \A d : KeptTopics(d)' = KeptTopics(d) /\ KeptRequirements(d)' = KeptRequirements(d)
    BY <1>1, Zenon DEF KeptTopics, KeptRequirements, TopicLoads, RequirementLoads
  <2>2. \A d, s, i : BuiltTopic(d, s, i)' = BuiltTopic(d, s, i)
    BY <1>1, Zenon DEF BuiltTopic
  <2>3. \A d, s : BuiltRequirement(d, s)' = BuiltRequirement(d, s)
    BY <1>1, Zenon DEF BuiltRequirement
  <2>4. QED
    BY <1>1, <2>1, <2>2, <2>3, Zenon DEF BuiltPhase, BuiltFrom
<1>4. \A dirs : InOrder(dirs)' = InOrder(dirs)
  BY <1>3, Zenon DEF InOrder
<1>5. TolerantLoad' = TolerantLoad
  BY <1>1, <1>4, Zenon DEF TolerantLoad
<1>6. QED
  BY <1>2, <1>4, <1>5, Zenon

LEMMA StemsListed ==
  /\ StemSeq \in Seq(Stems) /\ DOMAIN StemSeq = 1..Len(StemSeq)
  /\ \A d \in Dirs : StemSeq[d] \in Stems
<1>1. Cardinality(Stems) \in Nat /\ Cardinality(Stems) >= 2
  BY StemAssumption, FS_CardinalityType
<1>2. \E f \in [1..Cardinality(Stems) -> Stems] : IsInjective(f)
  <2>1. ExistsBijection(1..Cardinality(Stems), Stems)
    BY StemAssumption, FS_CardinalityType
  <2>2. QED
    BY <2>1, Zenon DEF ExistsBijection, Bijection, Injection
<1>3. StemSeq \in [1..Cardinality(Stems) -> Stems]
  BY <1>2, Zenon DEF StemSeq, SetToSeq
<1>. DEFINE n == Cardinality(Stems)
<1>4. n \in Nat /\ n >= 2 /\ StemSeq \in [1..n -> Stems]
  BY <1>1, <1>3
<1>. HIDE DEF n
<1>5. \A d \in Dirs : d \in 1..n
  BY <1>4 DEF Dirs
<1>6. QED
  BY <1>4, <1>5

LEMMA DirsOnce ==
    ASSUME FilesOK, StrictlyLoads
    PROVE  IsInjective(Field(InOrder(Dirs), "dir"))
<1>. DEFINE phases == InOrder(Dirs)
<1>1. DOMAIN phases = 1..2 /\ {phases[i].dir : i \in 1..2} = Dirs
  BY BuiltInOrder
<1>. HIDE DEF phases
<1>2. phases[1].dir # phases[2].dir
  BY <1>1 DEF Dirs
<1>3. QED
  BY <1>1, <1>2 DEF IsInjective, Field, phases

LEMMA InitTree == Init => TreeInv
<1>. SUFFICES ASSUME Init PROVE TreeInv
  OBVIOUS
<1>1. Cardinality(Dirs) = 2
  BY TwoDirs
<1>2. meta \in [Dirs -> PhaseFile]
  <2>1. ASSUME NEW d \in Dirs
        PROVE  [parses |-> TRUE, uuid |-> Uuid("phase", d, 0, 0), order |-> d - 1,
                topics |-> StemSeq, reqs |-> <<StemSeq[d]>>] \in PhaseFile
    <3>1. Uuid("phase", d, 0, 0) \in Uuids
      BY DEF Uuid, Uuids
    <3>2. d - 1 \in 0..Cardinality(Dirs)
      BY <1>1 DEF Dirs
    <3>3. <<StemSeq[d]>> \in Seq(Stems)
      BY StemsListed
    <3>4. QED
      BY <3>1, <3>2, <3>3, StemsListed DEF PhaseFile
  <2>2. QED
    BY <2>1 DEF Init
<1>3. /\ topicFile \in [Dirs \X Stems -> TopicFile]
      /\ \A f \in Dirs \X Stems : topicFile[f].steps # <<>>
  <2>. DEFINE count(f) == IF f[2] = StemSeq[1] THEN 2 ELSE 1
              steps(f) == [n \in 1..count(f) |->
                            [uuid |-> Uuid("step", f[1], f[2], n), slug |-> n, order |-> n]]
              file(f) == [parses |-> TRUE, uuid |-> Uuid("topic", f[1], f[2], 0),
                          slug |-> f[2], steps |-> steps(f)]
  <2>1. ASSUME NEW f \in Dirs \X Stems
        PROVE  file(f) \in TopicFile /\ file(f).steps # <<>>
    <3>1. f[1] \in Dirs /\ f[2] \in Stems
      OBVIOUS
    <3>2. count(f) \in {1, 2}
      OBVIOUS
    <3>3. ASSUME NEW n \in 1..count(f)
          PROVE  [uuid |-> Uuid("step", f[1], f[2], n), slug |-> n, order |-> n] \in StepEntry
      <4>1. n \in 1..2
        BY <3>2
      <4>2. Uuid("step", f[1], f[2], n) \in Uuids
        BY <3>1, <4>1 DEF Uuid, Uuids
      <4>3. QED
        BY <4>1, <4>2 DEF StepEntry
    <3>4. steps(f) \in [1..count(f) -> StepEntry] /\ count(f) \in Nat /\ count(f) >= 1
      BY <3>2, <3>3
    <3>. HIDE DEF count
    <3>5. steps(f) \in Seq(StepEntry) /\ steps(f) # <<>>
      BY <3>4
    <3>6. Uuid("topic", f[1], f[2], 0) \in Uuids
      BY <3>1 DEF Uuid, Uuids
    <3>. HIDE DEF steps
    <3>7. QED
      BY <3>1, <3>5, <3>6 DEF TopicFile
  <2>2. topicFile = [f \in Dirs \X Stems |-> file(f)]
    BY DEF Init
  <2>. HIDE DEF file
  <2>3. QED
    BY <2>1, <2>2
<1>4. reqFile \in [Dirs \X Stems -> RequirementFile]
  <2>1. ASSUME NEW f \in Dirs \X Stems
        PROVE  [parses |-> TRUE, uuid |-> Uuid("requirement", f[1], f[2], 0), slug |-> f[2]]
                 \in RequirementFile
    <3>1. f[1] \in Dirs /\ f[2] \in Stems
      OBVIOUS
    <3>2. Uuid("requirement", f[1], f[2], 0) \in Uuids
      BY <3>1 DEF Uuid, Uuids
    <3>3. QED
      BY <3>1, <3>2 DEF RequirementFile
  <2>2. QED
    BY <2>1 DEF Init
<1>5. /\ artifact \in Seq(Phase) /\ ContentValid(artifact)
      /\ IsInjective(Field(artifact, "dir"))
  <2>1. artifact = <<>>
    BY DEF Init, NoTree
  <2>2. IsInjective(Field(<<>>, "dir"))
    BY DEF IsInjective, Field
  <2>3. QED
    BY <2>1, <2>2, NothingIsValid
<1>6. validated = "unknown" /\ compiled = "unknown" /\ edits = 0 /\ 0 \in 0..MaxEdits
  BY EditAssumption DEF Init
<1>7. QED
  BY <1>2, <1>3, <1>4, <1>5, <1>6 DEF TreeInv, TypeOK

(* An edit leaves the artifact alone and withdraws both reports.           *)
LEMMA AfterEdit ==
    ASSUME TreeInv, Edited, FilesOK', \A f \in Dirs \X Stems : topicFile'[f].steps # <<>>
    PROVE  TreeInv'
<1>1. artifact' = artifact /\ validated' = "unknown" /\ compiled' = "unknown"
  BY DEF Edited
<1>2. edits' \in 0..MaxEdits
  BY EditAssumption DEF Edited, TreeInv, TypeOK
<1>3. /\ artifact' \in Seq(Phase) /\ ContentValid(artifact')
      /\ IsInjective(Field(artifact, "dir")')
  BY <1>1 DEF TreeInv, TypeOK
<1>4. QED
  BY <1>1, <1>2, <1>3 DEF TreeInv, TypeOK, FilesOK

LEMMA EditPhaseKeeps ==
    ASSUME TreeInv, NEW d \in Dirs, EditPhase(d)
    PROVE  TreeInv'
<1>1. /\ meta \in [Dirs -> PhaseFile] /\ meta[d] \in PhaseFile
      /\ meta[d].topics \in Seq(Stems) /\ meta[d].reqs \in Seq(Stems)
  BY DEF TreeInv, TypeOK, PhaseFile
<1>2. topicFile' = topicFile /\ reqFile' = reqFile /\ Edited
  BY DEF EditPhase
<1>3. meta' \in [Dirs -> PhaseFile]
  <2>1. CASE meta' = [meta EXCEPT ![d].parses = FALSE]
    BY <1>1, <2>1 DEF PhaseFile
  <2>2. CASE \E o \in 0..Cardinality(Dirs) : meta' = [meta EXCEPT ![d].order = o]
    BY <1>1, <2>2 DEF PhaseFile
  <2>3. CASE \E s \in Stems : meta' = [meta EXCEPT ![d].topics = Append(@, s)]
    <3>1. PICK s \in Stems : meta' = [meta EXCEPT ![d].topics = Append(meta[d].topics, s)]
      BY <2>3
    <3>2. Append(meta[d].topics, s) \in Seq(Stems)
      BY <1>1
    <3>3. QED
      BY <1>1, <3>1, <3>2 DEF PhaseFile
  <2>4. CASE meta' = [meta EXCEPT ![d].topics = Reverse(@)]
    <3>1. meta' = [meta EXCEPT ![d].topics = Reverse(meta[d].topics)]
      BY <2>4
    <3>2. \A s \in Seq(Stems) : Reverse(s) \in Seq(Stems)
      BY DEF Reverse
    <3>3. Reverse(meta[d].topics) \in Seq(Stems)
      BY <1>1, <3>2
    <3>4. QED
      BY <1>1, <3>1, <3>3 DEF PhaseFile
  <2>5. CASE \E s \in Stems : meta' = [meta EXCEPT ![d].reqs = Append(@, s)]
    <3>1. PICK s \in Stems : meta' = [meta EXCEPT ![d].reqs = Append(meta[d].reqs, s)]
      BY <2>5
    <3>2. Append(meta[d].reqs, s) \in Seq(Stems)
      BY <1>1
    <3>3. QED
      BY <1>1, <3>1, <3>2 DEF PhaseFile
  <2>6. QED
    BY <2>1, <2>2, <2>3, <2>4, <2>5 DEF EditPhase
<1>4. FilesOK' /\ \A f \in Dirs \X Stems : topicFile'[f].steps # <<>>
  BY <1>2, <1>3 DEF FilesOK, TreeInv, TypeOK
<1>5. QED
  BY <1>2, <1>4, AfterEdit

LEMMA EditTopicKeeps ==
    ASSUME TreeInv, NEW d \in Dirs, NEW s \in Stems, EditTopic(d, s)
    PROVE  TreeInv'
<1>. DEFINE at == <<d, s>>
            files == Dirs \X Stems
            steps == topicFile[at].steps
            Fine(file) == file \in TopicFile /\ file.steps # <<>>
<1>1. at \in files /\ meta' = meta /\ reqFile' = reqFile /\ Edited
  BY DEF EditTopic
<1>2. /\ topicFile \in [files -> TopicFile]
      /\ \A f \in files : Fine(topicFile[f])
  BY DEF TreeInv, TypeOK
<1>3. /\ steps \in Seq(StepEntry) /\ steps # <<>> /\ 1 \in DOMAIN steps
      /\ \A f \in files : topicFile[f].steps[1].uuid \in Uuids
  <2>1. \A f \in files : topicFile[f].steps \in Seq(StepEntry) /\ topicFile[f].steps # <<>>
    BY <1>2 DEF TopicFile
  <2>2. \A q \in Seq(StepEntry) : q # <<>> => 1 \in DOMAIN q /\ q[1] \in StepEntry
    OBVIOUS
  <2>3. \A entry \in StepEntry : entry.uuid \in Uuids
    BY DEF StepEntry
  <2>. HIDE DEF files
  <2>4. QED
    BY <1>1, <2>1, <2>2, <2>3
\* A file whose steps are those it had, one entry of them replaced.
<1>4. ASSUME NEW n \in DOMAIN steps, NEW entry \in StepEntry,
             topicFile' = [topicFile EXCEPT ![at].steps[n] = entry]
      PROVE  topicFile' \in [files -> TopicFile] /\ \A f \in files : Fine(topicFile'[f])
  <2>. DEFINE q == [steps EXCEPT ![n] = entry]
  <2>1. q \in Seq(StepEntry) /\ q # <<>>
    BY <1>3
  <2>2. topicFile' = [topicFile EXCEPT ![at].steps = q]
    <3>. HIDE DEF at, files
    <3>1. QED
      BY <1>4
  <2>. HIDE DEF q, steps
  <2>3. [topicFile[at] EXCEPT !.steps = q] \in TopicFile
    BY <1>1, <1>2, <2>1 DEF TopicFile
  <2>4. topicFile' = [topicFile EXCEPT ![at] = [topicFile[at] EXCEPT !.steps = q]]
    BY <2>2
  <2>5. [topicFile[at] EXCEPT !.steps = q].steps = q
    BY <1>1, <1>2 DEF TopicFile
  <2>. HIDE DEF at, files
  <2>6. QED
    BY <1>1, <1>2, <2>1, <2>3, <2>4, <2>5
<1>5. topicFile' \in [files -> TopicFile] /\ \A f \in files : Fine(topicFile'[f])
  <2>1. CASE topicFile' = [topicFile EXCEPT ![at].parses = FALSE]
    BY <1>1, <1>2, <2>1 DEF TopicFile
  <2>2. CASE \E u \in Stems : topicFile' = [topicFile EXCEPT ![at].slug = u]
    <3>1. PICK u \in Stems : topicFile' = [topicFile EXCEPT ![at].slug = u]
      BY <2>2
    <3>2. QED
      BY <1>1, <1>2, <3>1 DEF TopicFile
  <2>3. CASE \E f \in files : topicFile' = [topicFile EXCEPT ![at].uuid = topicFile[f].uuid]
    <3>1. PICK u \in Uuids : topicFile' = [topicFile EXCEPT ![at].uuid = u]
      BY <1>2, <2>3 DEF TopicFile
    <3>2. QED
      BY <1>1, <1>2, <3>1 DEF TopicFile
  <2>4. CASE \E n \in DOMAIN steps :
               topicFile' = [topicFile EXCEPT ![at].steps[n].slug = 1]
    <3>1. PICK n \in DOMAIN steps : topicFile' = [topicFile EXCEPT ![at].steps[n].slug = 1]
      BY <2>4
    <3>. DEFINE entry == [steps[n] EXCEPT !.slug = 1]
    <3>2. topicFile' = [topicFile EXCEPT ![at].steps[n] = entry]
      <4>. HIDE DEF at, files
      <4>1. QED
        BY <3>1
    <3>3. entry \in StepEntry
      <4>1. steps[n] \in StepEntry
        <5>. HIDE DEF steps
        <5>1. QED
          BY <1>3
      <4>. HIDE DEF steps
      <4>2. QED
        BY <4>1 DEF StepEntry
    <3>. HIDE DEF entry
    <3>4. QED
      BY <1>4, <3>2, <3>3
  <2>5. CASE \E n \in DOMAIN steps :
               topicFile' = [topicFile EXCEPT ![at].steps[n].order = 1]
    <3>1. PICK n \in DOMAIN steps : topicFile' = [topicFile EXCEPT ![at].steps[n].order = 1]
      BY <2>5
    <3>. DEFINE entry == [steps[n] EXCEPT !.order = 1]
    <3>2. topicFile' = [topicFile EXCEPT ![at].steps[n] = entry]
      <4>. HIDE DEF at, files
      <4>1. QED
        BY <3>1
    <3>3. entry \in StepEntry
      <4>1. steps[n] \in StepEntry
        <5>. HIDE DEF steps
        <5>1. QED
          BY <1>3
      <4>. HIDE DEF steps
      <4>2. QED
        BY <4>1 DEF StepEntry
    <3>. HIDE DEF entry
    <3>4. QED
      BY <1>4, <3>2, <3>3
  <2>6. CASE \E f \in files :
               topicFile' = [topicFile EXCEPT ![at].steps[1].uuid = topicFile[f].steps[1].uuid]
    <3>1. PICK u \in Uuids : topicFile' = [topicFile EXCEPT ![at].steps[1].uuid = u]
      BY <1>3, <2>6
    <3>. DEFINE entry == [steps[1] EXCEPT !.uuid = u]
    <3>2. topicFile' = [topicFile EXCEPT ![at].steps[1] = entry]
      <4>. HIDE DEF at, files
      <4>1. QED
        BY <3>1
    <3>3. entry \in StepEntry
      <4>1. steps[1] \in StepEntry
        <5>. HIDE DEF steps
        <5>1. QED
          BY <1>3
      <4>. HIDE DEF steps
      <4>2. QED
        BY <4>1 DEF StepEntry
    <3>. HIDE DEF entry
    <3>4. QED
      BY <1>3, <1>4, <3>2, <3>3
  <2>7. QED
    BY <2>1, <2>2, <2>3, <2>4, <2>5, <2>6 DEF EditTopic
<1>6. FilesOK'
  BY <1>1, <1>5 DEF FilesOK, TreeInv, TypeOK
<1>7. QED
  BY <1>1, <1>5, <1>6, AfterEdit

LEMMA EditRequirementKeeps ==
    ASSUME TreeInv, NEW d \in Dirs, NEW s \in Stems, EditRequirement(d, s)
    PROVE  TreeInv'
<1>. DEFINE at == <<d, s>>
            files == Dirs \X Stems
<1>1. at \in files /\ meta' = meta /\ topicFile' = topicFile /\ Edited
  BY DEF EditRequirement
<1>2. reqFile \in [files -> RequirementFile] /\ topicFile \in [files -> TopicFile]
  BY DEF TreeInv, TypeOK
<1>3. reqFile' \in [files -> RequirementFile]
  <2>1. CASE reqFile' = [reqFile EXCEPT ![at].parses = FALSE]
    BY <1>1, <1>2, <2>1 DEF RequirementFile
  <2>2. CASE \E u \in Stems : reqFile' = [reqFile EXCEPT ![at].slug = u]
    BY <1>1, <1>2, <2>2 DEF RequirementFile
  <2>3. CASE \E f \in files : reqFile' = [reqFile EXCEPT ![at].uuid = topicFile[f].uuid]
    <3>1. PICK u \in Uuids : reqFile' = [reqFile EXCEPT ![at].uuid = u]
      BY <1>2, <2>3 DEF TopicFile
    <3>2. QED
      BY <1>1, <1>2, <3>1 DEF RequirementFile
  <2>4. QED
    BY <2>1, <2>2, <2>3 DEF EditRequirement
<1>4. FilesOK' /\ \A f \in files : topicFile'[f].steps # <<>>
  BY <1>1, <1>3 DEF FilesOK, TreeInv, TypeOK
<1>5. QED
  BY <1>1, <1>4, AfterEdit

LEMMA ValidateKeeps ==
    ASSUME TreeInv, Validate
    PROVE  TreeInv'
<1>1. /\ UNCHANGED <<meta, topicFile, reqFile, compiled, artifact, edits>>
      /\ validated' = IF ContentValid(TolerantLoad) THEN "ok" ELSE "errors"
  BY DEF Validate
<1>2. /\ StrictlyLoads' = StrictlyLoads /\ InOrder(Dirs)' = InOrder(Dirs)
      /\ TolerantLoad' = TolerantLoad
  BY <1>1, SameTree
<1>3. validated' \in {"unknown", "ok", "errors"}
      /\ (validated' = "errors" => ~ContentValid(TolerantLoad))
  BY <1>1
<1>4. TypeOK' /\ \A f \in Dirs \X Stems : topicFile'[f].steps # <<>>
  BY <1>1, <1>3 DEF TreeInv, TypeOK
<1>5. ContentValid(artifact') /\ IsInjective(Field(artifact', "dir"))
  BY <1>1 DEF TreeInv
<1>6. compiled' = "ok" => StrictlyLoads' /\ artifact' = InOrder(Dirs)'
  BY <1>1, <1>2 DEF TreeInv
<1>7. validated' = "errors" => ~ContentValid(TolerantLoad')
  BY <1>2, <1>3
<1>8. QED
  BY <1>4, <1>5, <1>6, <1>7 DEF TreeInv

LEMMA CompileKeeps ==
    ASSUME TreeInv, Compile
    PROVE  TreeInv'
<1>. DEFINE good == StrictlyLoads /\ ContentValid(InOrder(Dirs))
<1>1. /\ UNCHANGED <<meta, topicFile, reqFile, validated, edits>>
      /\ compiled' = IF good THEN "ok" ELSE "failed"
      /\ artifact' = IF good THEN InOrder(Dirs) ELSE artifact
  BY DEF Compile
<1>2. /\ StrictlyLoads' = StrictlyLoads /\ InOrder(Dirs)' = InOrder(Dirs)
      /\ TolerantLoad' = TolerantLoad
  BY <1>1, SameTree
<1>3. FilesOK
  BY DEF FilesOK, TreeInv, TypeOK
<1>4. /\ artifact' \in Seq(Phase) /\ ContentValid(artifact')
      /\ IsInjective(Field(artifact, "dir")')
  <2>1. CASE good
    BY <1>1, <1>3, <2>1, BuiltInOrder, DirsOnce
  <2>2. CASE ~good
    BY <1>1, <2>2 DEF TreeInv, TypeOK
  <2>3. QED
    BY <2>1, <2>2
<1>5. compiled' \in {"unknown", "ok", "failed"}
  BY <1>1
<1>6. TypeOK' /\ \A f \in Dirs \X Stems : topicFile'[f].steps # <<>>
  BY <1>1, <1>4, <1>5 DEF TreeInv, TypeOK
<1>7. compiled' = "ok" => StrictlyLoads' /\ artifact' = InOrder(Dirs)'
  BY <1>1, <1>2
<1>8. validated' = "errors" => ~ContentValid(TolerantLoad')
  BY <1>1, <1>2 DEF TreeInv
<1>9. QED
  BY <1>4, <1>6, <1>7, <1>8 DEF TreeInv

LEMMA NextTree == TreeInv /\ [Next]_vars => TreeInv'
<1>. SUFFICES ASSUME TreeInv, [Next]_vars PROVE TreeInv'
  OBVIOUS
<1>1. CASE \E d \in Dirs : EditPhase(d)
  BY <1>1, EditPhaseKeeps
<1>2. CASE \E d \in Dirs, s \in Stems : EditTopic(d, s)
  BY <1>2, EditTopicKeeps
<1>3. CASE \E d \in Dirs, s \in Stems : EditRequirement(d, s)
  BY <1>3, EditRequirementKeeps
<1>4. CASE Validate
  BY <1>4, ValidateKeeps
<1>5. CASE Compile
  BY <1>5, CompileKeeps
<1>6. CASE UNCHANGED vars
  <2>1. /\ UNCHANGED <<meta, topicFile, reqFile>>
        /\ UNCHANGED <<validated, compiled, artifact, edits>>
    BY <1>6 DEF vars
  <2>2. /\ StrictlyLoads' = StrictlyLoads /\ InOrder(Dirs)' = InOrder(Dirs)
        /\ TolerantLoad' = TolerantLoad
    BY <2>1, SameTree
  <2>3. TypeOK' /\ \A f \in Dirs \X Stems : topicFile'[f].steps # <<>>
    BY <2>1 DEF TreeInv, TypeOK
  <2>4. QED
    BY <2>1, <2>2, <2>3 DEF TreeInv
<1>7. QED
  BY <1>1, <1>2, <1>3, <1>4, <1>5, <1>6 DEF Next

LEMMA TreeIsInvariant == Spec => []TreeInv
<1>1. QED
  BY InitTree, NextTree, PTL DEF Spec

-----------------------------------------------------------------------------
(* Theorems                                                                *)

\* The tree, the reports and the artifact keep their shape: every artifact
\* ever written holds well-formed phases, topics, steps and requirements.
THEOREM TypeCorrect == Spec => []TypeOK
<1>1. TreeInv => TypeOK
  BY DEF TreeInv
<1>2. QED
  BY <1>1, TreeIsInvariant, PTL

\* The artifact a successful compile wrote is the tree as it stands, whole and
\* in order, and what the validation script accepts: CompiledIsFaithful.
LEMMA WholeFromTree == TreeInv => CompiledIsWhole
<1>. SUFFICES ASSUME TreeInv, compiled = "ok" PROVE CompiledIsWhole
  BY DEF CompiledIsWhole
<1>1. /\ FilesOK /\ StrictlyLoads /\ artifact = InOrder(Dirs) /\ ContentValid(artifact)
  BY DEF TreeInv, TypeOK, FilesOK
<1>2. /\ DOMAIN artifact = 1..2
      /\ \A i \in 1..2 : artifact[i] = BuiltPhase(artifact[i].dir)
      /\ {artifact[i].dir : i \in 1..2} = Dirs
  BY <1>1, BuiltInOrder
<1>3. ASSUME NEW i \in DOMAIN artifact, NEW d, d = artifact[i].dir
      PROVE  /\ artifact[i].order = i - 1
             /\ [j \in DOMAIN artifact[i].topics |-> artifact[i].topics[j].uuid]
                  = [j \in DOMAIN meta[d].topics |-> topicFile[<<d, meta[d].topics[j]>>].uuid]
             /\ [j \in DOMAIN artifact[i].topics |-> artifact[i].topics[j].order]
                  = [j \in DOMAIN meta[d].topics |-> j]
             /\ Field(artifact[i].reqs, "slug") = meta[d].reqs
  <2>1. d \in Dirs /\ artifact[i] = BuiltPhase(d)
    BY <1>2, <1>3
  <2>2. artifact[i].order = i - 1
    <3>1. Field(artifact, "order") = [k \in DOMAIN artifact |-> k - 1]
      BY <1>1 DEF ContentValid, OrdersGapless
    <3>2. Field(artifact, "order")[i] = artifact[i].order
      BY DEF Field
    <3>3. QED
      BY <3>1, <3>2
  <2>. DEFINE topics == meta[d].topics
              built == BuiltPhase(d).topics
  <2>3. /\ built = [j \in 1..Len(topics) |-> BuiltTopic(d, topics[j], j)]
        /\ Field(BuiltPhase(d).reqs, "slug") = meta[d].reqs
        /\ topics \in Seq(Stems)
    BY <1>1, <2>1, BuiltWhole, Kept
  <2>4. DOMAIN topics = 1..Len(topics)
    BY <2>3, SeqFacts
  <2>. HIDE DEF topics, built
  <2>5. /\ [j \in DOMAIN built |-> built[j].uuid]
             = [j \in DOMAIN topics |-> topicFile[<<d, topics[j]>>].uuid]
        /\ [j \in DOMAIN built |-> built[j].order] = [j \in DOMAIN topics |-> j]
    BY <2>3, <2>4 DEF BuiltTopic
  <2>6. QED
    BY <2>1, <2>2, <2>3, <2>5 DEF topics, built
<1>4. QED
  BY <1>2, <1>3 DEF CompiledIsWhole

LEMMA ValidFromTree == TreeInv => CompiledMeansValid
<1>. SUFFICES ASSUME TreeInv, compiled = "ok"
              PROVE  validated # "errors" /\ TolerantLoad = artifact
  BY DEF CompiledMeansValid
<1>1. StrictlyLoads /\ artifact = InOrder(Dirs) /\ ContentValid(artifact)
  BY DEF TreeInv
<1>2. {d \in Dirs : meta[d].parses} = Dirs
  BY <1>1 DEF StrictlyLoads
<1>3. TolerantLoad = artifact
  BY <1>1, <1>2 DEF TolerantLoad
<1>4. QED
  BY <1>1, <1>3 DEF TreeInv

THEOREM CompiledFaithful == Spec => []CompiledIsFaithful
<1>1. TreeInv => CompiledIsFaithful
  BY WholeFromTree, ValidFromTree DEF CompiledIsFaithful
<1>2. QED
  BY <1>1, TreeIsInvariant, PTL

\* No index a process builds over an artifact hides an entity: the uuids are
\* distinct over all kinds, and a step has the one owner Owned gives it.
THEOREM CatalogComplete == Spec => []OnlyNamesakesHide
<1>1. TreeInv => OnlyNamesakesHide
  BY ValidIsIndexed DEF TreeInv, TypeOK
<1>2. QED
  BY <1>1, TreeIsInvariant, PTL
=============================================================================
