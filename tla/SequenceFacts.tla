----------------------------- MODULE SequenceFacts -----------------------------
(***************************************************************************)
(* Facts about numbers, sequences and folds that the proofs of more than   *)
(* one component need.                                                     *)
(*                                                                         *)
(* The provers cannot instantiate a theorem with an operator parameter, so *)
(* an induction is over a set here, and what a fold applies at each step   *)
(* is a function.                                                          *)
(***************************************************************************)
EXTENDS SequencesExt, Picks,
        FiniteSetTheorems, SequenceTheorems, WellFoundedInduction, TLAPS

----------------------------------------------------------------------------
(* Numbers.                                                                *)

(* A set of naturals has a least element.                                  *)
LEMMA LeastNatural ==
    ASSUME NEW T \in SUBSET Nat, T # {}
    PROVE  \E x \in T : \A y \in T : x <= y
<1> DEFINE R == OpToRel(<, Nat)
<1>1. IsWellFoundedOn(R, Nat)
  BY NatLessThanWellFounded
<1>2. \A x, y \in Nat : y < x => <<y, x>> \in R
  BY DEF OpToRel
<1> HIDE DEF R
<1>3. \E x \in T : \A y \in T : ~(<<y, x>> \in R)
  BY <1>1, WFMin
<1>4. PICK x \in T : \A y \in T : ~(<<y, x>> \in R)
  BY <1>3
<1>5. ASSUME NEW y \in T PROVE x <= y
  <2>1. x \in Nat /\ y \in Nat /\ ~(y < x)
    BY <1>2, <1>4
  <2> QED BY <2>1
<1> QED BY <1>4, <1>5

(* A bounded set of naturals has a greatest element.                       *)
LEMMA Greatest ==
    ASSUME NEW n \in Nat, NEW S \in SUBSET (0..n), S # {}
    PROVE  Max(S) \in S /\ \A y \in S : Max(S) >= y
<1> DEFINE R == OpToRel(<, Nat)
           T == {n - x : x \in S}
<1>1. \A x, y \in Nat : y < x => <<y, x>> \in R
  BY DEF OpToRel
<1>2. IsWellFoundedOn(R, Nat)
  BY NatLessThanWellFounded
<1> HIDE DEF R
<1>3. T \in SUBSET Nat /\ T # {}
  <2>1. ASSUME NEW x \in S PROVE n - x \in Nat
    OBVIOUS
  <2> QED BY <2>1
<1>4. \E m \in T : \A d \in T : ~(<<d, m>> \in R)
  BY <1>2, <1>3, WFMin
<1>5. PICK m \in T : \A d \in T : ~(<<d, m>> \in R)
  BY <1>4
<1>6. PICK x \in S : m = n - x
  OBVIOUS
<1>7. ASSUME NEW y \in S PROVE x >= y
  <2>1. n - y \in T /\ n - y \in Nat /\ n - x \in Nat /\ x \in Nat /\ y \in Nat
    OBVIOUS
  <2>2. ~(n - y < n - x)
    BY <1>1, <1>5, <1>6, <2>1
  <2> QED BY <2>1, <2>2
<1> QED BY <1>7 DEF Max

(* What is above all others is the maximum.                                *)
LEMMA MaxIs ==
    ASSUME NEW T, NEW m \in T, T \subseteq Int, \A y \in T : m >= y PROVE Max(T) = m
<1>1. \E x \in T : \A y \in T : x >= y
  OBVIOUS
<1> DEFINE M == CHOOSE x \in T : \A y \in T : x >= y
<1>2. M \in T /\ \A y \in T : M >= y
  BY <1>1
<1>3. Max(T) = M
  BY DEF Max
<1> HIDE DEF M
<1> QED BY <1>2, <1>3

(* Induction up to n.                                                      *)
LEMMA UpTo ==
    ASSUME NEW n \in Nat, NEW P, 0 \in P, \A k \in 1..n : k - 1 \in P => k \in P
    PROVE  \A k \in 0..n : k \in P
<1> DEFINE Bad == {k \in 0..n : k \notin P}
<1>1. ASSUME Bad # {} PROVE FALSE
  <2>1. Bad \in SUBSET Nat
    OBVIOUS
  <2>2. PICK k \in Bad : \A j \in Bad : k <= j
    <3> HIDE DEF Bad
    <3> QED BY <1>1, <2>1, LeastNatural
  <2>3. k \in 1..n /\ k - 1 \in 0..n /\ ~(k <= k - 1)
    OBVIOUS
  <2>4. k - 1 \in P
    BY <2>2, <2>3
  <2> QED BY <2>3, <2>4
<1> QED BY <1>1

----------------------------------------------------------------------------
(* The elements of a sequence at some places.                              *)

(* The places of a set are counted through, each once.                     *)
LEMMA NthPlaces ==
    ASSUME NEW n \in Nat, NEW places \in SUBSET (1..n)
    PROVE  /\ Cardinality(places) \in 0..n
           /\ \A k \in 1..Cardinality(places) : Nth(places, k) \in places
           /\ \A i \in places : \E k \in 1..Cardinality(places) : Nth(places, k) = i
           /\ \A j, k \in 1..Cardinality(places) : Nth(places, j) = Nth(places, k) => j = k
<1> DEFINE Up(i) == {j \in places : j <= i}
           c     == Cardinality(places)
           rank  == [i \in places |-> Cardinality(Up(i))]
<1>1. IsFiniteSet(places) /\ c \in Nat /\ c <= n
  <2>1. IsFiniteSet(1..n) /\ Cardinality(1..n) = n
    BY FS_Interval
  <2> QED BY <2>1, FS_Subset, FS_CardinalityType
<1>2. ASSUME NEW i \in places PROVE IsFiniteSet(Up(i)) /\ Cardinality(Up(i)) \in 1..c
  <2>1. Up(i) \in SUBSET places /\ i \in Up(i)
    OBVIOUS
  <2>2. IsFiniteSet(Up(i)) /\ Cardinality(Up(i)) <= c /\ Cardinality(Up(i)) \in Nat
    BY <1>1, <2>1, FS_Subset, FS_CardinalityType
  <2>3. Cardinality(Up(i)) # 0
    BY <2>1, <2>2, FS_EmptySet
  <2> QED BY <1>1, <2>2, <2>3
<1>3. ASSUME NEW i \in places, NEW j \in places, i < j
      PROVE  Cardinality(Up(i)) # Cardinality(Up(j))
  <2>0. places \subseteq Nat
    OBVIOUS
  <2>c. i \in Nat /\ j \in Nat /\ \A x \in places : x <= i => x <= j
    BY <1>3, <2>0
  <2>d. j <= j /\ ~(j <= i)
    BY <1>3, <2>c
  <2>1. Up(i) \in SUBSET Up(j)
    BY <2>c
  <2>2. j \in Up(j) /\ j \notin Up(i)
    BY <2>d
  <2> QED BY <1>2, <2>1, <2>2, FS_Subset
<1>4. \A i, j \in places : Cardinality(Up(i)) = Cardinality(Up(j)) => i = j
  BY <1>3
<1>5. rank \in Injection(places, 1..c)
  BY <1>2, <1>4 DEF Injection, IsInjective
<1>6. rank \in Surjection(places, 1..c)
  <2>1. IsFiniteSet(1..c) /\ Cardinality(1..c) = c
    BY <1>1, FS_Interval
  <2> QED BY <1>5, <2>1, FS_Injection
<1>7. \A k \in 1..c : \E i \in places : Cardinality(Up(i)) = k
  BY <1>6 DEF Surjection
<1>8. ASSUME NEW k \in 1..c
      PROVE  Nth(places, k) \in places /\ Cardinality(Up(Nth(places, k))) = k
  BY <1>7 DEF Nth
<1>9. ASSUME NEW i \in places PROVE \E k \in 1..c : Nth(places, k) = i
  <2>1. Cardinality(Up(i)) \in 1..c
    BY <1>2
  <2>2. Nth(places, Cardinality(Up(i))) = i
    BY <2>1, <1>4, <1>8
  <2> QED BY <2>1, <2>2
<1>10. c \in 0..n
  BY <1>1
<1>11. \A j, k \in 1..c : Nth(places, j) = Nth(places, k) => j = k
  BY <1>8
<1> QED BY <1>8, <1>9, <1>10, <1>11

(* What is taken from a list is a list of what stood at the places.        *)
LEMMA TakenIs ==
    ASSUME NEW S, NEW s \in Seq(S), NEW places \in SUBSET (DOMAIN s)
    PROVE  /\ Taken(s, places) \in Seq(S)
           /\ Len(Taken(s, places)) = Cardinality(places)
           /\ Len(Taken(s, places)) <= Len(s)
           /\ Range(Taken(s, places)) = {s[i] : i \in places}
<1>1. Len(s) \in Nat /\ DOMAIN s = 1..Len(s) /\ places \in SUBSET (1..Len(s))
  OBVIOUS
<1> DEFINE c == Cardinality(places)
           t == Taken(s, places)
<1>2. /\ c \in 0..Len(s)
      /\ \A k \in 1..c : Nth(places, k) \in places
      /\ \A i \in places : \E k \in 1..c : Nth(places, k) = i
  BY <1>1, NthPlaces
<1>3. t = [k \in 1..c |-> s[Nth(places, k)]]
  BY DEF Taken
<1> HIDE DEF t, c
<1>4. DOMAIN t = 1..c /\ \A k \in 1..c : t[k] = s[Nth(places, k)] /\ t[k] \in S
  BY <1>1, <1>2, <1>3
<1>5. t \in Seq(S) /\ Len(t) = c
  BY <1>2, <1>3, <1>4
<1>6. Range(t) = {s[i] : i \in places}
  BY <1>2, <1>4, SMTT(30) DEF Range
<1> QED BY <1>2, <1>5, <1>6 DEF t, c

----------------------------------------------------------------------------
(* Pieces of a text.                                                       *)

(* A piece of a text holds what the text has there.                        *)
LEMMA PieceIs ==
    ASSUME NEW T \in Seq(STRING), NEW a \in 1..(Len(T) + 1), NEW b \in 0..Len(T), a <= b + 1
    PROVE  /\ SubSeq(T, a, b) \in Seq(STRING) /\ Len(SubSeq(T, a, b)) = b - a + 1
           /\ \A i \in 1..(b - a + 1) : SubSeq(T, a, b)[i] = T[a + i - 1]
<1>1. SubSeq(T, a, b) = [i \in 1..(b - a + 1) |-> T[a + i - 1]]
  OBVIOUS
<1>2. \A i \in 1..(b - a + 1) : T[a + i - 1] \in STRING
  OBVIOUS
<1>3. b - a + 1 \in Nat
  OBVIOUS
<1> DEFINE P == [i \in 1..(b - a + 1) |-> T[a + i - 1]]
<1>4. P \in [1..(b - a + 1) -> STRING]
  BY <1>2
<1>5. P \in Seq(STRING) /\ Len(P) = b - a + 1
  BY <1>3, <1>4
<1> QED BY <1>1, <1>5

(* Two pieces that follow one another are one.                              *)
LEMMA PiecesJoin ==
    ASSUME NEW T \in Seq(STRING), NEW a \in 1..(Len(T) + 1), NEW b \in 0..Len(T),
           NEW c \in 0..Len(T), a <= b + 1, b <= c
    PROVE  SubSeq(T, a, b) \o SubSeq(T, b + 1, c) = SubSeq(T, a, c)
<1> DEFINE x == SubSeq(T, a, b)
           y == SubSeq(T, b + 1, c)
           z == SubSeq(T, a, c)
<1>1. x \in Seq(STRING) /\ Len(x) = b - a + 1 /\ \A i \in 1..(b - a + 1) : x[i] = T[a + i - 1]
  BY PieceIs
<1>2. y \in Seq(STRING) /\ Len(y) = c - b /\ \A i \in 1..(c - b) : y[i] = T[b + i]
  <2>1. b + 1 \in 1..(Len(T) + 1) /\ c - (b + 1) + 1 = c - b /\ \A i \in Int : b + 1 + i - 1 = b + i
    OBVIOUS
  <2>2. y \in Seq(STRING) /\ Len(y) = c - (b + 1) + 1
        /\ \A i \in 1..(c - (b + 1) + 1) : y[i] = T[b + 1 + i - 1]
    BY <2>1, PieceIs
  <2> HIDE DEF y
  <2> QED BY <2>1, <2>2
<1>3. z \in Seq(STRING) /\ Len(z) = c - a + 1 /\ \A i \in 1..(c - a + 1) : z[i] = T[a + i - 1]
  BY PieceIs
<1> HIDE DEF x, y, z
<1>4. /\ x \o y \in Seq(STRING) /\ Len(x \o y) = Len(x) + Len(y)
      /\ \A i \in 1..(Len(x) + Len(y)) :
             (x \o y)[i] = IF i <= Len(x) THEN x[i] ELSE y[i - Len(x)]
  BY <1>1, <1>2, ConcatProperties
<1>5. Len(x) + Len(y) = c - a + 1
  BY <1>1, <1>2
<1> DEFINE w == x \o y
<1> HIDE DEF w
<1>6. w \in Seq(STRING) /\ Len(w) = c - a + 1
  BY <1>4, <1>5 DEF w
<1>7. ASSUME NEW i \in 1..(c - a + 1) PROVE w[i] = z[i]
  <2>1. w[i] = IF i <= Len(x) THEN x[i] ELSE y[i - Len(x)]
    BY <1>4, <1>5 DEF w
  <2>2. CASE i <= Len(x)
    <3>1. i \in 1..(b - a + 1)
      BY <2>2, <1>1
    <3> QED BY <3>1, <2>1, <2>2, <1>1, <1>3
  <2>3. CASE i > Len(x)
    <3>1. i - Len(x) \in 1..(c - b) /\ b + (i - Len(x)) = a + i - 1 /\ ~(i <= Len(x))
      <4>1. PICK k : k = Len(x) /\ k = b - a + 1
        BY <1>1
      <4>2. i > k /\ i \in 1..(c - a + 1) /\ a \in Int /\ b \in Int /\ c \in Int
        BY <2>3, <4>1
      <4>3. i - k \in 1..(c - b) /\ b + (i - k) = a + i - 1 /\ ~(i <= k)
        BY <4>1, <4>2
      <4> QED BY <4>1, <4>3
    <3> QED BY <3>1, <2>1, <1>2, <1>3
  <2>4. i <= Len(x) \/ i > Len(x)
    BY <1>1
  <2> QED BY <2>2, <2>3, <2>4
<1>8. w = z
  BY <1>3, <1>6, <1>7
<1> QED BY <1>8 DEF w, x, y, z

(* A piece of a piece is a piece.                                          *)
LEMMA PieceOfPiece ==
    ASSUME NEW T \in Seq(STRING), NEW a \in 1..(Len(T) + 1), NEW b \in 0..Len(T), a <= b + 1,
           NEW c \in 1..(b - a + 2), NEW d \in 0..(b - a + 1), c <= d + 1
    PROVE  SubSeq(SubSeq(T, a, b), c, d) = SubSeq(T, a + c - 1, a + d - 1)
<1> DEFINE x == SubSeq(T, a, b)
           y == SubSeq(x, c, d)
           z == SubSeq(T, a + c - 1, a + d - 1)
<1>1. x \in Seq(STRING) /\ Len(x) = b - a + 1 /\ \A i \in 1..(b - a + 1) : x[i] = T[a + i - 1]
  BY PieceIs
<1>2. /\ a + c - 1 \in 1..(Len(T) + 1) /\ a + d - 1 \in 0..Len(T)
      /\ a + c - 1 <= a + d - 1 + 1 /\ a + d - 1 - (a + c - 1) + 1 = d - c + 1
      /\ \A i \in Int : a + c - 1 + i - 1 = a + (c + i - 1) - 1
  OBVIOUS
<1>3. /\ z \in Seq(STRING) /\ Len(z) = d - c + 1
      /\ \A i \in 1..(d - c + 1) : z[i] = T[a + (c + i - 1) - 1]
  <2>1. /\ z \in Seq(STRING) /\ Len(z) = a + d - 1 - (a + c - 1) + 1
        /\ \A i \in 1..(a + d - 1 - (a + c - 1) + 1) : z[i] = T[a + c - 1 + i - 1]
    BY <1>2, PieceIs
  <2> HIDE DEF z
  <2> QED BY <1>2, <2>1
<1> HIDE DEF x
<1>4. /\ y \in Seq(STRING) /\ Len(y) = d - c + 1
      /\ \A i \in 1..(d - c + 1) : y[i] = x[c + i - 1]
  <2>1. c \in 1..(Len(x) + 1) /\ d \in 0..Len(x)
    BY <1>1
  <2> QED BY <1>1, <2>1, PieceIs
<1> HIDE DEF y, z
<1>5. ASSUME NEW i \in 1..(d - c + 1) PROVE y[i] = z[i]
  <2>1. c + i - 1 \in 1..(b - a + 1)
    OBVIOUS
  <2> QED BY <2>1, <1>1, <1>3, <1>4
<1>6. y = z
  BY <1>3, <1>4, <1>5
<1> QED BY <1>6 DEF x, y, z

----------------------------------------------------------------------------
(* Folds.  A fold over n places that stays in S while it applies h has a   *)
(* value for every set of places, and goes through the values of v.        *)

(* The maximum of some places is one of them.                              *)
LEMMA MaxIn ==
    ASSUME NEW n \in Nat, NEW s \in SUBSET (1..n), s # {} PROVE Max(s) \in s
<1>1. s \in SUBSET (0..n)
  OBVIOUS
<1> QED BY <1>1, Greatest

(* Function g folds every set of places, from the last one down.           *)
Folds(g, n, b, h) ==
    \A s \in SUBSET (1..n) : g[s] = IF s = {} THEN b ELSE h[<<Max(s), g[s \ {Max(s)}]>>]

(* The values v a fold goes through, from b to the last.                   *)
Runs(v, n, b, h, last) ==
    v[0] = b /\ v[n] = last /\ \A k \in 1..n : v[k] = h[<<k, v[k - 1]>>]

(* Applied to one more place, it applies h to what it was, while that is in S. *)
Climbs(it, n, S, b, h) ==
    it[{}] = b /\ \A k \in 1..n : it[1..(k - 1)] \in S => it[1..k] = h[<<k, it[1..(k - 1)]>>]

(* There is a fold for every step that stays in S.                         *)
LEMMA FoldExists ==
    ASSUME NEW n \in Nat, NEW S, NEW b \in S, NEW h \in [(1..n) \X S -> S]
    PROVE  \E g \in [SUBSET (1..n) -> S] : Folds(g, n, b, h)
<1> DEFINE Works(k, g) == \A s \in SUBSET (1..k) :
                             g[s] = IF s = {} THEN b ELSE h[<<Max(s), g[s \ {Max(s)}]>>]
           Bad == {k \in Nat : k <= n /\ ~\E g \in [SUBSET (1..k) -> S] : Works(k, g)}
           R == OpToRel(<, Nat)
<1>1. ASSUME Bad # {} PROVE FALSE
  <2>1. IsWellFoundedOn(R, Nat)
    BY NatLessThanWellFounded
  <2>2. PICK k \in Bad : \A j \in Bad : ~(<<j, k>> \in R)
    <3>1. Bad \subseteq Nat
      OBVIOUS
    <3> HIDE DEF Bad, R
    <3> QED BY <1>1, <2>1, <3>1, WFMin
  <2>3. \A j \in Bad : ~(j < k)
    BY <2>2 DEF OpToRel
  <2>4. k # 0
    <3>1. SUBSET (1..0) = {{}}
      OBVIOUS
    <3> DEFINE g == [s \in SUBSET (1..0) |-> b]
    <3>2. g \in [SUBSET (1..0) -> S] /\ Works(0, g)
      BY <3>1
    <3>3. 0 \notin Bad
      BY <3>2
    <3> HIDE DEF Bad
    <3> QED BY <3>3, <2>2
  <2>5. k - 1 \in Nat /\ k - 1 <= n /\ k \in 1..n
    BY <2>4
  <2>6. k - 1 \notin Bad
    <3>1. k - 1 < k /\ k \in Nat
      BY <2>5
    <3> HIDE DEF Bad
    <3> QED BY <2>3, <3>1
  <2>7. PICK g \in [SUBSET (1..(k - 1)) -> S] : Works(k - 1, g)
    BY <2>5, <2>6
  <2> DEFINE e == [s \in SUBSET (1..k) |-> IF k \in s THEN h[<<k, g[s \ {k}]>>] ELSE g[s]]
  <2>8. ASSUME NEW s \in SUBSET (1..k), k \in s
        PROVE  s \ {k} \in SUBSET (1..(k - 1)) /\ Max(s) = k
    <3>1. Max(s) = k
      <4>1. s \subseteq Int /\ \A y \in s : k >= y
        BY <2>5
      <4> QED BY <2>8, <4>1, MaxIs
    <3> QED BY <2>5, <3>1
  <2>9. ASSUME NEW s \in SUBSET (1..k), k \notin s PROVE s \in SUBSET (1..(k - 1))
    BY <2>5, <2>9
  <2>10. e \in [SUBSET (1..k) -> S]
    <3> SUFFICES ASSUME NEW s \in SUBSET (1..k) PROVE e[s] \in S
      OBVIOUS
    <3>1. CASE k \in s
      <4>1. g[s \ {k}] \in S
        BY <2>8, <3>1
      <4>2. <<k, g[s \ {k}]>> \in (1..n) \X S
        BY <4>1, <2>5
      <4> QED BY <4>2, <3>1
    <3>2. CASE k \notin s
      BY <2>9, <3>2
    <3> QED BY <3>1, <3>2
  <2>11. Works(k, e)
    <3> SUFFICES ASSUME NEW s \in SUBSET (1..k)
                 PROVE  e[s] = IF s = {} THEN b ELSE h[<<Max(s), e[s \ {Max(s)}]>>]
      OBVIOUS
    <3>1. CASE k \in s
      <4>1. e[s \ {k}] = g[s \ {k}] /\ s # {}
        BY <2>8, <3>1
      <4>2. e[s] = h[<<k, g[s \ {k}]>>] /\ Max(s) = k
        BY <2>8, <3>1
      <4> QED BY <4>1, <4>2
    <3>2. CASE k \notin s
      <4>1. s \in SUBSET (1..(k - 1)) /\ e[s] = g[s]
        BY <2>9, <3>2
      <4>2. g[s] = IF s = {} THEN b ELSE h[<<Max(s), g[s \ {Max(s)}]>>]
        BY <2>7, <4>1
      <4>3. e[s \ {Max(s)}] = g[s \ {Max(s)}]
        BY <3>2
      <4> QED BY <4>1, <4>2, <4>3
    <3> QED BY <3>1, <3>2
  <2>12. k \notin Bad
    BY <2>10, <2>11
  <2> QED BY <2>12
<1>2. n \notin Bad /\ n <= n
  <2>1. Bad = {}
    BY <1>1
  <2> HIDE DEF Bad
  <2> QED BY <2>1
<1>3. \E g \in [SUBSET (1..n) -> S] : Works(n, g)
  BY <1>2
<1> QED BY <1>3 DEF Folds

(* A fold whose step stays in S runs through S, place by place.            *)
LEMMA FoldRuns ==
    ASSUME NEW n \in Nat, NEW S, NEW b \in S, NEW h \in [(1..n) \X S -> S], NEW it,
           Climbs(it, n, S, b, h)
    PROVE  \E v \in [0..n -> S] : Runs(v, n, b, h, it[1..n])
<1> DEFINE v == [k \in 0..n |-> it[1..k]]
           P == {k \in 0..n : it[1..k] \in S}
<1>1. 1..0 = {}
  OBVIOUS
<1>2. 0 \in P
  BY <1>1 DEF Climbs
<1>3. ASSUME NEW k \in 1..n, k - 1 \in P PROVE k \in P
  <2>1. it[1..k] = h[<<k, it[1..(k - 1)]>>] /\ it[1..(k - 1)] \in S
    BY <1>3 DEF Climbs
  <2>2. <<k, it[1..(k - 1)]>> \in (1..n) \X S
    BY <2>1
  <2>3. it[1..k] \in S /\ k \in 0..n
    BY <2>1, <2>2
  <2> QED BY <2>3
<1>4. \A k \in 0..n : k \in P
  <2> HIDE DEF P
  <2> QED BY <1>2, <1>3, UpTo
<1>5. v \in [0..n -> S]
  BY <1>4
<1>6. v[0] = b /\ v[n] = it[1..n]
  BY <1>1 DEF Climbs
<1>7. ASSUME NEW k \in 1..n PROVE v[k] = h[<<k, v[k - 1]>>]
  <2>1. k - 1 \in 0..n /\ k \in 0..n
    OBVIOUS
  <2>2. v[k] = it[1..k] /\ v[k - 1] = it[1..(k - 1)] /\ it[1..(k - 1)] \in S
    BY <1>4, <2>1
  <2>3. it[1..k] = h[<<k, it[1..(k - 1)]>>]
    BY <2>2 DEF Climbs
  <2> HIDE DEF v
  <2> QED BY <2>2, <2>3
<1> HIDE DEF v
<1> QED BY <1>5, <1>6, <1>7 DEF Runs

(* Its result is in S: what every step keeps, the fold keeps.              *)
LEMMA FoldStays ==
    ASSUME NEW n \in Nat, NEW S, NEW b \in S, NEW h \in [(1..n) \X S -> S], NEW it,
           Climbs(it, n, S, b, h)
    PROVE  it[1..n] \in S
<1>1. PICK v \in [0..n -> S] : Runs(v, n, b, h, it[1..n])
  BY FoldRuns
<1> QED BY <1>1 DEF Runs

(* The places below a place, as the fold takes them.                       *)
LEMMA Initial ==
    ASSUME NEW n \in Nat, NEW k \in 1..n
    PROVE  /\ 1..k \in SUBSET (1..n) /\ 1..k # {} /\ Max(1..k) = k
           /\ (1..k) \ {k} = 1..(k - 1) /\ 1..(k - 1) \in SUBSET (1..n)
<1>1. k \in 1..k /\ 1..k \subseteq Int /\ \A y \in 1..k : k >= y
  OBVIOUS
<1>2. Max(1..k) = k
  BY <1>1, MaxIs
<1> QED BY <1>1, <1>2

================================================================================
