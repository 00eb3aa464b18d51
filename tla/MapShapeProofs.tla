---------------------------- MODULE MapShapeProofs -----------------------------
(***************************************************************************)
(* Proofs about what the page computes over sequences, for any points:     *)
(* lines simplified, what is clipped lies in view, and what is clipped is  *)
(* exact: polygons by the parity of the edges a ray crosses, lines by what *)
(* each segment leaves to the parts.                                       *)
(***************************************************************************)
EXTENDS MapGeometry, MapEventsProofs

-------------------------------------------------------------------------------
\* Lines simplified.

\* Every point of the plane.
Plane == [x : Int, y : Int]

LEMMA KeepMarkedKeeps ==
  ASSUME NEW marked, NEW kept \in Seq(Nat), NEW i \in Nat
  PROVE  KeepMarked(marked, kept, i) \in Seq(Nat)
BY DEF KeepMarked

LEMMA KeepFarKeeps ==
  ASSUME NEW points, NEW kept \in Seq(Nat), NEW i \in Nat
  PROVE  KeepFar(points, kept, i) \in Seq(Nat)
BY DEF KeepFar

\* The marked indices are kept one by one.
KeepMarkedAll(marked, seq, base) == FoldLeft(LAMBDA k, i : KeepMarked(marked, k, i), base, seq)

KeepMarkedStep(marked, seq) == [p \in Seq(Nat) \X (1..Len(seq)) |-> KeepMarked(marked, p[1], seq[p[2]])]

KeepMarkedTable(t, marked, seq, base) ==
  t = [s \in SUBSET (DOMAIN seq) |->
         IF s = {} THEN base ELSE KeepMarked(marked, t[s \ {Max(s)}], seq[Max(s)])]

KeepMarkedMade(made, marked, seq, base) ==
  /\ made \in [0..Len(seq) -> Seq(Nat)] /\ made[0] = base
  /\ \A k \in 1..Len(seq) : made[k] = KeepMarked(marked, made[k - 1], seq[k])

LEMMA KeepMarkedStepIsStep ==
  ASSUME NEW marked,
         NEW seq \in Seq(Nat)
  PROVE  /\ Len(seq) \in Nat /\ DOMAIN seq = 1..Len(seq)
         /\ KeepMarkedStep(marked, seq) \in [Seq(Nat) \X (1..Len(seq)) -> Seq(Nat)]
<1>1. Len(seq) \in Nat /\ DOMAIN seq = 1..Len(seq) /\ \A i \in 1..Len(seq) : seq[i] \in Nat
  OBVIOUS
<1>2. \A r \in Seq(Nat), i \in 1..Len(seq) : KeepMarked(marked, r, seq[i]) \in Seq(Nat)
  BY <1>1, KeepMarkedKeeps
<1> QED
  BY <1>1, <1>2 DEF KeepMarkedStep

LEMMA KeepMarkedTableExists ==
  ASSUME NEW marked,
         NEW seq \in Seq(Nat),
         NEW base \in Seq(Nat)
  PROVE  \E t : KeepMarkedTable(t, marked, seq, base)
<1> DEFINE n == Len(seq)
           step == KeepMarkedStep(marked, seq)
<1>1. n \in Nat /\ DOMAIN seq = 1..n /\ step \in [Seq(Nat) \X (1..n) -> Seq(Nat)]
  BY KeepMarkedStepIsStep
<1>2. HasTable(step, base, Seq(Nat), n)
  <2> HIDE DEF step, n
  <2> QED
    BY <1>1, TableExists
<1>3. PICK t \in [SUBSET (1..n) -> Seq(Nat)] : Table(t, step, base, n)
  BY <1>2 DEF HasTable
<1>4. ASSUME NEW s \in SUBSET (1..n), s # {}
      PROVE  step[<<t[s \ {Max(s)}], Max(s)>>] = KeepMarked(marked, t[s \ {Max(s)}], seq[Max(s)])
  <2>1. Max(s) \in 1..n
    BY <1>1, <1>4, MaxOfNumbers
  <2>2. t[s \ {Max(s)}] \in Seq(Nat)
    OBVIOUS
  <2> QED
    BY <2>1, <2>2 DEF KeepMarkedStep
<1>5. t = [s \in SUBSET (1..n) |->
             IF s = {} THEN base ELSE KeepMarked(marked, t[s \ {Max(s)}], seq[Max(s)])]
  <2> HIDE DEF step
  <2> QED
    BY <1>3, <1>4 DEF Table
<1> QED
  BY <1>1, <1>5 DEF KeepMarkedTable

LEMMA KeepMarkedFold ==
  ASSUME NEW marked,
         NEW seq \in Seq(Nat),
         NEW base \in Seq(Nat)
  PROVE  \E made : KeepMarkedMade(made, marked, seq, base) /\ KeepMarkedAll(marked, seq, base) = made[Len(seq)]
<1> DEFINE n == Len(seq)
           step == KeepMarkedStep(marked, seq)
           t == CHOOSE t : KeepMarkedTable(t, marked, seq, base)
<1>1. n \in Nat /\ DOMAIN seq = 1..n /\ step \in [Seq(Nat) \X (1..n) -> Seq(Nat)]
  BY KeepMarkedStepIsStep
<1>2. KeepMarkedTable(t, marked, seq, base)
  BY KeepMarkedTableExists
<1>3. KeepMarkedAll(marked, seq, base) = t[1..n]
  BY <1>1 DEF KeepMarkedAll, FoldLeft, MapThenFoldSet, KeepMarkedTable
<1> HIDE DEF t
<1>4. t[{}] = base
  BY <1>2 DEF KeepMarkedTable
<1>5. ASSUME NEW k \in 1..n, t[1..k - 1] \in Seq(Nat)
      PROVE  t[1..k] = step[<<t[1..k - 1], k>>]
  <2>1. (1..k) \in SUBSET (1..n) /\ 1..k # {} /\ Max(1..k) = k /\ (1..k) \ {k} = 1..k - 1
    BY <1>1, TableRow
  <2>2. t[1..k] = KeepMarked(marked, t[1..k - 1], seq[k])
    BY <1>1, <1>2, <2>1 DEF KeepMarkedTable
  <2> QED
    BY <1>5, <2>2 DEF KeepMarkedStep
<1>6. PICK made \in [0..n -> Seq(Nat)] : StepsFrom(made, step, base, n) /\ made[n] = t[1..n]
  <2> HIDE DEF step, n
  <2>1. Unfolds(t, step, Seq(Nat), base, n)
    BY <1>4, <1>5 DEF Unfolds
  <2>2. HasSteps(step, Seq(Nat), base, n, t[1..n])
    BY <1>1, <2>1, StepsOfTable
  <2> QED
    BY <2>2 DEF HasSteps
<1>7. \A k \in 1..n : made[k] = KeepMarked(marked, made[k - 1], seq[k])
  BY <1>1, <1>6, TableRow DEF StepsFrom, KeepMarkedStep
<1>8. KeepMarkedMade(made, marked, seq, base)
  BY <1>6, <1>7 DEF StepsFrom, KeepMarkedMade
<1> QED
  BY <1>3, <1>6, <1>8

\* The points that are far enough apart are kept one by one.
KeepFarAll(points, seq, base) == FoldLeft(LAMBDA k, i : KeepFar(points, k, i), base, seq)

KeepFarStep(points, seq) == [p \in Seq(Nat) \X (1..Len(seq)) |-> KeepFar(points, p[1], seq[p[2]])]

KeepFarTable(t, points, seq, base) ==
  t = [s \in SUBSET (DOMAIN seq) |->
         IF s = {} THEN base ELSE KeepFar(points, t[s \ {Max(s)}], seq[Max(s)])]

KeepFarMade(made, points, seq, base) ==
  /\ made \in [0..Len(seq) -> Seq(Nat)] /\ made[0] = base
  /\ \A k \in 1..Len(seq) : made[k] = KeepFar(points, made[k - 1], seq[k])

LEMMA KeepFarStepIsStep ==
  ASSUME NEW points,
         NEW seq \in Seq(Nat)
  PROVE  /\ Len(seq) \in Nat /\ DOMAIN seq = 1..Len(seq)
         /\ KeepFarStep(points, seq) \in [Seq(Nat) \X (1..Len(seq)) -> Seq(Nat)]
<1>1. Len(seq) \in Nat /\ DOMAIN seq = 1..Len(seq) /\ \A i \in 1..Len(seq) : seq[i] \in Nat
  OBVIOUS
<1>2. \A r \in Seq(Nat), i \in 1..Len(seq) : KeepFar(points, r, seq[i]) \in Seq(Nat)
  BY <1>1, KeepFarKeeps
<1> QED
  BY <1>1, <1>2 DEF KeepFarStep

LEMMA KeepFarTableExists ==
  ASSUME NEW points,
         NEW seq \in Seq(Nat),
         NEW base \in Seq(Nat)
  PROVE  \E t : KeepFarTable(t, points, seq, base)
<1> DEFINE n == Len(seq)
           step == KeepFarStep(points, seq)
<1>1. n \in Nat /\ DOMAIN seq = 1..n /\ step \in [Seq(Nat) \X (1..n) -> Seq(Nat)]
  BY KeepFarStepIsStep
<1>2. HasTable(step, base, Seq(Nat), n)
  <2> HIDE DEF step, n
  <2> QED
    BY <1>1, TableExists
<1>3. PICK t \in [SUBSET (1..n) -> Seq(Nat)] : Table(t, step, base, n)
  BY <1>2 DEF HasTable
<1>4. ASSUME NEW s \in SUBSET (1..n), s # {}
      PROVE  step[<<t[s \ {Max(s)}], Max(s)>>] = KeepFar(points, t[s \ {Max(s)}], seq[Max(s)])
  <2>1. Max(s) \in 1..n
    BY <1>1, <1>4, MaxOfNumbers
  <2>2. t[s \ {Max(s)}] \in Seq(Nat)
    OBVIOUS
  <2> QED
    BY <2>1, <2>2 DEF KeepFarStep
<1>5. t = [s \in SUBSET (1..n) |->
             IF s = {} THEN base ELSE KeepFar(points, t[s \ {Max(s)}], seq[Max(s)])]
  <2> HIDE DEF step
  <2> QED
    BY <1>3, <1>4 DEF Table
<1> QED
  BY <1>1, <1>5 DEF KeepFarTable

LEMMA KeepFarFold ==
  ASSUME NEW points,
         NEW seq \in Seq(Nat),
         NEW base \in Seq(Nat)
  PROVE  \E made : KeepFarMade(made, points, seq, base) /\ KeepFarAll(points, seq, base) = made[Len(seq)]
<1> DEFINE n == Len(seq)
           step == KeepFarStep(points, seq)
           t == CHOOSE t : KeepFarTable(t, points, seq, base)
<1>1. n \in Nat /\ DOMAIN seq = 1..n /\ step \in [Seq(Nat) \X (1..n) -> Seq(Nat)]
  BY KeepFarStepIsStep
<1>2. KeepFarTable(t, points, seq, base)
  BY KeepFarTableExists
<1>3. KeepFarAll(points, seq, base) = t[1..n]
  BY <1>1 DEF KeepFarAll, FoldLeft, MapThenFoldSet, KeepFarTable
<1> HIDE DEF t
<1>4. t[{}] = base
  BY <1>2 DEF KeepFarTable
<1>5. ASSUME NEW k \in 1..n, t[1..k - 1] \in Seq(Nat)
      PROVE  t[1..k] = step[<<t[1..k - 1], k>>]
  <2>1. (1..k) \in SUBSET (1..n) /\ 1..k # {} /\ Max(1..k) = k /\ (1..k) \ {k} = 1..k - 1
    BY <1>1, TableRow
  <2>2. t[1..k] = KeepFar(points, t[1..k - 1], seq[k])
    BY <1>1, <1>2, <2>1 DEF KeepFarTable
  <2> QED
    BY <1>5, <2>2 DEF KeepFarStep
<1>6. PICK made \in [0..n -> Seq(Nat)] : StepsFrom(made, step, base, n) /\ made[n] = t[1..n]
  <2> HIDE DEF step, n
  <2>1. Unfolds(t, step, Seq(Nat), base, n)
    BY <1>4, <1>5 DEF Unfolds
  <2>2. HasSteps(step, Seq(Nat), base, n, t[1..n])
    BY <1>1, <2>1, StepsOfTable
  <2> QED
    BY <2>2 DEF HasSteps
<1>7. \A k \in 1..n : made[k] = KeepFar(points, made[k - 1], seq[k])
  BY <1>1, <1>6, TableRow DEF StepsFrom, KeepFarStep
<1>8. KeepFarMade(made, points, seq, base)
  BY <1>6, <1>7 DEF StepsFrom, KeepFarMade
<1> QED
  BY <1>3, <1>6, <1>8

\* The positions of a sequence, from 1 and from 2 on.
Numbered(n) == [i \in 1..n |-> i]
NumberedFrom2(n) == [i \in 1..n - 1 |-> i + 1]

LEMMA NumberedIs ==
  ASSUME NEW n \in Nat
  PROVE  /\ Numbered(n) \in Seq(Nat) /\ Len(Numbered(n)) = n
         /\ \A i \in 1..n : Numbered(n)[i] = i
BY DEF Numbered

LEMMA NumberedFrom2Is ==
  ASSUME NEW n \in Nat, n >= 1
  PROVE  /\ NumberedFrom2(n) \in Seq(Nat) /\ Len(NumberedFrom2(n)) = n - 1
         /\ \A i \in 1..n - 1 : NumberedFrom2(n)[i] = i + 1
BY DEF NumberedFrom2

\* Two of the marked indices with none of them in between.
Neighbours(marked, a, b) ==
  /\ a \in marked /\ b \in marked /\ a < b
  /\ \A c \in marked : ~(a < c /\ c < b)

\* Of the indices up to j the marked ones are kept, in their order.
KeptUpTo(marked, kept, j) ==
  /\ kept \in Seq(1..j)
  /\ \A a, b \in 1..j : Neighbours(marked, a, b) =>
       \E k \in 1..Len(kept) - 1 : kept[k] = a /\ kept[k + 1] = b
  /\ \A a \in 1..j : a \in marked /\ (\A c \in marked : ~(a < c /\ c <= j)) =>
       Len(kept) > 0 /\ kept[Len(kept)] = a
  /\ j > 0 => Len(kept) > 0 /\ kept[1] = 1

LEMMA KeepMarkedNext ==
  ASSUME NEW n \in Nat, NEW marked \in SUBSET (1..n), 1 \in marked,
         NEW j \in Nat, NEW kept, KeptUpTo(marked, kept, j)
  PROVE  KeptUpTo(marked, KeepMarked(marked, kept, j + 1), j + 1)
<1> DEFINE next == KeepMarked(marked, kept, j + 1)
<1>1. kept \in Seq(1..j) /\ kept \in Seq(1..j + 1) /\ Len(kept) \in Nat
      /\ \A k \in 1..Len(kept) : kept[k] \in 1..j
  BY DEF KeptUpTo
<1>2. CASE j + 1 \in marked
  <2>1. next = Append(kept, j + 1)
    BY <1>2 DEF KeepMarked
  <2>2. /\ next \in Seq(1..j + 1) /\ Len(next) = Len(kept) + 1 /\ next[Len(kept) + 1] = j + 1
        /\ \A k \in 1..Len(kept) : next[k] = kept[k]
    <3> HIDE DEF next
    <3>1. j + 1 \in 1..j + 1
      OBVIOUS
    <3> QED
      BY <1>1, <2>1, <3>1
  <2> HIDE DEF next
  <2>3. ASSUME NEW a \in 1..j + 1, NEW b \in 1..j + 1, Neighbours(marked, a, b)
        PROVE  \E k \in 1..Len(next) - 1 : next[k] = a /\ next[k + 1] = b
    <3>1. a \in 1..j /\ a \in marked /\ b \in marked /\ a < b
          /\ \A c \in marked : ~(a < c /\ c < b)
      BY <2>3 DEF Neighbours
    <3>2. CASE b = j + 1
      <4>1. \A c \in marked : ~(a < c /\ c <= j)
        BY <3>1, <3>2
      <4>2. Len(kept) > 0 /\ kept[Len(kept)] = a
        BY <3>1, <4>1 DEF KeptUpTo
      <4>3. Len(kept) \in 1..Len(next) - 1 /\ Len(kept) \in 1..Len(kept)
        BY <1>1, <2>2, <4>2
      <4>4. next[Len(kept)] = a /\ next[Len(kept) + 1] = b
        BY <2>2, <3>2, <4>2, <4>3
      <4> QED
        BY <4>3, <4>4
    <3>3. CASE b # j + 1
      <4>1. b \in 1..j
        BY <3>3
      <4>2. PICK k \in 1..Len(kept) - 1 : kept[k] = a /\ kept[k + 1] = b
        BY <2>3, <3>1, <4>1 DEF KeptUpTo
      <4>3. k \in 1..Len(next) - 1 /\ k \in 1..Len(kept) /\ k + 1 \in 1..Len(kept)
        BY <1>1, <2>2
      <4>4. next[k] = a /\ next[k + 1] = b
        BY <2>2, <4>2, <4>3
      <4> QED
        BY <4>3, <4>4
    <3> QED
      BY <3>2, <3>3
  <2>4. ASSUME NEW a \in 1..j + 1, a \in marked, \A c \in marked : ~(a < c /\ c <= j + 1)
        PROVE  Len(next) > 0 /\ next[Len(next)] = a
    <3>1. a = j + 1
      BY <1>2, <2>4
    <3> QED
      BY <1>1, <2>2, <3>1
  <2>5. Len(next) > 0 /\ next[1] = 1
    <3>1. CASE j > 0
      <4>1. Len(kept) > 0 /\ kept[1] = 1
        BY <3>1 DEF KeptUpTo
      <4> QED
        BY <1>1, <2>2, <4>1
    <3>2. CASE j = 0
      <4>1. Len(kept) = 0
        BY <1>1, <3>2
      <4> QED
        BY <2>2, <3>2, <4>1
    <3> QED
      BY <3>1, <3>2
  <2>6. KeptUpTo(marked, next, j + 1)
    BY <2>2, <2>3, <2>4, <2>5 DEF KeptUpTo
  <2> QED
    BY <2>6 DEF next
<1>3. CASE j + 1 \notin marked
  <2>1. next = kept
    BY <1>3 DEF KeepMarked
  <2>2. j > 0
    BY <1>3
  <2> HIDE DEF next
  <2>3. ASSUME NEW a \in 1..j + 1, NEW b \in 1..j + 1, Neighbours(marked, a, b)
        PROVE  \E k \in 1..Len(kept) - 1 : kept[k] = a /\ kept[k + 1] = b
    <3>1. a \in 1..j /\ b \in 1..j
      BY <1>3, <2>3 DEF Neighbours
    <3> QED
      BY <2>3, <3>1 DEF KeptUpTo
  <2>4. ASSUME NEW a \in 1..j + 1, a \in marked, \A c \in marked : ~(a < c /\ c <= j + 1)
        PROVE  Len(kept) > 0 /\ kept[Len(kept)] = a
    <3>1. a \in 1..j
      BY <1>3, <2>4
    <3>2. \A c \in marked : ~(a < c /\ c <= j)
      BY <2>4
    <3> QED
      BY <2>4, <3>1, <3>2 DEF KeptUpTo
  <2>5. Len(kept) > 0 /\ kept[1] = 1
    BY <2>2 DEF KeptUpTo
  <2>6. KeptUpTo(marked, kept, j + 1)
    BY <1>1, <2>3, <2>4, <2>5 DEF KeptUpTo
  <2> QED
    BY <2>1, <2>6 DEF next
<1> QED
  BY <1>2, <1>3

\* What is kept of all the indices.
LEMMA MarkedAreKept ==
  ASSUME NEW n \in Nat, NEW marked \in SUBSET (1..n), 1 \in marked
  PROVE  KeptUpTo(marked, KeepMarkedAll(marked, Numbered(n), <<>>), n)
<1> DEFINE seq == Numbered(n)
<1>1. seq \in Seq(Nat) /\ Len(seq) = n /\ \A i \in 1..n : seq[i] = i
  BY NumberedIs
<1>2. PICK made : /\ KeepMarkedMade(made, marked, seq, <<>>)
                  /\ KeepMarkedAll(marked, seq, <<>>) = made[Len(seq)]
  <2> DEFINE none == <<>>
  <2>1. none \in Seq(Nat)
    OBVIOUS
  <2> HIDE DEF seq, none
  <2>2. \E made : KeepMarkedMade(made, marked, seq, none)
                   /\ KeepMarkedAll(marked, seq, none) = made[Len(seq)]
    BY <1>1, <2>1, KeepMarkedFold
  <2> QED
    BY <2>2 DEF none
<1> HIDE DEF seq
<1> DEFINE T == {k \in Nat : k <= n => KeptUpTo(marked, made[k], k)}
<1>3. 0 \in T
  <2>1. KeptUpTo(marked, <<>>, 0)
    BY DEF KeptUpTo
  <2> QED
    BY <1>2, <2>1 DEF KeepMarkedMade
<1>4. ASSUME NEW k \in Nat, k \in T PROVE k + 1 \in T
  <2> SUFFICES ASSUME k + 1 <= n PROVE KeptUpTo(marked, made[k + 1], k + 1)
    OBVIOUS
  <2>1. k + 1 \in 1..n /\ (k + 1) - 1 = k /\ KeptUpTo(marked, made[k], k)
    BY <1>4
  <2>2. made[k + 1] = KeepMarked(marked, made[k], k + 1)
    BY <1>1, <1>2, <2>1 DEF KeepMarkedMade
  <2> QED
    BY <2>1, <2>2, KeepMarkedNext
<1>5. Nat \subseteq T
  <2> HIDE DEF T
  <2> QED
    BY <1>3, <1>4, SetInduction
<1>6. KeptUpTo(marked, made[n], n)
  BY <1>5
<1> QED
  BY <1>1, <1>2, <1>6 DEF seq

\* The points the vertex reduction keeps start with the first.
KeptFar(kept, n) == kept \in Seq(1..n) /\ Len(kept) > 0 /\ kept[1] = 1

LEMMA FarAreKept ==
  ASSUME NEW points, NEW n \in Nat, n >= 1
  PROVE  KeptFar(KeepFarAll(points, NumberedFrom2(n), <<1>>), n)
<1> DEFINE seq == NumberedFrom2(n)
<1>1. seq \in Seq(Nat) /\ Len(seq) = n - 1 /\ \A i \in 1..n - 1 : seq[i] = i + 1
  BY NumberedFrom2Is
<1>2. <<1>> \in Seq(Nat)
  OBVIOUS
<1>3. PICK made : /\ KeepFarMade(made, points, seq, <<1>>)
                  /\ KeepFarAll(points, seq, <<1>>) = made[Len(seq)]
  <2> HIDE DEF seq
  <2> QED
    BY <1>1, <1>2, KeepFarFold
<1> HIDE DEF seq
<1> DEFINE T == {k \in Nat : k <= n - 1 => KeptFar(made[k], n)}
<1>4. 0 \in T
  <2>1. KeptFar(<<1>>, n)
    BY DEF KeptFar
  <2> QED
    BY <1>3, <2>1 DEF KeepFarMade
<1>5. ASSUME NEW k \in Nat, k \in T PROVE k + 1 \in T
  <2> SUFFICES ASSUME k + 1 <= n - 1 PROVE KeptFar(made[k + 1], n)
    OBVIOUS
  <2>1. k + 1 \in 1..n - 1 /\ (k + 1) - 1 = k /\ KeptFar(made[k], n) /\ seq[k + 1] = k + 2
    BY <1>1, <1>5
  <2>2. made[k + 1] = KeepFar(points, made[k], k + 2)
    BY <1>1, <1>3, <2>1 DEF KeepFarMade
  <2>3. k + 2 \in 1..n
    BY <2>1
  <2>4. made[k + 1] = made[k] \/ made[k + 1] = Append(made[k], k + 2)
    BY <2>2 DEF KeepFar
  <2>5. KeptFar(Append(made[k], k + 2), n)
    BY <2>1, <2>3 DEF KeptFar
  <2> QED
    BY <2>1, <2>4, <2>5
<1>6. Nat \subseteq T
  <2> HIDE DEF T
  <2> QED
    BY <1>4, <1>5, SetInduction
<1>7. KeptFar(made[n - 1], n)
  BY <1>6
<1> QED
  BY <1>1, <1>3, <1>7 DEF seq

\* Distances: fractions of numbers.
Fraction == [num : Nat, den : Nat \ {0}]

LEMMA Square == ASSUME NEW x \in Int PROVE x * x \in Nat
<1>1. CASE x >= 0
  BY <1>1
<1>2. CASE x < 0
  <2>1. x * x = (-x) * (-x) /\ -x >= 0
    BY <1>2
  <2> QED
    BY <1>2, <2>1
<1> QED
  BY <1>1, <1>2

LEMMA SquaresSum ==
  ASSUME NEW x \in Int, NEW y \in Int
  PROVE  x * x + y * y \in Nat /\ (x * x + y * y = 0 => x = 0 /\ y = 0)
<1>1. x * x \in Nat /\ y * y \in Nat
  BY Square
<1>2. ASSUME NEW z \in Int, z * z = 0 PROVE z = 0
  BY <1>2
<1> DEFINE a == x * x
           b == y * y
<1>3. a + b \in Nat /\ (a + b = 0 => a = 0 /\ b = 0)
  <2> HIDE DEF a, b
  <2> QED
    BY <1>1 DEF a, b
<1> QED
  BY <1>2, <1>3

LEMMA SqDistIs ==
  ASSUME NEW p \in Plane, NEW q \in Plane
  PROVE  SqDist(p, q) \in Nat
<1>1. p.x - q.x \in Int /\ p.y - q.y \in Int
  BY DEF Plane
<1> QED
  BY <1>1, SquaresSum DEF SqDist

LEMMA SegmentDistance ==
  ASSUME NEW p \in Plane, NEW p1 \in Plane, NEW p2 \in Plane
  PROVE  SqDistToSegment(p, p1, p2) \in Fraction
<1> DEFINE dx == p2.x - p1.x
           dy == p2.y - p1.y
           dot == dx * dx + dy * dy
           t == (p.x - p1.x) * dx + (p.y - p1.y) * dy
           cross == (p.x - p1.x) * dy - (p.y - p1.y) * dx
<1>1. dx \in Int /\ dy \in Int /\ p.x - p1.x \in Int /\ p.y - p1.y \in Int
  BY DEF Plane
<1>2. dot \in Nat /\ t \in Int /\ cross \in Int
  <2>1. dot \in Nat
    BY <1>1, SquaresSum
  <2> QED
    BY <1>1, <2>1
<1>3. cross * cross \in Nat
  BY <1>2, Square
<1>4. SqDist(p, p2) \in Nat /\ SqDist(p, p1) \in Nat
  BY SqDistIs
<1>5. SqDistToSegment(p, p1, p2)
        = IF dot > 0 /\ t > dot THEN [num |-> SqDist(p, p2), den |-> 1]
          ELSE IF dot > 0 /\ t > 0 THEN [num |-> cross * cross, den |-> dot]
          ELSE [num |-> SqDist(p, p1), den |-> 1]
  BY DEF SqDistToSegment
<1> HIDE DEF dx, dy, dot, t, cross
<1> QED
  BY <1>2, <1>3, <1>4, <1>5 DEF Fraction

\* The ends of a segment are on it.
LEMMA EndsAreNear ==
  ASSUME NEW p1 \in Plane, NEW p2 \in Plane
  PROVE  SqDistToSegment(p1, p1, p2).num = 0 /\ SqDistToSegment(p2, p1, p2).num = 0
<1> DEFINE dx == p2.x - p1.x
           dy == p2.y - p1.y
           dot == dx * dx + dy * dy
<1>1. dx \in Int /\ dy \in Int /\ dot \in Nat
  BY SquaresSum DEF Plane
<1>2. SqDist(p1, p1) = 0 /\ SqDist(p2, p2) = 0 /\ SqDist(p2, p1) = dot
  BY DEF SqDist, Plane
<1>3. SqDistToSegment(p1, p1, p2).num = 0
  <2>1. p1.x - p1.x = 0 /\ p1.y - p1.y = 0 /\ 0 * dx + 0 * dy = 0
    BY <1>1 DEF Plane
  <2>2. SqDistToSegment(p1, p1, p2)
          = IF dot > 0 /\ 0 > dot THEN [num |-> SqDist(p1, p2), den |-> 1]
            ELSE IF dot > 0 /\ 0 > 0 THEN
              [num |-> (0 * dy - 0 * dx) * (0 * dy - 0 * dx), den |-> dot]
            ELSE [num |-> SqDist(p1, p1), den |-> 1]
    BY <2>1 DEF SqDistToSegment
  <2> HIDE DEF dot
  <2>3. SqDistToSegment(p1, p1, p2) = [num |-> SqDist(p1, p1), den |-> 1]
    BY <1>1, <2>2
  <2> QED
    BY <1>2, <2>3
<1>4. SqDistToSegment(p2, p1, p2).num = 0
  <2> DEFINE cross == dx * dy - dy * dx
  <2>1. cross = 0
    BY <1>1
  <2>2. SqDistToSegment(p2, p1, p2)
          = IF dot > 0 /\ dot > dot THEN [num |-> SqDist(p2, p2), den |-> 1]
            ELSE IF dot > 0 /\ dot > 0 THEN [num |-> cross * cross, den |-> dot]
            ELSE [num |-> SqDist(p2, p1), den |-> 1]
    BY DEF SqDistToSegment
  <2>3. cross * cross = 0
    BY <2>1
  <2> HIDE DEF dot, cross
  <2> QED
    BY <1>1, <1>2, <2>2, <2>3
<1> QED
  BY <1>3, <1>4

LEMMA ToleranceIs == SqTolerance \in Fraction
<1>1. Tolerance * Tolerance \in Nat
  BY ToleranceAssumption, Square
<1> QED
  BY <1>1 DEF SqTolerance, Fraction

\* Whatever is at no distance is within the tolerance.
LEMMA NearIsWithin ==
  ASSUME NEW d \in Fraction, d.num = 0
  PROVE  ~Further(d, SqTolerance)
<1>1. SqTolerance.num \in Nat /\ SqTolerance.den = 1 /\ d.den \in Nat
  BY ToleranceIs DEF Fraction, SqTolerance
<1>2. SqTolerance.num * d.den \in Nat
  BY <1>1
<1>3. 0 * 1 = 0
  OBVIOUS
<1> QED
  BY <1>1, <1>2, <1>3 DEF Further

\* Being further is an order.
LEMMA Multiplied ==
  ASSUME NEW a \in Int, NEW b \in Int, NEW c \in Nat \ {0}
  PROVE  (a * c <= b * c) <=> (a <= b)
OBVIOUS

LEMMA NotFurtherTransitive ==
  ASSUME NEW a \in Fraction, NEW b \in Fraction, NEW c \in Fraction,
         ~Further(a, b), ~Further(b, c)
  PROVE  ~Further(a, c)
<1> DEFINE an == a.num
           ad == a.den
           bn == b.num
           bd == b.den
           cn == c.num
           cd == c.den
<1>1. an \in Nat /\ ad \in Nat \ {0} /\ bn \in Nat /\ bd \in Nat \ {0} /\ cn \in Nat /\ cd \in Nat \ {0}
  BY DEF Fraction
<1>2. an * bd <= bn * ad /\ bn * cd <= cn * bd
  BY <1>1 DEF Further
<1>3. an * cd <= cn * ad
  <2> HIDE DEF an, ad, bn, bd, cn, cd
  <2>1. (an * bd) * cd <= (bn * ad) * cd /\ (bn * cd) * ad <= (cn * bd) * ad
    <3>1. an * bd \in Int /\ bn * ad \in Int /\ bn * cd \in Int /\ cn * bd \in Int
      BY <1>1
    <3> QED
      BY <1>1, <1>2, <3>1, Multiplied
  <2>2. (bn * ad) * cd = (bn * cd) * ad /\ (an * bd) * cd = (an * cd) * bd
        /\ (cn * bd) * ad = (cn * ad) * bd
    BY <1>1
  <2>3. an * cd \in Int /\ cn * ad \in Int /\ (bn * cd) * ad \in Int
    BY <1>1
  <2>4. (an * cd) * bd <= (cn * ad) * bd
    <3> DEFINE u == (an * cd) * bd
               v == (bn * cd) * ad
               w == (cn * ad) * bd
    <3>1. u <= v /\ v <= w /\ u \in Int /\ v \in Int /\ w \in Int
      BY <1>1, <2>1, <2>2
    <3> HIDE DEF u, v, w
    <3>2. u <= w
      BY <3>1
    <3> QED
      BY <3>2 DEF u, w
  <2> QED
    BY <1>1, <2>3, <2>4, Multiplied
<1>4. an * cd \in Int /\ cn * ad \in Int
  BY <1>1
<1> QED
  BY <1>3, <1>4 DEF Further

LEMMA FurtherAsymmetric ==
  ASSUME NEW a \in Fraction, NEW b \in Fraction, Further(a, b)
  PROVE  ~Further(b, a)
<1>1. a.num * b.den \in Int /\ b.num * a.den \in Int
  BY DEF Fraction
<1> QED
  BY <1>1 DEF Further

\* Of distances the first that no other is further than.
FirstFurthest(d, s, i) ==
  \A j \in s : ~Further(d[j], d[i]) /\ (j < i => Further(d[i], d[j]))

LEMMA FirstFurthestExists ==
  ASSUME NEW n \in Nat, NEW d \in [1..n -> Fraction], NEW s \in SUBSET (1..n), s # {}
  PROVE  \E i \in s : FirstFurthest(d, s, i)
<1> DEFINE T == {k \in Nat : k <= n => \A u \in SUBSET (1..k) :
                              u # {} => \E i \in u : FirstFurthest(d, u, i)}
<1>1. 0 \in T
  BY EmptyInterval
<1>2. ASSUME NEW k \in Nat, k \in T PROVE k + 1 \in T
  <2> SUFFICES ASSUME k + 1 <= n, NEW u \in SUBSET (1..k + 1), u # {}
               PROVE  \E i \in u : FirstFurthest(d, u, i)
    OBVIOUS
  <2> DEFINE v == u \ {k + 1}
  <2>1. v \in SUBSET (1..k) /\ (k + 1 \notin u => u = v) /\ u \subseteq v \cup {k + 1}
    BY NextInterval
  <2>2. v # {} => \E i \in v : FirstFurthest(d, v, i)
    <3>1. \A w \in SUBSET (1..k) : w # {} => \E i \in w : FirstFurthest(d, w, i)
      BY <1>2
    <3> HIDE DEF v
    <3> QED
      BY <2>1, <3>1
  <2>3. \A i \in v : i \in 1..k /\ i < k + 1 /\ d[i] \in Fraction
    BY <2>1
  <2>4. d[k + 1] \in Fraction
    OBVIOUS
  <2> HIDE DEF v
  <2>5. ~Further(d[k + 1], d[k + 1])
    BY <2>4, FurtherAsymmetric
  <2>6. CASE k + 1 \notin u
    BY <2>1, <2>2, <2>6
  <2>7. CASE k + 1 \in u /\ v = {}
    <3>1. u = {k + 1}
      BY <2>1, <2>7
    <3>2. FirstFurthest(d, u, k + 1)
      BY <2>5, <3>1 DEF FirstFurthest
    <3> QED
      BY <2>7, <3>2
  <2>8. CASE k + 1 \in u /\ v # {}
    <3>1. PICK i \in v : FirstFurthest(d, v, i)
      BY <2>2, <2>8
    <3>2. i \in u
      BY <3>1 DEF v
    <3>3. CASE Further(d[k + 1], d[i])
      <4>1. ASSUME NEW j \in v PROVE Further(d[k + 1], d[j]) /\ ~Further(d[j], d[k + 1])
        <5>1. ~Further(d[j], d[i])
          BY <3>1 DEF FirstFurthest
        <5>2. Further(d[k + 1], d[j])
          BY <2>3, <2>4, <3>3, <5>1, NotFurtherTransitive
        <5> QED
          BY <2>3, <2>4, <5>2, FurtherAsymmetric
      <4>2. FirstFurthest(d, u, k + 1)
        BY <2>1, <2>5, <4>1 DEF FirstFurthest
      <4> QED
        BY <2>8, <4>2
    <3>4. CASE ~Further(d[k + 1], d[i])
      <4>1. ~(k + 1 < i)
        BY <2>3
      <4>2. FirstFurthest(d, u, i)
        BY <2>1, <3>1, <3>4, <4>1 DEF FirstFurthest
      <4> QED
        BY <3>2, <4>2
    <3> QED
      BY <3>3, <3>4
  <2> QED
    BY <2>6, <2>7, <2>8
<1>3. Nat \subseteq T
  <2> HIDE DEF T
  <2> QED
    BY <1>1, <1>2, SetInduction
<1> QED
  BY <1>3

LEMMA FurthestIsTooFar ==
  ASSUME NEW points \in Seq(Plane), NEW f \in 1..Len(points), NEW l \in 1..Len(points),
         TooFar(points, f, l) # {}
  PROVE  /\ Furthest(points, f, l) \in f + 1 .. l - 1
         /\ Furthest(points, f, l) \in 1..Len(points)
<1> DEFINE n == Len(points)
           s == TooFar(points, f, l)
           d == [i \in 1..n |-> Distance(points, f, l, i)]
<1>1. n \in Nat /\ \A i \in 1..n : points[i] \in Plane
  OBVIOUS
<1>2. f + 1 .. l - 1 \subseteq 1..n
  BY <1>1
<1>3. s \in SUBSET (1..n) /\ s \subseteq f + 1 .. l - 1 /\ s # {}
  BY <1>2 DEF TooFar
<1>4. d \in [1..n -> Fraction]
  <2>1. \A i \in 1..n : Distance(points, f, l, i) \in Fraction
    BY <1>1, SegmentDistance DEF Distance
  <2> QED
    BY <2>1
<1>5. PICK i \in s : FirstFurthest(d, s, i)
  <2> HIDE DEF d, s, n
  <2> QED
    BY <1>1, <1>3, <1>4, FirstFurthestExists
<1>6. \A j \in s : d[j] = Distance(points, f, l, j)
  <2> HIDE DEF s
  <2> QED
    BY <1>3
<1>7. \A j \in s : /\ ~Further(Distance(points, f, l, j), Distance(points, f, l, i))
                   /\ j < i => Further(Distance(points, f, l, i), Distance(points, f, l, j))
  <2> HIDE DEF d, s
  <2> QED
    BY <1>5, <1>6 DEF FirstFurthest
<1>8. Furthest(points, f, l) \in s
  <2> HIDE DEF d
  <2> QED
    BY <1>5, <1>7 DEF Furthest
<1> QED
  BY <1>2, <1>3, <1>8

\* What is marked between two points: the furthest, and what is marked between
\* it and either of them.
Pairs(points) == (1..Len(points)) \X (1..Len(points))

Divided(points, m, s) ==
  IF TooFar(points, s[1], s[2]) = {} THEN {}
  ELSE {Furthest(points, s[1], s[2])} \cup m[<<s[1], Furthest(points, s[1], s[2])>>]
         \cup m[<<Furthest(points, s[1], s[2]), s[2]>>]

DividedUpTo(points, m, d) ==
  /\ m \in [Pairs(points) -> SUBSET (1..Len(points))]
  /\ \A s \in Pairs(points) : s[2] - s[1] <= d => m[s] = Divided(points, m, s)

LEMMA DividedShorter ==
  ASSUME NEW points \in Seq(Plane), NEW s \in Pairs(points), TooFar(points, s[1], s[2]) # {},
         NEW d \in Nat, s[2] - s[1] <= d + 1
  PROVE  LET i == Furthest(points, s[1], s[2])
         IN /\ i \in 1..Len(points) /\ <<s[1], i>> \in Pairs(points) /\ <<i, s[2]>> \in Pairs(points)
            /\ i - s[1] <= d /\ s[2] - i <= d
<1> DEFINE i == Furthest(points, s[1], s[2])
<1>1. s[1] \in 1..Len(points) /\ s[2] \in 1..Len(points) /\ Len(points) \in Nat
  BY DEF Pairs
<1>2. i \in s[1] + 1 .. s[2] - 1 /\ i \in 1..Len(points)
  BY <1>1, FurthestIsTooFar
<1> HIDE DEF i
<1>3. i - s[1] <= d /\ s[2] - i <= d
  BY <1>1, <1>2
<1>4. <<s[1], i>> \in Pairs(points) /\ <<i, s[2]>> \in Pairs(points)
  BY <1>1, <1>2 DEF Pairs
<1> QED
  BY <1>2, <1>3, <1>4 DEF i

LEMMA DividedNext ==
  ASSUME NEW points \in Seq(Plane), NEW d \in Nat, NEW m, DividedUpTo(points, m, d)
  PROVE  \E u : DividedUpTo(points, u, d + 1)
<1> DEFINE u == [s \in Pairs(points) |-> Divided(points, m, s)]
<1>1. ASSUME NEW s \in Pairs(points) PROVE Divided(points, m, s) \in SUBSET (1..Len(points))
  <2>1. CASE TooFar(points, s[1], s[2]) = {}
    BY <2>1 DEF Divided
  <2>2. CASE TooFar(points, s[1], s[2]) # {}
    <3> DEFINE i == Furthest(points, s[1], s[2])
    <3>1. s[1] \in 1..Len(points) /\ s[2] \in 1..Len(points) /\ Len(points) \in Nat
      BY DEF Pairs
    <3>2. i \in 1..Len(points)
      BY <2>2, <3>1, FurthestIsTooFar
    <3>3. <<s[1], i>> \in Pairs(points) /\ <<i, s[2]>> \in Pairs(points)
      BY <3>1, <3>2 DEF Pairs
    <3>4. m[<<s[1], i>>] \in SUBSET (1..Len(points)) /\ m[<<i, s[2]>>] \in SUBSET (1..Len(points))
      BY <3>3 DEF DividedUpTo
    <3> QED
      BY <2>2, <3>2, <3>4 DEF Divided
  <2> QED
    BY <2>1, <2>2
<1>2. u \in [Pairs(points) -> SUBSET (1..Len(points))]
  BY <1>1
<1>3. ASSUME NEW s \in Pairs(points), s[2] - s[1] <= d PROVE u[s] = m[s]
  BY <1>3 DEF DividedUpTo
<1>4. ASSUME NEW s \in Pairs(points), s[2] - s[1] <= d + 1 PROVE u[s] = Divided(points, u, s)
  <2>1. CASE TooFar(points, s[1], s[2]) = {}
    BY <2>1 DEF Divided
  <2>2. CASE TooFar(points, s[1], s[2]) # {}
    <3> DEFINE i == Furthest(points, s[1], s[2])
               before == <<s[1], i>>
               after == <<i, s[2]>>
    <3>1. /\ before \in Pairs(points) /\ after \in Pairs(points) /\ before[2] - before[1] <= d
          /\ after[2] - after[1] <= d
      BY <1>4, <2>2, DividedShorter
    <3>2. u[before] = m[before] /\ u[after] = m[after]
      <4> HIDE DEF before, after, u
      <4> QED
        BY <1>3, <3>1
    <3>3. u[s] = Divided(points, m, s)
      OBVIOUS
    <3> HIDE DEF u
    <3> QED
      BY <2>2, <3>2, <3>3 DEF Divided
  <2> QED
    BY <2>1, <2>2
<1>5. DividedUpTo(points, u, d + 1)
  <2> HIDE DEF u
  <2> QED
    BY <1>2, <1>4 DEF DividedUpTo
<1> QED
  BY <1>5

LEMMA DividedExists ==
  ASSUME NEW points \in Seq(Plane)
  PROVE  \E m \in [Pairs(points) -> SUBSET (1..Len(points))] :
           m = [s \in Pairs(points) |-> Divided(points, m, s)]
<1> DEFINE T == {d \in Nat : \E m : DividedUpTo(points, m, d)}
           n == Len(points)
<1>1. 0 \in T
  <2> DEFINE none == [s \in Pairs(points) |-> {}]
  <2>1. ASSUME NEW s \in Pairs(points), s[2] - s[1] <= 0 PROVE TooFar(points, s[1], s[2]) = {}
    <3>1. s[1] \in Nat /\ s[2] \in Nat
      BY DEF Pairs
    <3>2. s[1] + 1 .. s[2] - 1 = {}
      BY <2>1, <3>1
    <3> QED
      BY <3>2 DEF TooFar
  <2>2. DividedUpTo(points, none, 0)
    BY <2>1 DEF DividedUpTo, Divided
  <2> QED
    BY <2>2
<1>2. ASSUME NEW d \in Nat, d \in T PROVE d + 1 \in T
  BY <1>2, DividedNext
<1>3. Nat \subseteq T
  <2> HIDE DEF T
  <2> QED
    BY <1>1, <1>2, SetInduction
<1>4. n \in Nat /\ \A s \in Pairs(points) : s[2] - s[1] <= n
  BY DEF Pairs
<1>5. PICK m : DividedUpTo(points, m, n)
  BY <1>3, <1>4
<1>6. \A s \in Pairs(points) : m[s] = Divided(points, m, s)
  BY <1>4, <1>5 DEF DividedUpTo
<1> QED
  BY <1>5, <1>6 DEF DividedUpTo

LEMMA MarkedIs ==
  ASSUME NEW points \in Seq(Plane), Len(points) > 0
  PROVE  \E m : /\ m = [s \in Pairs(points) |-> Divided(points, m, s)]
                /\ Marked(points) = {1, Len(points)} \cup m[<<1, Len(points)>>]
<1> DEFINE m == CHOOSE m : m = [s \in (1..Len(points)) \X (1..Len(points)) |->
                                 IF TooFar(points, s[1], s[2]) = {} THEN {}
                                 ELSE LET index == Furthest(points, s[1], s[2])
                                      IN {index} \cup m[<<s[1], index>>] \cup m[<<index, s[2]>>]]
<1>1. \E u : u = [s \in (1..Len(points)) \X (1..Len(points)) |->
                                 IF TooFar(points, s[1], s[2]) = {} THEN {}
                                 ELSE LET index == Furthest(points, s[1], s[2])
                                      IN {index} \cup u[<<s[1], index>>] \cup u[<<index, s[2]>>]]
  BY DividedExists DEF Divided, Pairs
<1>2. Marked(points) = {1, Len(points)} \cup m[<<1, Len(points)>>]
  BY DEF Marked
<1>3. m = [s \in (1..Len(points)) \X (1..Len(points)) |->
                                 IF TooFar(points, s[1], s[2]) = {} THEN {}
                                 ELSE LET index == Furthest(points, s[1], s[2])
                                      IN {index} \cup m[<<s[1], index>>] \cup m[<<index, s[2]>>]]
  BY <1>1
<1> HIDE DEF m
<1>4. m = [s \in Pairs(points) |-> Divided(points, m, s)]
  BY <1>3 DEF Divided, Pairs
<1> QED
  BY <1>2, <1>4

\* The marked points follow the line: every point between f and l is within the
\* tolerance of the segment of two that are marked with none in between.
Nearby(points, marked, i) ==
  \E a, b \in marked : /\ Neighbours(marked, a, b)
                       /\ ~Further(Distance(points, a, b, i), SqTolerance)

Follow(points, m, f, l) ==
  LET marked == {f, l} \cup m[<<f, l>>]
  IN marked \subseteq f..l /\ \A i \in f..l : Nearby(points, marked, i)

LEMMA EndIsNear ==
  ASSUME NEW points \in Seq(Plane), NEW a \in 1..Len(points), NEW b \in 1..Len(points)
  PROVE  ~Further(Distance(points, a, b, a), SqTolerance)
         /\ ~Further(Distance(points, a, b, b), SqTolerance)
<1>1. points[a] \in Plane /\ points[b] \in Plane
  OBVIOUS
<1>2. Distance(points, a, b, a) \in Fraction /\ Distance(points, a, b, b) \in Fraction
  BY <1>1, SegmentDistance DEF Distance
<1>3. Distance(points, a, b, a).num = 0 /\ Distance(points, a, b, b).num = 0
  BY <1>1, EndsAreNear DEF Distance
<1> QED
  BY <1>2, <1>3, NearIsWithin

LEMMA NearJoins ==
  ASSUME NEW points, NEW f \in Nat, NEW i \in Nat, NEW l \in Nat,
         NEW first \in SUBSET (f..i), NEW second \in SUBSET (i..l),
         NEW j \in f..l, j <= i => Nearby(points, first, j), j >= i => Nearby(points, second, j)
  PROVE  Nearby(points, first \cup second, j)
<1>1. CASE j <= i
  <2>1. PICK a \in first, b \in first : Neighbours(first, a, b)
               /\ ~Further(Distance(points, a, b, j), SqTolerance)
    BY <1>1 DEF Nearby
  <2>2. a \in Nat /\ b \in Nat /\ b <= i
    OBVIOUS
  <2>3. ASSUME NEW c \in second PROVE ~(a < c /\ c < b)
    <3>1. c \in Nat /\ c >= i
      OBVIOUS
    <3> QED
      BY <2>2, <3>1
  <2>4. Neighbours(first \cup second, a, b)
    BY <2>1, <2>3 DEF Neighbours
  <2> QED
    BY <2>1, <2>4 DEF Nearby
<1>2. CASE j >= i
  <2>1. PICK a \in second, b \in second : Neighbours(second, a, b)
               /\ ~Further(Distance(points, a, b, j), SqTolerance)
    BY <1>2 DEF Nearby
  <2>2. a \in Nat /\ b \in Nat /\ a >= i
    OBVIOUS
  <2>3. ASSUME NEW c \in first PROVE ~(a < c /\ c < b)
    <3>1. c \in Nat /\ c <= i
      OBVIOUS
    <3> QED
      BY <2>2, <3>1
  <2>4. Neighbours(first \cup second, a, b)
    BY <2>1, <2>3 DEF Neighbours
  <2> QED
    BY <2>1, <2>4 DEF Nearby
<1>3. j <= i \/ j >= i
  OBVIOUS
<1> QED
  BY <1>1, <1>2, <1>3

LEMMA MarkedFollow ==
  ASSUME NEW points \in Seq(Plane), NEW m, m = [s \in Pairs(points) |-> Divided(points, m, s)],
         NEW f \in 1..Len(points), NEW l \in 1..Len(points), f < l
  PROVE  Follow(points, m, f, l)
<1> DEFINE n == Len(points)
           T == {d \in Nat : \A g, h \in 1..n : g < h /\ h - g = d => Follow(points, m, g, h)}
<1>1. ASSUME NEW d \in Nat, \A e \in 0..d - 1 : e \in T PROVE d \in T
  <2> SUFFICES ASSUME NEW g \in 1..n, NEW h \in 1..n, g < h, h - g = d
               PROVE  Follow(points, m, g, h)
    OBVIOUS
  <2> DEFINE marked == {g, h} \cup m[<<g, h>>]
  <2>1. n \in Nat /\ g \in Nat /\ h \in Nat /\ <<g, h>> \in Pairs(points)
    BY DEF Pairs
  <2>2. m[<<g, h>>] = Divided(points, m, <<g, h>>)
    BY <2>1
  <2>3. CASE TooFar(points, g, h) = {}
    <3>1. marked = {g, h}
      BY <2>2, <2>3 DEF Divided
    <3>2. Neighbours(marked, g, h)
      BY <2>1, <3>1 DEF Neighbours
    <3> HIDE DEF marked
    <3>3. ASSUME NEW i \in g..h PROVE ~Further(Distance(points, g, h, i), SqTolerance)
      <4>1. CASE i = g \/ i = h
        BY <4>1, EndIsNear
      <4>2. CASE ~(i = g \/ i = h)
        <5>1. i \in g + 1 .. h - 1
          BY <2>1, <4>2
        <5> QED
          BY <2>3, <5>1 DEF TooFar
      <4> QED
        BY <4>1, <4>2
    <3>4. \A i \in g..h : Nearby(points, marked, i)
      BY <3>1, <3>2, <3>3 DEF Nearby
    <3>5. marked \subseteq g..h
      BY <2>1, <3>1
    <3> QED
      BY <3>4, <3>5 DEF Follow, marked
  <2>4. CASE TooFar(points, g, h) # {}
    <3> DEFINE i == Furthest(points, g, h)
               first == {g, i} \cup m[<<g, i>>]
               second == {i, h} \cup m[<<i, h>>]
    <3>1. i \in g + 1 .. h - 1 /\ i \in 1..n
      BY <2>4, FurthestIsTooFar
    <3>2. marked = first \cup second
      BY <2>2, <2>4 DEF Divided
    <3> HIDE DEF i
    <3>3. i \in Nat /\ g < i /\ i < h /\ i - g \in 0..d - 1 /\ h - i \in 0..d - 1
      BY <2>1, <3>1
    <3>4. Follow(points, m, g, i) /\ Follow(points, m, i, h)
      <4>1. i - g \in T /\ h - i \in T
        BY <1>1, <3>3
      <4> QED
        BY <3>1, <3>3, <4>1
    <3>5. first \subseteq g..i /\ (\A j \in g..i : Nearby(points, first, j))
          /\ second \subseteq i..h /\ (\A j \in i..h : Nearby(points, second, j))
      BY <3>4 DEF Follow
    <3> HIDE DEF first, second
    <3>6. ASSUME NEW j \in g..h PROVE Nearby(points, first \cup second, j)
      <4>1. j <= i => Nearby(points, first, j)
        BY <2>1, <3>3, <3>5
      <4>2. j >= i => Nearby(points, second, j)
        BY <2>1, <3>3, <3>5
      <4> QED
        BY <2>1, <3>3, <3>5, <4>1, <4>2, NearJoins
    <3>7. first \cup second \subseteq g..h
      BY <2>1, <3>3, <3>5
    <3> QED
      BY <3>2, <3>6, <3>7 DEF Follow
  <2> QED
    BY <2>3, <2>4
<1>2. Nat \subseteq T
  <2> HIDE DEF T
  <2> QED
    BY <1>1, BelowInduction
<1>3. n \in Nat /\ l - f \in Nat
  OBVIOUS
<1> QED
  BY <1>2, <1>3

\* A simplified line: the ends are those of the line, and of every point there is
\* a segment within the tolerance.
Simplified(points, simple) ==
  /\ Len(simple) > 1 /\ simple[1] = points[1] /\ simple[Len(simple)] = points[Len(points)]
  /\ \A i \in 1..Len(points) : \E k \in 1..Len(simple) - 1 :
       ~Further(SqDistToSegment(points[i], simple[k], simple[k + 1]), SqTolerance)

LEMMA SimplifyDPKeepsNear ==
  ASSUME NEW points \in Seq(Plane), Len(points) > 1
  PROVE  Simplified(points, SimplifyDP(points)) /\ SimplifyDP(points) \in Seq(Plane)
<1> DEFINE n == Len(points)
           marked == Marked(points)
           kept == KeepMarkedAll(marked, Numbered(n), <<>>)
           simple == [k \in 1..Len(kept) |-> points[kept[k]]]
<1>1. SimplifyDP(points) = simple
  BY DEF SimplifyDP, KeepMarkedAll, Numbered
<1>2. n \in Nat /\ n > 1 /\ \A i \in 1..n : points[i] \in Plane
  OBVIOUS
<1>3. PICK m : /\ m = [s \in Pairs(points) |-> Divided(points, m, s)]
               /\ marked = {1, n} \cup m[<<1, n>>]
  BY MarkedIs
<1>4. Follow(points, m, 1, n)
  BY <1>2, <1>3, MarkedFollow
<1>5. marked \in SUBSET (1..n) /\ 1 \in marked /\ n \in marked
      /\ \A i \in 1..n : Nearby(points, marked, i)
  BY <1>2, <1>3, <1>4 DEF Follow
<1> HIDE DEF marked
<1>6. KeptUpTo(marked, kept, n)
  BY <1>2, <1>5, MarkedAreKept
<1> HIDE DEF kept
<1>7. kept \in Seq(1..n) /\ Len(kept) > 0 /\ kept[1] = 1 /\ kept[Len(kept)] = n
  <2>1. \A c \in marked : ~(n < c /\ c <= n)
    BY <1>2, <1>5
  <2>2. kept[Len(kept)] = n
    BY <1>2, <1>5, <1>6, <2>1 DEF KeptUpTo
  <2> QED
    BY <1>2, <1>6, <2>2 DEF KeptUpTo
<1>8. Len(kept) \in Nat /\ Len(kept) > 1 /\ \A k \in 1..Len(kept) : kept[k] \in 1..n
  <2>1. Len(kept) \in Nat /\ \A k \in 1..Len(kept) : kept[k] \in 1..n
    BY <1>7
  <2> QED
    BY <1>2, <1>7, <2>1
<1>9. /\ simple \in Seq(Plane) /\ Len(simple) = Len(kept)
      /\ \A k \in 1..Len(kept) : simple[k] = points[kept[k]]
  BY <1>2, <1>8
<1> HIDE DEF simple
<1>10. ASSUME NEW i \in 1..n
       PROVE  \E k \in 1..Len(simple) - 1 :
                ~Further(SqDistToSegment(points[i], simple[k], simple[k + 1]), SqTolerance)
  <2>1. PICK a \in marked, b \in marked :
          Neighbours(marked, a, b) /\ ~Further(Distance(points, a, b, i), SqTolerance)
    BY <1>5 DEF Nearby
  <2>2. a \in 1..n /\ b \in 1..n
    BY <1>5
  <2>3. PICK k \in 1..Len(kept) - 1 : kept[k] = a /\ kept[k + 1] = b
    BY <1>6, <2>1, <2>2 DEF KeptUpTo
  <2>4. k \in 1..Len(simple) - 1 /\ k \in 1..Len(kept) /\ k + 1 \in 1..Len(kept)
    BY <1>8, <1>9
  <2>5. simple[k] = points[a] /\ simple[k + 1] = points[b]
    BY <1>9, <2>3, <2>4
  <2> QED
    BY <2>1, <2>4, <2>5 DEF Distance
<1>11. simple[1] = points[1] /\ simple[Len(simple)] = points[n] /\ Len(simple) > 1
  BY <1>7, <1>8, <1>9
<1> QED
  BY <1>1, <1>9, <1>10, <1>11 DEF Simplified

LEMMA ReducePointsKeepsEnds ==
  ASSUME NEW points \in Seq(Plane), Len(points) > 1
  PROVE  LET r == ReducePoints(points)
         IN /\ r \in Seq(Plane) /\ Len(r) > 1
            /\ r[1] = points[1] /\ r[Len(r)] = points[Len(points)]
            /\ \A k \in 1..Len(r) : \E i \in 1..Len(points) : r[k] = points[i]
<1> DEFINE n == Len(points)
           kept == KeepFarAll(points, NumberedFrom2(n), <<1>>)
           all == IF Last(kept) < n THEN Append(kept, n) ELSE kept
           r == [k \in 1..Len(all) |-> points[all[k]]]
<1>1. ReducePoints(points) = r
  BY DEF ReducePoints, KeepFarAll, NumberedFrom2
<1>2. n \in Nat /\ n > 1 /\ \A i \in 1..n : points[i] \in Plane
  OBVIOUS
<1>3. KeptFar(kept, n)
  BY <1>2, FarAreKept
<1> HIDE DEF kept
<1>4. kept \in Seq(1..n) /\ Len(kept) \in Nat /\ Len(kept) > 0 /\ kept[1] = 1
      /\ Last(kept) = kept[Len(kept)] /\ Last(kept) \in 1..n
  BY <1>3 DEF KeptFar, Last
<1>5. all \in Seq(1..n) /\ Len(all) \in Nat /\ Len(all) > 1 /\ all[1] = 1 /\ all[Len(all)] = n
  <2>1. CASE Last(kept) < n
    <3>1. all = Append(kept, n) /\ n \in 1..n
      BY <1>2, <2>1
    <3> HIDE DEF all
    <3> QED
      BY <1>4, <3>1
  <2>2. CASE ~(Last(kept) < n)
    <3>1. all = kept /\ Last(kept) = n
      BY <1>2, <1>4, <2>2
    <3> HIDE DEF all
    <3>2. kept[Len(kept)] = n
      BY <1>4, <3>1
    <3> HIDE DEF n
    <3>3. Len(kept) # 1
      BY <1>2, <1>4, <3>2
    <3>4. Len(kept) > 1
      <4> DEFINE length == Len(kept)
      <4>1. length \in Nat /\ length > 0 /\ length # 1
        BY <1>4, <3>3
      <4> HIDE DEF length
      <4>2. length > 1
        BY <4>1
      <4> QED
        BY <4>2 DEF length
    <3> QED
      BY <1>4, <3>1, <3>2, <3>4
  <2> QED
    BY <2>1, <2>2
<1> HIDE DEF all
<1>6. Len(all) > 0 /\ \A k \in 1..Len(all) : all[k] \in 1..n
  BY <1>5
<1>7. /\ r \in Seq(Plane) /\ Len(r) = Len(all)
      /\ \A k \in 1..Len(all) : r[k] = points[all[k]]
  BY <1>2, <1>5, <1>6
<1> HIDE DEF r
<1>8. r[1] = points[1] /\ r[Len(r)] = points[n] /\ Len(r) > 1
  BY <1>5, <1>7
<1>9. \A k \in 1..Len(r) : \E i \in 1..n : r[k] = points[i]
  BY <1>6, <1>7
<1> QED
  BY <1>1, <1>7, <1>8, <1>9

\* A line that is left as it is is within any tolerance of itself.
LEMMA SameIsWithin ==
  ASSUME NEW points \in Seq(Plane), Len(points) > 1
  PROVE  Within(points, points)
<1> DEFINE r == ReducePoints(points)
           n == Len(points)
<1>1. /\ r \in Seq(Plane) /\ \A k \in 1..Len(r) : \E i \in 1..n : r[k] = points[i]
      /\ n \in Nat /\ n > 1 /\ \A i \in 1..n : points[i] \in Plane
  BY ReducePointsKeepsEnds
<1> HIDE DEF r, n
<1>2. ASSUME NEW i \in 1..n
      PROVE  \E k \in 1..n - 1 :
               ~Further(SqDistToSegment(points[i], points[k], points[k + 1]), SqTolerance)
  <2>1. CASE i < n
    <3>1. i \in 1..n - 1 /\ i + 1 \in 1..n
      BY <1>1, <2>1
    <3>2. /\ SqDistToSegment(points[i], points[i], points[i + 1]) \in Fraction
          /\ SqDistToSegment(points[i], points[i], points[i + 1]).num = 0
      BY <1>1, <3>1, SegmentDistance, EndsAreNear
    <3> QED
      BY <3>1, <3>2, NearIsWithin
  <2>2. CASE i = n
    <3>1. n - 1 \in 1..n - 1 /\ (n - 1) + 1 = n /\ n - 1 \in 1..n /\ n \in 1..n
      BY <1>1
    <3>2. /\ SqDistToSegment(points[n], points[n - 1], points[n]) \in Fraction
          /\ SqDistToSegment(points[n], points[n - 1], points[n]).num = 0
      BY <1>1, <3>1, SegmentDistance, EndsAreNear
    <3> QED
      BY <2>2, <3>1, <3>2, NearIsWithin
  <2> QED
    BY <1>1, <2>1, <2>2
<1>3. ASSUME NEW p \in Range(r)
      PROVE  \E k \in 1..n - 1 :
               ~Further(SqDistToSegment(p, points[k], points[k + 1]), SqTolerance)
  <2>1. PICK k \in 1..Len(r) : p = r[k]
    BY <1>1 DEF Range
  <2>2. PICK i \in 1..n : p = points[i]
    BY <1>1, <2>1
  <2> QED
    BY <1>2, <2>2
<1> QED
  BY <1>3 DEF Within, Last, r, n

\* L.LineUtil.simplify: whatever the line.
LEMMA SimplifyIsWithin ==
  ASSUME NEW points \in Seq(Plane), Len(points) > 1
  PROVE  Within(points, Simplify(points))
<1> DEFINE r == ReducePoints(points)
           simple == SimplifyDP(r)
<1>1. r \in Seq(Plane) /\ Len(r) > 1 /\ r[1] = points[1] /\ r[Len(r)] = points[Len(points)]
  BY ReducePointsKeepsEnds
<1>2. Simplified(r, simple) /\ simple \in Seq(Plane)
  <2> HIDE DEF r
  <2> QED
    BY <1>1, SimplifyDPKeepsNear
<1>3. Tolerance # 0 => Simplify(points) = simple
  BY DEF Simplify
<1>6. Tolerance = 0 => Within(points, Simplify(points))
  BY SameIsWithin DEF Simplify
<1> HIDE DEF r, simple
<1>4. simple[1] = points[1] /\ Last(simple) = simple[Len(simple)]
      /\ simple[Len(simple)] = Last(points)
  BY <1>1, <1>2 DEF Simplified, Last
<1>5. ASSUME NEW p \in Range(r)
      PROVE  \E k \in 1..Len(simple) - 1 :
               ~Further(SqDistToSegment(p, simple[k], simple[k + 1]), SqTolerance)
  <2>1. PICK i \in 1..Len(r) : p = r[i]
    BY <1>1 DEF Range
  <2> QED
    BY <1>2, <2>1 DEF Simplified
<1>7. Within(points, simple)
  BY <1>4, <1>5 DEF Within, r
<1> QED
  BY <1>3, <1>6, <1>7

-------------------------------------------------------------------------------
\* Lines clipped.

\* Division with a remainder.
LEMMA DivisionIs ==
  ASSUME NEW n \in Int, NEW d \in Nat \ {0}
  PROVE  n \div d \in Int /\ d * (n \div d) <= n /\ n < d * (n \div d) + d
OBVIOUS

\* A number between 0 and e.
UpTo(q, e) == (0 <= q /\ q <= e) \/ (e <= q /\ q <= 0)

LEMMA ProductBetween ==
  ASSUME NEW e \in Int, NEW u \in Nat, NEW d \in Nat, u <= d
  PROVE  IF e >= 0 THEN 0 <= e * u /\ e * u <= e * d ELSE e * d <= e * u /\ e * u <= 0
OBVIOUS

LEMMA DivisionBetween ==
  ASSUME NEW e \in Int, NEW u \in Nat, NEW d \in Nat \ {0}, u <= d
  PROVE  (e * u) \div d \in Int /\ UpTo((e * u) \div d, e)
<1> DEFINE n == e * u
           q == n \div d
<1>1. n \in Int
  OBVIOUS
<1>2. q \in Int /\ d * q <= n /\ n < d * q + d
  <2> HIDE DEF n
  <2> QED
    BY <1>1, DivisionIs
<1>3. IF e >= 0 THEN 0 <= n /\ n <= e * d ELSE e * d <= n /\ n <= 0
  BY ProductBetween
<1> HIDE DEF n, q
<1>4. d * q \in Int /\ d * e \in Int /\ d * e = e * d /\ d * (q + 1) = d * q + d /\ d * (e - 1) = d * e - d
  BY <1>2
<1>5. CASE e >= 0
  <2>1. d * q <= d * e /\ d * (q + 1) > 0
    BY <1>1, <1>2, <1>3, <1>4, <1>5
  <2>2. q <= e
    BY <1>2, <2>1
  <2>3. q + 1 > 0
    BY <1>2, <2>1
  <2> QED
    BY <1>2, <1>5, <2>2, <2>3 DEF UpTo, q, n
<1>6. CASE e < 0
  <2>1. d * q <= 0 /\ d * (q + 1) > d * e
    BY <1>1, <1>2, <1>3, <1>4, <1>6
  <2>2. q <= 0
    BY <1>2, <2>1
  <2>3. q + 1 > e
    BY <1>2, <2>1
  <2> QED
    BY <1>2, <1>6, <2>2, <2>3 DEF UpTo, q, n
<1> QED
  BY <1>5, <1>6

LEMMA QuotientBetween ==
  ASSUME NEW e \in Int, NEW u \in Int, NEW d \in Int, d # 0, UpTo(u, d)
  PROVE  Quotient(e * u, d) \in Int /\ UpTo(Quotient(e * u, d), e)
<1>1. CASE d > 0
  <2>1. u \in Nat /\ u <= d /\ d \in Nat \ {0}
    BY <1>1 DEF UpTo
  <2>2. Quotient(e * u, d) = (e * u) \div d
    BY <1>1 DEF Quotient
  <2> QED
    BY <2>1, <2>2, DivisionBetween
<1>2. CASE d < 0
  <2>1. -u \in Nat /\ -u <= -d /\ -d \in Nat \ {0}
    BY <1>2 DEF UpTo
  <2>2. Quotient(e * u, d) = (-(e * u)) \div (-d)
    BY <1>2 DEF Quotient
  <2>3. -(e * u) = e * (-u)
    OBVIOUS
  <2>4. Quotient(e * u, d) = (e * (-u)) \div (-d)
    BY <2>2, <2>3
  <2> QED
    BY <2>1, <2>4, DivisionBetween
<1> QED
  BY <1>1, <1>2

\* The crossing of a line with a side lies between its ends.

LEMMA CrossingAtY ==
  ASSUME NEW a \in Plane, NEW b \in Plane, NEW y \in Int, a.y # b.y, Middle(a.y, y, b.y)
  PROVE  /\ AtY(a, b, y) \in Plane /\ AtY(a, b, y).y = y
         /\ Middle(a.x, AtY(a, b, y).x, b.x)
<1> DEFINE e == b.x - a.x
           u == y - a.y
           d == b.y - a.y
           q == Quotient(e * u, d)
<1>1. a.x \in Int /\ a.y \in Int /\ b.x \in Int /\ b.y \in Int
  BY DEF Plane
<1>2. e \in Int /\ u \in Int /\ d \in Int /\ d # 0 /\ UpTo(u, d)
  BY <1>1 DEF UpTo, Middle
<1>3. q \in Int /\ UpTo(q, e)
  <2> HIDE DEF e, u, d
  <2> QED
    BY <1>2, QuotientBetween
<1>4. AtY(a, b, y) = [x |-> a.x + q, y |-> y]
  BY DEF AtY, Point
<1> HIDE DEF q
<1>5. Middle(a.x, a.x + q, b.x) /\ a.x + q \in Int
  BY <1>1, <1>3 DEF UpTo, Middle
<1> QED
  BY <1>4, <1>5 DEF Plane

LEMMA CrossingAtX ==
  ASSUME NEW a \in Plane, NEW b \in Plane, NEW x \in Int, a.x # b.x, Middle(a.x, x, b.x)
  PROVE  /\ AtX(a, b, x) \in Plane /\ AtX(a, b, x).x = x
         /\ Middle(a.y, AtX(a, b, x).y, b.y)
<1> DEFINE e == b.y - a.y
           u == x - a.x
           d == b.x - a.x
           q == Quotient(e * u, d)
<1>1. a.x \in Int /\ a.y \in Int /\ b.x \in Int /\ b.y \in Int
  BY DEF Plane
<1>2. e \in Int /\ u \in Int /\ d \in Int /\ d # 0 /\ UpTo(u, d)
  BY <1>1 DEF UpTo, Middle
<1>3. q \in Int /\ UpTo(q, e)
  <2> HIDE DEF e, u, d
  <2> QED
    BY <1>2, QuotientBetween
<1>4. AtX(a, b, x) = [x |-> x, y |-> a.y + q]
  BY DEF AtX, Point
<1> HIDE DEF q
<1>5. Middle(a.y, a.y + q, b.y) /\ a.y + q \in Int
  BY <1>1, <1>3 DEF UpTo, Middle
<1> QED
  BY <1>4, <1>5 DEF Plane

\* The view, and the sides a point is beyond.
LEMMA ViewIs == Low \in Int /\ High \in Int /\ Low <= High
<1>1. ViewMin \in Int /\ ViewMax \in Int /\ ViewMin <= ViewMax /\ Unit \in Nat \ {0}
  BY ViewAssumption, UnitAssumption
<1> QED
  BY <1>1, Multiplied DEF Low, High

LEMMA BitCodeIs ==
  ASSUME NEW p
  PROVE  /\ BitCode(p) \subseteq {"left", "right", "bottom", "top"}
         /\ "left" \in BitCode(p) <=> p.x < Low
         /\ "right" \in BitCode(p) <=> p.x > High
         /\ "bottom" \in BitCode(p) <=> p.y < Low
         /\ "top" \in BitCode(p) <=> p.y > High
BY DEF BitCode, Sides

\* How far an end is from the view: each step of clipping takes it nearer, until
\* it is in view or both ends are beyond the same side.
Segment == [a : Plane, b : Plane]

Rank(p) ==
  IF "top" \in BitCode(p) \/ "bottom" \in BitCode(p) THEN 2
  ELSE IF "left" \in BitCode(p) \/ "right" \in BitCode(p) THEN 1 ELSE 0

LEMMA RankIs ==
  ASSUME NEW p
  PROVE  Rank(p) \in 0..2 /\ (Rank(p) = 0 => BitCode(p) = {})
<1>1. BitCode(p) \subseteq {"left", "right", "bottom", "top"}
  BY BitCodeIs
<1> HIDE DEF BitCode
<1> QED
  BY <1>1 DEF Rank

\* The end p of a segment moves to e, the other end is q.
Moves(a, b, p, q, e) ==
  /\ e \in Plane /\ Middle(a.x, e.x, b.x) /\ Middle(a.y, e.y, b.y)
  /\ Rank(e) < Rank(p) \/ BitCode(e) \cap BitCode(q) # {}

LEMMA EndMoves ==
  ASSUME NEW a \in Plane, NEW b \in Plane, NEW p \in {a, b}, NEW q \in {a, b},
         BitCode(p) # {}, BitCode(p) \cap BitCode(q) = {}
  PROVE  Moves(a, b, p, q, EdgeIntersection(a, b, BitCode(p)))
<1> DEFINE e == EdgeIntersection(a, b, BitCode(p))
<1>1. a.x \in Int /\ a.y \in Int /\ b.x \in Int /\ b.y \in Int /\ Low \in Int /\ High \in Int /\ Low <= High
  BY ViewIs DEF Plane
<1>2. (p = a /\ q = b) \/ (p = b /\ q = a)
  <2>1. p # q
    <3> HIDE DEF e
    <3> QED
      OBVIOUS
  <2> HIDE DEF e
  <2> QED
    BY <2>1
<1>3. CASE "top" \in BitCode(p)
  <2>1. p.y > High /\ ~(q.y > High)
    BY <1>3, BitCodeIs
  <2>2. a.y # b.y /\ Middle(a.y, High, b.y)
    BY <1>1, <1>2, <2>1 DEF Middle
  <2>3. e = AtY(a, b, High)
    BY <1>3 DEF EdgeIntersection
  <2>4. e \in Plane /\ e.y = High /\ Middle(a.x, e.x, b.x)
    BY <1>1, <2>2, <2>3, CrossingAtY
  <2> HIDE DEF e
  <2>5. "top" \notin BitCode(e) /\ "bottom" \notin BitCode(e)
    BY <1>1, <2>4, BitCodeIs
  <2>6. Rank(e) < Rank(p)
    BY <1>3, <2>5 DEF Rank
  <2> QED
    BY <2>2, <2>4, <2>6 DEF e, Moves
<1>4. CASE "top" \notin BitCode(p) /\ "bottom" \in BitCode(p)
  <2>1. p.y < Low /\ ~(q.y < Low)
    BY <1>4, BitCodeIs
  <2>2. a.y # b.y /\ Middle(a.y, Low, b.y)
    BY <1>1, <1>2, <2>1 DEF Middle
  <2>3. e = AtY(a, b, Low)
    BY <1>4 DEF EdgeIntersection
  <2>4. e \in Plane /\ e.y = Low /\ Middle(a.x, e.x, b.x)
    BY <1>1, <2>2, <2>3, CrossingAtY
  <2> HIDE DEF e
  <2>5. "top" \notin BitCode(e) /\ "bottom" \notin BitCode(e)
    BY <1>1, <2>4, BitCodeIs
  <2>6. Rank(e) < Rank(p)
    BY <1>4, <2>5 DEF Rank
  <2> QED
    BY <2>2, <2>4, <2>6 DEF e, Moves
<1>5. ASSUME "top" \notin BitCode(p), "bottom" \notin BitCode(p), NEW x \in {Low, High},
             a.x # b.x, Middle(a.x, x, b.x), e = AtX(a, b, x)
      PROVE  Moves(a, b, p, q, e)
  <2>1. ~(p.y > High) /\ ~(p.y < Low)
    BY <1>5, BitCodeIs
  <2>2. e \in Plane /\ e.x = x /\ Middle(a.y, e.y, b.y)
    <3>1. x \in Int
      BY <1>1
    <3> QED
      BY <1>5, <3>1, CrossingAtX
  <2> HIDE DEF e
  <2>3. "left" \notin BitCode(e) /\ "right" \notin BitCode(e)
    BY <1>1, <2>2, BitCodeIs
  <2>4. e.y \in Int
    BY <2>2 DEF Plane
  <2>5. CASE "top" \in BitCode(e)
    <3>1. e.y > High
      BY <2>5, BitCodeIs
    <3>2. q.y > High
      BY <1>1, <1>2, <2>1, <2>2, <2>4, <3>1 DEF Middle
    <3>3. "top" \in BitCode(q)
      BY <3>2, BitCodeIs
    <3> QED
      BY <1>5, <2>2, <2>5, <3>3 DEF Moves
  <2>6. CASE "bottom" \in BitCode(e)
    <3>1. e.y < Low
      BY <2>6, BitCodeIs
    <3>2. q.y < Low
      BY <1>1, <1>2, <2>1, <2>2, <2>4, <3>1 DEF Middle
    <3>3. "bottom" \in BitCode(q)
      BY <3>2, BitCodeIs
    <3> QED
      BY <1>5, <2>2, <2>6, <3>3 DEF Moves
  <2>7. CASE "top" \notin BitCode(e) /\ "bottom" \notin BitCode(e)
    <3>1. Rank(e) = 0
      BY <2>3, <2>7 DEF Rank
    <3>2. Rank(p) # 0 /\ Rank(p) \in 0..2
      BY RankIs
    <3> QED
      BY <1>5, <2>2, <3>1, <3>2 DEF Moves
  <2> QED
    BY <2>5, <2>6, <2>7
<1>6. CASE "top" \notin BitCode(p) /\ "bottom" \notin BitCode(p) /\ "right" \in BitCode(p)
  <2>1. p.x > High /\ ~(q.x > High)
    BY <1>6, BitCodeIs
  <2>2. a.x # b.x /\ Middle(a.x, High, b.x)
    BY <1>1, <1>2, <2>1 DEF Middle
  <2>3. BitCode(p) \cap {"top", "bottom"} = {}
    BY <1>6
  <2>4. e = AtX(a, b, High)
    BY <1>6, <2>3 DEF EdgeIntersection
  <2> QED
    BY <1>5, <1>6, <2>2, <2>4
<1>7. CASE "top" \notin BitCode(p) /\ "bottom" \notin BitCode(p) /\ "right" \notin BitCode(p)
  <2>1. BitCode(p) = {"left"}
    BY <1>7, BitCodeIs
  <2>2. p.x < Low /\ ~(q.x < Low)
    BY <2>1, BitCodeIs
  <2>3. a.x # b.x /\ Middle(a.x, Low, b.x)
    BY <1>1, <1>2, <2>2 DEF Middle
  <2>4. e = AtX(a, b, Low)
    BY <2>1 DEF EdgeIntersection
  <2> QED
    BY <1>5, <1>7, <2>3, <2>4
<1> QED
  BY <1>3, <1>4, <1>6, <1>7

Settled(s) == Accepted(s) \/ Rejected(s)

LEMMA ClipStepMoves ==
  ASSUME NEW s \in Segment, NEW n
  PROVE  LET t == ClipStep(s, n)
         IN /\ t \in Segment
            /\ BitCode(s.a) = {} => t.a = s.a
            /\ BitCode(s.b) = {} => t.b = s.b
            /\ Settled(s) => t = s
            /\ ~Settled(s) => Rejected(t) \/ Rank(t.a) + Rank(t.b) < Rank(s.a) + Rank(s.b)
<1> DEFINE t == ClipStep(s, n)
           ea == EdgeIntersection(s.a, s.b, BitCode(s.a))
           eb == EdgeIntersection(s.a, s.b, BitCode(s.b))
<1>1. s.a \in Plane /\ s.b \in Plane /\ s = [a |-> s.a, b |-> s.b]
  BY DEF Segment
<1>2. Rank(s.a) \in 0..2 /\ Rank(s.b) \in 0..2 /\ Rank(ea) \in 0..2 /\ Rank(eb) \in 0..2
  BY RankIs
<1>3. CASE Settled(s)
  <2>1. t = s
    BY <1>3 DEF ClipStep, Settled
  <2> HIDE DEF t
  <2> QED
    BY <1>3, <2>1 DEF t
<1>4. CASE ~Settled(s) /\ BitCode(s.a) # {}
  <2>1. BitCode(s.a) \cap BitCode(s.b) = {}
    BY <1>4 DEF Settled, Rejected
  <2>2. ea \in Plane /\ (Rank(ea) < Rank(s.a) \/ BitCode(ea) \cap BitCode(s.b) # {})
    BY <1>1, <1>4, <2>1, EndMoves DEF Moves
  <2>3. t = [s EXCEPT !.a = ea]
    BY <1>4 DEF ClipStep, Settled
  <2> HIDE DEF ea, t
  <2>4. t \in Segment /\ t.a = ea /\ t.b = s.b
    BY <1>1, <2>2, <2>3 DEF Segment
  <2>5. Rejected(t) \/ Rank(t.a) + Rank(t.b) < Rank(s.a) + Rank(s.b)
    BY <1>2, <2>2, <2>4 DEF Rejected
  <2> QED
    BY <1>4, <2>4, <2>5 DEF t
<1>5. CASE ~Settled(s) /\ BitCode(s.a) = {}
  <2>1. BitCode(s.b) # {} /\ BitCode(s.b) \cap BitCode(s.a) = {}
    BY <1>5 DEF Settled, Accepted
  <2>2. eb \in Plane /\ (Rank(eb) < Rank(s.b) \/ BitCode(eb) \cap BitCode(s.a) # {})
    BY <1>1, <2>1, EndMoves DEF Moves
  <2>3. t = [s EXCEPT !.b = eb]
    BY <1>5 DEF ClipStep, Settled
  <2> HIDE DEF eb, t
  <2>4. t \in Segment /\ t.a = s.a /\ t.b = eb
    BY <1>1, <2>2, <2>3 DEF Segment
  <2>5. Rejected(t) \/ Rank(t.a) + Rank(t.b) < Rank(s.a) + Rank(s.b)
    BY <1>2, <2>2, <2>4 DEF Rejected
  <2> QED
    BY <1>5, <2>1, <2>4, <2>5 DEF t
<1> QED
  BY <1>3, <1>4, <1>5

LEMMA ClipStepKeeps ==
  ASSUME NEW s \in Segment, NEW n
  PROVE  ClipStep(s, n) \in Segment
BY ClipStepMoves

\* A segment is clipped step by step.
ClipStepAll(seq, base) == FoldLeft(ClipStep, base, seq)

ClipStepStep(seq) == [p \in Segment \X (1..Len(seq)) |-> ClipStep(p[1], seq[p[2]])]

ClipStepTable(t, seq, base) ==
  t = [s \in SUBSET (DOMAIN seq) |->
         IF s = {} THEN base ELSE ClipStep(t[s \ {Max(s)}], seq[Max(s)])]

ClipStepMade(made, seq, base) ==
  /\ made \in [0..Len(seq) -> Segment] /\ made[0] = base
  /\ \A k \in 1..Len(seq) : made[k] = ClipStep(made[k - 1], seq[k])

LEMMA ClipStepStepIsStep ==
  ASSUME NEW seq \in Seq(Nat)
  PROVE  /\ Len(seq) \in Nat /\ DOMAIN seq = 1..Len(seq)
         /\ ClipStepStep(seq) \in [Segment \X (1..Len(seq)) -> Segment]
<1>1. Len(seq) \in Nat /\ DOMAIN seq = 1..Len(seq) /\ \A i \in 1..Len(seq) : seq[i] \in Nat
  OBVIOUS
<1>2. \A r \in Segment, i \in 1..Len(seq) : ClipStep(r, seq[i]) \in Segment
  BY <1>1, ClipStepKeeps
<1> QED
  BY <1>1, <1>2 DEF ClipStepStep

LEMMA ClipStepTableExists ==
  ASSUME NEW seq \in Seq(Nat),
         NEW base \in Segment
  PROVE  \E t : ClipStepTable(t, seq, base)
<1> DEFINE n == Len(seq)
           step == ClipStepStep(seq)
<1>1. n \in Nat /\ DOMAIN seq = 1..n /\ step \in [Segment \X (1..n) -> Segment]
  BY ClipStepStepIsStep
<1>2. HasTable(step, base, Segment, n)
  <2> HIDE DEF step, n
  <2> QED
    BY <1>1, TableExists
<1>3. PICK t \in [SUBSET (1..n) -> Segment] : Table(t, step, base, n)
  BY <1>2 DEF HasTable
<1>4. ASSUME NEW s \in SUBSET (1..n), s # {}
      PROVE  step[<<t[s \ {Max(s)}], Max(s)>>] = ClipStep(t[s \ {Max(s)}], seq[Max(s)])
  <2>1. Max(s) \in 1..n
    BY <1>1, <1>4, MaxOfNumbers
  <2>2. t[s \ {Max(s)}] \in Segment
    OBVIOUS
  <2> QED
    BY <2>1, <2>2 DEF ClipStepStep
<1>5. t = [s \in SUBSET (1..n) |->
             IF s = {} THEN base ELSE ClipStep(t[s \ {Max(s)}], seq[Max(s)])]
  <2> HIDE DEF step
  <2> QED
    BY <1>3, <1>4 DEF Table
<1> QED
  BY <1>1, <1>5 DEF ClipStepTable

LEMMA ClipStepFold ==
  ASSUME NEW seq \in Seq(Nat),
         NEW base \in Segment
  PROVE  \E made : ClipStepMade(made, seq, base) /\ ClipStepAll(seq, base) = made[Len(seq)]
<1> DEFINE n == Len(seq)
           step == ClipStepStep(seq)
           t == CHOOSE t : ClipStepTable(t, seq, base)
<1>1. n \in Nat /\ DOMAIN seq = 1..n /\ step \in [Segment \X (1..n) -> Segment]
  BY ClipStepStepIsStep
<1>2. ClipStepTable(t, seq, base)
  BY ClipStepTableExists
<1>3. ClipStepAll(seq, base) = t[1..n]
  BY <1>1 DEF ClipStepAll, FoldLeft, MapThenFoldSet, ClipStepTable
<1> HIDE DEF t
<1>4. t[{}] = base
  BY <1>2 DEF ClipStepTable
<1>5. ASSUME NEW k \in 1..n, t[1..k - 1] \in Segment
      PROVE  t[1..k] = step[<<t[1..k - 1], k>>]
  <2>1. (1..k) \in SUBSET (1..n) /\ 1..k # {} /\ Max(1..k) = k /\ (1..k) \ {k} = 1..k - 1
    BY <1>1, TableRow
  <2>2. t[1..k] = ClipStep(t[1..k - 1], seq[k])
    BY <1>1, <1>2, <2>1 DEF ClipStepTable
  <2> QED
    BY <1>5, <2>2 DEF ClipStepStep
<1>6. PICK made \in [0..n -> Segment] : StepsFrom(made, step, base, n) /\ made[n] = t[1..n]
  <2> HIDE DEF step, n
  <2>1. Unfolds(t, step, Segment, base, n)
    BY <1>4, <1>5 DEF Unfolds
  <2>2. HasSteps(step, Segment, base, n, t[1..n])
    BY <1>1, <2>1, StepsOfTable
  <2> QED
    BY <2>2 DEF HasSteps
<1>7. \A k \in 1..n : made[k] = ClipStep(made[k - 1], seq[k])
  BY <1>1, <1>6, TableRow DEF StepsFrom, ClipStepStep
<1>8. ClipStepMade(made, seq, base)
  BY <1>6, <1>7 DEF StepsFrom, ClipStepMade
<1> QED
  BY <1>3, <1>6, <1>8

\* Four steps are enough: a clipped segment is in view, or beyond a side; an end
\* in view stays.
ClippedUpTo(s, t, k) ==
  /\ t \in Segment
  /\ BitCode(s.a) = {} => t.a = s.a
  /\ BitCode(s.b) = {} => t.b = s.b
  /\ Settled(s) => t = s
  /\ Settled(t) \/ Rank(t.a) + Rank(t.b) + k <= 4

LEMMA ClippedNext ==
  ASSUME NEW s \in Segment, NEW t, NEW k \in Nat, ClippedUpTo(s, t, k), NEW n
  PROVE  ClippedUpTo(s, ClipStep(t, n), k + 1)
<1> DEFINE u == ClipStep(t, n)
<1>1. t \in Segment
  BY DEF ClippedUpTo
<1>2. /\ u \in Segment
      /\ BitCode(t.a) = {} => u.a = t.a
      /\ BitCode(t.b) = {} => u.b = t.b
      /\ Settled(t) => u = t
      /\ ~Settled(t) => Rejected(u) \/ Rank(u.a) + Rank(u.b) < Rank(t.a) + Rank(t.b)
  BY <1>1, ClipStepMoves
<1> HIDE DEF u
<1>3. Rank(t.a) \in 0..2 /\ Rank(t.b) \in 0..2 /\ Rank(u.a) \in 0..2 /\ Rank(u.b) \in 0..2
  BY RankIs
<1>4. Settled(u) \/ Rank(u.a) + Rank(u.b) + (k + 1) <= 4
  <2>1. CASE Settled(t)
    BY <1>2, <2>1
  <2>2. CASE ~Settled(t) /\ Rejected(u)
    BY <2>2 DEF Settled
  <2>3. CASE ~Settled(t) /\ ~Rejected(u)
    <3>1. Rank(t.a) + Rank(t.b) + k <= 4
      BY <2>3 DEF ClippedUpTo
    <3>2. Rank(u.a) + Rank(u.b) < Rank(t.a) + Rank(t.b)
      BY <1>2, <2>3
    <3> QED
      BY <1>3, <3>1, <3>2
  <2> QED
    BY <2>1, <2>2, <2>3
<1>5. ClippedUpTo(s, u, k + 1)
  BY <1>2, <1>4 DEF ClippedUpTo
<1> QED
  BY <1>5 DEF u

LEMMA ClipSegmentIs ==
  ASSUME NEW a \in Plane, NEW b \in Plane
  PROVE  LET s == ClipSegment(a, b)
         IN /\ s \in Segment /\ Settled(s)
            /\ BitCode(a) = {} => s.a = a
            /\ BitCode(b) = {} => s.b = b
            /\ BitCode(a) \cap BitCode(b) # {} => Rejected(s)
<1> DEFINE s == [a |-> a, b |-> b]
           seq == <<1, 2, 3, 4>>
<1>1. s \in Segment /\ s.a = a /\ s.b = b
  BY DEF Segment
<1>2. seq \in Seq(Nat) /\ Len(seq) = 4
  OBVIOUS
<1>3. ClipSegment(a, b) = ClipStepAll(seq, s)
  BY DEF ClipSegment, ClipStepAll
<1> HIDE DEF s, seq
<1>4. PICK made : ClipStepMade(made, seq, s) /\ ClipStepAll(seq, s) = made[Len(seq)]
  BY <1>1, <1>2, ClipStepFold
<1> DEFINE T == {k \in Nat : k <= 4 => ClippedUpTo(s, made[k], k)}
<1>5. 0 \in T
  <2>1. Rank(s.a) \in 0..2 /\ Rank(s.b) \in 0..2
    BY RankIs
  <2>2. ClippedUpTo(s, s, 0)
    BY <1>1, <2>1 DEF ClippedUpTo
  <2> QED
    BY <1>4, <2>2 DEF ClipStepMade
<1>6. ASSUME NEW k \in Nat, k \in T PROVE k + 1 \in T
  <2> SUFFICES ASSUME k + 1 <= 4 PROVE ClippedUpTo(s, made[k + 1], k + 1)
    OBVIOUS
  <2>1. k + 1 \in 1..4 /\ (k + 1) - 1 = k /\ ClippedUpTo(s, made[k], k)
    BY <1>6
  <2>2. made[k + 1] = ClipStep(made[k], seq[k + 1])
    BY <1>2, <1>4, <2>1 DEF ClipStepMade
  <2> QED
    BY <1>1, <2>1, <2>2, ClippedNext
<1>7. Nat \subseteq T
  <2> HIDE DEF T
  <2> QED
    BY <1>5, <1>6, SetInduction
<1>8. ClippedUpTo(s, made[4], 4)
  BY <1>7
<1> DEFINE t == made[4]
<1>9. ClipSegment(a, b) = t
  BY <1>2, <1>3, <1>4
<1> HIDE DEF t
<1>10. t \in Segment /\ (BitCode(a) = {} => t.a = a) /\ (BitCode(b) = {} => t.b = b)
       /\ (Settled(s) => t = s)
  BY <1>1, <1>8 DEF ClippedUpTo, t
<1>11. Settled(t)
  <2>1. Rank(t.a) \in 0..2 /\ Rank(t.b) \in 0..2 /\ (Rank(t.a) = 0 => BitCode(t.a) = {})
        /\ (Rank(t.b) = 0 => BitCode(t.b) = {})
    BY RankIs
  <2>2. CASE Rank(t.a) + Rank(t.b) + 4 <= 4
    <3>1. Rank(t.a) = 0 /\ Rank(t.b) = 0
      BY <2>1, <2>2
    <3> QED
      BY <2>1, <3>1 DEF Settled, Accepted
  <2>3. Settled(t) \/ Rank(t.a) + Rank(t.b) + 4 <= 4
    BY <1>8 DEF ClippedUpTo, t
  <2> QED
    BY <2>2, <2>3
<1>12. BitCode(a) \cap BitCode(b) # {} => Rejected(t)
  BY <1>1, <1>10 DEF Settled, Rejected
<1> QED
  BY <1>9, <1>10, <1>11, <1>12

\* A sequence, its last element, and what is before it.
LEMMA FrontIs ==
  ASSUME NEW S, NEW s \in Seq(S), Len(s) > 0
  PROVE  /\ Last(s) = s[Len(s)] /\ Last(s) \in S
         /\ Front(s) \in Seq(S) /\ Len(Front(s)) = Len(s) - 1
         /\ \A k \in 1..Len(s) - 1 : Front(s)[k] = s[k]
<1>1. Len(s) \in Nat /\ Len(s) > 0
  OBVIOUS
<1>2. Last(s) = s[Len(s)] /\ Last(s) \in S
  BY <1>1 DEF Last
<1>3. Front(s) = SubSeq(s, 1, Len(s) - 1)
  BY DEF Front
<1>4. SubSeq(s, 1, Len(s) - 1) \in Seq(S) /\ Len(SubSeq(s, 1, Len(s) - 1)) = Len(s) - 1
      /\ \A k \in 1..Len(s) - 1 : SubSeq(s, 1, Len(s) - 1)[k] = s[k]
  <2> DEFINE n == Len(s) - 1
             f == SubSeq(s, 1, n)
  <2>1. n \in Int /\ 1 \in Int /\ n >= 0 /\ \A i \in 1..n : s[i] \in S
    BY <1>1
  <2> HIDE DEF n
  <2>2. /\ f \in Seq(S) /\ Len(f) = IF 1 <= n THEN n - 1 + 1 ELSE 0
        /\ \A k \in 1..n - 1 + 1 : f[k] = s[1 + k - 1]
    BY <2>1, SubSeqProperties
  <2> HIDE DEF f
  <2>3. n - 1 + 1 = n /\ \A k \in 1..n : 1 + k - 1 = k
    BY <2>1
  <2>4. Len(f) = n /\ \A k \in 1..n : f[k] = s[k]
    BY <2>1, <2>2, <2>3
  <2> QED
    BY <2>2, <2>4 DEF f, n
<1> QED
  BY <1>2, <1>3, <1>4

\* The last of the parts is replaced by what extends it.
LEMMA LastExtended ==
  ASSUME NEW S, NEW s \in Seq(S), Len(s) > 0, NEW e \in S
  PROVE  LET t == Append(Front(s), e)
         IN t \in Seq(S) /\ Len(t) = Len(s) /\ t[Len(s)] = e
            /\ \A k \in 1..Len(s) - 1 : t[k] = s[k]
<1> DEFINE f == Front(s)
<1>1. f \in Seq(S) /\ Len(f) = Len(s) - 1 /\ Len(s) \in Nat /\ \A k \in 1..Len(s) - 1 : f[k] = s[k]
  <2>1. Len(s) \in Nat
    OBVIOUS
  <2> QED
    BY <2>1, FrontIs
<1> HIDE DEF f
<1>2. Append(f, e) \in Seq(S) /\ Len(Append(f, e)) = Len(s) /\ Append(f, e)[Len(s)] = e
      /\ \A k \in 1..Len(s) - 1 : Append(f, e)[k] = f[k]
  BY <1>1
<1> QED
  BY <1>1, <1>2 DEF f

\* The parts of a line while it is clipped.
Parts == {c \in [parts : Seq(Seq(Plane)), open : BOOLEAN] : c.open => Len(c.parts) > 0}

\* A segment that is not rejected begins or continues a part, and ends it or not.
StartedAt(c, p) ==
  IF c.open THEN Append(Front(c.parts), Append(Last(c.parts), p)) ELSE Append(c.parts, <<p>>)
EndedAt(parts, p) == Append(Front(parts), Append(Last(parts), p))

LEMMA BegunIs ==
  ASSUME NEW c \in Parts, NEW p \in Plane
  PROVE  LET begun == StartedAt(c, p)
         IN /\ begun \in Seq(Seq(Plane)) /\ Len(begun) > 0
            /\ Len(begun) = IF c.open THEN Len(c.parts) ELSE Len(c.parts) + 1
            /\ begun[Len(begun)] = IF c.open THEN Append(c.parts[Len(c.parts)], p) ELSE <<p>>
            /\ \A k \in 1..Len(begun) - 1 : begun[k] = c.parts[k]
<1> DEFINE s == c.parts
<1>1. s \in Seq(Seq(Plane)) /\ Len(s) \in Nat /\ c.open \in BOOLEAN
  BY DEF Parts
<1>2. CASE c.open
  <2>1. Len(s) > 0
    BY <1>2 DEF Parts
  <2>2. Last(s) = s[Len(s)] /\ Last(s) \in Seq(Plane)
    <3> HIDE DEF s
    <3> QED
      BY <1>1, <2>1, FrontIs
  <2> DEFINE e == Append(Last(s), p)
  <2>3. e \in Seq(Plane) /\ e = Append(s[Len(s)], p)
    BY <2>2
  <2> DEFINE t == Append(Front(s), e)
  <2>4. t \in Seq(Seq(Plane)) /\ Len(t) = Len(s) /\ t[Len(s)] = e
        /\ \A k \in 1..Len(s) - 1 : t[k] = s[k]
    <3> HIDE DEF s, e
    <3> QED
      BY <1>1, <2>1, <2>3, LastExtended
  <2>5. StartedAt(c, p) = t
    BY <1>2 DEF StartedAt
  <2> HIDE DEF t, e
  <2> QED
    BY <1>1, <1>2, <2>1, <2>3, <2>4, <2>5
<1>3. CASE ~c.open
  <2> DEFINE one == <<p>>
             t == Append(s, one)
  <2>1. one \in Seq(Plane)
    OBVIOUS
  <2>2. t \in Seq(Seq(Plane)) /\ Len(t) = Len(s) + 1 /\ t[Len(t)] = one
        /\ \A k \in 1..Len(s) : t[k] = s[k]
    <3> HIDE DEF s, one
    <3> QED
      BY <1>1, <2>1
  <2>3. StartedAt(c, p) = t
    BY <1>3 DEF StartedAt
  <2> HIDE DEF t
  <2> QED
    BY <1>1, <1>3, <2>2, <2>3
<1> QED
  BY <1>1, <1>2, <1>3

LEMMA EndedIs ==
  ASSUME NEW s \in Seq(Seq(Plane)), Len(s) > 0, NEW p \in Plane
  PROVE  LET ended == EndedAt(s, p)
         IN /\ ended \in Seq(Seq(Plane)) /\ Len(ended) = Len(s)
            /\ ended[Len(s)] = Append(s[Len(s)], p)
            /\ \A k \in 1..Len(s) - 1 : ended[k] = s[k]
<1>1. Last(s) = s[Len(s)] /\ Last(s) \in Seq(Plane)
  BY FrontIs
<1> DEFINE e == Append(Last(s), p)
<1>2. e \in Seq(Plane) /\ e = Append(s[Len(s)], p)
  BY <1>1
<1>3. EndedAt(s, p) = Append(Front(s), e)
  BY DEF EndedAt
<1> HIDE DEF e
<1> QED
  BY <1>2, <1>3, LastExtended

\* What one segment does.
ClipPartIs(points, c, i, d) ==
  LET s == ClipSegment(points[i], points[i + 1])
      ends == s.b # points[i + 1] \/ i = Len(points) - 1
  IN IF Rejected(s) THEN d = c
     ELSE d = [parts |-> IF ends THEN EndedAt(StartedAt(c, s.a), s.b) ELSE StartedAt(c, s.a), open |-> ~ends]

LEMMA ClipPartDoes ==
  ASSUME NEW points, NEW c, NEW i
  PROVE  ClipPartIs(points, c, i, ClipPart(points, c, i))
BY DEF ClipPartIs, ClipPart, StartedAt, EndedAt

LEMMA SegmentOf ==
  ASSUME NEW points \in Seq(Plane), NEW i \in 1..Len(points) - 1
  PROVE  /\ Len(points) \in Nat /\ i \in 1..Len(points) /\ i + 1 \in 1..Len(points)
         /\ points[i] \in Plane /\ points[i + 1] \in Plane
         /\ ClipSegment(points[i], points[i + 1]) \in Segment
         /\ ClipSegment(points[i], points[i + 1]).a \in Plane
         /\ ClipSegment(points[i], points[i + 1]).b \in Plane
<1>1. Len(points) \in Nat /\ i \in 1..Len(points) /\ i + 1 \in 1..Len(points)
  OBVIOUS
<1>2. points[i] \in Plane /\ points[i + 1] \in Plane
  BY <1>1
<1>3. ClipSegment(points[i], points[i + 1]) \in Segment
  BY <1>2, ClipSegmentIs
<1> QED
  BY <1>1, <1>2, <1>3 DEF Segment

LEMMA ClipPartKeeps ==
  ASSUME NEW points \in Seq(Plane), NEW c \in Parts, NEW i \in 1..Len(points) - 1
  PROVE  ClipPart(points, c, i) \in Parts
<1> DEFINE s == ClipSegment(points[i], points[i + 1])
           begun == StartedAt(c, s.a)
           ended == EndedAt(begun, s.b)
           ends == s.b # points[i + 1] \/ i = Len(points) - 1
           d == ClipPart(points, c, i)
<1>1. s.a \in Plane /\ s.b \in Plane
  BY SegmentOf
<1>2. IF Rejected(s) THEN d = c ELSE d = [parts |-> IF ends THEN ended ELSE begun, open |-> ~ends]
  BY ClipPartDoes DEF ClipPartIs
<1> HIDE DEF s, d, ends
<1>3. begun \in Seq(Seq(Plane)) /\ Len(begun) > 0
  BY <1>1, BegunIs
<1> HIDE DEF begun
<1>4. ended \in Seq(Seq(Plane)) /\ Len(ended) > 0
  BY <1>1, <1>3, EndedIs
<1> HIDE DEF ended
<1>5. d \in Parts
  <2>1. ends \in BOOLEAN
    BY DEF ends
  <2>2. CASE Rejected(s)
    BY <1>2, <2>2
  <2>3. CASE ~Rejected(s) /\ ends
    <3>1. d = [parts |-> ended, open |-> FALSE]
      BY <1>2, <2>3
    <3> QED
      BY <1>4, <3>1 DEF Parts
  <2>4. CASE ~Rejected(s) /\ ~ends
    <3>1. d = [parts |-> begun, open |-> TRUE]
      BY <1>2, <2>4
    <3> QED
      BY <1>3, <3>1 DEF Parts
  <2> QED
    BY <2>1, <2>2, <2>3, <2>4
<1> QED
  BY <1>5 DEF d

\* The segments of a line are clipped one by one.
ClipPartAll(points, seq, base) == FoldLeft(LAMBDA c, i : ClipPart(points, c, i), base, seq)

ClipPartStep(points, seq) == [p \in Parts \X (1..Len(seq)) |-> ClipPart(points, p[1], seq[p[2]])]

ClipPartTable(t, points, seq, base) ==
  t = [s \in SUBSET (DOMAIN seq) |->
         IF s = {} THEN base ELSE ClipPart(points, t[s \ {Max(s)}], seq[Max(s)])]

ClipPartMade(made, points, seq, base) ==
  /\ made \in [0..Len(seq) -> Parts] /\ made[0] = base
  /\ \A k \in 1..Len(seq) : made[k] = ClipPart(points, made[k - 1], seq[k])

LEMMA ClipPartStepIsStep ==
  ASSUME NEW points \in Seq(Plane),
         NEW seq \in Seq(1..Len(points) - 1)
  PROVE  /\ Len(seq) \in Nat /\ DOMAIN seq = 1..Len(seq)
         /\ ClipPartStep(points, seq) \in [Parts \X (1..Len(seq)) -> Parts]
<1>1. Len(seq) \in Nat /\ DOMAIN seq = 1..Len(seq) /\ \A i \in 1..Len(seq) : seq[i] \in 1..Len(points) - 1
  OBVIOUS
<1>2. \A r \in Parts, i \in 1..Len(seq) : ClipPart(points, r, seq[i]) \in Parts
  BY <1>1, ClipPartKeeps
<1> QED
  BY <1>1, <1>2 DEF ClipPartStep

LEMMA ClipPartTableExists ==
  ASSUME NEW points \in Seq(Plane),
         NEW seq \in Seq(1..Len(points) - 1),
         NEW base \in Parts
  PROVE  \E t : ClipPartTable(t, points, seq, base)
<1> DEFINE n == Len(seq)
           step == ClipPartStep(points, seq)
<1>1. n \in Nat /\ DOMAIN seq = 1..n /\ step \in [Parts \X (1..n) -> Parts]
  BY ClipPartStepIsStep
<1>2. HasTable(step, base, Parts, n)
  <2> HIDE DEF step, n
  <2> QED
    BY <1>1, TableExists
<1>3. PICK t \in [SUBSET (1..n) -> Parts] : Table(t, step, base, n)
  BY <1>2 DEF HasTable
<1>4. ASSUME NEW s \in SUBSET (1..n), s # {}
      PROVE  step[<<t[s \ {Max(s)}], Max(s)>>] = ClipPart(points, t[s \ {Max(s)}], seq[Max(s)])
  <2>1. Max(s) \in 1..n
    BY <1>1, <1>4, MaxOfNumbers
  <2>2. t[s \ {Max(s)}] \in Parts
    OBVIOUS
  <2> QED
    BY <2>1, <2>2 DEF ClipPartStep
<1>5. t = [s \in SUBSET (1..n) |->
             IF s = {} THEN base ELSE ClipPart(points, t[s \ {Max(s)}], seq[Max(s)])]
  <2> HIDE DEF step
  <2> QED
    BY <1>3, <1>4 DEF Table
<1> QED
  BY <1>1, <1>5 DEF ClipPartTable

LEMMA ClipPartFold ==
  ASSUME NEW points \in Seq(Plane),
         NEW seq \in Seq(1..Len(points) - 1),
         NEW base \in Parts
  PROVE  \E made : ClipPartMade(made, points, seq, base) /\ ClipPartAll(points, seq, base) = made[Len(seq)]
<1> DEFINE n == Len(seq)
           step == ClipPartStep(points, seq)
           t == CHOOSE t : ClipPartTable(t, points, seq, base)
<1>1. n \in Nat /\ DOMAIN seq = 1..n /\ step \in [Parts \X (1..n) -> Parts]
  BY ClipPartStepIsStep
<1>2. ClipPartTable(t, points, seq, base)
  BY ClipPartTableExists
<1>3. ClipPartAll(points, seq, base) = t[1..n]
  BY <1>1 DEF ClipPartAll, FoldLeft, MapThenFoldSet, ClipPartTable
<1> HIDE DEF t
<1>4. t[{}] = base
  BY <1>2 DEF ClipPartTable
<1>5. ASSUME NEW k \in 1..n, t[1..k - 1] \in Parts
      PROVE  t[1..k] = step[<<t[1..k - 1], k>>]
  <2>1. (1..k) \in SUBSET (1..n) /\ 1..k # {} /\ Max(1..k) = k /\ (1..k) \ {k} = 1..k - 1
    BY <1>1, TableRow
  <2>2. t[1..k] = ClipPart(points, t[1..k - 1], seq[k])
    BY <1>1, <1>2, <2>1 DEF ClipPartTable
  <2> QED
    BY <1>5, <2>2 DEF ClipPartStep
<1>6. PICK made \in [0..n -> Parts] : StepsFrom(made, step, base, n) /\ made[n] = t[1..n]
  <2> HIDE DEF step, n
  <2>1. Unfolds(t, step, Parts, base, n)
    BY <1>4, <1>5 DEF Unfolds
  <2>2. HasSteps(step, Parts, base, n, t[1..n])
    BY <1>1, <2>1, StepsOfTable
  <2> QED
    BY <2>2 DEF HasSteps
<1>7. \A k \in 1..n : made[k] = ClipPart(points, made[k - 1], seq[k])
  BY <1>1, <1>6, TableRow DEF StepsFrom, ClipPartStep
<1>8. ClipPartMade(made, points, seq, base)
  BY <1>6, <1>7 DEF StepsFrom, ClipPartMade
<1> QED
  BY <1>3, <1>6, <1>8

\* Every part that has ended has two points; one that is open has one, and the
\* line goes on in view.
Long(parts, open) ==
  \A k \in 1..Len(parts) : Len(parts[k]) >= IF open /\ k = Len(parts) THEN 1 ELSE 2

PartsUpTo(points, c, k) ==
  /\ c \in Parts /\ Long(c.parts, c.open)
  /\ c.open => k < Len(points) - 1 /\ BitCode(points[k + 1]) = {}

LEMMA AppendLonger ==
  ASSUME NEW s \in Seq(Plane), NEW p
  PROVE  Len(Append(s, p)) = Len(s) + 1 /\ Len(s) \in Nat
OBVIOUS

LEMMA PartsNext ==
  ASSUME NEW points \in Seq(Plane), NEW k \in Nat, k + 1 <= Len(points) - 1,
         NEW c, PartsUpTo(points, c, k)
  PROVE  PartsUpTo(points, ClipPart(points, c, k + 1), k + 1)
<1> DEFINE i == k + 1
           s == ClipSegment(points[i], points[i + 1])
           begun == StartedAt(c, s.a)
           ended == EndedAt(begun, s.b)
           ends == s.b # points[i + 1] \/ i = Len(points) - 1
           d == ClipPart(points, c, i)
<1>1. i \in 1..Len(points) - 1 /\ c \in Parts /\ Len(points) \in Nat
  BY DEF PartsUpTo
<1>2. s.a \in Plane /\ s.b \in Plane /\ points[i] \in Plane /\ points[i + 1] \in Plane
  BY <1>1, SegmentOf
<1>3. Settled(s) /\ (BitCode(points[i]) = {} => s.a = points[i])
  BY <1>2, ClipSegmentIs
<1>4. ClipPartIs(points, c, i, d)
  BY ClipPartDoes
<1>5. d \in Parts
  BY <1>1, ClipPartKeeps
<1>6. IF Rejected(s) THEN d = c ELSE d = [parts |-> IF ends THEN ended ELSE begun, open |-> ~ends]
  BY <1>4 DEF ClipPartIs
<1> HIDE DEF d, s
<1>7. CASE Rejected(s)
  <2>1. ~c.open
    <3>1. c.open => BitCode(points[i]) = {}
      BY DEF PartsUpTo
    <3>2. BitCode(points[i]) = {} => BitCode(s.a) = {}
      BY <1>3
    <3> QED
      BY <1>7, <3>1, <3>2 DEF Rejected
  <2>2. d = c
    BY <1>6, <1>7
  <2> QED
    BY <1>1, <2>1, <2>2 DEF PartsUpTo, d
<1>8. CASE ~Rejected(s)
  <2>1. BitCode(s.b) = {}
    BY <1>3, <1>8 DEF Settled, Accepted
  <2>2. /\ begun \in Seq(Seq(Plane)) /\ Len(begun) > 0
        /\ Len(begun) = IF c.open THEN Len(c.parts) ELSE Len(c.parts) + 1
        /\ begun[Len(begun)] = IF c.open THEN Append(c.parts[Len(c.parts)], s.a) ELSE <<s.a>>
        /\ \A j \in 1..Len(begun) - 1 : begun[j] = c.parts[j]
    BY <1>1, <1>2, BegunIs
  <2>3. c.open \in BOOLEAN /\ Len(c.parts) \in Nat /\ (c.open => Len(c.parts) > 0)
        /\ \A j \in 1..Len(c.parts) : c.parts[j] \in Seq(Plane)
    BY <1>1 DEF Parts
  <2> HIDE DEF begun
  <2>4. Len(begun) \in Nat /\ begun[Len(begun)] \in Seq(Plane)
    <3>1. begun \in Seq(Seq(Plane)) /\ Len(begun) > 0
      BY <2>2
    <3>2. Len(begun) \in Nat /\ Len(begun) \in 1..Len(begun)
      BY <3>1
    <3> QED
      BY <3>1, <3>2
  <2>5. Long(begun, TRUE)
    <3>1. ASSUME NEW j \in 1..Len(begun), j # Len(begun) PROVE Len(begun[j]) >= 2
      <4>1. j \in 1..Len(begun) - 1
        BY <2>4, <3>1
      <4>2. begun[j] = c.parts[j] /\ j \in 1..Len(c.parts) /\ ~(c.open /\ j = Len(c.parts))
        BY <2>2, <2>3, <4>1
      <4> QED
        BY <4>2 DEF PartsUpTo, Long
    <3>2. Len(begun[Len(begun)]) >= 1
      <4>1. CASE c.open
        <5>1. Len(c.parts) \in 1..Len(c.parts)
          BY <2>3, <4>1
        <5>2. c.parts[Len(c.parts)] \in Seq(Plane)
          BY <2>3, <5>1
        <5> QED
          BY <2>2, <4>1, <5>2, AppendLonger
      <4>2. CASE ~c.open
        <5>1. Len(<<s.a>>) = 1
          OBVIOUS
        <5> QED
          BY <2>2, <4>2, <5>1
      <4> QED
        BY <4>1, <4>2
    <3> QED
      BY <3>1, <3>2 DEF Long
  <2>6. CASE ends
    <3>1. /\ ended \in Seq(Seq(Plane)) /\ Len(ended) = Len(begun)
          /\ ended[Len(begun)] = Append(begun[Len(begun)], s.b)
          /\ \A j \in 1..Len(begun) - 1 : ended[j] = begun[j]
      BY <1>2, <2>2, EndedIs
    <3> HIDE DEF ended
    <3>2. Len(ended[Len(begun)]) = Len(begun[Len(begun)]) + 1
      BY <2>4, <3>1, AppendLonger
    <3>3. ASSUME NEW j \in 1..Len(ended) PROVE Len(ended[j]) >= 2
      <4>1. CASE j = Len(begun)
        <5>1. j \in 1..Len(begun)
          BY <3>1
        <5>2. Len(begun[j]) >= 1
          BY <2>5, <4>1, <5>1 DEF Long
        <5>3. Len(begun[j]) \in Nat
          BY <2>4, <4>1, AppendLonger
        <5> QED
          BY <3>2, <4>1, <5>2, <5>3
      <4>2. CASE j # Len(begun)
        <5>1. j \in 1..Len(begun) - 1 /\ j \in 1..Len(begun)
          BY <2>4, <3>1, <4>2
        <5> QED
          BY <2>5, <3>1, <4>2, <5>1 DEF Long
      <4> QED
        BY <4>1, <4>2
    <3>4. d.parts = ended /\ d.open = FALSE
      <4> HIDE DEF ends
      <4>1. d = [parts |-> ended, open |-> ~ends]
        BY <1>6, <1>8, <2>6
      <4> QED
        BY <2>6, <4>1
    <3>5. Long(d.parts, d.open)
      BY <3>3, <3>4 DEF Long
    <3> QED
      BY <1>5, <3>4, <3>5 DEF PartsUpTo, d
  <2>7. CASE ~ends
    <3>1. d.parts = begun /\ d.open = TRUE
      <4> HIDE DEF ends
      <4>1. d = [parts |-> begun, open |-> ~ends]
        BY <1>6, <1>8, <2>7
      <4> QED
        BY <2>7, <4>1
    <3>2. i < Len(points) - 1 /\ BitCode(points[i + 1]) = {}
      BY <1>1, <2>1, <2>7
    <3>3. Long(d.parts, d.open)
      BY <2>5, <3>1
    <3> QED
      BY <1>5, <3>2, <3>3 DEF PartsUpTo, d
  <2> QED
    BY <2>6, <2>7
<1> QED
  BY <1>7, <1>8

\* Every part of a clipped line is a line.
LEMMA PartsAreLines ==
  ASSUME NEW points \in Seq(Plane), Len(points) > 0
  PROVE  /\ ClipPoints(points) \in Seq(Seq(Plane))
         /\ \A k \in 1..Len(ClipPoints(points)) : Len(ClipPoints(points)[k]) > 1
<1> DEFINE n == Len(points) - 1
           seq == [i \in 1..n |-> i]
           base == [parts |-> <<>>, open |-> FALSE]
<1>1. ClipPoints(points) = ClipPartAll(points, seq, base).parts
  BY DEF ClipPoints, ClipPartAll
<1>2. n \in Nat /\ seq \in Seq(1..Len(points) - 1) /\ Len(seq) = n /\ \A i \in 1..n : seq[i] = i
  OBVIOUS
<1>3. base \in Parts /\ base.parts = <<>> /\ base.open = FALSE
  BY DEF Parts
<1> HIDE DEF seq, base
<1>4. PICK made : ClipPartMade(made, points, seq, base) /\ ClipPartAll(points, seq, base) = made[Len(seq)]
  BY <1>2, <1>3, ClipPartFold
<1> DEFINE T == {k \in Nat : k <= n => PartsUpTo(points, made[k], k)}
<1>5. 0 \in T
  <2>1. PartsUpTo(points, base, 0)
    BY <1>3 DEF PartsUpTo, Long
  <2> QED
    BY <1>4, <2>1 DEF ClipPartMade
<1>6. ASSUME NEW k \in Nat, k \in T PROVE k + 1 \in T
  <2> SUFFICES ASSUME k + 1 <= n PROVE PartsUpTo(points, made[k + 1], k + 1)
    OBVIOUS
  <2>1. k + 1 \in 1..n /\ (k + 1) - 1 = k /\ PartsUpTo(points, made[k], k)
    BY <1>2, <1>6
  <2>2. made[k + 1] = ClipPart(points, made[k], k + 1)
    BY <1>2, <1>4, <2>1 DEF ClipPartMade
  <2> QED
    BY <2>1, <2>2, PartsNext
<1>7. Nat \subseteq T
  <2> HIDE DEF T
  <2> QED
    BY <1>5, <1>6, SetInduction
<1>8. PartsUpTo(points, made[n], n)
  BY <1>2, <1>7
<1> DEFINE c == made[n]
<1>9. ClipPoints(points) = c.parts
  BY <1>1, <1>2, <1>4
<1> HIDE DEF c
<1>10. c \in Parts /\ Long(c.parts, c.open) /\ ~c.open
  BY <1>2, <1>8 DEF PartsUpTo, c
<1>11. c.parts \in Seq(Seq(Plane)) /\ \A k \in 1..Len(c.parts) : Len(c.parts[k]) >= 2
  BY <1>10 DEF Parts, Long
<1>12. \A k \in 1..Len(c.parts) : Len(c.parts[k]) \in Nat
  <2>1. \A k \in 1..Len(c.parts) : c.parts[k] \in Seq(Plane)
    BY <1>11
  <2> QED
    BY <2>1
<1> QED
  BY <1>9, <1>11, <1>12

\* The points of a shape or a path; those of a shape are on the grid.
GeInv ==
  /\ geo \in [kind : {"clip", "simplify"}, points : Seq(Plane)] /\ GeTypeOK
  /\ geo.kind = "clip" => geo.points \in Seq(GridPoints)

LEMMA ShapeInit == GeInit => GeInv
<1>1. Len(<<>>) <= ShapePoints /\ Len(<<>>) <= PathPoints
  BY PointsAssumption
<1> QED
  BY <1>1 DEF GeInit, GeInv, GeTypeOK

LEMMA GridInPlane == GridPoints \subseteq Plane
<1>1. ASSUME NEW x \in Grid, NEW y \in Grid PROVE Point(x * Unit, y * Unit) \in Plane
  <2>1. x \in Int /\ y \in Int /\ Unit \in Int
    BY GridAssumption, UnitAssumption
  <2> QED
    BY <2>1 DEF Point, Plane
<1> QED
  BY <1>1 DEF GridPoints

LEMMA ShapeNextKeeps ==
  ASSUME GeInv, [GeNext]_geVars
  PROVE  GeInv'
<1>1. /\ geo.points \in Seq(Plane) /\ geo \in [kind : {"clip", "simplify"}, points : Seq(Plane)]
      /\ Len(geo.points) \in Nat
      /\ geo.kind = "clip" => geo.points \in Seq(GridPoints)
  BY DEF GeInv
<1>2. ASSUME NEW p \in Plane, NEW most \in Nat, Len(geo.points) < most,
             geo.kind = "clip" => most = ShapePoints /\ p \in GridPoints,
             geo.kind = "simplify" => most = PathPoints,
             geo' = [geo EXCEPT !.points = Append(@, p)]
      PROVE  GeInv'
  <2> DEFINE q == Append(geo.points, p)
  <2>1. q \in Seq(Plane) /\ Len(q) = Len(geo.points) + 1
    BY <1>1
  <2>2. geo.kind = "clip" => q \in Seq(GridPoints)
    BY <1>1, <1>2
  <2>3. geo' = [geo EXCEPT !.points = q]
    BY <1>2
  <2> HIDE DEF q
  <2>4. geo' \in [kind : {"clip", "simplify"}, points : Seq(Plane)] /\ geo'.points = q
        /\ geo'.kind = geo.kind
    BY <1>1, <2>1, <2>3
  <2>5. Len(geo'.points) <= most
    BY <1>1, <1>2, <2>1, <2>4
  <2>6. GeTypeOK'
    BY <1>2, <2>4, <2>5 DEF GeTypeOK
  <2>7. geo'.kind = "clip" => geo'.points \in Seq(GridPoints)
    BY <2>2, <2>4
  <2> QED
    BY <2>4, <2>6, <2>7 DEF GeInv
<1>3. \A p \in GridPoints : p \in Plane
  BY GridInPlane
<1>4. \A x, y \in PathGrid : Point(x, y) \in Plane
  BY GridAssumption DEF Point, Plane
<1>5. CASE AddPoint
  <2>1. CASE geo.kind = "clip"
    <3>1. PICK p \in GridPoints : geo' = [geo EXCEPT !.points = Append(@, p)]
      BY <1>5, <2>1 DEF AddPoint
    <3>2. Len(geo.points) < ShapePoints /\ ShapePoints \in Nat
      BY <1>5, <2>1, PointsAssumption DEF AddPoint
    <3> QED
      BY <1>2, <1>3, <2>1, <3>1, <3>2
  <2>2. CASE geo.kind = "simplify"
    BY <1>2, <1>4, <1>5, <2>2, PointsAssumption DEF AddPoint
  <2> QED
    BY <1>1, <2>1, <2>2
<1>6. CASE UNCHANGED geVars
  BY <1>6 DEF GeInv, GeTypeOK, geVars
<1> QED
  BY <1>5, <1>6 DEF GeNext

\* A shape is a sequence of points, whatever the grid.
THEOREM ShapeInvariant == GeSpec => []GeInv
<1>1. GeInit => GeInv
  BY ShapeInit
<1>2. GeInv /\ [GeNext]_geVars => GeInv'
  BY ShapeNextKeeps
<1> QED
  BY <1>1, <1>2, PTL DEF GeSpec

\* A shape has at most the points the model draws it with.
LEMMA ShapeTypeCorrect == GeSpec => []GeTypeOK
<1>1. GeInv => GeTypeOK
  BY DEF GeInv
<1> QED
  BY <1>1, ShapeInvariant, PTL

-------------------------------------------------------------------------------
\* Bounds and the view.

\* Every point lies within the bounds.
Bounds == [min : Plane, max : Plane]

LEMMA BoundsAreBounds == ASSUME NEW b \in Bounds PROVE b # NoBounds
<1>1. DOMAIN b = {"min", "max"}
  BY DEF Bounds
<1>2. DOMAIN NoBounds = {"none"}
  BY DEF NoBounds
<1>3. "none" \notin {"min", "max"}
  OBVIOUS
<1> QED
  BY <1>1, <1>2, <1>3

LEMMA ExtendIs ==
  ASSUME NEW b \in Bounds \cup {NoBounds}, NEW p \in Plane
  PROVE  /\ Extend(b, p) \in Bounds /\ ContainsPoint(Extend(b, p), p)
         /\ b \in Bounds => ContainsBounds(Extend(b, p), b)
<1> DEFINE c == Extend(b, p)
<1>1. p.x \in Int /\ p.y \in Int
  BY DEF Plane
<1>2. CASE b = NoBounds
  <2>1. c = [min |-> p, max |-> p]
    BY <1>2 DEF Extend
  <2> HIDE DEF c
  <2>2. c \in Bounds /\ ContainsPoint(c, p)
    BY <1>1, <2>1 DEF Bounds, ContainsPoint, ContainsBounds
  <2> QED
    BY <1>2, <2>2, BoundsAreBounds DEF c
<1>3. CASE b # NoBounds
  <2>1. b \in Bounds
    BY <1>3
  <2>2. b.min.x \in Int /\ b.min.y \in Int /\ b.max.x \in Int /\ b.max.y \in Int
    BY <2>1 DEF Bounds, Plane
  <2>3. c = [min |-> [x |-> IF p.x < b.min.x THEN p.x ELSE b.min.x,
                      y |-> IF p.y < b.min.y THEN p.y ELSE b.min.y],
             max |-> [x |-> IF p.x > b.max.x THEN p.x ELSE b.max.x,
                      y |-> IF p.y > b.max.y THEN p.y ELSE b.max.y]]
    BY <1>3 DEF Extend, Point
  <2> HIDE DEF c
  <2>4. /\ c.min.x = IF p.x < b.min.x THEN p.x ELSE b.min.x
        /\ c.min.y = IF p.y < b.min.y THEN p.y ELSE b.min.y
        /\ c.max.x = IF p.x > b.max.x THEN p.x ELSE b.max.x
        /\ c.max.y = IF p.y > b.max.y THEN p.y ELSE b.max.y
    BY <2>3
  <2>5. c \in Bounds
    BY <1>1, <2>2, <2>3 DEF Bounds, Plane
  <2>6. ContainsPoint(c, p) /\ ContainsBounds(c, b)
    BY <1>1, <2>2, <2>4 DEF ContainsPoint, ContainsBounds
  <2> QED
    BY <2>5, <2>6 DEF c
<1> QED
  BY <1>2, <1>3

LEMMA ExtendKeeps ==
  ASSUME NEW b \in Bounds \cup {NoBounds}, NEW p \in Plane
  PROVE  Extend(b, p) \in Bounds \cup {NoBounds}
BY ExtendIs

\* Bounds are extended point by point.
ExtendAll(seq, base) == FoldLeft(Extend, base, seq)

ExtendStep(seq) == [p \in (Bounds \cup {NoBounds}) \X (1..Len(seq)) |-> Extend(p[1], seq[p[2]])]

ExtendTable(t, seq, base) ==
  t = [s \in SUBSET (DOMAIN seq) |->
         IF s = {} THEN base ELSE Extend(t[s \ {Max(s)}], seq[Max(s)])]

ExtendMade(made, seq, base) ==
  /\ made \in [0..Len(seq) -> (Bounds \cup {NoBounds})] /\ made[0] = base
  /\ \A k \in 1..Len(seq) : made[k] = Extend(made[k - 1], seq[k])

LEMMA ExtendStepIsStep ==
  ASSUME NEW seq \in Seq(Plane)
  PROVE  /\ Len(seq) \in Nat /\ DOMAIN seq = 1..Len(seq)
         /\ ExtendStep(seq) \in [(Bounds \cup {NoBounds}) \X (1..Len(seq)) -> (Bounds \cup {NoBounds})]
<1>1. Len(seq) \in Nat /\ DOMAIN seq = 1..Len(seq) /\ \A i \in 1..Len(seq) : seq[i] \in Plane
  OBVIOUS
<1>2. \A r \in (Bounds \cup {NoBounds}), i \in 1..Len(seq) : Extend(r, seq[i]) \in (Bounds \cup {NoBounds})
  BY <1>1, ExtendKeeps
<1> QED
  BY <1>1, <1>2 DEF ExtendStep

LEMMA ExtendTableExists ==
  ASSUME NEW seq \in Seq(Plane),
         NEW base \in (Bounds \cup {NoBounds})
  PROVE  \E t : ExtendTable(t, seq, base)
<1> DEFINE n == Len(seq)
           step == ExtendStep(seq)
<1>1. n \in Nat /\ DOMAIN seq = 1..n /\ step \in [(Bounds \cup {NoBounds}) \X (1..n) -> (Bounds \cup {NoBounds})]
  BY ExtendStepIsStep
<1>2. HasTable(step, base, (Bounds \cup {NoBounds}), n)
  <2> HIDE DEF step, n
  <2> QED
    BY <1>1, TableExists
<1>3. PICK t \in [SUBSET (1..n) -> (Bounds \cup {NoBounds})] : Table(t, step, base, n)
  BY <1>2 DEF HasTable
<1>4. ASSUME NEW s \in SUBSET (1..n), s # {}
      PROVE  step[<<t[s \ {Max(s)}], Max(s)>>] = Extend(t[s \ {Max(s)}], seq[Max(s)])
  <2>1. Max(s) \in 1..n
    BY <1>1, <1>4, MaxOfNumbers
  <2>2. t[s \ {Max(s)}] \in (Bounds \cup {NoBounds})
    OBVIOUS
  <2> QED
    BY <2>1, <2>2 DEF ExtendStep
<1>5. t = [s \in SUBSET (1..n) |->
             IF s = {} THEN base ELSE Extend(t[s \ {Max(s)}], seq[Max(s)])]
  <2> HIDE DEF step
  <2> QED
    BY <1>3, <1>4 DEF Table
<1> QED
  BY <1>1, <1>5 DEF ExtendTable

LEMMA ExtendFold ==
  ASSUME NEW seq \in Seq(Plane),
         NEW base \in (Bounds \cup {NoBounds})
  PROVE  \E made : ExtendMade(made, seq, base) /\ ExtendAll(seq, base) = made[Len(seq)]
<1> DEFINE n == Len(seq)
           step == ExtendStep(seq)
           t == CHOOSE t : ExtendTable(t, seq, base)
<1>1. n \in Nat /\ DOMAIN seq = 1..n /\ step \in [(Bounds \cup {NoBounds}) \X (1..n) -> (Bounds \cup {NoBounds})]
  BY ExtendStepIsStep
<1>2. ExtendTable(t, seq, base)
  BY ExtendTableExists
<1>3. ExtendAll(seq, base) = t[1..n]
  BY <1>1 DEF ExtendAll, FoldLeft, MapThenFoldSet, ExtendTable
<1> HIDE DEF t
<1>4. t[{}] = base
  BY <1>2 DEF ExtendTable
<1>5. ASSUME NEW k \in 1..n, t[1..k - 1] \in (Bounds \cup {NoBounds})
      PROVE  t[1..k] = step[<<t[1..k - 1], k>>]
  <2>1. (1..k) \in SUBSET (1..n) /\ 1..k # {} /\ Max(1..k) = k /\ (1..k) \ {k} = 1..k - 1
    BY <1>1, TableRow
  <2>2. t[1..k] = Extend(t[1..k - 1], seq[k])
    BY <1>1, <1>2, <2>1 DEF ExtendTable
  <2> QED
    BY <1>5, <2>2 DEF ExtendStep
<1>6. PICK made \in [0..n -> (Bounds \cup {NoBounds})] : StepsFrom(made, step, base, n) /\ made[n] = t[1..n]
  <2> HIDE DEF step, n
  <2>1. Unfolds(t, step, (Bounds \cup {NoBounds}), base, n)
    BY <1>4, <1>5 DEF Unfolds
  <2>2. HasSteps(step, (Bounds \cup {NoBounds}), base, n, t[1..n])
    BY <1>1, <2>1, StepsOfTable
  <2> QED
    BY <2>2 DEF HasSteps
<1>7. \A k \in 1..n : made[k] = Extend(made[k - 1], seq[k])
  BY <1>1, <1>6, TableRow DEF StepsFrom, ExtendStep
<1>8. ExtendMade(made, seq, base)
  BY <1>6, <1>7 DEF StepsFrom, ExtendMade
<1> QED
  BY <1>3, <1>6, <1>8

BoundsUpTo(points, b, k) ==
  /\ b \in Bounds \cup {NoBounds}
  /\ k > 0 => b \in Bounds
  /\ \A i \in 1..k : ContainsPoint(b, points[i])

LEMMA NestsBetween ==
  ASSUME NEW a \in Int, NEW b \in Int, NEW q \in Int, NEW d \in Int, NEW e \in Int,
         a <= b, b <= q, q <= d, d <= e
  PROVE  a <= q /\ q <= e
OBVIOUS

LEMMA BoundsNext ==
  ASSUME NEW points \in Seq(Plane), NEW k \in Nat, k + 1 <= Len(points),
         NEW b, BoundsUpTo(points, b, k)
  PROVE  BoundsUpTo(points, Extend(b, points[k + 1]), k + 1)
<1> DEFINE p == points[k + 1]
           c == Extend(b, p)
<1>1. p \in Plane /\ b \in Bounds \cup {NoBounds}
  BY DEF BoundsUpTo
<1>2. c \in Bounds /\ ContainsPoint(c, p) /\ (b \in Bounds => ContainsBounds(c, b))
  BY <1>1, ExtendIs
<1> HIDE DEF c
<1>3. ASSUME NEW i \in 1..k + 1 PROVE ContainsPoint(c, points[i])
  <2>1. CASE i = k + 1
    BY <1>2, <2>1
  <2>2. CASE i # k + 1
    <3>1. i \in 1..k /\ k > 0 /\ i \in 1..Len(points)
      BY <2>2
    <3>2. b \in Bounds /\ ContainsPoint(b, points[i]) /\ points[i] \in Plane
      BY <3>1 DEF BoundsUpTo
    <3>3. ContainsBounds(c, b)
      BY <1>2, <3>2
    <3> DEFINE q == points[i]
    <3> HIDE DEF q
    <3>4. ContainsPoint(b, q) /\ q \in Plane
      BY <3>2 DEF q
    <3>5. /\ c.min.x \in Int /\ c.min.y \in Int /\ c.max.x \in Int /\ c.max.y \in Int
          /\ b.min.x \in Int /\ b.min.y \in Int /\ b.max.x \in Int /\ b.max.y \in Int
          /\ q.x \in Int /\ q.y \in Int
      BY <1>2, <3>2, <3>4 DEF Bounds, Plane
    <3>6. /\ c.min.x <= b.min.x /\ b.max.x <= c.max.x /\ c.min.y <= b.min.y /\ b.max.y <= c.max.y
          /\ b.min.x <= q.x /\ q.x <= b.max.x /\ b.min.y <= q.y /\ q.y <= b.max.y
      BY <3>3, <3>4 DEF ContainsPoint, ContainsBounds
    <3>7. c.min.x <= q.x /\ q.x <= c.max.x
      BY <3>5, <3>6, NestsBetween
    <3>8. c.min.y <= q.y /\ q.y <= c.max.y
      BY <3>5, <3>6, NestsBetween
    <3>9. ContainsPoint(c, q)
      BY <3>7, <3>8 DEF ContainsPoint, ContainsBounds
    <3> QED
      BY <3>9 DEF q
  <2> QED
    BY <2>1, <2>2
<1>4. BoundsUpTo(points, c, k + 1)
  BY <1>2, <1>3 DEF BoundsUpTo
<1> QED
  BY <1>4 DEF c

LEMMA BoundsOfAll ==
  ASSUME NEW points \in Seq(Plane), Len(points) > 0
  PROVE  BoundsOf(points) \in Bounds
         /\ \A i \in 1..Len(points) : ContainsPoint(BoundsOf(points), points[i])
<1> DEFINE n == Len(points)
<1>1. n \in Nat /\ NoBounds \in Bounds \cup {NoBounds}
  OBVIOUS
<1>2. PICK made : ExtendMade(made, points, NoBounds) /\ ExtendAll(points, NoBounds) = made[n]
  BY <1>1, ExtendFold
<1> DEFINE T == {k \in Nat : k <= n => BoundsUpTo(points, made[k], k)}
<1>3. 0 \in T
  <2>1. BoundsUpTo(points, NoBounds, 0)
    BY DEF BoundsUpTo
  <2> QED
    BY <1>2, <2>1 DEF ExtendMade
<1>4. ASSUME NEW k \in Nat, k \in T PROVE k + 1 \in T
  <2> SUFFICES ASSUME k + 1 <= n PROVE BoundsUpTo(points, made[k + 1], k + 1)
    OBVIOUS
  <2>1. k + 1 \in 1..n /\ (k + 1) - 1 = k /\ BoundsUpTo(points, made[k], k)
    BY <1>1, <1>4
  <2>2. made[k + 1] = Extend(made[k], points[k + 1])
    BY <1>2, <2>1 DEF ExtendMade
  <2> QED
    BY <2>1, <2>2, BoundsNext
<1>5. Nat \subseteq T
  <2> HIDE DEF T
  <2> QED
    BY <1>3, <1>4, SetInduction
<1>6. BoundsUpTo(points, made[n], n)
  BY <1>1, <1>5
<1>7. BoundsOf(points) = made[n]
  BY <1>2 DEF BoundsOf, ExtendAll
<1> QED
  BY <1>1, <1>6, <1>7 DEF BoundsUpTo

\* A point in view is beyond no side.
LEMMA InViewIs ==
  ASSUME NEW p \in Plane
  PROVE  InView(p) <=> BitCode(p) = {}
<1>1. p.x \in Int /\ p.y \in Int /\ Low \in Int /\ High \in Int
  BY ViewIs DEF Plane
<1>2. InView(p) <=> Low <= p.x /\ p.x <= High /\ Low <= p.y /\ p.y <= High
  BY DEF InView, ContainsPoint, ContainsBounds, View, Point
<1>3. InView(p) <=> ~(p.x < Low) /\ ~(p.x > High) /\ ~(p.y < Low) /\ ~(p.y > High)
  BY <1>1, <1>2
<1>4. InView(p) <=> ("left" \notin BitCode(p) /\ "right" \notin BitCode(p)
                     /\ "bottom" \notin BitCode(p) /\ "top" \notin BitCode(p))
  BY <1>3, BitCodeIs
<1>5. BitCode(p) \subseteq {"left", "right", "bottom", "top"}
  BY BitCodeIs
<1> HIDE DEF InView
<1> QED
  BY <1>4, <1>5

\* What the bounds say of the points.
LEMMA BoundsTell ==
  ASSUME NEW points \in Seq(Plane), Len(points) > 0
  PROVE  /\ ContainsBounds(View, BoundsOf(points)) =>
              \A i \in 1..Len(points) : BitCode(points[i]) = {}
         /\ ~Intersects(View, BoundsOf(points)) =>
              \E side \in Sides : \A i \in 1..Len(points) : side \in BitCode(points[i])
<1> DEFINE b == BoundsOf(points)
<1>1. b \in Bounds /\ \A i \in 1..Len(points) : ContainsPoint(b, points[i]) /\ points[i] \in Plane
  BY BoundsOfAll
<1> HIDE DEF b
<1>2. b.min.x \in Int /\ b.min.y \in Int /\ b.max.x \in Int /\ b.max.y \in Int
      /\ Low \in Int /\ High \in Int
  BY <1>1, ViewIs DEF Bounds, Plane
<1>3. ASSUME NEW i \in 1..Len(points)
      PROVE  /\ points[i].x \in Int /\ points[i].y \in Int
             /\ b.min.x <= points[i].x /\ points[i].x <= b.max.x
             /\ b.min.y <= points[i].y /\ points[i].y <= b.max.y
  <2> DEFINE p == points[i]
  <2>1. p \in Plane /\ ContainsPoint(b, p)
    BY <1>1
  <2> HIDE DEF p
  <2>2. p.x \in Int /\ p.y \in Int /\ b.min.x <= p.x /\ p.x <= b.max.x
        /\ b.min.y <= p.y /\ p.y <= b.max.y
    BY <2>1 DEF Plane, ContainsPoint, ContainsBounds
  <2> QED
    BY <2>2 DEF p
<1>4. ASSUME ContainsBounds(View, b), NEW i \in 1..Len(points) PROVE BitCode(points[i]) = {}
  <2>1. Low <= b.min.x /\ b.max.x <= High /\ Low <= b.min.y /\ b.max.y <= High
    BY <1>4 DEF ContainsBounds, View, Point
  <2> DEFINE p == points[i]
  <2>2. p.x \in Int /\ p.y \in Int /\ b.min.x <= p.x /\ p.x <= b.max.x
        /\ b.min.y <= p.y /\ p.y <= b.max.y /\ p \in Plane
    BY <1>1, <1>3
  <2> HIDE DEF p
  <2>3. Low <= p.x /\ p.x <= High /\ Low <= p.y /\ p.y <= High
    <3>1. Low <= b.min.x /\ b.min.x <= p.x /\ p.x <= b.max.x /\ b.max.x <= High
      BY <2>1, <2>2
    <3>2. Low <= b.min.y /\ b.min.y <= p.y /\ p.y <= b.max.y /\ b.max.y <= High
      BY <2>1, <2>2
    <3>3. Low <= p.x /\ p.x <= High
      BY <1>2, <2>2, <3>1
    <3>4. Low <= p.y /\ p.y <= High
      BY <1>2, <2>2, <3>2
    <3> QED
      BY <3>3, <3>4
  <2>4. InView(p)
    BY <2>3 DEF InView, ContainsPoint, ContainsBounds, View, Point
  <2> QED
    BY <2>2, <2>4, InViewIs DEF p
<1>5. ASSUME ~Intersects(View, b)
      PROVE  \E side \in Sides : \A i \in 1..Len(points) : side \in BitCode(points[i])
  <2>1. b.max.x < Low \/ b.min.x > High \/ b.max.y < Low \/ b.min.y > High
    BY <1>2, <1>5 DEF Intersects, View, Point
  <2>2. Sides = {"left", "right", "bottom", "top"}
    BY DEF Sides
  <2>3. CASE b.max.x < Low
    <3>1. \A i \in 1..Len(points) : points[i].x < Low
      BY <1>2, <1>3, <2>3
    <3> QED
      BY <2>2, <3>1, BitCodeIs
  <2>4. CASE b.min.x > High
    <3>1. \A i \in 1..Len(points) : points[i].x > High
      BY <1>2, <1>3, <2>4
    <3> QED
      BY <2>2, <3>1, BitCodeIs
  <2>5. CASE b.max.y < Low
    <3>1. \A i \in 1..Len(points) : points[i].y < Low
      BY <1>2, <1>3, <2>5
    <3> QED
      BY <2>2, <3>1, BitCodeIs
  <2>6. CASE b.min.y > High
    <3>1. \A i \in 1..Len(points) : points[i].y > High
      BY <1>2, <1>3, <2>6
    <3> QED
      BY <2>2, <3>1, BitCodeIs
  <2> QED
    BY <2>1, <2>3, <2>4, <2>5, <2>6
<1> QED
  BY <1>4, <1>5 DEF b

\* A line in view is one part, the line.
Prefix(points, k) == [j \in 1..k |-> points[j]]

LEMMA PrefixIs ==
  ASSUME NEW points \in Seq(Plane), NEW k \in Nat, k + 1 <= Len(points)
  PROVE  /\ Prefix(points, k) \in Seq(Plane)
         /\ Append(Prefix(points, k), points[k + 1]) = Prefix(points, k + 1)
<1>1. \A j \in 1..k + 1 : j \in 1..Len(points) /\ points[j] \in Plane
  OBVIOUS
<1>2. Prefix(points, k) \in Seq(Plane) /\ Len(Prefix(points, k)) = k
      /\ \A j \in 1..k : Prefix(points, k)[j] = points[j]
  BY <1>1 DEF Prefix
<1>3. Prefix(points, k + 1) \in Seq(Plane) /\ Len(Prefix(points, k + 1)) = k + 1
      /\ \A j \in 1..k + 1 : Prefix(points, k + 1)[j] = points[j]
  BY <1>1 DEF Prefix
<1> DEFINE longer == Append(Prefix(points, k), points[k + 1])
<1>4. longer \in Seq(Plane) /\ Len(longer) = k + 1 /\ longer[k + 1] = points[k + 1]
      /\ \A j \in 1..k : longer[j] = points[j]
  BY <1>1, <1>2
<1> HIDE DEF longer
<1>5. \A j \in 1..k + 1 : longer[j] = points[j]
  BY <1>4
<1>6. longer = Prefix(points, k + 1)
  BY <1>3, <1>4, <1>5
<1> QED
  BY <1>2, <1>6 DEF longer

LEMMA WholePrefix ==
  ASSUME NEW points \in Seq(Plane)
  PROVE  Prefix(points, Len(points)) = points
BY DEF Prefix

LEMMA OneElement ==
  ASSUME NEW S, NEW s \in Seq(S), Len(s) = 1
  PROVE  s = <<s[1]>>
OBVIOUS

WholeUpTo(points, c, k) ==
  /\ c \in Parts
  /\ k = 0 => c.parts = <<>> /\ ~c.open
  /\ 0 < k /\ k < Len(points) - 1 => c.parts = <<Prefix(points, k)>> /\ c.open
  /\ 0 < k /\ k = Len(points) - 1 => c.parts = <<Prefix(points, k + 1)>> /\ ~c.open

LEMMA WholeNext ==
  ASSUME NEW points \in Seq(Plane), \A i \in 1..Len(points) : BitCode(points[i]) = {},
         NEW k \in Nat, k + 1 <= Len(points) - 1, NEW c, WholeUpTo(points, c, k)
  PROVE  WholeUpTo(points, ClipPart(points, c, k + 1), k + 1)
<1> DEFINE i == k + 1
           s == ClipSegment(points[i], points[i + 1])
           begun == StartedAt(c, s.a)
           ended == EndedAt(begun, s.b)
           ends == s.b # points[i + 1] \/ i = Len(points) - 1
           d == ClipPart(points, c, i)
<1>1. i \in 1..Len(points) - 1 /\ c \in Parts /\ Len(points) \in Nat /\ k < Len(points) - 1
      /\ i \in 1..Len(points) /\ i + 1 \in 1..Len(points)
  BY DEF WholeUpTo
<1>2. s.a \in Plane /\ s.b \in Plane /\ points[i] \in Plane /\ points[i + 1] \in Plane
  BY <1>1, SegmentOf
<1>3. BitCode(points[i]) = {} /\ BitCode(points[i + 1]) = {}
  BY <1>1
<1>4. s.a = points[i] /\ s.b = points[i + 1]
  BY <1>2, <1>3, ClipSegmentIs
<1>5. ~Rejected(s)
  BY <1>3, <1>4 DEF Rejected
<1>6. ClipPartIs(points, c, i, d)
  BY ClipPartDoes
<1>7. d \in Parts
  BY <1>1, ClipPartKeeps
<1>8. d = [parts |-> IF ends THEN ended ELSE begun, open |-> ~ends]
  BY <1>5, <1>6 DEF ClipPartIs
<1>9. ends <=> i = Len(points) - 1
  BY <1>4
<1> HIDE DEF d, s, ends
<1>10. begun = <<Prefix(points, i)>> /\ begun \in Seq(Seq(Plane)) /\ Len(begun) = 1
  <2>1. /\ begun \in Seq(Seq(Plane)) /\ Len(begun) > 0
        /\ Len(begun) = IF c.open THEN Len(c.parts) ELSE Len(c.parts) + 1
        /\ begun[Len(begun)] = IF c.open THEN Append(c.parts[Len(c.parts)], s.a) ELSE <<s.a>>
    BY <1>1, <1>2, BegunIs
  <2> HIDE DEF begun
  <2>2. CASE k = 0
    <3>1. c.parts = <<>> /\ ~c.open
      BY <1>1, <2>2 DEF WholeUpTo
    <3>2. Len(begun) = 1 /\ begun[1] = <<points[1]>>
      BY <1>4, <2>1, <2>2, <3>1
    <3>3. <<points[1]>> = Prefix(points, 1)
      BY DEF Prefix
    <3>4. begun = <<begun[1]>>
      BY <2>1, <3>2, OneElement
    <3> QED
      BY <2>1, <2>2, <3>2, <3>3, <3>4
  <2>3. CASE k > 0
    <3>1. c.parts = <<Prefix(points, k)>> /\ c.open
      BY <1>1, <2>3 DEF WholeUpTo
    <3>2. Len(begun) = 1 /\ begun[1] = Append(Prefix(points, k), points[i])
      <4>1. Len(c.parts) = 1 /\ c.parts[1] = Prefix(points, k)
        BY <3>1
      <4>2. Len(begun) = 1
        BY <2>1, <3>1, <4>1
      <4> QED
        BY <1>4, <2>1, <3>1, <4>1, <4>2
    <3>3. Append(Prefix(points, k), points[i]) = Prefix(points, i)
      BY <1>1, PrefixIs
    <3>4. begun = <<begun[1]>>
      BY <2>1, <3>2, OneElement
    <3> QED
      BY <2>1, <3>2, <3>3, <3>4
  <2> QED
    BY <2>2, <2>3 DEF begun
<1>11. ended = <<Prefix(points, i + 1)>>
  <2> DEFINE e == ended
             f == begun
  <2>1. f = <<Prefix(points, i)>> /\ f \in Seq(Seq(Plane)) /\ Len(f) = 1
    BY <1>10
  <2> HIDE DEF f
  <2>2. /\ e \in Seq(Seq(Plane)) /\ Len(e) = Len(f)
        /\ e[Len(f)] = Append(f[Len(f)], s.b)
    <3>1. e = EndedAt(f, s.b) /\ Len(f) > 0
      BY <2>1 DEF f
    <3> HIDE DEF e
    <3> QED
      BY <1>2, <2>1, <3>1, EndedIs
  <2> HIDE DEF e
  <2>3. e[1] = Append(Prefix(points, i), points[i + 1])
    BY <1>4, <2>1, <2>2
  <2>4. Append(Prefix(points, i), points[i + 1]) = Prefix(points, i + 1)
    BY <1>1, PrefixIs
  <2>5. e = <<e[1]>>
    BY <2>1, <2>2, OneElement
  <2> QED
    BY <2>3, <2>4, <2>5 DEF e
<1> HIDE DEF begun, ended
<1>12. CASE i = Len(points) - 1
  <2>1. d.parts = ended /\ ~d.open
    BY <1>8, <1>9, <1>12
  <2>2. WholeUpTo(points, d, i)
    <3>1. i > 0 /\ ~(i = 0) /\ ~(i < Len(points) - 1)
      BY <1>1, <1>12
    <3> HIDE DEF i
    <3> QED
      BY <1>7, <1>11, <2>1, <3>1 DEF WholeUpTo
  <2> QED
    BY <2>2 DEF d
<1>13. CASE i # Len(points) - 1
  <2>1. d.parts = begun /\ d.open
    BY <1>8, <1>9, <1>13
  <2>2. WholeUpTo(points, d, i)
    <3>1. i > 0 /\ ~(i = 0)
      BY <1>1
    <3>2. d.parts = <<Prefix(points, i)>>
      BY <1>10, <2>1
    <3> HIDE DEF i
    <3> QED
      BY <1>7, <1>13, <2>1, <3>1, <3>2 DEF WholeUpTo
  <2> QED
    BY <2>2 DEF d
<1> QED
  BY <1>12, <1>13

\* The fold of ClipPoints.
LEMMA ClipPointsFold ==
  ASSUME NEW points \in Seq(Plane), Len(points) > 0
  PROVE  \E made : /\ made[0] = [parts |-> <<>>, open |-> FALSE]
                   /\ \A k \in 1..Len(points) - 1 : made[k] = ClipPart(points, made[k - 1], k)
                   /\ ClipPoints(points) = made[Len(points) - 1].parts
<1> DEFINE n == Len(points) - 1
           seq == [i \in 1..n |-> i]
           base == [parts |-> <<>>, open |-> FALSE]
<1>1. ClipPoints(points) = ClipPartAll(points, seq, base).parts
  BY DEF ClipPoints, ClipPartAll
<1>2. n \in Nat /\ seq \in Seq(1..Len(points) - 1) /\ Len(seq) = n /\ \A i \in 1..n : seq[i] = i
  OBVIOUS
<1>3. base \in Parts
  BY DEF Parts
<1> HIDE DEF seq, base
<1>4. PICK made : ClipPartMade(made, points, seq, base) /\ ClipPartAll(points, seq, base) = made[Len(seq)]
  BY <1>2, <1>3, ClipPartFold
<1>5. made[0] = base /\ \A k \in 1..n : made[k] = ClipPart(points, made[k - 1], k)
  BY <1>2, <1>4 DEF ClipPartMade
<1>6. ClipPoints(points) = made[n].parts
  BY <1>1, <1>2, <1>4
<1> QED
  BY <1>5, <1>6 DEF base

LEMMA InViewIsWhole ==
  ASSUME NEW points \in Seq(Plane), Len(points) > 1,
         \A i \in 1..Len(points) : BitCode(points[i]) = {}
  PROVE  ClipPoints(points) = <<points>>
<1> DEFINE n == Len(points) - 1
<1>1. n \in Nat /\ n > 0
  OBVIOUS
<1>2. PICK made : /\ made[0] = [parts |-> <<>>, open |-> FALSE]
                  /\ \A k \in 1..n : made[k] = ClipPart(points, made[k - 1], k)
                  /\ ClipPoints(points) = made[n].parts
  BY ClipPointsFold
<1> DEFINE T == {k \in Nat : k <= n => WholeUpTo(points, made[k], k)}
<1>3. 0 \in T
  <2>1. WholeUpTo(points, made[0], 0)
    BY <1>2 DEF WholeUpTo, Parts
  <2> QED
    BY <2>1
<1>4. ASSUME NEW k \in Nat, k \in T PROVE k + 1 \in T
  <2> SUFFICES ASSUME k + 1 <= n PROVE WholeUpTo(points, made[k + 1], k + 1)
    OBVIOUS
  <2>1. k + 1 \in 1..n /\ (k + 1) - 1 = k /\ WholeUpTo(points, made[k], k)
    BY <1>1, <1>4
  <2>2. made[k + 1] = ClipPart(points, made[k], k + 1)
    BY <1>2, <2>1
  <2> QED
    BY <2>1, <2>2, WholeNext
<1>5. Nat \subseteq T
  <2> HIDE DEF T
  <2> QED
    BY <1>3, <1>4, SetInduction
<1>6. WholeUpTo(points, made[n], n)
  BY <1>1, <1>5
<1>7. made[n].parts = <<Prefix(points, Len(points))>>
  BY <1>1, <1>6 DEF WholeUpTo
<1> QED
  BY <1>2, <1>7, WholePrefix

\* Of a line beyond a side nothing is left.
LEMMA BeyondIsNothing ==
  ASSUME NEW points \in Seq(Plane), Len(points) > 1, NEW side,
         \A i \in 1..Len(points) : side \in BitCode(points[i])
  PROVE  ClipPoints(points) = <<>>
<1> DEFINE n == Len(points) - 1
<1>1. n \in Nat /\ n > 0
  OBVIOUS
<1>2. PICK made : /\ made[0] = [parts |-> <<>>, open |-> FALSE]
                  /\ \A k \in 1..n : made[k] = ClipPart(points, made[k - 1], k)
                  /\ ClipPoints(points) = made[n].parts
  BY ClipPointsFold
<1> DEFINE T == {k \in Nat : k <= n => made[k] = made[0]}
<1>3. 0 \in T
  OBVIOUS
<1>4. ASSUME NEW k \in Nat, k \in T PROVE k + 1 \in T
  <2> SUFFICES ASSUME k + 1 <= n PROVE made[k + 1] = made[0]
    OBVIOUS
  <2>1. k + 1 \in 1..n /\ (k + 1) - 1 = k /\ made[k] = made[0]
    BY <1>1, <1>4
  <2>2. made[k + 1] = ClipPart(points, made[k], k + 1)
    BY <1>2, <2>1
  <2>3. /\ points[k + 1] \in Plane /\ points[(k + 1) + 1] \in Plane
        /\ side \in BitCode(points[k + 1]) /\ side \in BitCode(points[(k + 1) + 1])
    <3>1. k + 1 \in 1..Len(points) /\ (k + 1) + 1 \in 1..Len(points)
      BY <2>1
    <3> QED
      BY <3>1
  <2>4. BitCode(points[k + 1]) \cap BitCode(points[(k + 1) + 1]) # {}
    BY <2>3
  <2>5. Rejected(ClipSegment(points[k + 1], points[(k + 1) + 1]))
    BY <2>3, <2>4, ClipSegmentIs
  <2>6. ClipPartIs(points, made[k], k + 1, made[k + 1])
    BY <2>2, ClipPartDoes
  <2> QED
    BY <2>1, <2>5, <2>6 DEF ClipPartIs
<1>5. Nat \subseteq T
  <2> HIDE DEF T
  <2> QED
    BY <1>3, <1>4, SetInduction
<1>6. made[n] = made[0]
  BY <1>1, <1>5
<1> QED
  BY <1>2, <1>6

\* A point between two others is beyond the sides that both are beyond, and no
\* side that neither is beyond.
LEMMA BetweenSides ==
  ASSUME NEW a \in Plane, NEW b \in Plane, NEW p \in Plane,
         Middle(a.x, p.x, b.x), Middle(a.y, p.y, b.y)
  PROVE  BitCode(a) \cap BitCode(b) \subseteq BitCode(p)
         /\ BitCode(p) \subseteq BitCode(a) \cup BitCode(b)
<1>1. /\ a.x \in Int /\ a.y \in Int /\ b.x \in Int /\ b.y \in Int /\ p.x \in Int /\ p.y \in Int
      /\ Low \in Int /\ High \in Int
  BY ViewIs DEF Plane
<1>2. /\ (a.x < Low /\ b.x < Low => p.x < Low) /\ (p.x < Low => a.x < Low \/ b.x < Low)
      /\ (a.x > High /\ b.x > High => p.x > High) /\ (p.x > High => a.x > High \/ b.x > High)
  BY <1>1 DEF Middle
<1>3. /\ (a.y < Low /\ b.y < Low => p.y < Low) /\ (p.y < Low => a.y < Low \/ b.y < Low)
      /\ (a.y > High /\ b.y > High => p.y > High) /\ (p.y > High => a.y > High \/ b.y > High)
  BY <1>1 DEF Middle
<1>4. ASSUME NEW s \in {"left", "right", "bottom", "top"}
      PROVE  /\ s \in BitCode(a) /\ s \in BitCode(b) => s \in BitCode(p)
             /\ s \in BitCode(p) => s \in BitCode(a) \/ s \in BitCode(b)
  <2>1. CASE s = "left"
    BY <1>2, <2>1, BitCodeIs
  <2>2. CASE s = "right"
    BY <1>2, <2>2, BitCodeIs
  <2>3. CASE s = "bottom"
    BY <1>3, <2>3, BitCodeIs
  <2>4. CASE s = "top"
    BY <1>3, <2>4, BitCodeIs
  <2> QED
    BY <2>1, <2>2, <2>3, <2>4
<1>5. BitCode(a) \subseteq {"left", "right", "bottom", "top"}
      /\ BitCode(p) \subseteq {"left", "right", "bottom", "top"}
  BY BitCodeIs
<1> QED
  BY <1>4, <1>5

\* Where an edge crosses a side that one of its ends is beyond.
LEMMA SideCrossing ==
  ASSUME NEW a \in Plane, NEW b \in Plane, NEW side \in Sides,
         (side \in BitCode(a)) # (side \in BitCode(b))
  PROVE  LET p == EdgeIntersection(a, b, {side})
         IN /\ p \in Plane /\ side \notin BitCode(p)
            /\ BitCode(a) \cap BitCode(b) \subseteq BitCode(p)
            /\ BitCode(p) \subseteq BitCode(a) \cup BitCode(b)
<1> DEFINE p == EdgeIntersection(a, b, {side})
<1>1. /\ a.x \in Int /\ a.y \in Int /\ b.x \in Int /\ b.y \in Int
      /\ Low \in Int /\ High \in Int /\ Low <= High
  BY ViewIs DEF Plane
<1>2. ASSUME NEW y \in {Low, High}, (a.y < y) # (b.y < y) \/ (a.y > y) # (b.y > y), p = AtY(a, b, y)
      PROVE  p \in Plane /\ p.y = y /\ Middle(a.x, p.x, b.x) /\ Middle(a.y, p.y, b.y)
  <2>1. y \in Int /\ a.y # b.y /\ Middle(a.y, y, b.y)
    BY <1>1, <1>2 DEF Middle
  <2> HIDE DEF p
  <2> QED
    BY <1>2, <2>1, CrossingAtY
<1>3. ASSUME NEW x \in {Low, High}, (a.x < x) # (b.x < x) \/ (a.x > x) # (b.x > x), p = AtX(a, b, x)
      PROVE  p \in Plane /\ p.x = x /\ Middle(a.x, p.x, b.x) /\ Middle(a.y, p.y, b.y)
  <2>1. x \in Int /\ a.x # b.x /\ Middle(a.x, x, b.x)
    BY <1>1, <1>3 DEF Middle
  <2> HIDE DEF p
  <2> QED
    BY <1>3, <2>1, CrossingAtX
<1>4. CASE side = "top"
  <2>1. (a.y > High) # (b.y > High)
    BY <1>4, BitCodeIs
  <2>2. p = AtY(a, b, High)
    BY <1>4 DEF EdgeIntersection
  <2>3. p \in Plane /\ p.y = High /\ Middle(a.x, p.x, b.x) /\ Middle(a.y, p.y, b.y)
    BY <1>2, <2>1, <2>2
  <2> HIDE DEF p
  <2>4. "top" \notin BitCode(p)
    BY <1>1, <2>3, BitCodeIs
  <2> QED
    BY <1>4, <2>3, <2>4, BetweenSides DEF p
<1>5. CASE side = "bottom"
  <2>1. (a.y < Low) # (b.y < Low)
    BY <1>5, BitCodeIs
  <2>2. p = AtY(a, b, Low)
    BY <1>5 DEF EdgeIntersection
  <2>3. p \in Plane /\ p.y = Low /\ Middle(a.x, p.x, b.x) /\ Middle(a.y, p.y, b.y)
    BY <1>2, <2>1, <2>2
  <2> HIDE DEF p
  <2>4. "bottom" \notin BitCode(p)
    BY <1>1, <2>3, BitCodeIs
  <2> QED
    BY <1>5, <2>3, <2>4, BetweenSides DEF p
<1>6. CASE side = "right"
  <2>1. (a.x > High) # (b.x > High)
    BY <1>6, BitCodeIs
  <2>2. p = AtX(a, b, High)
    BY <1>6 DEF EdgeIntersection
  <2>3. p \in Plane /\ p.x = High /\ Middle(a.x, p.x, b.x) /\ Middle(a.y, p.y, b.y)
    BY <1>3, <2>1, <2>2
  <2> HIDE DEF p
  <2>4. "right" \notin BitCode(p)
    BY <1>1, <2>3, BitCodeIs
  <2> QED
    BY <1>6, <2>3, <2>4, BetweenSides DEF p
<1>7. CASE side = "left"
  <2>1. (a.x < Low) # (b.x < Low)
    BY <1>7, BitCodeIs
  <2>2. p = AtX(a, b, Low)
    BY <1>7 DEF EdgeIntersection
  <2>3. p \in Plane /\ p.x = Low /\ Middle(a.x, p.x, b.x) /\ Middle(a.y, p.y, b.y)
    BY <1>3, <2>1, <2>2
  <2> HIDE DEF p
  <2>4. "left" \notin BitCode(p)
    BY <1>1, <2>3, BitCodeIs
  <2> QED
    BY <1>7, <2>3, <2>4, BetweenSides DEF p
<1> QED
  BY <1>4, <1>5, <1>6, <1>7 DEF Sides

\* A flattened sequence has the elements of its sequences.
FlattenTable(f, seqs) ==
  f = [i \in 1..Len(seqs) |-> IF i = 1 THEN seqs[i] ELSE f[i - 1] \o seqs[i]]

LEMMA FlattenTableExists ==
  ASSUME NEW S, NEW seqs \in Seq(Seq(S))
  PROVE  \E f \in [1..Len(seqs) -> Seq(S)] : FlattenTable(f, seqs)
<1> DEFINE n == Len(seqs)
           Results == Seq(S)
           step == [p \in Results \X (1..n) |-> IF p[2] = 1 THEN seqs[1] ELSE p[1] \o seqs[p[2]]]
<1>1. n \in Nat /\ \A i \in 1..n : seqs[i] \in Results
  OBVIOUS
<1>2. step \in [Results \X (1..n) -> Results]
  <2>1. ASSUME NEW r \in Results, NEW i \in 1..n
        PROVE  seqs[i] \in Results /\ r \o seqs[i] \in Results
    BY <1>1
  <2>2. ASSUME NEW p \in Results \X (1..n)
        PROVE  (IF p[2] = 1 THEN seqs[1] ELSE p[1] \o seqs[p[2]]) \in Results
    <3>1. p[1] \in Results /\ p[2] \in 1..n
      OBVIOUS
    <3>2. p[2] = 1 => seqs[1] \in Results
      BY <2>1, <3>1
    <3>3. p[1] \o seqs[p[2]] \in Results
      BY <2>1, <3>1
    <3> HIDE DEF Results
    <3> QED
      BY <3>2, <3>3
  <2> HIDE DEF Results
  <2> QED
    BY <2>2
<1>3. <<>> \in Results
  OBVIOUS
<1> DEFINE base == <<>>
<1>4. PICK made \in [0..n -> Results] : StepsFrom(made, step, base, n)
  <2> HIDE DEF step, Results, n, base
  <2>1. base \in Results
    BY <1>3 DEF base
  <2>2. HasTable(step, base, Results, n)
    BY <1>1, <1>2, <2>1, TableExists
  <2>3. PICK t \in [SUBSET (1..n) -> Results] : Table(t, step, base, n)
    BY <2>2 DEF HasTable
  <2>4. t[{}] = base
    <3>1. {} \in SUBSET (1..n)
      OBVIOUS
    <3> QED
      BY <2>3, <3>1 DEF Table
  <2>5. ASSUME NEW k \in 1..n PROVE t[1..k] = step[<<t[1..k - 1], k>>]
    <3>1. (1..k) \in SUBSET (1..n) /\ 1..k # {} /\ Max(1..k) = k /\ (1..k) \ {k} = 1..k - 1
      BY <1>1, TableRow
    <3> QED
      BY <2>3, <3>1 DEF Table
  <2>6. Unfolds(t, step, Results, base, n)
    BY <2>4, <2>5 DEF Unfolds
  <2>7. HasSteps(step, Results, base, n, t[1..n])
    BY <1>1, <1>2, <2>1, <2>6, StepsOfTable
  <2> QED
    BY <2>7 DEF HasSteps
<1> HIDE DEF Results
<1> DEFINE f == [i \in 1..n |-> made[i]]
<1>5. f \in [1..n -> Results]
  BY <1>1
<1>6. ASSUME NEW i \in 1..n PROVE f[i] = IF i = 1 THEN seqs[i] ELSE f[i - 1] \o seqs[i]
  <2>1. made[i] = step[<<made[i - 1], i>>] /\ i - 1 \in 0..n /\ made[i - 1] \in Results
    <3>1. i - 1 \in 0..n
      BY <1>1, TableRow
    <3> HIDE DEF step
    <3> QED
      BY <1>4, <3>1 DEF StepsFrom
  <2>2. made[i] = IF i = 1 THEN seqs[i] ELSE made[i - 1] \o seqs[i]
    BY <2>1
  <2>3. i # 1 => f[i - 1] = made[i - 1]
    BY <1>1
  <2> QED
    BY <2>2, <2>3
<1>7. FlattenTable(f, seqs)
  <2>1. f = [i \in 1..n |-> f[i]]
    OBVIOUS
  <2> HIDE DEF f
  <2> QED
    BY <1>6, <2>1 DEF FlattenTable
<1> QED
  BY <1>5, <1>7 DEF Results

LEMMA FlattenKeeps ==
  ASSUME NEW S, NEW seqs \in Seq(Seq(S))
  PROVE  FlattenSeq(seqs) \in Seq(S)
<1> DEFINE n == Len(seqs)
           f == CHOOSE f : FlattenTable(f, seqs)
<1>1. n \in Nat /\ \A i \in 1..n : seqs[i] \in Seq(S)
  OBVIOUS
<1>2. FlattenTable(f, seqs)
  BY FlattenTableExists
<1>3. FlattenSeq(seqs) = IF n = 0 THEN seqs ELSE f[n]
  BY DEF FlattenSeq, FlattenTable
<1> HIDE DEF f
<1> DEFINE T == {k \in Nat : k > 0 /\ k <= n => f[k] \in Seq(S)}
<1>4. 0 \in T
  OBVIOUS
<1>5. ASSUME NEW k \in Nat, k \in T PROVE k + 1 \in T
  <2> SUFFICES ASSUME k + 1 <= n PROVE f[k + 1] \in Seq(S)
    OBVIOUS
  <2>1. k + 1 \in 1..n /\ seqs[k + 1] \in Seq(S) /\ (k + 1) - 1 = k
    BY <1>1
  <2>2. f[k + 1] = IF k + 1 = 1 THEN seqs[k + 1] ELSE f[k] \o seqs[k + 1]
    BY <1>2, <2>1 DEF FlattenTable
  <2>3. CASE k = 0
    BY <2>1, <2>2, <2>3
  <2>4. CASE k # 0
    <3>1. f[k] \in Seq(S)
      BY <1>1, <1>5, <2>1, <2>4
    <3>2. f[k] \o seqs[k + 1] \in Seq(S)
      BY <2>1, <3>1
    <3> QED
      BY <2>2, <2>4, <3>2
  <2> QED
    BY <2>3, <2>4
<1>6. Nat \subseteq T
  <2> HIDE DEF T
  <2> QED
    BY <1>4, <1>5, SetInduction
<1>7. n > 0 => f[n] \in Seq(S)
  BY <1>1, <1>6
<1>8. n = 0 => seqs \in Seq(S)
  BY <1>1
<1> QED
  BY <1>1, <1>3, <1>7, <1>8

\* Clipping against a side takes the points P to points R.
Clips(P, R, side) ==
  \A a, b \in P : /\ side \notin BitCode(a) => a \in R
                  /\ (side \in BitCode(a)) # (side \in BitCode(b)) =>
                       EdgeIntersection(b, a, {side}) \in R

LEMMA ClippedTakes ==
  ASSUME NEW P, NEW R, NEW side, Clips(P, R, side), NEW ring \in Seq(P), NEW i \in 1..Len(ring)
  PROVE  Clipped(ring, side, i) \in Seq(R)
<1> DEFINE a == ring[i]
           b == IF i = 1 THEN Last(ring) ELSE ring[i - 1]
           p == EdgeIntersection(b, a, {side})
<1>1. a \in P /\ b \in P
  <2> DEFINE n == Len(ring)
  <2>1. n \in Nat /\ i \in 1..n /\ \A k \in 1..n : ring[k] \in P
    OBVIOUS
  <2>2. n \in 1..n /\ Last(ring) = ring[n]
    BY <2>1 DEF Last
  <2>3. i # 1 => i - 1 \in 1..n
    BY <2>1
  <2> QED
    BY <2>1, <2>2, <2>3
<1>2. Clipped(ring, side, i)
        = IF side \notin BitCode(a) THEN IF side \in BitCode(b) THEN <<p, a>> ELSE <<a>>
          ELSE IF side \notin BitCode(b) THEN <<p>> ELSE <<>>
  BY DEF Clipped
<1> HIDE DEF a, b
<1>3. /\ side \notin BitCode(a) => a \in R
      /\ (side \in BitCode(a)) # (side \in BitCode(b)) => p \in R
  BY <1>1 DEF Clips
<1> HIDE DEF p
<1>4. CASE side \notin BitCode(a) /\ side \in BitCode(b)
  <2>1. a \in R /\ p \in R
    BY <1>3, <1>4
  <2>2. <<p, a>> \in Seq(R)
    BY <2>1
  <2> QED
    BY <1>2, <1>4, <2>2
<1>5. CASE side \notin BitCode(a) /\ side \notin BitCode(b)
  <2>1. <<a>> \in Seq(R)
    BY <1>3, <1>5
  <2> QED
    BY <1>2, <1>5, <2>1
<1>6. CASE side \in BitCode(a) /\ side \notin BitCode(b)
  <2>1. <<p>> \in Seq(R)
    BY <1>3, <1>6
  <2> QED
    BY <1>2, <1>6, <2>1
<1>7. CASE side \in BitCode(a) /\ side \in BitCode(b)
  <2>1. <<>> \in Seq(R)
    OBVIOUS
  <2> QED
    BY <1>2, <1>7, <2>1
<1> QED
  BY <1>4, <1>5, <1>6, <1>7

LEMMA AgainstTakes ==
  ASSUME NEW P, NEW R, NEW side, Clips(P, R, side), NEW ring \in Seq(P)
  PROVE  Against(ring, side) \in Seq(R)
<1> DEFINE n == Len(ring)
           seqs == [i \in 1..n |-> Clipped(ring, side, i)]
<1>1. n \in Nat
  OBVIOUS
<1>2. ASSUME NEW i \in 1..n PROVE Clipped(ring, side, i) \in Seq(R)
  BY ClippedTakes
<1>3. seqs \in Seq(Seq(R))
  BY <1>1, <1>2
<1>4. FlattenSeq(seqs) \in Seq(R)
  <2> HIDE DEF seqs
  <2> QED
    BY <1>3, FlattenKeeps
<1> QED
  BY <1>4 DEF Against

\* The points that are beyond none of the sides; those beyond one.
Beside(sides) == {p \in Plane : BitCode(p) \cap sides = {}}
Beyond(side) == {p \in Plane : side \in BitCode(p)}

LEMMA ClipsBeside ==
  ASSUME NEW sides, NEW side \in Sides
  PROVE  Clips(Beside(sides), Beside(sides \cup {side}), side)
<1> SUFFICES ASSUME NEW a \in Beside(sides), NEW b \in Beside(sides)
             PROVE  /\ side \notin BitCode(a) => a \in Beside(sides \cup {side})
                    /\ (side \in BitCode(a)) # (side \in BitCode(b)) =>
                         EdgeIntersection(b, a, {side}) \in Beside(sides \cup {side})
  BY DEF Clips
<1>1. a \in Plane /\ b \in Plane /\ BitCode(a) \cap sides = {} /\ BitCode(b) \cap sides = {}
  BY DEF Beside
<1>2. ASSUME side \notin BitCode(a) PROVE a \in Beside(sides \cup {side})
  BY <1>1, <1>2 DEF Beside
<1>3. ASSUME (side \in BitCode(a)) # (side \in BitCode(b))
      PROVE  EdgeIntersection(b, a, {side}) \in Beside(sides \cup {side})
  <2> DEFINE p == EdgeIntersection(b, a, {side})
  <2>1. (side \in BitCode(b)) # (side \in BitCode(a))
    BY <1>3
  <2>2. p \in Plane /\ side \notin BitCode(p) /\ BitCode(p) \subseteq BitCode(b) \cup BitCode(a)
    BY <1>1, <2>1, SideCrossing
  <2> HIDE DEF p
  <2>3. p \in Beside(sides \cup {side})
    BY <1>1, <2>2 DEF Beside
  <2> QED
    BY <2>3 DEF p
<1>4. side \notin BitCode(a) => a \in Beside(sides \cup {side})
  BY <1>2
<1>5. (side \in BitCode(a)) # (side \in BitCode(b)) =>
        EdgeIntersection(b, a, {side}) \in Beside(sides \cup {side})
  BY <1>3
<1> QED
  BY <1>4, <1>5

LEMMA ClipsBeyond ==
  ASSUME NEW beyond \in Sides, NEW side \in Sides
  PROVE  /\ Clips(Beyond(beyond), Beyond(beyond), side)
         /\ Clips(Beyond(beyond), {}, beyond)
<1>1. ASSUME NEW a \in Beyond(beyond), NEW b \in Beyond(beyond),
             (side \in BitCode(a)) # (side \in BitCode(b))
      PROVE  EdgeIntersection(b, a, {side}) \in Beyond(beyond)
  <2> DEFINE p == EdgeIntersection(b, a, {side})
  <2>1. a \in Plane /\ b \in Plane /\ beyond \in BitCode(b) \cap BitCode(a)
    BY DEF Beyond
  <2>2. (side \in BitCode(b)) # (side \in BitCode(a))
    BY <1>1
  <2>3. p \in Plane /\ BitCode(b) \cap BitCode(a) \subseteq BitCode(p)
    BY <2>1, <2>2, SideCrossing
  <2> HIDE DEF p
  <2>4. p \in Beyond(beyond)
    BY <2>1, <2>3 DEF Beyond
  <2> QED
    BY <2>4 DEF p
<1>2. Clips(Beyond(beyond), Beyond(beyond), side)
  BY <1>1 DEF Clips
<1>3. \A a \in Beyond(beyond) : beyond \in BitCode(a)
  BY DEF Beyond
<1>4. Clips(Beyond(beyond), {}, beyond)
  BY <1>3 DEF Clips
<1> QED
  BY <1>2, <1>4

LEMMA ClipsNothing == ASSUME NEW side PROVE Clips({}, {}, side)
BY DEF Clips

LEMMA SeqOfMore ==
  ASSUME NEW B, NEW A \in SUBSET B, NEW s \in Seq(A)
  PROVE  s \in Seq(B)
OBVIOUS

LEMMA PlaneIsBeside == Plane = Beside({})
BY DEF Beside

LEMMA AgainstKeeps ==
  ASSUME NEW ring \in Seq(Plane), NEW side \in Sides
  PROVE  Against(ring, side) \in Seq(Plane)
<1>1. Clips(Plane, Beside({side}), side)
  <2>1. Clips(Beside({}), Beside({} \cup {side}), side)
    BY ClipsBeside
  <2>2. {} \cup {side} = {side}
    OBVIOUS
  <2> QED
    BY <2>1, <2>2, PlaneIsBeside
<1>2. Against(ring, side) \in Seq(Beside({side}))
  BY <1>1, AgainstTakes
<1>3. Beside({side}) \subseteq Plane
  BY DEF Beside
<1> QED
  BY <1>2, <1>3, SeqOfMore

\* A ring is clipped against one side after the other.
AgainstAll(seq, base) == FoldLeft(Against, base, seq)

AgainstStep(seq) == [p \in Seq(Plane) \X (1..Len(seq)) |-> Against(p[1], seq[p[2]])]

AgainstTable(t, seq, base) ==
  t = [s \in SUBSET (DOMAIN seq) |->
         IF s = {} THEN base ELSE Against(t[s \ {Max(s)}], seq[Max(s)])]

AgainstMade(made, seq, base) ==
  /\ made \in [0..Len(seq) -> Seq(Plane)] /\ made[0] = base
  /\ \A k \in 1..Len(seq) : made[k] = Against(made[k - 1], seq[k])

LEMMA AgainstStepIsStep ==
  ASSUME NEW seq \in Seq(Sides)
  PROVE  /\ Len(seq) \in Nat /\ DOMAIN seq = 1..Len(seq)
         /\ AgainstStep(seq) \in [Seq(Plane) \X (1..Len(seq)) -> Seq(Plane)]
<1>1. Len(seq) \in Nat /\ DOMAIN seq = 1..Len(seq) /\ \A i \in 1..Len(seq) : seq[i] \in Sides
  OBVIOUS
<1>2. \A r \in Seq(Plane), i \in 1..Len(seq) : Against(r, seq[i]) \in Seq(Plane)
  BY <1>1, AgainstKeeps
<1> QED
  BY <1>1, <1>2 DEF AgainstStep

LEMMA AgainstTableExists ==
  ASSUME NEW seq \in Seq(Sides),
         NEW base \in Seq(Plane)
  PROVE  \E t : AgainstTable(t, seq, base)
<1> DEFINE n == Len(seq)
           step == AgainstStep(seq)
<1>1. n \in Nat /\ DOMAIN seq = 1..n /\ step \in [Seq(Plane) \X (1..n) -> Seq(Plane)]
  BY AgainstStepIsStep
<1>2. HasTable(step, base, Seq(Plane), n)
  <2> HIDE DEF step, n
  <2> QED
    BY <1>1, TableExists
<1>3. PICK t \in [SUBSET (1..n) -> Seq(Plane)] : Table(t, step, base, n)
  BY <1>2 DEF HasTable
<1>4. ASSUME NEW s \in SUBSET (1..n), s # {}
      PROVE  step[<<t[s \ {Max(s)}], Max(s)>>] = Against(t[s \ {Max(s)}], seq[Max(s)])
  <2>1. Max(s) \in 1..n
    BY <1>1, <1>4, MaxOfNumbers
  <2>2. t[s \ {Max(s)}] \in Seq(Plane)
    OBVIOUS
  <2> QED
    BY <2>1, <2>2 DEF AgainstStep
<1>5. t = [s \in SUBSET (1..n) |->
             IF s = {} THEN base ELSE Against(t[s \ {Max(s)}], seq[Max(s)])]
  <2> HIDE DEF step
  <2> QED
    BY <1>3, <1>4 DEF Table
<1> QED
  BY <1>1, <1>5 DEF AgainstTable

LEMMA AgainstFold ==
  ASSUME NEW seq \in Seq(Sides),
         NEW base \in Seq(Plane)
  PROVE  \E made : AgainstMade(made, seq, base) /\ AgainstAll(seq, base) = made[Len(seq)]
<1> DEFINE n == Len(seq)
           step == AgainstStep(seq)
           t == CHOOSE t : AgainstTable(t, seq, base)
<1>1. n \in Nat /\ DOMAIN seq = 1..n /\ step \in [Seq(Plane) \X (1..n) -> Seq(Plane)]
  BY AgainstStepIsStep
<1>2. AgainstTable(t, seq, base)
  BY AgainstTableExists
<1>3. AgainstAll(seq, base) = t[1..n]
  BY <1>1 DEF AgainstAll, FoldLeft, MapThenFoldSet, AgainstTable
<1> HIDE DEF t
<1>4. t[{}] = base
  BY <1>2 DEF AgainstTable
<1>5. ASSUME NEW k \in 1..n, t[1..k - 1] \in Seq(Plane)
      PROVE  t[1..k] = step[<<t[1..k - 1], k>>]
  <2>1. (1..k) \in SUBSET (1..n) /\ 1..k # {} /\ Max(1..k) = k /\ (1..k) \ {k} = 1..k - 1
    BY <1>1, TableRow
  <2>2. t[1..k] = Against(t[1..k - 1], seq[k])
    BY <1>1, <1>2, <2>1 DEF AgainstTable
  <2> QED
    BY <1>5, <2>2 DEF AgainstStep
<1>6. PICK made \in [0..n -> Seq(Plane)] : StepsFrom(made, step, base, n) /\ made[n] = t[1..n]
  <2> HIDE DEF step, n
  <2>1. Unfolds(t, step, Seq(Plane), base, n)
    BY <1>4, <1>5 DEF Unfolds
  <2>2. HasSteps(step, Seq(Plane), base, n, t[1..n])
    BY <1>1, <2>1, StepsOfTable
  <2> QED
    BY <2>2 DEF HasSteps
<1>7. \A k \in 1..n : made[k] = Against(made[k - 1], seq[k])
  BY <1>1, <1>6, TableRow DEF StepsFrom, AgainstStep
<1>8. AgainstMade(made, seq, base)
  BY <1>6, <1>7 DEF StepsFrom, AgainstMade
<1> QED
  BY <1>3, <1>6, <1>8

LEMMA OrderIs ==
  /\ ClipOrder \in Seq(Sides) /\ Len(ClipOrder) = 4
  /\ ClipOrder[1] = "left" /\ ClipOrder[2] = "bottom" /\ ClipOrder[3] = "right"
  /\ ClipOrder[4] = "top"
BY DEF ClipOrder, Sides

LEMMA ClipPolygonSteps ==
  ASSUME NEW points \in Seq(Plane)
  PROVE  \E made : /\ made[0] = points /\ ClipPolygon(points) = made[4]
                   /\ \A k \in 1..4 : made[k] = Against(made[k - 1], ClipOrder[k])
<1>1. PICK made : AgainstMade(made, ClipOrder, points)
                  /\ AgainstAll(ClipOrder, points) = made[Len(ClipOrder)]
  BY OrderIs, AgainstFold
<1>2. ClipPolygon(points) = AgainstAll(ClipOrder, points)
  BY DEF ClipPolygon, AgainstAll
<1> QED
  BY <1>1, <1>2, OrderIs DEF AgainstMade

\* A clipped polygon is in view.
LEMMA PolygonInView ==
  ASSUME NEW points \in Seq(Plane)
  PROVE  ClipPolygon(points) \in Seq(Beside(Sides))
<1>1. PICK made : /\ made[0] = points /\ ClipPolygon(points) = made[4]
                  /\ \A k \in 1..4 : made[k] = Against(made[k - 1], ClipOrder[k])
  BY ClipPolygonSteps
<1>2. /\ made[1] = Against(made[0], "left") /\ made[2] = Against(made[1], "bottom")
      /\ made[3] = Against(made[2], "right") /\ made[4] = Against(made[3], "top")
  BY <1>1, OrderIs
<1>3. ASSUME NEW sides, NEW side \in Sides, NEW ring \in Seq(Beside(sides))
      PROVE  Against(ring, side) \in Seq(Beside(sides \cup {side}))
  BY ClipsBeside, AgainstTakes
<1>4. made[0] \in Seq(Beside({}))
  BY <1>1, PlaneIsBeside
<1>5. made[1] \in Seq(Beside({} \cup {"left"}))
  BY <1>2, <1>3, <1>4 DEF Sides
<1>6. made[2] \in Seq(Beside(({} \cup {"left"}) \cup {"bottom"}))
  BY <1>2, <1>3, <1>5 DEF Sides
<1>7. made[3] \in Seq(Beside((({} \cup {"left"}) \cup {"bottom"}) \cup {"right"}))
  BY <1>2, <1>3, <1>6 DEF Sides
<1>8. made[4] \in Seq(Beside(((({} \cup {"left"}) \cup {"bottom"}) \cup {"right"}) \cup {"top"}))
  BY <1>2, <1>3, <1>7 DEF Sides
<1>9. ((({} \cup {"left"}) \cup {"bottom"}) \cup {"right"}) \cup {"top"} = Sides
  BY DEF Sides
<1> QED
  BY <1>1, <1>8, <1>9

\* Of a polygon beyond a side nothing is left.
LEMMA NoneIsSeq == ASSUME NEW s \in Seq({}) PROVE s = <<>>
OBVIOUS

LEMMA PolygonBeyond ==
  ASSUME NEW side \in Sides, NEW points \in Seq(Beyond(side))
  PROVE  ClipPolygon(points) = <<>>
<1>1. points \in Seq(Plane)
  <2>1. Beyond(side) \subseteq Plane
    BY DEF Beyond
  <2> QED
    BY <2>1
<1>2. PICK made : /\ made[0] = points /\ ClipPolygon(points) = made[4]
                  /\ \A k \in 1..4 : made[k] = Against(made[k - 1], ClipOrder[k])
  BY <1>1, ClipPolygonSteps
<1>3. ASSUME NEW k \in 1..4, made[k - 1] \in Seq(Beyond(side)), ClipOrder[k] # side
      PROVE  made[k] \in Seq(Beyond(side))
  <2>1. ClipOrder[k] \in Sides
    <3>1. k = 1 \/ k = 2 \/ k = 3 \/ k = 4
      OBVIOUS
    <3> QED
      BY <3>1, OrderIs DEF Sides
  <2>2. made[k] = Against(made[k - 1], ClipOrder[k])
    BY <1>2
  <2> QED
    BY <1>3, <2>1, <2>2, ClipsBeyond, AgainstTakes
<1>4. ASSUME NEW k \in 1..4, made[k - 1] \in Seq(Beyond(side)), ClipOrder[k] = side
      PROVE  made[k] \in Seq({})
  <2>1. made[k] = Against(made[k - 1], side)
    BY <1>2, <1>4
  <2> QED
    BY <1>4, <2>1, ClipsBeyond, AgainstTakes
<1>5. ASSUME NEW k \in 1..4, made[k - 1] \in Seq({})
      PROVE  made[k] \in Seq({})
  <2>1. made[k] = Against(made[k - 1], ClipOrder[k])
    BY <1>2
  <2> QED
    BY <1>5, <2>1, ClipsNothing, AgainstTakes
<1>6. 1 \in 1..4 /\ 2 \in 1..4 /\ 3 \in 1..4 /\ 4 \in 1..4 /\ 1 - 1 = 0 /\ 2 - 1 = 1
      /\ 3 - 1 = 2 /\ 4 - 1 = 3
  OBVIOUS
<1> DEFINE In(k) == made[k] \in Seq(Beyond(side))
           Out(k) == made[k] \in Seq({})
<1>7. In(0)
  BY <1>2
<1>8. /\ (In(0) /\ "left" # side => In(1)) /\ (In(0) /\ "left" = side => Out(1))
  BY <1>3, <1>4, <1>6, OrderIs
<1>9. /\ (In(1) /\ "bottom" # side => In(2)) /\ (In(1) /\ "bottom" = side => Out(2))
      /\ (Out(1) => Out(2))
  BY <1>3, <1>4, <1>5, <1>6, OrderIs
<1>10. /\ (In(2) /\ "right" # side => In(3)) /\ (In(2) /\ "right" = side => Out(3))
       /\ (Out(2) => Out(3))
  BY <1>3, <1>4, <1>5, <1>6, OrderIs
<1>11. /\ (In(3) /\ "top" = side => Out(4)) /\ (Out(3) => Out(4))
  BY <1>4, <1>5, <1>6, OrderIs
<1> HIDE DEF In, Out
<1>12. side \in {"left", "right", "bottom", "top"}
  BY DEF Sides
<1>13. Out(4)
  BY <1>7, <1>8, <1>9, <1>10, <1>11, <1>12
<1>14. made[4] = <<>>
  BY <1>13, NoneIsSeq DEF Out
<1> QED
  BY <1>2, <1>14

\* The ring of a polygon has points of the polygon.
LEMMA InitRingKeeps ==
  ASSUME NEW S, NEW points \in Seq(S)
  PROVE  InitRing(points) \in Seq(S)
<1>1. CASE Len(points) >= 2 /\ points[1] = Last(points)
  <2>1. Len(points) > 0
    BY <1>1
  <2>2. Front(points) \in Seq(S)
    BY <2>1, FrontIs
  <2> QED
    BY <1>1, <2>2 DEF InitRing
<1>2. CASE ~(Len(points) >= 2 /\ points[1] = Last(points))
  BY <1>2 DEF InitRing
<1> QED
  BY <1>1, <1>2

LEMMA RingIs ==
  ASSUME NEW points \in Seq(Plane)
  PROVE  ClipPolygon(InitRing(points)) \in Seq(Beside(Sides))
BY InitRingKeeps, PolygonInView

LEMMA KeepRingKeeps ==
  ASSUME NEW kept \in Seq(Seq(Beside(Sides))), NEW points \in Seq(Plane)
  PROVE  KeepRing(kept, points) \in Seq(Seq(Beside(Sides)))
<1> DEFINE ring == ClipPolygon(InitRing(points))
<1>1. ring \in Seq(Beside(Sides))
  BY RingIs
<1>2. KeepRing(kept, points) = IF ring # <<>> THEN Append(kept, ring) ELSE kept
  BY DEF KeepRing
<1> HIDE DEF ring
<1>3. Append(kept, ring) \in Seq(Seq(Beside(Sides)))
  BY <1>1
<1> QED
  BY <1>2, <1>3

\* The rings that are in view are kept one by one.
KeepRingAll(seq, base) == FoldLeft(KeepRing, base, seq)

KeepRingStep(seq) == [p \in Seq(Seq(Beside(Sides))) \X (1..Len(seq)) |-> KeepRing(p[1], seq[p[2]])]

KeepRingTable(t, seq, base) ==
  t = [s \in SUBSET (DOMAIN seq) |->
         IF s = {} THEN base ELSE KeepRing(t[s \ {Max(s)}], seq[Max(s)])]

KeepRingMade(made, seq, base) ==
  /\ made \in [0..Len(seq) -> Seq(Seq(Beside(Sides)))] /\ made[0] = base
  /\ \A k \in 1..Len(seq) : made[k] = KeepRing(made[k - 1], seq[k])

LEMMA KeepRingStepIsStep ==
  ASSUME NEW seq \in Seq(Seq(Plane))
  PROVE  /\ Len(seq) \in Nat /\ DOMAIN seq = 1..Len(seq)
         /\ KeepRingStep(seq) \in [Seq(Seq(Beside(Sides))) \X (1..Len(seq)) -> Seq(Seq(Beside(Sides)))]
<1>1. Len(seq) \in Nat /\ DOMAIN seq = 1..Len(seq) /\ \A i \in 1..Len(seq) : seq[i] \in Seq(Plane)
  OBVIOUS
<1>2. \A r \in Seq(Seq(Beside(Sides))), i \in 1..Len(seq) : KeepRing(r, seq[i]) \in Seq(Seq(Beside(Sides)))
  BY <1>1, KeepRingKeeps
<1> QED
  BY <1>1, <1>2 DEF KeepRingStep

LEMMA KeepRingTableExists ==
  ASSUME NEW seq \in Seq(Seq(Plane)),
         NEW base \in Seq(Seq(Beside(Sides)))
  PROVE  \E t : KeepRingTable(t, seq, base)
<1> DEFINE n == Len(seq)
           step == KeepRingStep(seq)
<1>1. n \in Nat /\ DOMAIN seq = 1..n /\ step \in [Seq(Seq(Beside(Sides))) \X (1..n) -> Seq(Seq(Beside(Sides)))]
  BY KeepRingStepIsStep
<1>2. HasTable(step, base, Seq(Seq(Beside(Sides))), n)
  <2> HIDE DEF step, n
  <2> QED
    BY <1>1, TableExists
<1>3. PICK t \in [SUBSET (1..n) -> Seq(Seq(Beside(Sides)))] : Table(t, step, base, n)
  BY <1>2 DEF HasTable
<1>4. ASSUME NEW s \in SUBSET (1..n), s # {}
      PROVE  step[<<t[s \ {Max(s)}], Max(s)>>] = KeepRing(t[s \ {Max(s)}], seq[Max(s)])
  <2>1. Max(s) \in 1..n
    BY <1>1, <1>4, MaxOfNumbers
  <2>2. t[s \ {Max(s)}] \in Seq(Seq(Beside(Sides)))
    OBVIOUS
  <2> QED
    BY <2>1, <2>2 DEF KeepRingStep
<1>5. t = [s \in SUBSET (1..n) |->
             IF s = {} THEN base ELSE KeepRing(t[s \ {Max(s)}], seq[Max(s)])]
  <2> HIDE DEF step
  <2> QED
    BY <1>3, <1>4 DEF Table
<1> QED
  BY <1>1, <1>5 DEF KeepRingTable

LEMMA KeepRingFold ==
  ASSUME NEW seq \in Seq(Seq(Plane)),
         NEW base \in Seq(Seq(Beside(Sides)))
  PROVE  \E made : KeepRingMade(made, seq, base) /\ KeepRingAll(seq, base) = made[Len(seq)]
<1> DEFINE n == Len(seq)
           step == KeepRingStep(seq)
           t == CHOOSE t : KeepRingTable(t, seq, base)
<1>1. n \in Nat /\ DOMAIN seq = 1..n /\ step \in [Seq(Seq(Beside(Sides))) \X (1..n) -> Seq(Seq(Beside(Sides)))]
  BY KeepRingStepIsStep
<1>2. KeepRingTable(t, seq, base)
  BY KeepRingTableExists
<1>3. KeepRingAll(seq, base) = t[1..n]
  BY <1>1 DEF KeepRingAll, FoldLeft, MapThenFoldSet, KeepRingTable
<1> HIDE DEF t
<1>4. t[{}] = base
  BY <1>2 DEF KeepRingTable
<1>5. ASSUME NEW k \in 1..n, t[1..k - 1] \in Seq(Seq(Beside(Sides)))
      PROVE  t[1..k] = step[<<t[1..k - 1], k>>]
  <2>1. (1..k) \in SUBSET (1..n) /\ 1..k # {} /\ Max(1..k) = k /\ (1..k) \ {k} = 1..k - 1
    BY <1>1, TableRow
  <2>2. t[1..k] = KeepRing(t[1..k - 1], seq[k])
    BY <1>1, <1>2, <2>1 DEF KeepRingTable
  <2> QED
    BY <1>5, <2>2 DEF KeepRingStep
<1>6. PICK made \in [0..n -> Seq(Seq(Beside(Sides)))] : StepsFrom(made, step, base, n) /\ made[n] = t[1..n]
  <2> HIDE DEF step, n
  <2>1. Unfolds(t, step, Seq(Seq(Beside(Sides))), base, n)
    BY <1>4, <1>5 DEF Unfolds
  <2>2. HasSteps(step, Seq(Seq(Beside(Sides))), base, n, t[1..n])
    BY <1>1, <2>1, StepsOfTable
  <2> QED
    BY <2>2 DEF HasSteps
<1>7. \A k \in 1..n : made[k] = KeepRing(made[k - 1], seq[k])
  BY <1>1, <1>6, TableRow DEF StepsFrom, KeepRingStep
<1>8. KeepRingMade(made, seq, base)
  BY <1>6, <1>7 DEF StepsFrom, KeepRingMade
<1> QED
  BY <1>3, <1>6, <1>8

LEMMA OneRing ==
  ASSUME NEW points \in Seq(Plane)
  PROVE  LET ring == ClipPolygon(InitRing(points))
         IN ClipRings(<<points>>) = IF ring # <<>> THEN <<ring>> ELSE <<>>
<1> DEFINE seq == <<points>>
           base == <<>>
           ring == ClipPolygon(InitRing(points))
<1>1. seq \in Seq(Seq(Plane)) /\ Len(seq) = 1 /\ seq[1] = points /\ base \in Seq(Seq(Beside(Sides)))
  OBVIOUS
<1>2. ClipRings(seq) = KeepRingAll(seq, base)
  BY DEF ClipRings, KeepRingAll
<1> HIDE DEF seq, base
<1>3. PICK made : KeepRingMade(made, seq, base) /\ KeepRingAll(seq, base) = made[Len(seq)]
  BY <1>1, KeepRingFold
<1>4. made[0] = base /\ made[1] = KeepRing(base, points)
  <2>1. 1 \in 1..1 /\ 1 - 1 = 0
    OBVIOUS
  <2> QED
    BY <1>1, <1>3, <2>1 DEF KeepRingMade
<1>5. KeepRing(base, points) = IF ring # <<>> THEN Append(<<>>, ring) ELSE <<>>
  BY DEF KeepRing, base
<1> HIDE DEF ring
<1>6. Append(<<>>, ring) = <<ring>>
  OBVIOUS
<1> QED
  BY <1>1, <1>2, <1>3, <1>4, <1>5, <1>6 DEF seq, ring

LEMMA BoundsDecideAll ==
  ASSUME NEW points \in Seq(Plane), Len(points) > 1
  PROVE  BoundsDecide(points)
<1>1. /\ ContainsBounds(View, BoundsOf(points)) =>
           \A i \in 1..Len(points) : BitCode(points[i]) = {}
      /\ ~Intersects(View, BoundsOf(points)) =>
           \E side \in Sides : \A i \in 1..Len(points) : side \in BitCode(points[i])
  <2>1. Len(points) > 0
    OBVIOUS
  <2> QED
    BY <2>1, BoundsTell
<1>2. ASSUME ContainsBounds(View, BoundsOf(points)) PROVE ClipPoints(points) = <<points>>
  BY <1>1, <1>2, InViewIsWhole
<1>3. ASSUME ~Intersects(View, BoundsOf(points))
      PROVE  ClipPoints(points) = <<>> /\ ClipRings(<<points>>) = <<>>
  <2>1. PICK side \in Sides : \A i \in 1..Len(points) : side \in BitCode(points[i])
    BY <1>1, <1>3
  <2>2. ClipPoints(points) = <<>>
    BY <2>1, BeyondIsNothing
  <2>3. points \in Seq(Beyond(side))
    <3>1. Len(points) \in Nat /\ points \in [1..Len(points) -> Plane]
      OBVIOUS
    <3>2. \A i \in 1..Len(points) : points[i] \in Beyond(side)
      BY <2>1, <3>1 DEF Beyond
    <3> QED
      BY <3>1, <3>2
  <2>4. InitRing(points) \in Seq(Beyond(side))
    BY <2>3, InitRingKeeps
  <2>5. ClipPolygon(InitRing(points)) = <<>>
    BY <2>4, PolygonBeyond
  <2> QED
    BY <2>2, <2>5, OneRing
<1> QED
  BY <1>2, <1>3 DEF BoundsDecide

\* Every point of a part is in view.
AllInView(parts) == \A k \in 1..Len(parts) : \A j \in 1..Len(parts[k]) : InView(parts[k][j])

LEMMA PartInView ==
  ASSUME NEW points \in Seq(Plane), NEW c \in Parts, NEW i \in 1..Len(points) - 1,
         AllInView(c.parts)
  PROVE  AllInView(ClipPart(points, c, i).parts)
<1> DEFINE s == ClipSegment(points[i], points[i + 1])
           begun == StartedAt(c, s.a)
           ended == EndedAt(begun, s.b)
           ends == s.b # points[i + 1] \/ i = Len(points) - 1
           d == ClipPart(points, c, i)
<1>1. s.a \in Plane /\ s.b \in Plane /\ points[i] \in Plane /\ points[i + 1] \in Plane
  BY SegmentOf
<1>2. Settled(s)
  BY <1>1, ClipSegmentIs
<1>3. IF Rejected(s) THEN d = c ELSE d = [parts |-> IF ends THEN ended ELSE begun, open |-> ~ends]
  BY ClipPartDoes DEF ClipPartIs
<1> HIDE DEF s, d, ends
<1>4. CASE Rejected(s)
  BY <1>3, <1>4 DEF d
<1>5. CASE ~Rejected(s)
  <2>1. InView(s.a) /\ InView(s.b)
    <3>1. BitCode(s.a) = {} /\ BitCode(s.b) = {}
      BY <1>2, <1>5 DEF Settled, Accepted
    <3> QED
      BY <1>1, <3>1, InViewIs
  <2>2. Len(c.parts) \in Nat /\ (c.open => Len(c.parts) > 0)
        /\ \A j \in 1..Len(c.parts) : c.parts[j] \in Seq(Plane)
    BY DEF Parts
  <2>3. /\ begun \in Seq(Seq(Plane)) /\ Len(begun) > 0
        /\ Len(begun) = IF c.open THEN Len(c.parts) ELSE Len(c.parts) + 1
        /\ begun[Len(begun)] = IF c.open THEN Append(c.parts[Len(c.parts)], s.a) ELSE <<s.a>>
        /\ \A j \in 1..Len(begun) - 1 : begun[j] = c.parts[j]
    BY <1>1, BegunIs
  <2> HIDE DEF begun
  <2>4. ASSUME NEW k \in 1..Len(begun), NEW j \in 1..Len(begun[k]) PROVE InView(begun[k][j])
    <3>1. CASE k # Len(begun)
      <4>1. k \in 1..Len(begun) - 1 /\ k \in 1..Len(c.parts)
        BY <2>2, <2>3, <3>1
      <4> QED
        BY <2>3, <4>1 DEF AllInView
    <3>2. CASE k = Len(begun) /\ c.open
      <4> DEFINE before == c.parts[Len(c.parts)]
      <4>1. Len(c.parts) \in 1..Len(c.parts)
        BY <2>2, <3>2
      <4>2. before \in Seq(Plane) /\ \A l \in 1..Len(before) : InView(before[l])
        BY <2>2, <4>1 DEF AllInView
      <4>3. begun[k] = Append(before, s.a)
        BY <2>3, <3>2
      <4> HIDE DEF before
      <4>4. (j = Len(before) + 1 /\ begun[k][j] = s.a)
            \/ (j \in 1..Len(before) /\ begun[k][j] = before[j])
        BY <1>1, <4>2, <4>3
      <4> QED
        BY <2>1, <4>2, <4>4
    <3>3. CASE k = Len(begun) /\ ~c.open
      <4>1. begun[k] = <<s.a>>
        BY <2>3, <3>3
      <4>2. j = 1 /\ begun[k][j] = s.a
        BY <4>1
      <4> QED
        BY <2>1, <4>2
    <3> QED
      BY <3>1, <3>2, <3>3
  <2>5. /\ ended \in Seq(Seq(Plane)) /\ Len(ended) = Len(begun)
        /\ ended[Len(begun)] = Append(begun[Len(begun)], s.b)
        /\ \A j \in 1..Len(begun) - 1 : ended[j] = begun[j]
    BY <1>1, <2>3, EndedIs
  <2> HIDE DEF ended
  <2>6. ASSUME NEW k \in 1..Len(ended), NEW j \in 1..Len(ended[k]) PROVE InView(ended[k][j])
    <3>1. CASE k # Len(begun)
      <4>1. k \in 1..Len(begun) - 1 /\ k \in 1..Len(begun)
        BY <2>3, <2>5, <3>1
      <4> QED
        BY <2>4, <2>5, <4>1
    <3>2. CASE k = Len(begun)
      <4> DEFINE before == begun[k]
      <4>1. k \in 1..Len(begun)
        BY <2>5
      <4>2. before \in Seq(Plane) /\ \A l \in 1..Len(before) : InView(before[l])
        BY <2>3, <2>4, <4>1
      <4>3. ended[k] = Append(before, s.b)
        BY <2>5, <3>2
      <4> HIDE DEF before
      <4>4. (j = Len(before) + 1 /\ ended[k][j] = s.b)
            \/ (j \in 1..Len(before) /\ ended[k][j] = before[j])
        BY <1>1, <4>2, <4>3
      <4> QED
        BY <2>1, <4>2, <4>4
    <3> QED
      BY <3>1, <3>2
  <2>7. d.parts = ended \/ d.parts = begun
    BY <1>3, <1>5
  <2>8. AllInView(d.parts)
    BY <2>4, <2>6, <2>7 DEF AllInView
  <2> QED
    BY <2>8 DEF d
<1> QED
  BY <1>4, <1>5

LEMMA LineInView ==
  ASSUME NEW points \in Seq(Plane), Len(points) > 1
  PROVE  AllInView(ClipPoints(points))
<1> DEFINE n == Len(points) - 1
<1>1. n \in Nat
  OBVIOUS
<1>2. PICK made : /\ made[0] = [parts |-> <<>>, open |-> FALSE]
                  /\ \A k \in 1..n : made[k] = ClipPart(points, made[k - 1], k)
                  /\ ClipPoints(points) = made[n].parts
  BY ClipPointsFold
<1> DEFINE T == {k \in Nat : k <= n => made[k] \in Parts /\ AllInView(made[k].parts)}
<1>3. 0 \in T
  <2>1. made[0] \in Parts
    BY <1>2 DEF Parts
  <2>2. Len(made[0].parts) = 0
    BY <1>2
  <2>3. AllInView(made[0].parts)
    BY <2>2 DEF AllInView
  <2> QED
    BY <2>1, <2>3
<1>4. ASSUME NEW k \in Nat, k \in T PROVE k + 1 \in T
  <2> SUFFICES ASSUME k + 1 <= n PROVE made[k + 1] \in Parts /\ AllInView(made[k + 1].parts)
    OBVIOUS
  <2>1. k + 1 \in 1..n /\ (k + 1) - 1 = k /\ made[k] \in Parts /\ AllInView(made[k].parts)
    BY <1>1, <1>4
  <2>2. made[k + 1] = ClipPart(points, made[k], k + 1)
    BY <1>2, <2>1
  <2> QED
    BY <2>1, <2>2, ClipPartKeeps, PartInView
<1>5. Nat \subseteq T
  <2> HIDE DEF T
  <2> QED
    BY <1>3, <1>4, SetInduction
<1>6. AllInView(made[n].parts)
  BY <1>1, <1>5
<1> QED
  BY <1>2, <1>6

\* What is drawn of a shape: everything, when it lies in view, nothing, when it
\* lies apart, and nothing that is out of view.
DrawnInView(points) ==
  /\ BoundsDecide(points)
  /\ AllInView(ClipPoints(points))
  /\ AllInView(ClipRings(<<points>>))

LEMMA RingsInView ==
  ASSUME NEW points \in Seq(Plane)
  PROVE  AllInView(ClipRings(<<points>>))
<1> DEFINE ring == ClipPolygon(InitRing(points))
<1>1. ring \in Seq(Beside(Sides))
  BY RingIs
<1>2. ClipRings(<<points>>) = IF ring # <<>> THEN <<ring>> ELSE <<>>
  BY OneRing
<1> HIDE DEF ring
<1>3. \A j \in 1..Len(ring) : InView(ring[j])
  <2>1. ASSUME NEW p \in Beside(Sides) PROVE InView(p)
    <3>1. p \in Plane /\ BitCode(p) \cap Sides = {} /\ BitCode(p) \subseteq Sides
      BY BitCodeIs DEF Beside, Sides
    <3>2. BitCode(p) = {}
      BY <3>1
    <3> QED
      BY <3>1, <3>2, InViewIs
  <2> QED
    BY <1>1, <2>1
<1>4. AllInView(<<ring>>) /\ AllInView(<<>>)
  BY <1>3 DEF AllInView
<1> QED
  BY <1>2, <1>4

\* What is in view of a line or of a polygon is simplified within the tolerance.
LEMMA PartsWithin ==
  ASSUME NEW parts \in Seq(Seq(Plane))
  PROVE  UpdatedWithin(parts)
<1> SUFFICES ASSUME NEW i \in DOMAIN parts, Len(parts[i]) > 1
             PROVE  Within(parts[i], UpdatePath(parts)[i])
  BY DEF UpdatedWithin
<1>1. i \in 1..Len(parts) /\ DOMAIN parts = 1..Len(parts)
  OBVIOUS
<1>2. parts[i] \in Seq(Plane)
  BY <1>1, ElementOfSeq
<1>3. UpdatePath(parts)[i] = Simplify(parts[i])
  BY DEF UpdatePath
<1> QED
  BY <1>2, <1>3, SimplifyIsWithin

LEMMA EverythingWithin == GeInv => SimplifiedWithin
<1> SUFFICES ASSUME GeInv, Len(geo.points) > 1
             PROVE  /\ Within(geo.points, Simplify(geo.points))
                    /\ UpdatedWithin(ClipPoints(geo.points))
                    /\ UpdatedWithin(ClipRings(<<geo.points>>))
  BY DEF SimplifiedWithin
<1>1. geo.points \in Seq(Plane) /\ Len(geo.points) > 0
  BY DEF GeInv
<1>2. Within(geo.points, Simplify(geo.points))
  BY <1>1, SimplifyIsWithin
<1>3. UpdatedWithin(ClipPoints(geo.points))
  BY <1>1, PartsAreLines, PartsWithin
<1>4. ClipRings(<<geo.points>>) \in Seq(Seq(Plane))
  <2> DEFINE ring == ClipPolygon(InitRing(geo.points))
  <2>1. ClipRings(<<geo.points>>) = IF ring # <<>> THEN <<ring>> ELSE <<>>
    BY <1>1, OneRing
  <2>2. ring \in Seq(Plane)
    BY <1>1, RingIs, SeqOfMore DEF Beside
  <2>3. <<ring>> \in Seq(Seq(Plane)) /\ <<>> \in Seq(Seq(Plane))
    <3> DEFINE lines == Seq(Plane)
    <3>1. ring \in lines
      BY <2>2
    <3> HIDE DEF ring, lines
    <3>2. <<ring>> \in Seq(lines) /\ <<>> \in Seq(lines)
      BY <3>1
    <3> QED
      BY <3>2 DEF lines
  <2> HIDE DEF ring
  <2> QED
    BY <2>1, <2>3
<1>5. UpdatedWithin(ClipRings(<<geo.points>>))
  BY <1>4, PartsWithin
<1> QED
  BY <1>2, <1>3, <1>5

\* A line simplified as a whole, and each part of a line and each ring of a
\* polygon in view, keeps its ends, and every point left of the vertex reduction
\* is within the tolerance of what is drawn of it.
THEOREM SimplifyingStaysWithin == GeSpec => []SimplifiedWithin
<1>1. GeSpec => []GeInv
  BY ShapeInvariant
<1> QED
  BY <1>1, EverythingWithin, PTL

\* What is in view decides: a shape within the view is drawn as it is, of one
\* apart from it nothing is drawn, and no part or ring leaves the view
\* (L.LineUtil.clipSegment, Polyline._clipPoints, L.PolyUtil.clipPolygon).
THEOREM ViewDecides ==
  GeSpec => [](geo.kind = "clip" /\ Len(geo.points) > 1 => DrawnInView(geo.points))
<1>1. GeInv => (geo.kind = "clip" /\ Len(geo.points) > 1 => DrawnInView(geo.points))
  <2> SUFFICES ASSUME GeInv, Len(geo.points) > 1 PROVE DrawnInView(geo.points)
    OBVIOUS
  <2>1. geo.points \in Seq(Plane)
    BY DEF GeInv
  <2> QED
    BY <2>1, BoundsDecideAll, LineInView, RingsInView DEF DrawnInView
<1>2. GeSpec => []GeInv
  BY ShapeInvariant
<1> QED
  BY <1>1, <1>2, PTL
-------------------------------------------------------------------------------
\* Where segments cross the lines of the view.

\* A number is determined by its product with another.
LEMMA Cancels ==
  ASSUME NEW a \in Int, NEW b \in Int, NEW d \in Int, d # 0, a * d = b * d
  PROVE  a = b
OBVIOUS

LEMMA ExactQuotient ==
  ASSUME NEW k \in Int, NEW d \in Int, d # 0
  PROVE  Quotient(k * d, d) = k
<1> DEFINE n == k * d
<1>1. n \in Int /\ -n \in Int /\ -n = k * (-d) /\ -d \in Int
  OBVIOUS
<1>2. ASSUME NEW m \in Int, NEW e \in Nat \ {0}, m = k * e PROVE m \div e = k
  <2> DEFINE q == m \div e
  <2>1. q \in Int /\ e * q <= m /\ m < e * q + e
    BY <1>2, DivisionIs
  <2> HIDE DEF q
  <2>2. e * q <= e * k /\ e * k < e * (q + 1)
    BY <1>2, <2>1
  <2>3. q <= k
    BY <2>1, <2>2
  <2>4. k < q + 1
    BY <2>1, <2>2
  <2> QED
    BY <2>1, <2>3, <2>4 DEF q
<1> HIDE DEF n
<1>3. CASE d > 0
  <2>1. Quotient(n, d) = n \div d
    BY <1>3 DEF Quotient
  <2>2. n = k * d
    BY DEF n
  <2> QED
    BY <1>1, <1>2, <1>3, <2>1, <2>2 DEF n
<1>4. CASE d < 0
  <2>1. Quotient(n, d) = (-n) \div (-d)
    BY <1>4 DEF Quotient
  <2>2. -d \in Nat \ {0}
    BY <1>1, <1>4
  <2> QED
    BY <1>1, <1>2, <2>1, <2>2 DEF n
<1> QED
  BY <1>3, <1>4

\* Two multiples of a direction are multiples of each other.
LEMMA Parallel ==
  ASSUME NEW dx \in Int, NEW dy \in Int, dy # 0, NEW a \in Int, NEW b \in Int,
         NEW c \in Int, NEW d \in Int, a * dy = dx * b, c * dy = dx * d
  PROVE  a * d = b * c
<1>1. (a * d) * dy = (a * dy) * d
  OBVIOUS
<1>2. (b * c) * dy = b * (c * dy)
  OBVIOUS
<1>3. (dx * b) * d = b * (dx * d)
  OBVIOUS
<1>4. (a * d) * dy = (b * c) * dy
  BY <1>1, <1>2, <1>3
<1> DEFINE m == a * d
           n == b * c
<1>5. m \in Int /\ n \in Int
  OBVIOUS
<1> QED
  BY <1>4, <1>5, Cancels

\* A line through <<u1, w1>> and <<u2, w2>> meets the lines u = Low and u = High
\* in points with integer coordinates.
MeetsAt(u1, w1, u2, w2) ==
  u1 # u2 => \A s \in {Low, High} : \E r \in Int : (r - w1) * (u2 - u1) = (w2 - w1) * (s - u1)

LEMMA MeetsTurned ==
  ASSUME NEW u1 \in Int, NEW w1 \in Int, NEW u2 \in Int, NEW w2 \in Int,
         MeetsAt(u1, w1, u2, w2)
  PROVE  MeetsAt(u2, w2, u1, w1)
<1> SUFFICES ASSUME u1 # u2, NEW s \in {Low, High}
             PROVE  \E r \in Int : (r - w2) * (u1 - u2) = (w1 - w2) * (s - u2)
  BY DEF MeetsAt
<1>1. PICK r \in Int : (r - w1) * (u2 - u1) = (w2 - w1) * (s - u1)
  BY DEF MeetsAt
<1>2. s \in Int
  BY ViewIs
<1>3. /\ (r - w1) * (u2 - u1) = r * u2 - r * u1 - w1 * u2 + w1 * u1
      /\ (w2 - w1) * (s - u1) = w2 * s - w2 * u1 - w1 * s + w1 * u1
      /\ (r - w2) * (u1 - u2) = r * u1 - r * u2 - w2 * u1 + w2 * u2
      /\ (w1 - w2) * (s - u2) = w1 * s - w1 * u2 - w2 * s + w2 * u2
  BY <1>2
<1>4. (r - w2) * (u1 - u2) = (w1 - w2) * (s - u2)
  BY <1>1, <1>2, <1>3
<1> QED
  BY <1>4

LEMMA MeetsShorter ==
  ASSUME NEW u1 \in Int, NEW w1 \in Int, NEW u2 \in Int, NEW w2 \in Int,
         MeetsAt(u1, w1, u2, w2), NEW u \in Int, NEW w \in Int,
         (w - w1) * (u2 - u1) = (w2 - w1) * (u - u1), Middle(u1, u, u2)
  PROVE  MeetsAt(u, w, u2, w2)
<1>1. ASSUME u # u2, NEW s \in {Low, High}
      PROVE  \E r \in Int : (r - w) * (u2 - u) = (w2 - w) * (s - u)
  <2>1. u1 # u2
    BY <1>1 DEF Middle
  <2>2. PICK r \in Int : (r - w1) * (u2 - u1) = (w2 - w1) * (s - u1)
    BY <1>1, <2>1 DEF MeetsAt
  <2>3. s \in Int
    BY <1>1, ViewIs
  <2> DEFINE dy == u2 - u1
             dx == w2 - w1
             a == r - w
             b == s - u
             c == w2 - w
             d == u2 - u
  <2>4. dx \in Int /\ dy \in Int /\ a \in Int /\ b \in Int /\ c \in Int /\ d \in Int /\ dy # 0
    BY <2>1, <2>3
  <2>5. a = (r - w1) - (w - w1) /\ b = (s - u1) - (u - u1) /\ c = dx - (w - w1) /\ d = dy - (u - u1)
    BY <2>3
  <2>6. a * dy = dx * b
    <3> DEFINE e == r - w1
               f == w - w1
               g == s - u1
               h == u - u1
    <3>1. e \in Int /\ f \in Int /\ g \in Int /\ h \in Int /\ e * dy = dx * g /\ f * dy = dx * h
          /\ a = e - f /\ b = g - h
      BY <2>2, <2>3, <2>5
    <3> HIDE DEF a, b, dx, dy, e, f, g, h
    <3>2. (e - f) * dy = e * dy - f * dy /\ dx * (g - h) = dx * g - dx * h
      BY <2>4, <3>1
    <3> QED
      BY <3>1, <3>2
  <2>7. c * dy = dx * d
    <3> DEFINE f == w - w1
               h == u - u1
    <3>1. f \in Int /\ h \in Int /\ f * dy = dx * h /\ c = dx - f /\ d = dy - h
      BY <2>5
    <3> HIDE DEF c, d, dx, dy, f, h
    <3>2. (dx - f) * dy = dx * dy - f * dy /\ dx * (dy - h) = dx * dy - dx * h
      BY <2>4, <3>1
    <3> QED
      BY <3>1, <3>2
  <2>8. a * d = b * c /\ b * c = c * b
    <3> HIDE DEF a, b, c, d, dx, dy
    <3>1. a * d = b * c
      BY <2>4, <2>6, <2>7, Parallel
    <3> QED
      BY <2>4, <3>1
  <2> QED
    BY <2>8
<1> QED
  BY <1>1 DEF MeetsAt

\* The same of points.
Meets(a, b) == MeetsAt(a.y, a.x, b.y, b.x) /\ MeetsAt(a.x, a.y, b.x, b.y)

LEMMA CrossIs ==
  ASSUME NEW a \in Plane, NEW b \in Plane, NEW p \in Plane
  PROVE  /\ a.x \in Int /\ a.y \in Int /\ b.x \in Int /\ b.y \in Int /\ p.x \in Int /\ p.y \in Int
         /\ Cross(a, b, p) \in Int
         /\ Cross(a, b, p) = (b.x - a.x) * (p.y - a.y) - (b.y - a.y) * (p.x - a.x)
         /\ Cross(a, b, p) = 0 <=> (p.x - a.x) * (b.y - a.y) = (b.x - a.x) * (p.y - a.y)
         /\ Cross(a, b, p) = 0 <=> (p.y - a.y) * (b.x - a.x) = (b.y - a.y) * (p.x - a.x)
<1>1. a.x \in Int /\ a.y \in Int /\ b.x \in Int /\ b.y \in Int /\ p.x \in Int /\ p.y \in Int
  BY DEF Plane
<1> DEFINE dx == b.x - a.x
           dy == b.y - a.y
           ex == p.x - a.x
           ey == p.y - a.y
<1>2. dx \in Int /\ dy \in Int /\ ex \in Int /\ ey \in Int
  BY <1>1
<1>3. Cross(a, b, p) = dx * ey - dy * ex
  BY DEF Cross
<1> HIDE DEF dx, dy, ex, ey
<1>4. dx * ey \in Int /\ dy * ex \in Int /\ ex * dy = dy * ex /\ ey * dx = dx * ey
  BY <1>2
<1>5. /\ Cross(a, b, p) \in Int
      /\ Cross(a, b, p) = 0 <=> ex * dy = dx * ey
      /\ Cross(a, b, p) = 0 <=> ey * dx = dy * ex
  BY <1>3, <1>4
<1> QED
  BY <1>1, <1>3, <1>5 DEF dx, dy, ex, ey

\* A segment turned round.
LEMMA SegmentTurned ==
  ASSUME NEW a \in Plane, NEW b \in Plane, NEW p \in Plane
  PROVE  /\ OnSegment(a, b, p) <=> OnSegment(b, a, p)
         /\ Meets(a, b) => Meets(b, a)
<1>1. a.x \in Int /\ a.y \in Int /\ b.x \in Int /\ b.y \in Int /\ p.x \in Int /\ p.y \in Int
  BY DEF Plane
<1>2. Cross(a, b, p) = -Cross(b, a, p) /\ Cross(b, a, p) \in Int
  <2>1. /\ Cross(a, b, p) = b.x * p.y - b.x * a.y - a.x * p.y - b.y * p.x + b.y * a.x + a.y * p.x
        /\ Cross(b, a, p) = a.x * p.y - a.x * b.y - b.x * p.y - a.y * p.x + a.y * b.x + b.y * p.x
    BY <1>1 DEF Cross
  <2> QED
    BY <1>1, <2>1
<1>3. OnSegment(a, b, p) <=> OnSegment(b, a, p)
  BY <1>2 DEF OnSegment, Middle
<1>4. Meets(a, b) => Meets(b, a)
  BY <1>1, MeetsTurned DEF Meets
<1> QED
  BY <1>3, <1>4

\* A part of a segment meets the lines of the view as the segment does.
LEMMA PartMeets ==
  ASSUME NEW a \in Plane, NEW b \in Plane, NEW p \in Plane, Meets(a, b), OnSegment(a, b, p)
  PROVE  Meets(a, p) /\ Meets(p, b)
<1>1. ASSUME NEW c \in Plane, NEW d \in Plane, Meets(c, d), OnSegment(c, d, p) PROVE Meets(p, d)
  <2>1. /\ c.x \in Int /\ c.y \in Int /\ d.x \in Int /\ d.y \in Int /\ p.x \in Int /\ p.y \in Int
        /\ (p.x - c.x) * (d.y - c.y) = (d.x - c.x) * (p.y - c.y)
        /\ (p.y - c.y) * (d.x - c.x) = (d.y - c.y) * (p.x - c.x)
    BY <1>1, CrossIs DEF OnSegment
  <2>2. Middle(c.x, p.x, d.x) /\ Middle(c.y, p.y, d.y)
    BY <1>1 DEF OnSegment
  <2>3. MeetsAt(p.y, p.x, d.y, d.x)
    BY <1>1, <2>1, <2>2, MeetsShorter DEF Meets
  <2>4. MeetsAt(p.x, p.y, d.x, d.y)
    BY <1>1, <2>1, <2>2, MeetsShorter DEF Meets
  <2> QED
    BY <2>3, <2>4 DEF Meets
<1>2. Meets(p, b)
  BY <1>1
<1>3. Meets(b, a) /\ OnSegment(b, a, p)
  BY SegmentTurned
<1>4. Meets(p, a)
  BY <1>1, <1>3
<1> QED
  BY <1>2, <1>4, SegmentTurned

\* Upright and level segments meet them anyway.
LEMMA StraightMeets ==
  ASSUME NEW a \in Plane, NEW b \in Plane, a.x = b.x \/ a.y = b.y
  PROVE  Meets(a, b)
<1>1. ASSUME NEW u \in Int, NEW w \in Int, NEW v \in Int PROVE MeetsAt(u, w, v, w) /\ MeetsAt(w, u, w, v)
  <2>1. ASSUME NEW s \in {Low, High} PROVE (w - w) * (v - u) = (w - w) * (s - u)
    <3>1. s \in Int
      BY ViewIs
    <3> QED
      BY <3>1
  <2> QED
    BY <2>1 DEF MeetsAt
<1>2. a.x \in Int /\ a.y \in Int /\ b.x \in Int /\ b.y \in Int
  BY DEF Plane
<1> QED
  BY <1>1, <1>2 DEF Meets

\* Where a segment that meets the lines of the view crosses one, is exactly where
\* the code puts it.
LEMMA ExactAtY ==
  ASSUME NEW a \in Plane, NEW b \in Plane, NEW y \in {Low, High}, a.y # b.y,
         Middle(a.y, y, b.y), Meets(a, b)
  PROVE  AtY(a, b, y) \in Plane /\ AtY(a, b, y).y = y /\ OnSegment(a, b, AtY(a, b, y))
<1> DEFINE e == AtY(a, b, y)
           d == b.y - a.y
           n == (b.x - a.x) * (y - a.y)
<1>1. y \in Int /\ a.x \in Int /\ a.y \in Int /\ b.x \in Int /\ b.y \in Int
  BY ViewIs DEF Plane
<1>2. e \in Plane /\ e.y = y /\ Middle(a.x, e.x, b.x)
  BY <1>1, CrossingAtY
<1> HIDE DEF e, n
<1>3. PICK x \in Int : (x - a.x) * (b.y - a.y) = (b.x - a.x) * (y - a.y)
  BY DEF Meets, MeetsAt
<1>4. d \in Int /\ d # 0 /\ x - a.x \in Int /\ n = (x - a.x) * d
  <2>1. n = (x - a.x) * d
    BY <1>3 DEF n
  <2>2. d \in Int /\ d # 0
    BY <1>1
  <2>3. x - a.x \in Int
    BY <1>1
  <2> HIDE DEF n, d
  <2> QED
    BY <2>1, <2>2, <2>3
<1>5. Quotient(n, d) = x - a.x
  <2> HIDE DEF d, n
  <2> QED
    BY <1>4, ExactQuotient
<1>6. e.x = x
  <2>1. e.x = a.x + Quotient(n, d)
    BY DEF AtY, Point, e, n
  <2> HIDE DEF d
  <2> QED
    BY <1>1, <1>5, <2>1
<1>7. Cross(a, b, e) = 0
  BY <1>2, <1>3, <1>6, CrossIs
<1> QED
  BY <1>2, <1>7 DEF OnSegment, e

LEMMA ExactAtX ==
  ASSUME NEW a \in Plane, NEW b \in Plane, NEW x \in {Low, High}, a.x # b.x,
         Middle(a.x, x, b.x), Meets(a, b)
  PROVE  AtX(a, b, x) \in Plane /\ AtX(a, b, x).x = x /\ OnSegment(a, b, AtX(a, b, x))
<1> DEFINE e == AtX(a, b, x)
           d == b.x - a.x
           n == (b.y - a.y) * (x - a.x)
<1>1. x \in Int /\ a.x \in Int /\ a.y \in Int /\ b.x \in Int /\ b.y \in Int
  BY ViewIs DEF Plane
<1>2. e \in Plane /\ e.x = x /\ Middle(a.y, e.y, b.y)
  BY <1>1, CrossingAtX
<1> HIDE DEF e, n
<1>3. PICK y \in Int : (y - a.y) * (b.x - a.x) = (b.y - a.y) * (x - a.x)
  BY DEF Meets, MeetsAt
<1>4. d \in Int /\ d # 0 /\ y - a.y \in Int /\ n = (y - a.y) * d
  <2>1. n = (y - a.y) * d
    BY <1>3 DEF n
  <2>2. d \in Int /\ d # 0
    BY <1>1
  <2>3. y - a.y \in Int
    BY <1>1
  <2> HIDE DEF n, d
  <2> QED
    BY <2>1, <2>2, <2>3
<1>5. Quotient(n, d) = y - a.y
  <2> HIDE DEF d, n
  <2> QED
    BY <1>4, ExactQuotient
<1>6. e.y = y
  <2>1. e.y = a.y + Quotient(n, d)
    BY DEF AtX, Point, e, n
  <2> HIDE DEF d
  <2> QED
    BY <1>1, <1>5, <2>1
<1>7. Cross(a, b, e) = 0
  BY <1>2, <1>3, <1>6, CrossIs
<1> QED
  BY <1>2, <1>7 DEF OnSegment, e

\* How far a point is beyond a side.
Depth(side, p) ==
  CASE side = "left" -> Low - p.x [] side = "right" -> p.x - High
    [] side = "bottom" -> Low - p.y [] side = "top" -> p.y - High

LEMMA DepthIs ==
  ASSUME NEW p \in Plane, NEW side \in Sides
  PROVE  /\ Depth(side, p) \in Int
         /\ side \in BitCode(p) <=> Depth(side, p) > 0
         /\ side = "left" => Depth(side, p) = Low - p.x
         /\ side = "right" => Depth(side, p) = p.x - High
         /\ side = "bottom" => Depth(side, p) = Low - p.y
         /\ side = "top" => Depth(side, p) = p.y - High
<1>1. p.x \in Int /\ p.y \in Int /\ Low \in Int /\ High \in Int
  BY ViewIs DEF Plane
<1>2. /\ side = "left" => Depth(side, p) = Low - p.x
      /\ side = "right" => Depth(side, p) = p.x - High
      /\ side = "bottom" => Depth(side, p) = Low - p.y
      /\ side = "top" => Depth(side, p) = p.y - High
  BY DEF Depth
<1>3. side \in {"left", "right", "bottom", "top"}
  BY DEF Sides
<1>4. CASE side = "left"
  BY <1>1, <1>2, <1>4, BitCodeIs
<1>5. CASE side = "right"
  BY <1>1, <1>2, <1>5, BitCodeIs
<1>6. CASE side = "bottom"
  BY <1>1, <1>2, <1>6, BitCodeIs
<1>7. CASE side = "top"
  BY <1>1, <1>2, <1>7, BitCodeIs
<1> QED
  BY <1>3, <1>4, <1>5, <1>6, <1>7

LEMMA ExactCrossing ==
  ASSUME NEW a \in Plane, NEW b \in Plane, NEW side \in Sides, Meets(a, b),
         (side \in BitCode(a)) # (side \in BitCode(b))
  PROVE  LET e == EdgeIntersection(a, b, {side})
         IN e \in Plane /\ OnSegment(a, b, e) /\ Depth(side, e) = 0
<1> DEFINE e == EdgeIntersection(a, b, {side})
<1>1. /\ a.x \in Int /\ a.y \in Int /\ b.x \in Int /\ b.y \in Int
      /\ Low \in Int /\ High \in Int /\ Low <= High
  BY ViewIs DEF Plane
<1>2. ASSUME NEW y \in {Low, High}, (a.y < y) # (b.y < y) \/ (a.y > y) # (b.y > y), e = AtY(a, b, y)
      PROVE  e \in Plane /\ e.y = y /\ OnSegment(a, b, e)
  <2>1. y \in Int /\ a.y # b.y /\ Middle(a.y, y, b.y)
    BY <1>1, <1>2 DEF Middle
  <2> HIDE DEF e
  <2> QED
    BY <1>2, <2>1, ExactAtY
<1>3. ASSUME NEW x \in {Low, High}, (a.x < x) # (b.x < x) \/ (a.x > x) # (b.x > x), e = AtX(a, b, x)
      PROVE  e \in Plane /\ e.x = x /\ OnSegment(a, b, e)
  <2>1. x \in Int /\ a.x # b.x /\ Middle(a.x, x, b.x)
    BY <1>1, <1>3 DEF Middle
  <2> HIDE DEF e
  <2> QED
    BY <1>3, <2>1, ExactAtX
<1>4. CASE side = "top"
  <2>1. (a.y > High) # (b.y > High)
    BY <1>4, BitCodeIs
  <2>2. e = AtY(a, b, High)
    BY <1>4 DEF EdgeIntersection
  <2>3. e \in Plane /\ e.y = High /\ OnSegment(a, b, e)
    BY <1>2, <2>1, <2>2
  <2> HIDE DEF e
  <2> QED
    BY <1>1, <1>4, <2>3, DepthIs DEF e
<1>5. CASE side = "bottom"
  <2>1. (a.y < Low) # (b.y < Low)
    BY <1>5, BitCodeIs
  <2>2. e = AtY(a, b, Low)
    BY <1>5 DEF EdgeIntersection
  <2>3. e \in Plane /\ e.y = Low /\ OnSegment(a, b, e)
    BY <1>2, <2>1, <2>2
  <2> HIDE DEF e
  <2> QED
    BY <1>1, <1>5, <2>3, DepthIs DEF e
<1>6. CASE side = "right"
  <2>1. (a.x > High) # (b.x > High)
    BY <1>6, BitCodeIs
  <2>2. e = AtX(a, b, High)
    BY <1>6 DEF EdgeIntersection
  <2>3. e \in Plane /\ e.x = High /\ OnSegment(a, b, e)
    BY <1>3, <2>1, <2>2
  <2> HIDE DEF e
  <2> QED
    BY <1>1, <1>6, <2>3, DepthIs DEF e
<1>7. CASE side = "left"
  <2>1. (a.x < Low) # (b.x < Low)
    BY <1>7, BitCodeIs
  <2>2. e = AtX(a, b, Low)
    BY <1>7 DEF EdgeIntersection
  <2>3. e \in Plane /\ e.x = Low /\ OnSegment(a, b, e)
    BY <1>3, <2>1, <2>2
  <2> HIDE DEF e
  <2> QED
    BY <1>1, <1>7, <2>3, DepthIs DEF e
<1> QED
  BY <1>4, <1>5, <1>6, <1>7 DEF Sides

-------------------------------------------------------------------------------
\* A ray, and the edges it crosses.

\* The edge from b to a is crossed by the ray from p (see Inside).
RayCrosses(b, a, p) == (a.y > p.y) # (b.y > p.y) /\ (Cross(a, b, p) > 0) = (b.y > a.y)

LEMMA SameSign ==
  ASSUME NEW c \in Int, NEW d \in Int, NEW e \in Int, NEW f \in Int,
         (e > 0 /\ f > 0) \/ (e < 0 /\ f < 0), d * e = c * f
  PROVE  d > 0 <=> c > 0
<1>1. ASSUME NEW m \in Nat, NEW n \in Nat, m > 0, n > 0, d * m = c * n PROVE d > 0 <=> c > 0
  <2>1. (d > 0 => d * m > 0) /\ (d <= 0 => d * m <= 0)
    BY <1>1
  <2>2. (c > 0 => c * n > 0) /\ (c <= 0 => c * n <= 0)
    BY <1>1
  <2> DEFINE z == d * m
  <2>3. z \in Int /\ z = c * n
    BY <1>1
  <2> HIDE DEF z
  <2> QED
    BY <1>1, <2>1, <2>2, <2>3 DEF z
<1>2. CASE e > 0 /\ f > 0
  BY <1>1, <1>2
<1>3. CASE e < 0 /\ f < 0
  <2>1. d * (-e) = c * (-f)
    OBVIOUS
  <2> QED
    BY <1>1, <1>3, <2>1
<1> QED
  BY <1>2, <1>3

\* The crossing of an edge is that of the part of it that the ray meets.
LEMMA CrossesPart ==
  ASSUME NEW a \in Plane, NEW b \in Plane, NEW q \in Plane, NEW p \in Plane, OnSegment(b, a, q)
  PROVE  RayCrosses(b, a, p) <=> ~(RayCrosses(b, q, p) <=> RayCrosses(q, a, p))
<1>1. /\ a.x \in Int /\ a.y \in Int /\ b.x \in Int /\ b.y \in Int /\ p.x \in Int /\ p.y \in Int
      /\ q.x \in Int /\ q.y \in Int
  BY DEF Plane
<1> DEFINE dx == a.x - b.x
           dy == a.y - b.y
           h == q.x - b.x
           f == q.y - b.y
           X == p.x - b.x
           Y == p.y - b.y
           c == Cross(a, b, p)
           c1 == Cross(q, b, p)
           c2 == Cross(a, q, p)
<1>2. dx \in Int /\ dy \in Int /\ h \in Int /\ f \in Int /\ X \in Int /\ Y \in Int
  BY <1>1
<1>3. h * dy = dx * f
  BY CrossIs DEF OnSegment
<1>4. c = (-dx) * (Y - dy) - (-dy) * (X - dx)
  <2>1. b.x - a.x = -dx /\ b.y - a.y = -dy /\ p.y - a.y = Y - dy /\ p.x - a.x = X - dx
    BY <1>1
  <2> HIDE DEF dx, dy, X, Y
  <2> QED
    BY <2>1 DEF Cross
<1>5. c1 = (-h) * (Y - f) - (-f) * (X - h)
  <2>1. b.x - q.x = -h /\ b.y - q.y = -f /\ p.y - q.y = Y - f /\ p.x - q.x = X - h
    BY <1>1
  <2> HIDE DEF h, f, X, Y
  <2> QED
    BY <2>1 DEF Cross
<1>6. c2 = (h - dx) * (Y - dy) - (f - dy) * (X - dx)
  <2>1. q.x - a.x = h - dx /\ q.y - a.y = f - dy /\ p.y - a.y = Y - dy /\ p.x - a.x = X - dx
    BY <1>1
  <2> HIDE DEF dx, dy, h, f, X, Y
  <2> QED
    BY <2>1 DEF Cross
<1> HIDE DEF dx, dy, h, f, X, Y, c, c1, c2
<1>7. c = dy * X - dx * Y
  BY <1>2, <1>4
<1>8. c1 = f * X - h * Y
  BY <1>2, <1>5
<1>9. c2 = c - c1
  <2>1. c2 = h * Y - h * dy - dx * Y + dx * dy - f * X + f * dx + dy * X - dy * dx
    BY <1>2, <1>6
  <2>2. f * dx = dx * f /\ dy * dx = dx * dy
    BY <1>2
  <2>3. /\ h * Y \in Int /\ h * dy \in Int /\ dx * Y \in Int /\ dx * dy \in Int /\ f * X \in Int
        /\ dy * X \in Int
    BY <1>2
  <2> QED
    BY <1>3, <1>7, <1>8, <2>1, <2>2, <2>3
<1>10. c \in Int /\ c1 \in Int /\ c2 \in Int
  BY <1>2, <1>7, <1>8, <1>9
<1>11. c1 * dy = c * f
  <2>1. c1 * dy = (f * X) * dy - (h * Y) * dy
    BY <1>2, <1>8
  <2>2. (h * Y) * dy = (h * dy) * Y
    BY <1>2
  <2>3. c * f = (dy * X) * f - (dx * Y) * f
    BY <1>2, <1>7
  <2>4. (dx * Y) * f = (dx * f) * Y /\ (dy * X) * f = (f * X) * dy
    BY <1>2
  <2> QED
    BY <1>3, <2>1, <2>2, <2>3, <2>4
<1>12. c2 * dy = c * (dy - f)
  <2>1. c2 * dy = c * dy - c1 * dy /\ c * (dy - f) = c * dy - c * f
    BY <1>2, <1>9, <1>10
  <2> QED
    BY <1>11, <2>1
<1>13. (0 <= f /\ f <= dy) \/ (dy <= f /\ f <= 0)
  BY <1>1 DEF OnSegment, Middle, dy, f
<1>14. f # 0 => (c1 > 0 <=> c > 0)
  BY <1>2, <1>10, <1>11, <1>13, SameSign
<1>15. f # dy => (c2 > 0 <=> c > 0)
  <2> DEFINE g == dy - f
  <2>1. g \in Int /\ c2 * dy = c * g
    BY <1>2, <1>12
  <2>2. f # dy => (g > 0 /\ dy > 0) \/ (g < 0 /\ dy < 0)
    BY <1>2, <1>13
  <2> HIDE DEF g
  <2> QED
    BY <1>2, <1>10, <2>1, <2>2, SameSign
<1>16. (f # 0 <=> q.y # b.y) /\ (f # dy <=> q.y # a.y)
  BY <1>1 DEF f, dy
<1>17. /\ RayCrosses(b, a, p) <=> ((a.y > p.y) # (b.y > p.y) /\ (c > 0) = (b.y > a.y))
       /\ RayCrosses(b, q, p) <=> ((q.y > p.y) # (b.y > p.y) /\ (c1 > 0) = (b.y > q.y))
       /\ RayCrosses(q, a, p) <=> ((a.y > p.y) # (q.y > p.y) /\ (c2 > 0) = (q.y > a.y))
  BY DEF RayCrosses, c, c1, c2
<1>18. Middle(b.y, q.y, a.y)
  BY DEF OnSegment
<1>19. CASE b.y < a.y
  <2>1. b.y <= q.y /\ q.y <= a.y /\ ~(b.y > a.y) /\ ~(b.y > q.y) /\ ~(q.y > a.y)
    BY <1>1, <1>18, <1>19 DEF Middle
  <2>2. /\ RayCrosses(b, a, p) <=> (a.y > p.y /\ ~(b.y > p.y) /\ ~(c > 0))
        /\ RayCrosses(b, q, p) <=> (q.y > p.y /\ ~(b.y > p.y) /\ ~(c1 > 0))
        /\ RayCrosses(q, a, p) <=> (a.y > p.y /\ ~(q.y > p.y) /\ ~(c2 > 0))
    <3>1. (q.y > p.y => a.y > p.y) /\ (b.y > p.y => q.y > p.y)
      BY <1>1, <2>1
    <3> QED
      BY <1>17, <1>19, <2>1, <3>1
  <2>3. q.y > p.y /\ ~(b.y > p.y) => (c1 > 0 <=> c > 0)
    BY <1>1, <1>14, <1>16
  <2>4. a.y > p.y /\ ~(q.y > p.y) => (c2 > 0 <=> c > 0)
    BY <1>1, <1>15, <1>16
  <2>5. (q.y > p.y => a.y > p.y) /\ (b.y > p.y => q.y > p.y)
    BY <1>1, <2>1
  <2> QED
    BY <2>2, <2>3, <2>4, <2>5
<1>20. CASE a.y < b.y
  <2>1. a.y <= q.y /\ q.y <= b.y /\ b.y > a.y
    BY <1>1, <1>18, <1>20 DEF Middle
  <2>2. (q.y > p.y => b.y > p.y) /\ (a.y > p.y => q.y > p.y)
    BY <1>1, <2>1
  <2>3. (b.y > p.y /\ ~(q.y > p.y) => b.y > q.y) /\ (q.y > p.y /\ ~(a.y > p.y) => q.y > a.y)
    BY <1>1
  <2>4. /\ RayCrosses(b, a, p) <=> (b.y > p.y /\ ~(a.y > p.y) /\ c > 0)
        /\ RayCrosses(b, q, p) <=> (b.y > p.y /\ ~(q.y > p.y) /\ c1 > 0)
        /\ RayCrosses(q, a, p) <=> (q.y > p.y /\ ~(a.y > p.y) /\ c2 > 0)
    BY <1>17, <2>1, <2>2, <2>3
  <2>5. b.y > p.y /\ ~(q.y > p.y) => (c1 > 0 <=> c > 0)
    BY <1>1, <1>14, <1>16
  <2>6. q.y > p.y /\ ~(a.y > p.y) => (c2 > 0 <=> c > 0)
    BY <1>1, <1>15, <1>16
  <2> QED
    BY <2>2, <2>4, <2>5, <2>6
<1>21. CASE a.y = b.y
  <2>1. q.y = a.y
    BY <1>1, <1>18, <1>21 DEF Middle
  <2> QED
    BY <1>17, <1>21, <2>1
<1> QED
  BY <1>1, <1>19, <1>20, <1>21

LEMMA NoLoop == ASSUME NEW a \in Plane, NEW p PROVE ~RayCrosses(a, a, p)
BY DEF RayCrosses

LEMMA SignOfProducts ==
  ASSUME NEW m \in Int, NEW n \in Int
  PROVE  /\ (m > 0 /\ n > 0) \/ (m < 0 /\ n < 0) => m * n > 0
         /\ (m > 0 /\ n < 0) \/ (m < 0 /\ n > 0) => m * n < 0
         /\ (m = 0 \/ n = 0) => m * n = 0
<1>1. CASE m > 0
  BY <1>1
<1>2. CASE m = 0
  BY <1>2
<1>3. CASE m < 0
  BY <1>3
<1> QED
  BY <1>1, <1>2, <1>3

\* To the right of it, a ray crosses an edge that passes its height; to its left
\* none.
LEMMA CrossesBeside ==
  ASSUME NEW a \in Plane, NEW b \in Plane, NEW p \in Plane
  PROVE  /\ a.x < p.x /\ b.x < p.x => ~RayCrosses(b, a, p)
         /\ a.x > p.x /\ b.x > p.x => (RayCrosses(b, a, p) <=> ~(a.y > p.y <=> b.y > p.y))
<1>1. a.x \in Int /\ a.y \in Int /\ b.x \in Int /\ b.y \in Int /\ p.x \in Int /\ p.y \in Int
  BY DEF Plane
<1> DEFINE X == b.x - p.x
           Z == p.x - a.x
           Y == p.y - a.y
           W == p.y - b.y
           c == Cross(a, b, p)
<1>2. X \in Int /\ Z \in Int /\ Y \in Int /\ W \in Int
  BY <1>1
<1>3. c = X * Y + Z * W
  <2>1. b.x - a.x = X + Z /\ b.y - a.y = Y - W
    BY <1>1
  <2>2. c = (X + Z) * Y - (Y - W) * Z
    BY <2>1 DEF Cross
  <2> HIDE DEF X, Y, Z, W, c
  <2> QED
    BY <1>2, <2>2
<1>4. RayCrosses(b, a, p) <=> (~(a.y > p.y <=> b.y > p.y) /\ (c > 0 <=> b.y > a.y))
  BY DEF RayCrosses
<1>5. (a.y > p.y <=> Y < 0) /\ (b.y > p.y <=> W < 0) /\ (b.y > a.y <=> Y > W)
  BY <1>1
<1>6. /\ a.x < p.x /\ b.x < p.x => X < 0 /\ Z > 0
      /\ a.x > p.x /\ b.x > p.x => X > 0 /\ Z < 0
  BY <1>1
<1> HIDE DEF X, Y, Z, W, c
<1>7. X * Y \in Int /\ Z * W \in Int
  BY <1>2
<1>8. CASE Y < 0 /\ W >= 0
  <2>1. X < 0 /\ Z > 0 => X * Y > 0 /\ Z * W >= 0
    BY <1>2, <1>8, SignOfProducts
  <2>2. X > 0 /\ Z < 0 => X * Y < 0 /\ Z * W <= 0
    BY <1>2, <1>8, SignOfProducts
  <2>3. (X < 0 /\ Z > 0 => c > 0) /\ (X > 0 /\ Z < 0 => ~(c > 0))
    BY <1>3, <1>7, <2>1, <2>2
  <2> QED
    BY <1>2, <1>4, <1>5, <1>6, <1>8, <2>3
<1>9. CASE Y >= 0 /\ W < 0
  <2>1. X < 0 /\ Z > 0 => X * Y <= 0 /\ Z * W < 0
    BY <1>2, <1>9, SignOfProducts
  <2>2. X > 0 /\ Z < 0 => X * Y >= 0 /\ Z * W > 0
    BY <1>2, <1>9, SignOfProducts
  <2>3. (X < 0 /\ Z > 0 => ~(c > 0)) /\ (X > 0 /\ Z < 0 => c > 0)
    BY <1>3, <1>7, <2>1, <2>2
  <2> QED
    BY <1>2, <1>4, <1>5, <1>6, <1>9, <2>3
<1>10. CASE (Y < 0 <=> W < 0)
  BY <1>2, <1>4, <1>5, <1>10
<1> QED
  BY <1>2, <1>8, <1>9, <1>10

\* So beyond a side, what is crossed depends only on where an edge begins and ends.
RightOf(side, a, p) == side = "right" /\ a.y > p.y

LEMMA CrossesBeyond ==
  ASSUME NEW a \in Plane, NEW b \in Plane, NEW p \in Plane, NEW side \in Sides,
         Depth(side, a) >= 0, Depth(side, b) >= 0, Depth(side, p) < 0
  PROVE  RayCrosses(b, a, p) <=> ~(RightOf(side, b, p) <=> RightOf(side, a, p))
<1>1. /\ a.x \in Int /\ a.y \in Int /\ b.x \in Int /\ b.y \in Int /\ p.x \in Int /\ p.y \in Int
      /\ Low \in Int /\ High \in Int
  BY ViewIs DEF Plane
<1>2. RayCrosses(b, a, p) => ~(a.y > p.y <=> b.y > p.y)
  BY DEF RayCrosses
<1>3. CASE side = "top"
  <2>1. a.y > p.y /\ b.y > p.y
    BY <1>1, <1>3, DepthIs
  <2> QED
    BY <1>2, <1>3, <2>1 DEF RightOf
<1>4. CASE side = "bottom"
  <2>1. ~(a.y > p.y) /\ ~(b.y > p.y)
    BY <1>1, <1>4, DepthIs
  <2> QED
    BY <1>2, <1>4, <2>1 DEF RightOf
<1>5. CASE side = "left"
  <2>1. a.x < p.x /\ b.x < p.x
    BY <1>1, <1>5, DepthIs
  <2> QED
    BY <1>5, <2>1, CrossesBeside DEF RightOf
<1>6. CASE side = "right"
  <2>1. a.x > p.x /\ b.x > p.x
    BY <1>1, <1>6, DepthIs
  <2> QED
    BY <1>6, <2>1, CrossesBeside DEF RightOf
<1> QED
  BY <1>3, <1>4, <1>5, <1>6 DEF Sides

\* A way from one point to another over a third beyond the same side.
LEMMA CrossesOver ==
  ASSUME NEW a \in Plane, NEW b \in Plane, NEW c \in Plane, NEW p \in Plane, NEW side \in Sides,
         Depth(side, p) < 0,
         a = b \/ b = c \/ (Depth(side, a) >= 0 /\ Depth(side, b) >= 0 /\ Depth(side, c) >= 0)
  PROVE  RayCrosses(a, c, p) <=> ~(RayCrosses(a, b, p) <=> RayCrosses(b, c, p))
<1>1. CASE a = b
  BY <1>1, NoLoop
<1>2. CASE b = c
  BY <1>2, NoLoop
<1>3. CASE Depth(side, a) >= 0 /\ Depth(side, b) >= 0 /\ Depth(side, c) >= 0
  BY <1>3, CrossesBeyond
<1> QED
  BY <1>1, <1>2, <1>3

\* An odd number of them.
Odd(E) == Cardinality(E) % 2 = 1

LEMMA OddAdded ==
  ASSUME NEW E, IsFiniteSet(E), NEW x, x \notin E
  PROVE  Odd(E \cup {x}) <=> ~Odd(E)
<1>1. Cardinality(E) \in Nat /\ Cardinality(E \cup {x}) = Cardinality(E) + 1
  BY FS_CardinalityType, FS_AddElement
<1> DEFINE n == Cardinality(E)
<1>2. n \in Nat /\ Cardinality(E \cup {x}) = n + 1
  BY <1>1
<1> HIDE DEF n
<1>3. (n + 1) % 2 = 1 <=> ~(n % 2 = 1)
  BY <1>2
<1> QED
  BY <1>2, <1>3 DEF Odd, n

LEMMA NotOdd == ~Odd({})
<1>1. Cardinality({}) = 0
  BY FS_EmptySet
<1>2. ~(0 % 2 = 1)
  OBVIOUS
<1> QED
  BY <1>1, <1>2 DEF Odd

\* The edges of a path from u through w that the ray from p crosses.
Crossings(w, u, p) == {i \in 1..Len(w) : RayCrosses(IF i = 1 THEN u ELSE w[i - 1], w[i], p)}

\* Where the path ends.
EndOf(w, u) == IF Len(w) = 0 THEN u ELSE w[Len(w)]

LEMMA EndOfIs ==
  ASSUME NEW w \in Seq(Plane), NEW u \in Plane, NEW a \in Plane
  PROVE  /\ Len(w) \in Nat /\ Len(Append(w, a)) = Len(w) + 1 /\ Append(w, a) \in Seq(Plane)
         /\ \A i \in 1..Len(w) : w[i] \in Plane /\ Append(w, a)[i] = w[i]
         /\ Append(w, a)[Len(w) + 1] = a
         /\ EndOf(w, u) \in Plane /\ EndOf(Append(w, a), u) = a
<1>1. Len(w) \in Nat /\ Len(Append(w, a)) = Len(w) + 1 /\ Append(w, a) \in Seq(Plane)
  OBVIOUS
<1>2. \A i \in 1..Len(w) : w[i] \in Plane /\ Append(w, a)[i] = w[i]
  OBVIOUS
<1>3. Append(w, a)[Len(w) + 1] = a
  OBVIOUS
<1>4. EndOf(w, u) \in Plane
  <2>1. Len(w) # 0 => Len(w) \in 1..Len(w)
    BY <1>1
  <2> QED
    BY <1>2, <2>1 DEF EndOf
<1>5. EndOf(Append(w, a), u) = a
  BY <1>1, <1>3 DEF EndOf
<1> QED
  BY <1>1, <1>2, <1>3, <1>4, <1>5

LEMMA CrossingsFinite ==
  ASSUME NEW w \in Seq(Plane), NEW u, NEW p
  PROVE  IsFiniteSet(Crossings(w, u, p))
<1>1. Len(w) \in Nat
  OBVIOUS
<1>2. IsFiniteSet(1..Len(w))
  BY <1>1, FS_Interval
<1>3. Crossings(w, u, p) \subseteq 1..Len(w)
  BY DEF Crossings
<1> QED
  BY <1>2, <1>3, FS_Subset

LEMMA CrossingsNext ==
  ASSUME NEW w \in Seq(Plane), NEW u \in Plane, NEW a \in Plane, NEW p
  PROVE  Odd(Crossings(Append(w, a), u, p)) <=>
           ~(Odd(Crossings(w, u, p)) <=> RayCrosses(EndOf(w, u), a, p))
<1> DEFINE x == Append(w, a)
           n == Len(w)
           E == Crossings(w, u, p)
           F == Crossings(x, u, p)
           from(i) == IF i = 1 THEN u ELSE w[i - 1]
           fromX(i) == IF i = 1 THEN u ELSE x[i - 1]
<1>1. n \in Nat /\ Len(x) = n + 1 /\ (\A i \in 1..n : x[i] = w[i]) /\ x[n + 1] = a
  BY EndOfIs
<1>2. E = {i \in 1..n : RayCrosses(from(i), w[i], p)}
  BY DEF Crossings
<1>3. F = {i \in 1..n + 1 : RayCrosses(fromX(i), x[i], p)}
  BY <1>1 DEF Crossings
<1>4. IsFiniteSet(E)
  BY CrossingsFinite
<1> HIDE DEF x, n, E, F
<1>5. \A i \in 1..n : fromX(i) = from(i)
  <2>1. \A i \in 1..n : i # 1 => i - 1 \in 1..n
    BY <1>1
  <2> QED
    BY <1>1, <2>1
<1>6. fromX(n + 1) = EndOf(w, u)
  BY <1>1 DEF EndOf, n
<1> HIDE DEF from, fromX
<1>7. n + 1 \notin E /\ n + 1 \in 1..n + 1 /\ 1..n + 1 = (1..n) \cup {n + 1}
  BY <1>1, <1>2
<1>8. CASE RayCrosses(EndOf(w, u), a, p)
  <2>1. F = E \cup {n + 1}
    BY <1>1, <1>2, <1>3, <1>5, <1>6, <1>7, <1>8
  <2>2. Odd(F) <=> ~Odd(E)
    BY <1>4, <1>7, <2>1, OddAdded
  <2> QED
    BY <1>8, <2>2 DEF E, F, x
<1>9. CASE ~RayCrosses(EndOf(w, u), a, p)
  <2>1. F = E
    BY <1>1, <1>2, <1>3, <1>5, <1>6, <1>7, <1>9
  <2> QED
    BY <1>9, <2>1 DEF E, F, x
<1> QED
  BY <1>8, <1>9

\* A path that begins elsewhere differs in its first edge.
LEMMA CrossingsFrom ==
  ASSUME NEW w \in Seq(Plane), Len(w) > 0, NEW u, NEW v, NEW p
  PROVE  (Odd(Crossings(w, u, p)) <=> Odd(Crossings(w, v, p))) <=>
           (RayCrosses(u, w[1], p) <=> RayCrosses(v, w[1], p))
<1> DEFINE E == Crossings(w, u, p)
           F == Crossings(w, v, p)
           R == E \ {1}
<1>1. Len(w) \in Nat /\ 1 \in 1..Len(w)
  OBVIOUS
<1>2. R = F \ {1}
  BY DEF Crossings
<1>3. (1 \in E <=> RayCrosses(u, w[1], p)) /\ (1 \in F <=> RayCrosses(v, w[1], p))
  BY <1>1 DEF Crossings
<1>4. IsFiniteSet(R)
  <2>1. IsFiniteSet(E) /\ R \subseteq E
    BY CrossingsFinite
  <2> QED
    BY <2>1, FS_Subset
<1> HIDE DEF E, F
<1>5. 1 \notin R /\ (1 \in E => E = R \cup {1}) /\ (1 \notin E => E = R)
  OBVIOUS
<1>6. (1 \in F => F = R \cup {1}) /\ (1 \notin F => F = R)
  BY <1>2
<1> HIDE DEF R
<1>7. Odd(R \cup {1}) <=> ~Odd(R)
  BY <1>4, <1>5, OddAdded
<1>8. (1 \in E => (Odd(E) <=> ~Odd(R))) /\ (1 \notin E => (Odd(E) <=> Odd(R)))
  BY <1>5, <1>7
<1>9. (1 \in F => (Odd(F) <=> ~Odd(R))) /\ (1 \notin F => (Odd(F) <=> Odd(R)))
  BY <1>6, <1>7
<1>10. (Odd(E) <=> Odd(F)) <=> (1 \in E <=> 1 \in F)
  BY <1>8, <1>9
<1> QED
  BY <1>3, <1>10 DEF E, F

LEMMA NoCrossings ==
  ASSUME NEW w, Len(w) = 0, NEW u, NEW p
  PROVE  ~Odd(Crossings(w, u, p))
<1>1. Crossings(w, u, p) = {}
  BY DEF Crossings
<1> QED
  BY <1>1, NotOdd

LEMMA InsideIs ==
  ASSUME NEW ring \in Seq(Plane), NEW p
  PROVE  /\ Len(ring) = 0 => ~Inside(ring, p)
         /\ Len(ring) > 0 => (Inside(ring, p) <=> Odd(Crossings(ring, ring[Len(ring)], p)))
<1> DEFINE E == {i \in 1..Len(ring) :
                   LET a == ring[i]
                       b == Before(ring, i)
                   IN (a.y > p.y) # (b.y > p.y) /\ (Cross(a, b, p) > 0) = (b.y > a.y)}
           u == Last(ring)
<1>1. Inside(ring, p) <=> Odd(E)
  BY DEF Inside, Odd
<1>2. E = Crossings(ring, u, p)
  BY DEF Crossings, RayCrosses, Before
<1>3. Inside(ring, p) <=> Odd(Crossings(ring, u, p))
  BY <1>1, <1>2
<1> HIDE DEF E
<1>4. Len(ring) = 0 => ~Inside(ring, p)
  BY <1>3, NoCrossings
<1>5. Len(ring) > 0 => u = ring[Len(ring)]
  BY DEF Last
<1> HIDE DEF u
<1> QED
  BY <1>3, <1>4, <1>5

-------------------------------------------------------------------------------
\* Clipped polygons: the walk along the clipped ring and the walk along the ring.

\* Points on the line of a side.
LEMMA OnSideMeets ==
  ASSUME NEW a \in Plane, NEW b \in Plane, NEW side \in Sides, Depth(side, a) = 0, Depth(side, b) = 0
  PROVE  Meets(a, b)
<1>1. a.x \in Int /\ a.y \in Int /\ b.x \in Int /\ b.y \in Int /\ Low \in Int /\ High \in Int
  BY ViewIs DEF Plane
<1>2. a.x = b.x \/ a.y = b.y
  <2>1. side \in {"left", "right", "bottom", "top"}
    BY DEF Sides
  <2>2. CASE side = "left"
    BY <1>1, <2>2, DepthIs
  <2>3. CASE side = "right"
    BY <1>1, <2>3, DepthIs
  <2>4. CASE side = "bottom"
    BY <1>1, <2>4, DepthIs
  <2>5. CASE side = "top"
    BY <1>1, <2>5, DepthIs
  <2> QED
    BY <2>1, <2>2, <2>3, <2>4, <2>5
<1> QED
  BY <1>2, StraightMeets

\* While a ring is clipped against a side, x is the way taken from its last point
\* u, the crossings with the side put in, and w what is left of it.  A ray from a
\* point p that is not beyond the side crosses w, with the step from its end to
\* the end of x, as often as x, or the parity is the same.
Parted(side, w, u, c) ==
  /\ Len(w) > 0 => Depth(side, EndOf(w, u)) <= 0
  /\ EndOf(w, u) = c \/ (Depth(side, EndOf(w, u)) >= 0 /\ Depth(side, c) > 0)

Begins(side, w, u) ==
  Len(w) > 0 => /\ Depth(side, u) > 0 => Depth(side, w[1]) = 0
                /\ Depth(side, u) <= 0 => Meets(u, w[1])

PathMeets(w) == \A i \in 2..Len(w) : Meets(w[i - 1], w[i])

SameParity(p, w, u, x) ==
  Odd(Crossings(x, u, p)) <=> ~(Odd(Crossings(w, u, p)) <=> RayCrosses(EndOf(w, u), EndOf(x, u), p))

Walked(side, p, w, u, x) ==
  /\ w \in Seq(Plane) /\ x \in Seq(Plane) /\ u \in Plane
  /\ Parted(side, w, u, EndOf(x, u)) /\ Begins(side, w, u) /\ PathMeets(w)
  /\ SameParity(p, w, u, x)

\* The next point is kept.
LEMMA WalkKeeps ==
  ASSUME NEW side \in Sides, NEW p \in Plane, Depth(side, p) < 0, NEW w, NEW u, NEW x,
         Walked(side, p, w, u, x), NEW a \in Plane, Meets(EndOf(x, u), a), Depth(side, a) <= 0,
         Depth(side, EndOf(x, u)) > 0 => Depth(side, a) = 0
  PROVE  Walked(side, p, Append(w, a), u, Append(x, a))
<1> DEFINE y == Append(w, a)
           z == Append(x, a)
           l == EndOf(w, u)
           c == EndOf(x, u)
<1>1. w \in Seq(Plane) /\ x \in Seq(Plane) /\ u \in Plane
  BY DEF Walked
<1>2. /\ Len(w) \in Nat /\ Len(y) = Len(w) + 1 /\ y \in Seq(Plane) /\ y[Len(w) + 1] = a
      /\ \A i \in 1..Len(w) : w[i] \in Plane /\ y[i] = w[i]
      /\ l \in Plane /\ EndOf(y, u) = a
  BY <1>1, EndOfIs
<1>3. z \in Seq(Plane) /\ c \in Plane /\ EndOf(z, u) = a
  BY <1>1, EndOfIs
<1>4. /\ Depth(side, l) \in Int /\ Depth(side, c) \in Int /\ Depth(side, a) \in Int
      /\ Depth(side, u) \in Int
  BY <1>1, <1>2, <1>3, DepthIs
<1>5. Odd(Crossings(y, u, p)) <=> ~(Odd(Crossings(w, u, p)) <=> RayCrosses(l, a, p))
  BY <1>1, CrossingsNext
<1>6. Odd(Crossings(z, u, p)) <=> ~(Odd(Crossings(x, u, p)) <=> RayCrosses(c, a, p))
  BY <1>1, CrossingsNext
<1>7. /\ Len(w) > 0 => Depth(side, l) <= 0
      /\ l = c \/ (Depth(side, l) >= 0 /\ Depth(side, c) > 0)
  BY DEF Walked, Parted
<1>8. Len(w) = 0 => l = u
  BY DEF EndOf
<1>9. Len(w) > 0 => l = w[Len(w)]
  BY <1>2 DEF EndOf
<1> HIDE DEF y, z, l, c
<1>10. Meets(c, a) /\ (Depth(side, c) > 0 => Depth(side, a) = 0)
  BY DEF c
<1>11. RayCrosses(l, a, p) <=> ~(RayCrosses(l, c, p) <=> RayCrosses(c, a, p))
  BY <1>2, <1>3, <1>4, <1>7, <1>10, CrossesOver
<1>12. SameParity(p, y, u, z)
  <2>1. ~RayCrosses(a, a, p)
    BY NoLoop
  <2>2. Odd(Crossings(x, u, p)) <=> ~(Odd(Crossings(w, u, p)) <=> RayCrosses(l, c, p))
    BY DEF Walked, SameParity, l, c
  <2>3. Odd(Crossings(z, u, p)) <=> Odd(Crossings(y, u, p))
    BY <1>5, <1>6, <1>11, <2>2
  <2> QED
    BY <1>2, <1>3, <2>1, <2>3 DEF SameParity
<1>13. Parted(side, y, u, EndOf(z, u))
  BY <1>2, <1>3 DEF Parted
<1>14. Len(w) > 0 \/ Depth(side, u) <= 0 => Meets(l, a)
  <2>1. CASE l = c
    BY <1>10, <2>1
  <2>2. CASE l # c /\ Len(w) > 0
    <3>1. Depth(side, l) = 0 /\ Depth(side, a) = 0
      BY <1>4, <1>7, <1>10, <2>2
    <3> QED
      BY <1>2, <3>1, OnSideMeets
  <2>3. CASE l # c /\ Len(w) = 0 /\ Depth(side, u) <= 0
    <3>1. Depth(side, l) = 0 /\ Depth(side, a) = 0
      BY <1>4, <1>7, <1>8, <1>10, <2>3
    <3> QED
      BY <1>2, <3>1, OnSideMeets
  <2>4. Len(w) > 0 \/ Len(w) = 0
    BY <1>2
  <2> QED
    BY <2>1, <2>2, <2>3, <2>4
<1>15. Begins(side, y, u)
  <2>1. CASE Len(w) = 0
    <3>1. y[1] = a
      BY <1>2, <2>1
    <3>2. Depth(side, u) > 0 => Depth(side, a) = 0
      BY <1>4, <1>7, <1>8, <1>10, <2>1
    <3>3. Depth(side, u) <= 0 => Meets(u, a)
      BY <1>8, <1>14, <2>1
    <3> QED
      BY <3>1, <3>2, <3>3 DEF Begins
  <2>2. CASE Len(w) > 0
    <3>1. y[1] = w[1]
      BY <1>2, <2>2
    <3>2. Begins(side, w, u)
      BY DEF Walked
    <3> QED
      BY <2>2, <3>1, <3>2 DEF Begins
  <2> QED
    BY <1>2, <2>1, <2>2
<1>16. PathMeets(y)
  <2> SUFFICES ASSUME NEW i \in 2..Len(y) PROVE Meets(y[i - 1], y[i])
    BY DEF PathMeets
  <2>1. CASE i = Len(w) + 1
    <3>1. y[i] = a /\ y[i - 1] = l
      BY <1>2, <1>9, <2>1
    <3> QED
      BY <1>2, <1>14, <2>1, <3>1
  <2>2. CASE i # Len(w) + 1
    <3>1. i \in 2..Len(w) /\ i - 1 \in 1..Len(w) /\ i \in 1..Len(w)
      BY <1>2, <2>2
    <3>2. Meets(w[i - 1], w[i])
      BY <3>1 DEF Walked, PathMeets
    <3> QED
      BY <1>2, <3>1, <3>2
  <2> QED
    BY <2>1, <2>2
<1>17. Walked(side, p, y, u, z)
  BY <1>1, <1>2, <1>3, <1>12, <1>13, <1>15, <1>16 DEF Walked
<1> QED
  BY <1>17 DEF y, z

\* The next point is beyond the side.
LEMMA WalkSkips ==
  ASSUME NEW side \in Sides, NEW p \in Plane, Depth(side, p) < 0, NEW w, NEW u, NEW x,
         Walked(side, p, w, u, x), NEW a \in Plane,
         Depth(side, EndOf(x, u)) >= 0, Depth(side, a) > 0
  PROVE  Walked(side, p, w, u, Append(x, a))
<1> DEFINE z == Append(x, a)
           l == EndOf(w, u)
           c == EndOf(x, u)
<1>1. w \in Seq(Plane) /\ x \in Seq(Plane) /\ u \in Plane
  BY DEF Walked
<1>2. z \in Seq(Plane) /\ c \in Plane /\ EndOf(z, u) = a /\ l \in Plane
  BY <1>1, EndOfIs
<1>3. Depth(side, l) \in Int /\ Depth(side, c) \in Int /\ Depth(side, a) \in Int
  BY <1>2, DepthIs
<1>4. Odd(Crossings(z, u, p)) <=> ~(Odd(Crossings(x, u, p)) <=> RayCrosses(c, a, p))
  BY <1>1, CrossingsNext
<1>5. /\ Len(w) > 0 => Depth(side, l) <= 0
      /\ l = c \/ (Depth(side, l) >= 0 /\ Depth(side, c) > 0)
  BY DEF Walked, Parted
<1>6. Odd(Crossings(x, u, p)) <=> ~(Odd(Crossings(w, u, p)) <=> RayCrosses(l, c, p))
  BY DEF Walked, SameParity
<1> HIDE DEF z, l, c
<1>7. Depth(side, c) >= 0
  BY DEF c
<1>8. RayCrosses(l, a, p) <=> ~(RayCrosses(l, c, p) <=> RayCrosses(c, a, p))
  BY <1>2, <1>3, <1>5, <1>7, CrossesOver
<1>9. SameParity(p, w, u, z)
  <2>1. Odd(Crossings(z, u, p)) <=> ~(Odd(Crossings(w, u, p)) <=> RayCrosses(l, a, p))
    BY <1>4, <1>6, <1>8
  <2> QED
    BY <1>2, <2>1 DEF SameParity, l
<1>10. Parted(side, w, u, EndOf(z, u))
  <2>1. Depth(side, l) >= 0
    BY <1>3, <1>5, <1>7
  <2> QED
    BY <1>2, <1>5, <2>1 DEF Parted, l
<1>11. Walked(side, p, w, u, z)
  BY <1>1, <1>2, <1>9, <1>10 DEF Walked
<1> QED
  BY <1>11 DEF z

LEMMA EndOfNext ==
  ASSUME NEW w \in Seq(Plane), NEW u \in Plane, NEW a \in Plane
  PROVE  Append(w, a) \in Seq(Plane) /\ EndOf(w, u) \in Plane /\ EndOf(Append(w, a), u) = a
BY EndOfIs

\* As many edges of a ring have been clipped.
WalkedTo(side, p, w, ring, u, k) ==
  \E x : /\ Walked(side, p, w, u, x) /\ EndOf(x, u) = EndOf(Prefix(ring, k), u)
         /\ Odd(Crossings(x, u, p)) <=> Odd(Crossings(Prefix(ring, k), u, p))

LEMMA WalkNext ==
  ASSUME NEW side \in Sides, NEW p \in Plane, Depth(side, p) < 0, NEW ring \in Seq(Plane),
         NEW u \in Plane, Len(ring) > 0, u = ring[Len(ring)], NEW k \in Nat, k + 1 <= Len(ring), NEW w,
         WalkedTo(side, p, w, ring, u, k), Meets(EndOf(Prefix(ring, k), u), ring[k + 1])
  PROVE  WalkedTo(side, p, w \o Clipped(ring, side, k + 1), ring, u, k + 1)
<1> DEFINE a == ring[k + 1]
           b == EndOf(Prefix(ring, k), u)
           e == EdgeIntersection(b, a, {side})
           piece == Clipped(ring, side, k + 1)
           before == Prefix(ring, k)
           after == Prefix(ring, k + 1)
<1>1. PICK x : /\ Walked(side, p, w, u, x) /\ EndOf(x, u) = EndOf(Prefix(ring, k), u)
               /\ Odd(Crossings(x, u, p)) <=> Odd(Crossings(Prefix(ring, k), u, p))
  BY DEF WalkedTo
<1>2. a \in Plane
  <2>1. k + 1 \in 1..Len(ring)
    OBVIOUS
  <2> QED
    BY <2>1, ElementOfSeq
<1>3. before \in Seq(Plane) /\ after = Append(before, a)
  BY PrefixIs
<1>4. b = IF k + 1 = 1 THEN Last(ring) ELSE ring[(k + 1) - 1]
  <2>1. Len(Prefix(ring, k)) = k /\ (k # 0 => Prefix(ring, k)[k] = ring[k])
    BY DEF Prefix
  <2>2. Last(ring) = u
    BY DEF Last
  <2>3. (k + 1 = 1 <=> k = 0) /\ (k + 1) - 1 = k
    OBVIOUS
  <2> QED
    BY <2>1, <2>2, <2>3 DEF EndOf
<1>5. piece = IF side \notin BitCode(a) THEN IF side \in BitCode(b) THEN <<e, a>> ELSE <<a>>
              ELSE IF side \notin BitCode(b) THEN <<e>> ELSE <<>>
  <2> DEFINE bb == IF k + 1 = 1 THEN Last(ring) ELSE ring[(k + 1) - 1]
  <2>1. piece = IF side \notin BitCode(a)
                THEN IF side \in BitCode(bb) THEN <<EdgeIntersection(bb, a, {side}), a>> ELSE <<a>>
                ELSE IF side \notin BitCode(bb) THEN <<EdgeIntersection(bb, a, {side})>> ELSE <<>>
    BY DEF Clipped
  <2> QED
    BY <1>4, <2>1
<1>6. b \in Plane /\ EndOf(after, u) = a
  <2> HIDE DEF a, before, after
  <2>1. EndOf(before, u) \in Plane /\ EndOf(Append(before, a), u) = a
    BY <1>2, <1>3, EndOfNext
  <2> QED
    BY <1>3, <2>1 DEF before
<1>7. Odd(Crossings(after, u, p)) <=> ~(Odd(Crossings(before, u, p)) <=> RayCrosses(b, a, p))
  BY <1>2, <1>3, CrossingsNext
<1>8. Meets(b, a) /\ EndOf(x, u) = b /\ (Odd(Crossings(x, u, p)) <=> Odd(Crossings(before, u, p)))
  BY <1>1
<1>9. w \in Seq(Plane) /\ x \in Seq(Plane)
  BY <1>1 DEF Walked
<1>10. ASSUME NEW v, NEW y, Walked(side, p, v, u, y), EndOf(y, u) = a,
              Odd(Crossings(y, u, p)) <=> ~(Odd(Crossings(before, u, p)) <=> RayCrosses(b, a, p)),
              v = w \o piece
       PROVE  WalkedTo(side, p, w \o piece, ring, u, k + 1)
  BY <1>6, <1>7, <1>10 DEF WalkedTo
<1> HIDE DEF a, b, e, piece, before, after
<1>11. /\ Depth(side, a) \in Int /\ Depth(side, b) \in Int
       /\ side \in BitCode(a) <=> Depth(side, a) > 0
       /\ side \in BitCode(b) <=> Depth(side, b) > 0
  BY <1>2, <1>6, DepthIs
\* The edge crosses the side.
<1>12. ASSUME ~(side \in BitCode(a) <=> side \in BitCode(b))
       PROVE  /\ e \in Plane /\ Depth(side, e) = 0 /\ Meets(b, e) /\ Meets(e, a)
              /\ RayCrosses(b, a, p) <=> ~(RayCrosses(b, e, p) <=> RayCrosses(e, a, p))
  <2>1. (side \in BitCode(b)) # (side \in BitCode(a))
    BY <1>12
  <2>2. e \in Plane /\ OnSegment(b, a, e) /\ Depth(side, e) = 0
    BY <1>2, <1>6, <1>8, <2>1, ExactCrossing DEF e
  <2> QED
    BY <1>2, <1>6, <1>8, <2>2, PartMeets, CrossesPart
<1>13. ASSUME ~(side \in BitCode(a) <=> side \in BitCode(b))
       PROVE  /\ Walked(side, p, Append(w, e), u, Append(x, e))
              /\ EndOf(Append(x, e), u) = e /\ Append(x, e) \in Seq(Plane)
              /\ Odd(Crossings(Append(x, e), u, p)) <=>
                   ~(Odd(Crossings(x, u, p)) <=> RayCrosses(b, e, p))
              /\ EndOf(Append(Append(x, e), a), u) = a
              /\ Odd(Crossings(Append(Append(x, e), a), u, p)) <=>
                   ~(Odd(Crossings(before, u, p)) <=> RayCrosses(b, a, p))
  <2> DEFINE y == Append(x, e)
  <2>1. /\ e \in Plane /\ Depth(side, e) = 0 /\ Meets(b, e)
        /\ RayCrosses(b, a, p) <=> ~(RayCrosses(b, e, p) <=> RayCrosses(e, a, p))
    BY <1>12, <1>13
  <2>2. Depth(side, e) <= 0
    BY <2>1
  <2>3. Walked(side, p, Append(w, e), u, y)
    BY <1>1, <1>8, <2>1, <2>2, WalkKeeps
  <2>4. y \in Seq(Plane) /\ EndOf(y, u) = e
    BY <1>9, <2>1, EndOfNext
  <2>5. Odd(Crossings(y, u, p)) <=> ~(Odd(Crossings(x, u, p)) <=> RayCrosses(b, e, p))
    BY <1>8, <1>9, <2>1, CrossingsNext
  <2> HIDE DEF y
  <2>6. Odd(Crossings(Append(y, a), u, p)) <=> ~(Odd(Crossings(y, u, p)) <=> RayCrosses(e, a, p))
    BY <1>2, <2>4, CrossingsNext
  <2>7. EndOf(Append(y, a), u) = a
    BY <1>2, <2>4, EndOfNext
  <2>8. Odd(Crossings(Append(y, a), u, p)) <=>
          ~(Odd(Crossings(before, u, p)) <=> RayCrosses(b, a, p))
    BY <1>8, <2>1, <2>5, <2>6
  <2> QED
    BY <2>3, <2>4, <2>5, <2>7, <2>8 DEF y
\* It does not.
<1>14. /\ EndOf(Append(x, a), u) = a
       /\ Odd(Crossings(Append(x, a), u, p)) <=>
            ~(Odd(Crossings(before, u, p)) <=> RayCrosses(b, a, p))
  <2>1. EndOf(Append(x, a), u) = a
    BY <1>2, <1>9, EndOfNext
  <2>2. Odd(Crossings(Append(x, a), u, p)) <=> ~(Odd(Crossings(x, u, p)) <=> RayCrosses(b, a, p))
    BY <1>2, <1>8, <1>9, CrossingsNext
  <2> QED
    BY <1>8, <2>1, <2>2
<1>15. CASE side \notin BitCode(a) /\ side \notin BitCode(b)
  <2>1. Depth(side, a) <= 0 /\ ~(Depth(side, b) > 0)
    BY <1>11, <1>15
  <2>2. Walked(side, p, Append(w, a), u, Append(x, a))
    BY <1>1, <1>2, <1>8, <2>1, WalkKeeps
  <2>3. piece = <<a>>
    BY <1>5, <1>15
  <2>4. w \o <<a>> = Append(w, a)
    BY <1>2, <1>9
  <2> QED
    BY <1>10, <1>14, <2>2, <2>3, <2>4 DEF piece
<1>16. CASE side \in BitCode(a) /\ side \in BitCode(b)
  <2>1. Depth(side, a) > 0 /\ Depth(side, b) >= 0
    BY <1>11, <1>16
  <2>2. Walked(side, p, w, u, Append(x, a))
    BY <1>1, <1>2, <1>8, <2>1, WalkSkips
  <2>3. piece = <<>>
    BY <1>5, <1>16
  <2>4. w \o <<>> = w
    BY <1>9
  <2> QED
    BY <1>10, <1>14, <2>2, <2>3, <2>4 DEF piece
<1>17. CASE side \notin BitCode(a) /\ side \in BitCode(b)
  <2>1. /\ Walked(side, p, Append(w, e), u, Append(x, e)) /\ EndOf(Append(x, e), u) = e
        /\ EndOf(Append(Append(x, e), a), u) = a
        /\ Odd(Crossings(Append(Append(x, e), a), u, p)) <=>
             ~(Odd(Crossings(before, u, p)) <=> RayCrosses(b, a, p))
    BY <1>13, <1>17
  <2>2. Depth(side, a) <= 0 /\ Meets(e, a) /\ ~(Depth(side, e) > 0) /\ e \in Plane
    BY <1>11, <1>12, <1>17
  <2>3. Walked(side, p, Append(Append(w, e), a), u, Append(Append(x, e), a))
    <3> DEFINE v == Append(w, e)
               y == Append(x, e)
    <3>1. Walked(side, p, v, u, y) /\ EndOf(y, u) = e
      BY <2>1
    <3> HIDE DEF v, y
    <3>2. Walked(side, p, Append(v, a), u, Append(y, a))
      BY <1>2, <2>2, <3>1, WalkKeeps
    <3> QED
      BY <3>2 DEF v, y
  <2>4. piece = <<e, a>>
    BY <1>5, <1>17
  <2>5. w \o <<e, a>> = Append(Append(w, e), a)
    BY <1>2, <1>9, <2>2
  <2> QED
    BY <1>10, <2>1, <2>3, <2>4, <2>5 DEF piece
<1>18. CASE side \in BitCode(a) /\ side \notin BitCode(b)
  <2>1. /\ Walked(side, p, Append(w, e), u, Append(x, e)) /\ EndOf(Append(x, e), u) = e
        /\ EndOf(Append(Append(x, e), a), u) = a
        /\ Odd(Crossings(Append(Append(x, e), a), u, p)) <=>
             ~(Odd(Crossings(before, u, p)) <=> RayCrosses(b, a, p))
    BY <1>13, <1>18
  <2>2. Depth(side, a) > 0 /\ Depth(side, e) >= 0 /\ e \in Plane
    BY <1>11, <1>12, <1>18
  <2>3. Walked(side, p, Append(w, e), u, Append(Append(x, e), a))
    <3> DEFINE v == Append(w, e)
               y == Append(x, e)
    <3>1. Walked(side, p, v, u, y) /\ EndOf(y, u) = e
      BY <2>1
    <3> HIDE DEF v, y
    <3>2. Walked(side, p, v, u, Append(y, a))
      BY <1>2, <2>2, <3>1, WalkSkips
    <3> QED
      BY <3>2 DEF v, y
  <2>4. piece = <<e>>
    BY <1>5, <1>18
  <2>5. w \o <<e>> = Append(w, e)
    BY <1>9, <2>2
  <2> QED
    BY <1>10, <2>1, <2>3, <2>4, <2>5 DEF piece
<1> QED
  BY <1>15, <1>16, <1>17, <1>18 DEF piece

\* Every edge of the ring meets the lines of the sides.
RingMeets(ring) == PathMeets(ring) /\ (Len(ring) > 0 => Meets(ring[Len(ring)], ring[1]))

LEMMA RingEdgeMeets ==
  ASSUME NEW ring \in Seq(Plane), RingMeets(ring), NEW k \in Nat, k + 1 <= Len(ring)
  PROVE  Meets(EndOf(Prefix(ring, k), ring[Len(ring)]), ring[k + 1])
<1>1. Len(Prefix(ring, k)) = k /\ (k > 0 => Prefix(ring, k)[k] = ring[k])
  BY DEF Prefix
<1>2. CASE k = 0
  BY <1>1, <1>2 DEF EndOf, RingMeets
<1>3. CASE k > 0
  <2>1. k + 1 \in 2..Len(ring) /\ (k + 1) - 1 = k
    BY <1>3
  <2>2. Meets(ring[k], ring[k + 1])
    BY <2>1 DEF RingMeets, PathMeets
  <2>3. EndOf(Prefix(ring, k), ring[Len(ring)]) = ring[k]
    BY <1>1, <1>3 DEF EndOf
  <2> QED
    BY <2>2, <2>3
<1> QED
  BY <1>2, <1>3

\* A flattened sequence, sequence by sequence.
LEMMA FlattenSteps ==
  ASSUME NEW S, NEW seqs \in Seq(Seq(S))
  PROVE  \E f : /\ f[0] = <<>> /\ f[Len(seqs)] = FlattenSeq(seqs)
                /\ \A k \in 0..Len(seqs) : f[k] \in Seq(S)
                /\ \A k \in 1..Len(seqs) : f[k] = f[k - 1] \o seqs[k]
<1> DEFINE n == Len(seqs)
           g == CHOOSE g : FlattenTable(g, seqs)
           f == [k \in 0..n |-> IF k = 0 THEN <<>> ELSE g[k]]
<1>1. n \in Nat /\ \A i \in 1..n : seqs[i] \in Seq(S)
  OBVIOUS
<1>2. FlattenTable(g, seqs)
  BY FlattenTableExists
<1>3. FlattenSeq(seqs) = IF n = 0 THEN seqs ELSE g[n]
  BY DEF FlattenSeq, FlattenTable
<1>4. \A k \in 1..n : g[k] = IF k = 1 THEN seqs[k] ELSE g[k - 1] \o seqs[k]
  BY <1>2 DEF FlattenTable
<1> HIDE DEF g
<1>5. f[0] = <<>> /\ \A k \in 1..n : f[k] = g[k]
  BY <1>1
<1> HIDE DEF f
<1>6. ASSUME NEW k \in 1..n, f[k - 1] \in Seq(S)
      PROVE  f[k] = f[k - 1] \o seqs[k] /\ f[k] \in Seq(S)
  <2>1. seqs[k] \in Seq(S)
    BY <1>1
  <2>2. CASE k = 1
    <3>1. f[k - 1] = <<>> /\ f[k] = seqs[k]
      BY <1>4, <1>5, <2>2
    <3>2. <<>> \o seqs[k] = seqs[k]
      BY <2>1
    <3> QED
      BY <2>1, <3>1, <3>2
  <2>3. CASE k # 1
    <3>1. k - 1 \in 1..n
      BY <1>1, <2>3
    <3>2. f[k] = f[k - 1] \o seqs[k]
      BY <1>4, <1>5, <2>3, <3>1
    <3> QED
      BY <1>6, <2>1, <3>2
  <2> QED
    BY <2>2, <2>3
<1> DEFINE T == {k \in Nat : k <= n => f[k] \in Seq(S)}
<1>7. 0 \in T
  <2>1. <<>> \in Seq(S)
    OBVIOUS
  <2> QED
    BY <1>5, <2>1
<1>8. ASSUME NEW k \in Nat, k \in T PROVE k + 1 \in T
  <2> SUFFICES ASSUME k + 1 <= n PROVE f[k + 1] \in Seq(S)
    OBVIOUS
  <2>1. k + 1 \in 1..n /\ (k + 1) - 1 = k /\ f[k] \in Seq(S)
    BY <1>1, <1>8
  <2> QED
    BY <1>6, <2>1
<1>9. Nat \subseteq T
  <2> HIDE DEF T
  <2> QED
    BY <1>7, <1>8, SetInduction
<1>10. \A k \in 0..n : f[k] \in Seq(S)
  BY <1>1, <1>9
<1>11. \A k \in 1..n : f[k] = f[k - 1] \o seqs[k]
  <2> SUFFICES ASSUME NEW k \in 1..n PROVE f[k] = f[k - 1] \o seqs[k]
    OBVIOUS
  <2>1. k - 1 \in 0..n
    BY <1>1
  <2> QED
    BY <1>6, <1>10, <2>1
<1>12. f[n] = FlattenSeq(seqs)
  <2>1. CASE n = 0
    <3>1. seqs = <<>>
      BY <2>1
    <3> QED
      BY <1>3, <1>5, <2>1, <3>1
  <2>2. CASE n # 0
    BY <1>1, <1>3, <1>5, <2>2
  <2> QED
    BY <2>1, <2>2
<1> QED
  BY <1>5, <1>10, <1>11, <1>12

\* The walk at its beginning and at its end.
LEMMA WalkBegins ==
  ASSUME NEW side \in Sides, NEW p \in Plane, NEW ring \in Seq(Plane), NEW u \in Plane
  PROVE  WalkedTo(side, p, <<>>, ring, u, 0)
<1>1. <<>> \in Seq(Plane) /\ Len(<<>>) = 0
  OBVIOUS
<1> DEFINE w == <<>>
<1>2. w \in Seq(Plane) /\ Len(w) = 0
  BY <1>1
<1>3. Prefix(ring, 0) = w
  BY DEF Prefix
<1> HIDE DEF w
<1>4. EndOf(w, u) = u
  BY <1>2 DEF EndOf
<1>5. ~Odd(Crossings(w, u, p)) /\ ~RayCrosses(u, u, p)
  BY <1>2, NoCrossings, NoLoop
<1>6. SameParity(p, w, u, w)
  BY <1>4, <1>5 DEF SameParity
<1>7. Parted(side, w, u, u) /\ Begins(side, w, u)
  BY <1>2, <1>4 DEF Parted, Begins
<1>8. PathMeets(w)
  BY <1>2 DEF PathMeets
<1>9. Walked(side, p, w, u, w)
  BY <1>2, <1>4, <1>6, <1>7, <1>8 DEF Walked
<1> QED
  BY <1>3, <1>9 DEF WalkedTo, w

LEMMA WalkEnds ==
  ASSUME NEW side \in Sides, NEW p \in Plane, Depth(side, p) < 0, NEW ring \in Seq(Plane), NEW u \in Plane,
         Len(ring) > 0, u = ring[Len(ring)], NEW w, WalkedTo(side, p, w, ring, u, Len(ring))
  PROVE  w \in Seq(Plane) /\ RingMeets(w) /\ (Inside(w, p) <=> Inside(ring, p))
<1> DEFINE l == EndOf(w, u)
<1>1. PICK x : /\ Walked(side, p, w, u, x) /\ EndOf(x, u) = EndOf(Prefix(ring, Len(ring)), u)
               /\ Odd(Crossings(x, u, p)) <=> Odd(Crossings(Prefix(ring, Len(ring)), u, p))
  BY DEF WalkedTo
<1>2. Prefix(ring, Len(ring)) = ring
  BY WholePrefix
<1>3. EndOf(ring, u) = u
  BY DEF EndOf
<1>4. EndOf(x, u) = u /\ (Odd(Crossings(x, u, p)) <=> Inside(ring, p))
  BY <1>1, <1>2, <1>3, InsideIs
<1>5. w \in Seq(Plane) /\ l \in Plane
  BY <1>1, EndOfIs DEF Walked
<1>6. Inside(ring, p) <=> ~(Odd(Crossings(w, u, p)) <=> RayCrosses(l, u, p))
  BY <1>1, <1>4 DEF Walked, SameParity
<1>7. /\ Len(w) > 0 => Depth(side, l) <= 0
      /\ l = u \/ (Depth(side, l) >= 0 /\ Depth(side, u) > 0)
  BY <1>1, <1>4 DEF Walked, Parted
<1>8. Begins(side, w, u) /\ PathMeets(w)
  BY <1>1 DEF Walked
<1>9. Depth(side, u) \in Int /\ Depth(side, l) \in Int
  BY <1>5, DepthIs
<1>10. CASE Len(w) = 0
  <2>1. l = u
    BY <1>10 DEF EndOf
  <2>2. ~RayCrosses(u, u, p)
    BY NoLoop
  <2>3. ~Odd(Crossings(w, u, p)) /\ ~Inside(w, p)
    BY <1>5, <1>10, NoCrossings, InsideIs
  <2>4. RingMeets(w)
    BY <1>8, <1>10 DEF RingMeets
  <2> QED
    BY <1>5, <1>6, <2>1, <2>2, <2>3, <2>4
<1>11. CASE Len(w) > 0
  <2> DEFINE f == w[1]
  <2>1. f \in Plane /\ l = w[Len(w)]
    <3>1. Len(w) \in Nat /\ 1 \in 1..Len(w)
      BY <1>5, <1>11
    <3> QED
      BY <1>5, <1>11, <3>1, ElementOfSeq DEF EndOf
  <2>2. Inside(w, p) <=> Odd(Crossings(w, l, p))
    BY <1>5, <1>11, <2>1, InsideIs
  <2>3. (Odd(Crossings(w, u, p)) <=> Odd(Crossings(w, l, p))) <=>
          (RayCrosses(u, f, p) <=> RayCrosses(l, f, p))
    BY <1>5, <1>11, CrossingsFrom
  <2>4. /\ Depth(side, u) > 0 => Depth(side, f) = 0
        /\ Depth(side, u) <= 0 => Meets(u, f)
    BY <1>8, <1>11 DEF Begins
  <2> HIDE DEF l, f
  <2>5. RayCrosses(l, f, p) <=> ~(RayCrosses(l, u, p) <=> RayCrosses(u, f, p))
    <3>1. Depth(side, f) \in Int
      BY <2>1, DepthIs
    <3>2. l = u \/ (Depth(side, l) >= 0 /\ Depth(side, u) >= 0 /\ Depth(side, f) >= 0)
      BY <1>7, <1>9, <2>4, <3>1
    <3> QED
      BY <1>5, <2>1, <3>2, CrossesOver
  <2>6. Meets(l, f)
    <3>1. CASE Depth(side, u) <= 0
      BY <1>7, <1>9, <2>4, <3>1
    <3>2. CASE Depth(side, u) > 0
      <4>1. l # u
        BY <1>7, <1>9, <1>11, <3>2
      <4>2. Depth(side, l) = 0 /\ Depth(side, f) = 0
        BY <1>7, <1>9, <1>11, <2>4, <3>2, <4>1
      <4> QED
        BY <1>5, <2>1, <4>2, OnSideMeets
    <3> QED
      BY <1>9, <3>1, <3>2
  <2>7. RingMeets(w)
    BY <1>8, <2>1, <2>6 DEF RingMeets, f
  <2>8. Inside(w, p) <=> Inside(ring, p)
    BY <1>6, <2>2, <2>3, <2>5
  <2> QED
    BY <1>5, <2>7, <2>8
<1>12. Len(w) = 0 \/ Len(w) > 0
  BY <1>5, EndOfIs
<1> QED
  BY <1>10, <1>11, <1>12

\* An edge of a ring gives points of the plane.
LEMMA ClippedInPlane ==
  ASSUME NEW ring \in Seq(Plane), NEW side \in Sides, NEW i \in 1..Len(ring)
  PROVE  Clipped(ring, side, i) \in Seq(Plane)
<1>1. Clips(Beside({}), Beside({} \cup {side}), side)
  BY ClipsBeside
<1>2. Clips(Plane, Beside({} \cup {side}), side)
  BY <1>1, PlaneIsBeside
<1>3. Clipped(ring, side, i) \in Seq(Beside({} \cup {side}))
  BY <1>2, ClippedTakes
<1>4. Beside({} \cup {side}) \subseteq Plane
  BY DEF Beside
<1> QED
  BY <1>3, <1>4, SeqOfMore

\* Clipping a ring against a side changes nothing about a point that is not beyond it.
LEMMA AgainstKeepsInside ==
  ASSUME NEW side \in Sides, NEW p \in Plane, Depth(side, p) < 0, NEW ring \in Seq(Plane),
         RingMeets(ring)
  PROVE  /\ Against(ring, side) \in Seq(Plane) /\ RingMeets(Against(ring, side))
         /\ Inside(Against(ring, side), p) <=> Inside(ring, p)
<1> DEFINE n == Len(ring)
           seqs == [i \in 1..n |-> Clipped(ring, side, i)]
           u == ring[n]
<1>1. n \in Nat
  OBVIOUS
<1>2. Against(ring, side) = FlattenSeq(seqs)
  BY DEF Against
<1>3. seqs \in Seq(Seq(Plane)) /\ Len(seqs) = n
  <2>1. ASSUME NEW i \in 1..n PROVE Clipped(ring, side, i) \in Seq(Plane)
    BY <2>1, ClippedInPlane
  <2> QED
    BY <1>1, <2>1
<1>4. PICK f : /\ f[0] = <<>> /\ f[Len(seqs)] = FlattenSeq(seqs)
               /\ \A k \in 0..Len(seqs) : f[k] \in Seq(Plane)
               /\ \A k \in 1..Len(seqs) : f[k] = f[k - 1] \o seqs[k]
  <2> HIDE DEF seqs
  <2> QED
    BY <1>3, FlattenSteps
<1>5. \A k \in 1..n : f[k] = f[k - 1] \o Clipped(ring, side, k)
  BY <1>3, <1>4
<1> HIDE DEF seqs
<1>6. CASE n = 0
  <2>1. FlattenSeq(seqs) = <<>>
    BY <1>3, <1>4, <1>6
  <2>2. ring = <<>>
    BY <1>6
  <2> QED
    BY <1>2, <2>1, <2>2
<1>7. CASE n > 0
  <2>1. u \in Plane
    <3>1. n \in 1..n
      BY <1>1, <1>7
    <3> QED
      BY <3>1, ElementOfSeq
  <2> HIDE DEF u
  <2> DEFINE T == {k \in Nat : k <= n => WalkedTo(side, p, f[k], ring, u, k)}
  <2>2. 0 \in T
    BY <1>4, <2>1, WalkBegins
  <2>3. ASSUME NEW k \in Nat, k \in T PROVE k + 1 \in T
    <3> SUFFICES ASSUME k + 1 <= n PROVE WalkedTo(side, p, f[k + 1], ring, u, k + 1)
      OBVIOUS
    <3>1. k + 1 \in 1..n /\ (k + 1) - 1 = k /\ WalkedTo(side, p, f[k], ring, u, k)
      BY <1>1, <2>3
    <3>2. f[k + 1] = f[k] \o Clipped(ring, side, k + 1)
      BY <1>5, <3>1
    <3>3. Meets(EndOf(Prefix(ring, k), u), ring[k + 1])
      BY RingEdgeMeets DEF u
    <3> DEFINE w == f[k]
    <3>4. WalkedTo(side, p, w, ring, u, k)
      BY <3>1
    <3> HIDE DEF w
    <3>5. WalkedTo(side, p, w \o Clipped(ring, side, k + 1), ring, u, k + 1)
      BY <1>7, <2>1, <3>3, <3>4, WalkNext DEF u
    <3> QED
      BY <3>2, <3>5 DEF w
  <2>4. Nat \subseteq T
    <3> HIDE DEF T
    <3> QED
      BY <2>2, <2>3, SetInduction
  <2>5. WalkedTo(side, p, f[n], ring, u, n)
    BY <1>1, <2>4
  <2>6. f[n] = Against(ring, side)
    BY <1>2, <1>3, <1>4
  <2> QED
    BY <1>7, <2>1, <2>5, <2>6, WalkEnds DEF u
<1> QED
  BY <1>1, <1>6, <1>7

\* A point strictly within the view is not beyond a side.
StrictlyIn(p) == p \in Plane /\ Low < p.x /\ p.x < High /\ Low < p.y /\ p.y < High

LEMMA StrictlyInside ==
  ASSUME NEW p, StrictlyIn(p), NEW side \in Sides
  PROVE  p \in Plane /\ Depth(side, p) < 0
<1>1. p \in Plane /\ p.x \in Int /\ p.y \in Int /\ Low \in Int /\ High \in Int
      /\ Low < p.x /\ p.x < High /\ Low < p.y /\ p.y < High
  BY ViewIs DEF Plane, StrictlyIn
<1>2. CASE side = "left"
  BY <1>1, <1>2, DepthIs
<1>3. CASE side = "right"
  BY <1>1, <1>3, DepthIs
<1>4. CASE side = "bottom"
  BY <1>1, <1>4, DepthIs
<1>5. CASE side = "top"
  BY <1>1, <1>5, DepthIs
<1> QED
  BY <1>1, <1>2, <1>3, <1>4, <1>5 DEF Sides

\* A clipped polygon has the same points of the view inside.
LEMMA PolygonKeepsInside ==
  ASSUME NEW points \in Seq(Plane), RingMeets(points), NEW p, StrictlyIn(p)
  PROVE  Inside(ClipPolygon(points), p) <=> Inside(points, p)
<1>1. PICK made : /\ made[0] = points /\ ClipPolygon(points) = made[4]
                  /\ \A k \in 1..4 : made[k] = Against(made[k - 1], ClipOrder[k])
  BY ClipPolygonSteps
<1>2. /\ made[1] = Against(made[0], "left") /\ made[2] = Against(made[1], "bottom")
      /\ made[3] = Against(made[2], "right") /\ made[4] = Against(made[3], "top")
  BY <1>1, OrderIs
<1> DEFINE Kept(r) == r \in Seq(Plane) /\ RingMeets(r) /\ (Inside(r, p) <=> Inside(points, p))
<1>3. ASSUME NEW side \in Sides, NEW r, Kept(r) PROVE Kept(Against(r, side))
  <2>1. p \in Plane /\ Depth(side, p) < 0
    BY StrictlyInside
  <2>2. /\ Against(r, side) \in Seq(Plane) /\ RingMeets(Against(r, side))
        /\ Inside(Against(r, side), p) <=> Inside(r, p)
    BY <1>3, <2>1, AgainstKeepsInside
  <2> QED
    BY <1>3, <2>2
<1>4. Kept(made[0])
  BY <1>1
<1> HIDE DEF Kept
<1>5. Kept(made[1]) /\ Kept(made[2]) /\ Kept(made[3]) /\ Kept(made[4])
  BY <1>2, <1>3, <1>4 DEF Sides
<1> QED
  BY <1>1, <1>5 DEF Kept

\* A last point that is the first again makes no difference.
LEMMA InitRingKeepsInside ==
  ASSUME NEW points \in Seq(Plane), NEW p \in Plane
  PROVE  Inside(InitRing(points), p) <=> Inside(points, p)
<1>1. CASE ~(Len(points) >= 2 /\ points[1] = Last(points))
  BY <1>1 DEF InitRing
<1>2. CASE Len(points) >= 2 /\ points[1] = Last(points)
  <2> DEFINE n == Len(points)
             r == Front(points)
             u == points[n]
             l == EndOf(r, u)
  <2>1. n \in Nat /\ n >= 2 /\ Last(points) = u /\ points[1] = u
    BY <1>2 DEF Last
  <2>2. r \in Seq(Plane) /\ Len(r) = n - 1 /\ \A k \in 1..n - 1 : r[k] = points[k]
    BY <2>1, FrontIs
  <2>3. u \in Plane
    <3>1. n \in 1..n
      BY <2>1
    <3> QED
      BY <3>1, ElementOfSeq
  <2>4. points = Append(r, u)
    <3> DEFINE s == Append(r, u)
    <3>1. s \in Seq(Plane) /\ Len(s) = n /\ s[n] = u /\ \A k \in 1..n - 1 : s[k] = r[k]
      <4> HIDE DEF r, u
      <4> QED
        BY <2>1, <2>2, <2>3
    <3> HIDE DEF s, r
    <3>2. \A k \in 1..n : s[k] = points[k]
      <4>1. \A k \in 1..n : k = n \/ k \in 1..n - 1
        BY <2>1
      <4> QED
        BY <2>2, <3>1, <4>1
    <3>3. points = s
      BY <3>1, <3>2
    <3> QED
      BY <3>3 DEF s
  <2>5. InitRing(points) = r
    BY <1>2 DEF InitRing
  <2>6. Inside(points, p) <=> Odd(Crossings(points, u, p))
    BY <2>1, InsideIs
  <2>7. r[1] = u /\ Len(r) > 0 /\ l = r[Len(r)]
    BY <2>1, <2>2 DEF EndOf
  <2> HIDE DEF n, r, u, l
  <2>8. Odd(Crossings(points, u, p)) <=> ~(Odd(Crossings(r, u, p)) <=> RayCrosses(l, u, p))
    BY <2>2, <2>3, <2>4, CrossingsNext DEF l
  <2>9. Inside(r, p) <=> Odd(Crossings(r, l, p))
    BY <2>2, <2>7, InsideIs
  <2>10. (Odd(Crossings(r, u, p)) <=> Odd(Crossings(r, l, p))) <=>
           (RayCrosses(u, u, p) <=> RayCrosses(l, u, p))
    BY <2>2, <2>7, CrossingsFrom
  <2>11. ~RayCrosses(u, u, p)
    BY <2>3, NoLoop
  <2> QED
    BY <2>5, <2>6, <2>8, <2>9, <2>10, <2>11
<1> QED
  BY <1>1, <1>2

\* The unit is fine enough for the points of the grid.
LEMMA DistanceDivides ==
  ASSUME NEW x \in Grid, NEW y \in Grid, x # y
  PROVE  \E n \in Int : Unit = n * (x - y)
<1>1. x \in Int /\ y \in Int
  BY GridAssumption
<1>2. CASE x > y
  BY <1>2, ExactAssumption
<1>3. CASE x < y
  <2>1. PICK n \in 1..Unit : Unit = n * (y - x)
    BY <1>3, ExactAssumption
  <2>2. (-n) * (x - y) = n * (y - x) /\ -n \in Int
    BY <1>1
  <2> QED
    BY <2>1, <2>2
<1> QED
  BY <1>1, <1>2, <1>3

LEMMA GridMeetsAt ==
  ASSUME NEW u1 \in Grid, NEW w1 \in Grid, NEW u2 \in Grid, NEW w2 \in Grid
  PROVE  MeetsAt(u1 * Unit, w1 * Unit, u2 * Unit, w2 * Unit)
<1>1. u1 \in Int /\ w1 \in Int /\ u2 \in Int /\ w2 \in Int /\ Unit \in Int
  BY GridAssumption, UnitAssumption
<1> SUFFICES ASSUME u1 * Unit # u2 * Unit, NEW s \in {Low, High}
             PROVE  \E r \in Int : (r - w1 * Unit) * (u2 * Unit - u1 * Unit)
                                     = (w2 * Unit - w1 * Unit) * (s - u1 * Unit)
  BY DEF MeetsAt
<1>2. u1 # u2
  OBVIOUS
<1>3. PICK n \in Int : Unit = n * (u2 - u1)
  BY <1>2, DistanceDivides
<1>4. PICK v \in Int : s = v * Unit
  BY ViewAssumption DEF Low, High
<1> DEFINE d == u2 - u1
           e == w2 - w1
           f == v - u1
           r == w1 * Unit + e * f * n
<1>5. d \in Int /\ e \in Int /\ f \in Int /\ r \in Int /\ Unit = n * d
  BY <1>1, <1>3
<1>6. r - w1 * Unit = e * f * n
  BY <1>1
<1>7. u2 * Unit - u1 * Unit = d * Unit /\ w2 * Unit - w1 * Unit = e * Unit /\ s - u1 * Unit = f * Unit
  BY <1>1, <1>4
<1>8. (e * f * n) * (d * Unit) = (e * Unit) * (f * Unit)
  <2> HIDE DEF d, e, f
  <2>1. (e * f * n) * (d * Unit) = (e * f) * (n * d) * Unit
    BY <1>1, <1>5
  <2>2. (e * f) * Unit * Unit = (e * Unit) * (f * Unit)
    BY <1>1, <1>5
  <2> QED
    BY <1>5, <2>1, <2>2
<1> HIDE DEF r
<1> QED
  BY <1>5, <1>6, <1>7, <1>8

LEMMA GridMeets ==
  ASSUME NEW a \in GridPoints, NEW b \in GridPoints
  PROVE  Meets(a, b)
<1>1. PICK ax \in Grid, ay \in Grid : a = Point(ax * Unit, ay * Unit)
  BY DEF GridPoints
<1>2. PICK bx \in Grid, by \in Grid : b = Point(bx * Unit, by * Unit)
  BY DEF GridPoints
<1>3. a.x = ax * Unit /\ a.y = ay * Unit /\ b.x = bx * Unit /\ b.y = by * Unit
  BY <1>1, <1>2 DEF Point
<1> QED
  BY <1>3, GridMeetsAt DEF Meets

LEMMA GridRingMeets ==
  ASSUME NEW ring \in Seq(GridPoints)
  PROVE  RingMeets(ring)
<1>1. Len(ring) \in Nat /\ \A i \in 1..Len(ring) : ring[i] \in GridPoints
  OBVIOUS
<1>2. PathMeets(ring)
  <2> SUFFICES ASSUME NEW i \in 2..Len(ring) PROVE Meets(ring[i - 1], ring[i])
    BY DEF PathMeets
  <2>1. i \in 1..Len(ring) /\ i - 1 \in 1..Len(ring)
    BY <1>1
  <2> QED
    BY <1>1, <2>1, GridMeets
<1>3. Len(ring) > 0 => Meets(ring[Len(ring)], ring[1])
  <2>1. Len(ring) > 0 => 1 \in 1..Len(ring) /\ Len(ring) \in 1..Len(ring)
    BY <1>1
  <2> QED
    BY <1>1, <2>1, GridMeets
<1> QED
  BY <1>2, <1>3 DEF RingMeets

\* Polygons are clipped exactly.
LEMMA PolygonIsExact ==
  ASSUME NEW points \in Seq(GridPoints)
  PROVE  LET rings == ClipRings(<<points>>)
         IN ClippedPolygon(points, IF rings = <<>> THEN <<>> ELSE rings[1])
<1> DEFINE rings == ClipRings(<<points>>)
           ring == ClipPolygon(InitRing(points))
           drawn == IF rings = <<>> THEN <<>> ELSE rings[1]
<1>1. points \in Seq(Plane)
  BY GridInPlane, SeqOfMore
<1>2. rings = IF ring # <<>> THEN <<ring>> ELSE <<>>
  BY <1>1, OneRing
<1>3. drawn = ring
  <2> HIDE DEF rings, ring
  <2>1. <<ring>> # <<>> /\ <<ring>>[1] = ring
    OBVIOUS
  <2> QED
    BY <1>2, <2>1
<1>4. ring \in Seq(Beside(Sides))
  BY <1>1, RingIs
<1>5. InitRing(points) \in Seq(GridPoints)
  BY InitRingKeeps
<1>6. InitRing(points) \in Seq(Plane) /\ RingMeets(InitRing(points))
  BY <1>5, GridInPlane, SeqOfMore, GridRingMeets
<1>7. ASSUME NEW p \in Probes(points) PROVE Inside(points, p) <=> Inside(ring, p)
  <2>1. StrictlyIn(p)
    <3>1. PICK x \in Low + 1 .. High - 1, y \in Low + 1 .. High - 1 : p = Point(x, y)
      BY DEF Probes
    <3>2. x \in Int /\ y \in Int /\ Low < x /\ x < High /\ Low < y /\ y < High
      BY ViewIs
    <3> QED
      BY <3>1, <3>2 DEF StrictlyIn, Point, Plane
  <2>2. Inside(ring, p) <=> Inside(InitRing(points), p)
    BY <1>6, <2>1, PolygonKeepsInside
  <2>3. p \in Plane
    BY <2>1 DEF StrictlyIn
  <2> QED
    BY <1>1, <2>2, <2>3, InitRingKeepsInside
<1>8. \A v \in Range(ring) : InView(v)
  <2>1. ASSUME NEW v \in Beside(Sides) PROVE InView(v)
    <3>1. v \in Plane /\ BitCode(v) \cap Sides = {} /\ BitCode(v) \subseteq Sides
      BY BitCodeIs DEF Beside, Sides
    <3>2. BitCode(v) = {}
      BY <3>1
    <3> QED
      BY <3>1, <3>2, InViewIs
  <2>2. \A i \in 1..Len(ring) : ring[i] \in Beside(Sides)
    BY <1>4, ElementOfSeq
  <2>3. DOMAIN ring = 1..Len(ring)
    BY <1>4
  <2> HIDE DEF ring
  <2> QED
    BY <2>1, <2>2, <2>3 DEF Range
<1>9. ClippedPolygon(points, ring)
  BY <1>7, <1>8 DEF ClippedPolygon
<1> QED
  BY <1>3, <1>9

-------------------------------------------------------------------------------
\* Clipped lines: what is left of each segment, and the parts.

\* The code tests the sides in its order, and takes the crossing with the first.
LEMMA OneSide ==
  ASSUME NEW a, NEW b, NEW p, BitCode(p) # {}
  PROVE  \E side \in BitCode(p) : EdgeIntersection(a, b, BitCode(p)) = EdgeIntersection(a, b, {side})
<1> DEFINE sides == BitCode(p)
<1>1. sides \subseteq {"left", "right", "bottom", "top"} /\ sides # {}
  BY BitCodeIs
<1> HIDE DEF sides
<1>2. CASE "top" \in sides
  BY <1>2 DEF EdgeIntersection, sides
<1>3. CASE "top" \notin sides /\ "bottom" \in sides
  BY <1>3 DEF EdgeIntersection, sides
<1>4. CASE "top" \notin sides /\ "bottom" \notin sides /\ "right" \in sides
  <2>1. sides \cap {"top", "bottom"} = {} /\ {"right"} \cap {"top", "bottom"} = {}
    BY <1>4
  <2> QED
    BY <1>4, <2>1 DEF EdgeIntersection, sides
<1>5. CASE "top" \notin sides /\ "bottom" \notin sides /\ "right" \notin sides
  <2>1. sides = {"left"}
    BY <1>1, <1>5
  <2> QED
    BY <2>1 DEF sides
<1> QED
  BY <1>2, <1>3, <1>4, <1>5

\* An end beyond a side moves to where the segment crosses it.
LEMMA ExactMove ==
  ASSUME NEW a \in Plane, NEW b \in Plane, Meets(a, b), NEW p \in {a, b},
         BitCode(p) # {}, BitCode(a) \cap BitCode(b) = {}
  PROVE  LET e == EdgeIntersection(a, b, BitCode(p))
         IN /\ e \in Plane /\ OnSegment(a, b, e)
            /\ \E side \in Sides : side \in BitCode(p) /\ Depth(side, e) = 0
<1>1. PICK side \in BitCode(p) : EdgeIntersection(a, b, BitCode(p)) = EdgeIntersection(a, b, {side})
  BY OneSide
<1>2. side \in Sides /\ (side \in BitCode(a)) # (side \in BitCode(b))
  <2>1. BitCode(p) \subseteq Sides
    BY BitCodeIs DEF Sides
  <2>2. BitCode(p) = BitCode(a) \/ BitCode(p) = BitCode(b)
    OBVIOUS
  <2> QED
    BY <1>1, <2>1, <2>2
<1> DEFINE e == EdgeIntersection(a, b, {side})
<1>3. e \in Plane /\ OnSegment(a, b, e) /\ Depth(side, e) = 0
  BY <1>2, ExactCrossing
<1> HIDE DEF e
<1>4. EdgeIntersection(a, b, BitCode(p)) = e
  BY <1>1 DEF e
<1> QED
  BY <1>1, <1>2, <1>3, <1>4

\* Along a line the other coordinate changes one way.
LEMMA OneWay ==
  ASSUME NEW k \in Int, NEW d \in Nat \ {0}, NEW m \in Int, NEW c \in Nat, k * d = m * c
  PROVE  (m >= 0 => k >= 0) /\ (m <= 0 => k <= 0)
<1>1. CASE m >= 0 /\ k < 0
  <2>1. m * c >= 0
    BY <1>1
  <2>2. k * d < 0
    BY <1>1
  <2> QED
    BY <2>1, <2>2
<1>2. CASE m <= 0 /\ k > 0
  <2>1. m * c <= 0
    BY <1>2
  <2>2. k * d > 0
    BY <1>2
  <2> QED
    BY <2>1, <2>2
<1> QED
  BY <1>1, <1>2

LEMMA OneWayTurned ==
  ASSUME NEW k \in Int, NEW d \in Int, NEW m \in Int, NEW c \in Int, k * d = m * c,
         (d > 0 /\ c >= 0) \/ (d < 0 /\ c <= 0)
  PROVE  (m >= 0 => k >= 0) /\ (m <= 0 => k <= 0)
<1>1. CASE d > 0 /\ c >= 0
  BY <1>1, OneWay
<1>2. CASE d < 0 /\ c <= 0
  <2>1. -d \in Nat \ {0} /\ -c \in Nat /\ k * (-d) = -(k * d) /\ m * (-c) = -(m * c)
    BY <1>2
  <2>2. k * (-d) = m * (-c)
    BY <2>1
  <2> QED
    BY <2>1, <2>2, OneWay
<1> QED
  BY <1>1, <1>2

\* The point <<u, w>> is on the line through <<u1, w1>> and <<u2, w2>>.
OnLine(u1, w1, u2, w2, u, w) == (w - w1) * (u2 - u1) = (w2 - w1) * (u - u1)

\* On the line, <<u, w>> is not before <<u1, w1>>, nor <<v, z>> before <<u, w>>.
InOrder(u1, w1, u2, w2, u, w, v, z) ==
  /\ u1 \in Int /\ w1 \in Int /\ u2 \in Int /\ w2 \in Int /\ u \in Int /\ w \in Int
  /\ v \in Int /\ z \in Int /\ u1 # u2
  /\ OnLine(u1, w1, u2, w2, u, w) /\ Middle(u1, u, u2)
  /\ OnLine(u1, w1, u2, w2, v, z) /\ Middle(u, v, u2)

\* It is on the rest of the line, then.
LEMMA RestOfLine ==
  ASSUME NEW u1, NEW w1, NEW u2, NEW w2, NEW u, NEW w, NEW v, NEW z,
         InOrder(u1, w1, u2, w2, u, w, v, z)
  PROVE  OnLine(u, w, u2, w2, v, z) /\ Middle(w, z, w2)
<1>0. /\ u1 \in Int /\ w1 \in Int /\ u2 \in Int /\ w2 \in Int /\ u \in Int /\ w \in Int
      /\ v \in Int /\ z \in Int /\ u1 # u2
      /\ OnLine(u1, w1, u2, w2, u, w) /\ Middle(u1, u, u2)
      /\ OnLine(u1, w1, u2, w2, v, z) /\ Middle(u, v, u2)
  BY DEF InOrder
<1> DEFINE dy == u2 - u1
           dx == w2 - w1
           f == w - w1
           h == u - u1
           e == z - w1
           g == v - u1
<1>1. /\ dx \in Int /\ dy \in Int /\ dy # 0 /\ e \in Int /\ f \in Int /\ g \in Int /\ h \in Int
      /\ f * dy = dx * h /\ e * dy = dx * g
      /\ z - w = e - f /\ v - u = g - h /\ w2 - w = dx - f /\ u2 - u = dy - h
      /\ w2 - z = dx - e /\ u2 - v = dy - g
  BY <1>0 DEF OnLine
<1>2. (dy > 0 /\ g - h >= 0 /\ dy - g >= 0) \/ (dy < 0 /\ g - h <= 0 /\ dy - g <= 0)
  BY <1>0 DEF Middle
<1> HIDE DEF dx, dy, e, f, g, h
<1>3. (e - f) * dy = dx * (g - h)
  <2>1. (e - f) * dy = e * dy - f * dy /\ dx * (g - h) = dx * g - dx * h
    BY <1>1
  <2> QED
    BY <1>1, <2>1
<1>4. (dx - f) * dy = dx * (dy - h)
  <2>1. (dx - f) * dy = dx * dy - f * dy /\ dx * (dy - h) = dx * dy - dx * h
    BY <1>1
  <2> QED
    BY <1>1, <2>1
<1>5. (dx - e) * dy = dx * (dy - g)
  <2>1. (dx - e) * dy = dx * dy - e * dy /\ dx * (dy - g) = dx * dy - dx * g
    BY <1>1
  <2> QED
    BY <1>1, <2>1
<1>6. (e - f) * (dy - h) = (dx - f) * (g - h)
  <2> DEFINE a == e - f
             b == g - h
             c == dx - f
             d == dy - h
  <2>1. a \in Int /\ b \in Int /\ c \in Int /\ d \in Int /\ a * dy = dx * b /\ c * dy = dx * d
    BY <1>1, <1>3, <1>4
  <2> HIDE DEF a, b, c, d
  <2>2. a * d = b * c /\ b * c = c * b
    BY <1>1, <2>1, Parallel
  <2> QED
    BY <2>2 DEF a, b, c, d
<1>7. (dx >= 0 => e - f >= 0) /\ (dx <= 0 => e - f <= 0)
  <2> DEFINE k == e - f
             c == g - h
  <2>1. k \in Int /\ c \in Int /\ k * dy = dx * c /\ ((dy > 0 /\ c >= 0) \/ (dy < 0 /\ c <= 0))
    BY <1>1, <1>2, <1>3
  <2> HIDE DEF k, c
  <2>2. (dx >= 0 => k >= 0) /\ (dx <= 0 => k <= 0)
    BY <1>1, <2>1, OneWayTurned
  <2> QED
    BY <2>2 DEF k
<1>8. (dx >= 0 => dx - e >= 0) /\ (dx <= 0 => dx - e <= 0)
  <2> DEFINE k == dx - e
             c == dy - g
  <2>1. k \in Int /\ c \in Int /\ k * dy = dx * c /\ ((dy > 0 /\ c >= 0) \/ (dy < 0 /\ c <= 0))
    BY <1>1, <1>2, <1>5
  <2> HIDE DEF k, c
  <2>2. (dx >= 0 => k >= 0) /\ (dx <= 0 => k <= 0)
    BY <1>1, <2>1, OneWayTurned
  <2> QED
    BY <2>2 DEF k
<1>9. (dx >= 0 => z - w >= 0 /\ w2 - z >= 0) /\ (dx <= 0 => z - w <= 0 /\ w2 - z <= 0)
  BY <1>1, <1>7, <1>8
<1>10. Middle(w, z, w2)
  BY <1>0, <1>1, <1>9 DEF Middle
<1>11. (z - w) * (u2 - u) = (w2 - w) * (v - u)
  BY <1>0, <1>1, <1>6
<1> QED
  BY <1>10, <1>11 DEF OnLine

LEMMA OnLineIs ==
  ASSUME NEW a \in Plane, NEW b \in Plane, NEW p \in Plane
  PROVE  /\ Cross(a, b, p) = 0 <=> OnLine(a.x, a.y, b.x, b.y, p.x, p.y)
         /\ Cross(a, b, p) = 0 <=> OnLine(a.y, a.x, b.y, b.x, p.y, p.x)
BY CrossIs DEF OnLine

\* What is not beyond a side, of a segment that begins beyond it, is on the rest
\* of the segment from where it crosses the side.
LEMMA RestOfSegment ==
  ASSUME NEW a \in Plane, NEW b \in Plane, NEW e \in Plane, NEW q \in Plane, NEW side \in Sides,
         OnSegment(a, b, e), OnSegment(a, b, q), Depth(side, a) > 0, Depth(side, e) = 0,
         Depth(side, b) <= 0, Depth(side, q) <= 0
  PROVE  OnSegment(e, b, q)
<1>1. /\ a.x \in Int /\ a.y \in Int /\ b.x \in Int /\ b.y \in Int /\ e.x \in Int /\ e.y \in Int
      /\ q.x \in Int /\ q.y \in Int /\ Low \in Int /\ High \in Int
  BY ViewIs DEF Plane
<1>2. /\ OnLine(a.x, a.y, b.x, b.y, e.x, e.y) /\ OnLine(a.y, a.x, b.y, b.x, e.y, e.x)
      /\ Middle(a.x, e.x, b.x) /\ Middle(a.y, e.y, b.y)
  BY OnLineIs DEF OnSegment
<1>3. /\ OnLine(a.x, a.y, b.x, b.y, q.x, q.y) /\ OnLine(a.y, a.x, b.y, b.x, q.y, q.x)
      /\ Middle(a.x, q.x, b.x) /\ Middle(a.y, q.y, b.y)
  BY OnLineIs DEF OnSegment
<1>4. ASSUME a.x # b.x, Middle(e.x, q.x, b.x) PROVE OnSegment(e, b, q)
  <2>1. OnLine(e.x, e.y, b.x, b.y, q.x, q.y) /\ Middle(e.y, q.y, b.y)
    <3>1. OnLine(a.x, a.y, b.x, b.y, e.x, e.y) /\ Middle(a.x, e.x, b.x)
      BY <1>2
    <3>2. OnLine(a.x, a.y, b.x, b.y, q.x, q.y)
      BY <1>3
    <3>3. InOrder(a.x, a.y, b.x, b.y, e.x, e.y, q.x, q.y)
      BY <1>1, <1>4, <3>1, <3>2 DEF InOrder
    <3> QED
      BY <3>3, RestOfLine
  <2>2. Cross(e, b, q) = 0
    BY <2>1, OnLineIs
  <2> QED
    BY <1>4, <2>1, <2>2 DEF OnSegment
<1>5. ASSUME a.y # b.y, Middle(e.y, q.y, b.y) PROVE OnSegment(e, b, q)
  <2>1. OnLine(e.y, e.x, b.y, b.x, q.y, q.x) /\ Middle(e.x, q.x, b.x)
    <3>1. OnLine(a.y, a.x, b.y, b.x, e.y, e.x) /\ Middle(a.y, e.y, b.y)
      BY <1>2
    <3>2. OnLine(a.y, a.x, b.y, b.x, q.y, q.x)
      BY <1>3
    <3>3. InOrder(a.y, a.x, b.y, b.x, e.y, e.x, q.y, q.x)
      BY <1>1, <1>5, <3>1, <3>2 DEF InOrder
    <3> QED
      BY <3>3, RestOfLine
  <2>2. Cross(e, b, q) = 0
    BY <2>1, OnLineIs
  <2> QED
    BY <1>5, <2>1, <2>2 DEF OnSegment
<1>6. CASE side = "left"
  <2>1. Low - a.x > 0 /\ Low - e.x = 0 /\ Low - b.x <= 0 /\ Low - q.x <= 0
    BY <1>6, DepthIs
  <2>2. a.x # b.x /\ Middle(e.x, q.x, b.x)
    BY <1>1, <1>3, <2>1 DEF Middle
  <2> QED
    BY <1>4, <2>2
<1>7. CASE side = "right"
  <2>1. a.x - High > 0 /\ e.x - High = 0 /\ b.x - High <= 0 /\ q.x - High <= 0
    BY <1>7, DepthIs
  <2>2. a.x # b.x /\ Middle(e.x, q.x, b.x)
    BY <1>1, <1>3, <2>1 DEF Middle
  <2> QED
    BY <1>4, <2>2
<1>8. CASE side = "bottom"
  <2>1. Low - a.y > 0 /\ Low - e.y = 0 /\ Low - b.y <= 0 /\ Low - q.y <= 0
    BY <1>8, DepthIs
  <2>2. a.y # b.y /\ Middle(e.y, q.y, b.y)
    BY <1>1, <1>3, <2>1 DEF Middle
  <2> QED
    BY <1>5, <2>2
<1>9. CASE side = "top"
  <2>1. a.y - High > 0 /\ e.y - High = 0 /\ b.y - High <= 0 /\ q.y - High <= 0
    BY <1>9, DepthIs
  <2>2. a.y # b.y /\ Middle(e.y, q.y, b.y)
    BY <1>1, <1>3, <2>1 DEF Middle
  <2> QED
    BY <1>5, <2>2
<1> QED
  BY <1>6, <1>7, <1>8, <1>9 DEF Sides

LEMMA MiddleOfPart ==
  ASSUME NEW u \in Int, NEW v \in Int, NEW k \in Int, NEW l \in Int, NEW m \in Int,
         Middle(u, k, v), Middle(u, l, v), Middle(k, m, l)
  PROVE  Middle(u, m, v) /\ (k = l => m = k)
BY DEF Middle

\* A part of a part of a segment is a part of the segment.
LEMMA PartOfPart ==
  ASSUME NEW a \in Plane, NEW b \in Plane, NEW c \in Plane, NEW d \in Plane, NEW e \in Plane,
         OnSegment(a, b, c), OnSegment(a, b, d), OnSegment(c, d, e)
  PROVE  OnSegment(a, b, e)
<1>1. /\ a.x \in Int /\ a.y \in Int /\ b.x \in Int /\ b.y \in Int /\ c.x \in Int /\ c.y \in Int
      /\ d.x \in Int /\ d.y \in Int /\ e.x \in Int /\ e.y \in Int
  BY DEF Plane
<1>2. /\ Middle(a.x, e.x, b.x) /\ (c.x = d.x => e.x = c.x)
      /\ Middle(a.y, e.y, b.y) /\ (c.y = d.y => e.y = c.y)
  <2>1. Middle(a.x, c.x, b.x) /\ Middle(a.x, d.x, b.x) /\ Middle(c.x, e.x, d.x)
    BY DEF OnSegment
  <2>2. Middle(a.y, c.y, b.y) /\ Middle(a.y, d.y, b.y) /\ Middle(c.y, e.y, d.y)
    BY DEF OnSegment
  <2>3. Middle(a.x, e.x, b.x) /\ (c.x = d.x => e.x = c.x)
    BY <1>1, <2>1, MiddleOfPart
  <2>4. Middle(a.y, e.y, b.y) /\ (c.y = d.y => e.y = c.y)
    BY <1>1, <2>2, MiddleOfPart
  <2> QED
    BY <2>3, <2>4
<1> DEFINE dx == b.x - a.x
           dy == b.y - a.y
           tx == d.x - c.x
           ty == d.y - c.y
           ex == e.x - c.x
           ey == e.y - c.y
           cx == c.x - a.x
           cy == c.y - a.y
<1>3. /\ dx \in Int /\ dy \in Int /\ tx \in Int /\ ty \in Int /\ ex \in Int /\ ey \in Int
      /\ cx \in Int /\ cy \in Int
      /\ d.x - a.x = cx + tx /\ d.y - a.y = cy + ty /\ e.x - a.x = cx + ex /\ e.y - a.y = cy + ey
  BY <1>1
<1>4. cx * dy = dx * cy /\ (cx + tx) * dy = dx * (cy + ty) /\ ex * ty = tx * ey /\ ey * tx = ty * ex
  <2>1. (c.x - a.x) * (b.y - a.y) = (b.x - a.x) * (c.y - a.y)
    BY CrossIs DEF OnSegment
  <2>2. (d.x - a.x) * (b.y - a.y) = (b.x - a.x) * (d.y - a.y)
    BY CrossIs DEF OnSegment
  <2>3. /\ (e.x - c.x) * (d.y - c.y) = (d.x - c.x) * (e.y - c.y)
        /\ (e.y - c.y) * (d.x - c.x) = (d.y - c.y) * (e.x - c.x)
    BY CrossIs DEF OnSegment
  <2> QED
    BY <1>3, <2>1, <2>2, <2>3
<1>5. (tx = 0 => ex = 0) /\ (ty = 0 => ey = 0)
  BY <1>1, <1>2
<1> HIDE DEF dx, dy, tx, ty, ex, ey, cx, cy
<1>6. tx * dy = dx * ty
  <2>1. (cx + tx) * dy = cx * dy + tx * dy /\ dx * (cy + ty) = dx * cy + dx * ty
    BY <1>3
  <2>2. cx * dy \in Int /\ tx * dy \in Int /\ dx * cy \in Int /\ dx * ty \in Int
    BY <1>3
  <2> QED
    BY <1>4, <2>1, <2>2
<1>7. ex * dy = dx * ey
  <2>1. CASE tx # 0
    <3>1. dy * tx = ty * dx
      <4>1. dy * tx = tx * dy /\ ty * dx = dx * ty
        BY <1>3
      <4> QED
        BY <1>6, <4>1
    <3>2. ey * dx = ex * dy
      BY <1>3, <1>4, <2>1, <3>1, Parallel
    <3> QED
      BY <1>3, <3>2
  <2>2. CASE ty # 0
    <3>1. dx * ty = tx * dy
      BY <1>6
    <3>2. ex * dy = ey * dx
      BY <1>3, <1>4, <2>2, <3>1, Parallel
    <3> QED
      BY <1>3, <3>2
  <2>3. CASE tx = 0 /\ ty = 0
    BY <1>3, <1>5, <2>3
  <2> QED
    BY <2>1, <2>2, <2>3
<1>8. (cx + ex) * dy = dx * (cy + ey)
  <2>1. (cx + ex) * dy = cx * dy + ex * dy /\ dx * (cy + ey) = dx * cy + dx * ey
    BY <1>3
  <2> QED
    BY <1>4, <1>7, <2>1
<1>9. (e.x - a.x) * (b.y - a.y) = (b.x - a.x) * (e.y - a.y)
  BY <1>3, <1>8 DEF dx, dy
<1> QED
  BY <1>2, <1>9, CrossIs DEF OnSegment

\* The ends of a segment are on it.
LEMMA EndsOnSegment ==
  ASSUME NEW a \in Plane, NEW b \in Plane
  PROVE  OnSegment(a, b, a) /\ OnSegment(a, b, b)
<1>1. a.x \in Int /\ a.y \in Int /\ b.x \in Int /\ b.y \in Int
  BY DEF Plane
<1>2. Cross(a, b, a) = 0
  <2>1. (a.x - a.x) * (b.y - a.y) = (b.x - a.x) * (a.y - a.y)
    BY <1>1
  <2> QED
    BY <2>1, CrossIs
<1>3. Cross(a, b, b) = 0
  <2>1. (b.x - a.x) * (b.y - a.y) = (b.x - a.x) * (b.y - a.y)
    OBVIOUS
  <2> QED
    BY <2>1, CrossIs
<1>4. Middle(a.x, a.x, b.x) /\ Middle(a.x, b.x, b.x) /\ Middle(a.y, a.y, b.y) /\ Middle(a.y, b.y, b.y)
  BY <1>1 DEF Middle
<1> QED
  BY <1>2, <1>3, <1>4 DEF OnSegment

\* What clipping keeps of a segment: its ends stay on it, and what is in view of
\* it stays on what is left.
LeavesOf(s, t) ==
  /\ t \in Segment /\ Meets(t.a, t.b)
  /\ OnSegment(s.a, s.b, t.a) /\ OnSegment(s.a, s.b, t.b)
  /\ \A q \in Plane : OnSegment(s.a, s.b, q) /\ BitCode(q) = {} => OnSegment(t.a, t.b, q)

LEMMA LeavesOfSelf ==
  ASSUME NEW s \in Segment, Meets(s.a, s.b)
  PROVE  LeavesOf(s, s)
<1>1. s.a \in Plane /\ s.b \in Plane
  BY DEF Segment
<1> QED
  BY <1>1, EndsOnSegment DEF LeavesOf

LEMMA StepLeaves ==
  ASSUME NEW s \in Segment, NEW t, LeavesOf(s, t), NEW n
  PROVE  LeavesOf(s, ClipStep(t, n))
<1> DEFINE u == ClipStep(t, n)
           ea == EdgeIntersection(t.a, t.b, BitCode(t.a))
           eb == EdgeIntersection(t.a, t.b, BitCode(t.b))
<1>1. /\ t \in Segment /\ t.a \in Plane /\ t.b \in Plane /\ s.a \in Plane /\ s.b \in Plane
      /\ Meets(t.a, t.b)
  BY DEF LeavesOf, Segment
<1>2. CASE Settled(t)
  <2>1. u = t
    BY <1>2 DEF ClipStep, Settled
  <2> QED
    BY <2>1
<1>3. CASE ~Settled(t) /\ BitCode(t.a) # {}
  <2>1. BitCode(t.a) \cap BitCode(t.b) = {}
    BY <1>3 DEF Settled, Rejected
  <2>2. ea \in Plane /\ OnSegment(t.a, t.b, ea)
        /\ \E side \in Sides : side \in BitCode(t.a) /\ Depth(side, ea) = 0
    BY <1>1, <1>3, <2>1, ExactMove
  <2>3. u = [t EXCEPT !.a = ea]
    BY <1>3 DEF ClipStep, Settled
  <2> HIDE DEF ea, u
  <2>4. u \in Segment /\ u.a = ea /\ u.b = t.b
    BY <1>1, <2>2, <2>3 DEF Segment
  <2>5. Meets(u.a, u.b)
    BY <1>1, <2>2, <2>4, PartMeets
  <2>6. OnSegment(s.a, s.b, u.a) /\ OnSegment(s.a, s.b, u.b)
    <3>1. OnSegment(s.a, s.b, t.a) /\ OnSegment(s.a, s.b, t.b)
      BY DEF LeavesOf
    <3>2. OnSegment(s.a, s.b, ea)
      BY <1>1, <2>2, <3>1, PartOfPart
    <3> QED
      BY <2>4, <3>1, <3>2
  <2>7. ASSUME NEW q \in Plane, OnSegment(s.a, s.b, q), BitCode(q) = {}
        PROVE  OnSegment(u.a, u.b, q)
    <3>1. OnSegment(t.a, t.b, q)
      BY <2>7 DEF LeavesOf
    <3>2. PICK side \in Sides : side \in BitCode(t.a) /\ Depth(side, ea) = 0
      BY <2>2
    <3>3. side \notin BitCode(t.b) /\ side \notin BitCode(q)
      BY <2>1, <2>7, <3>2
    <3>4. Depth(side, t.a) > 0 /\ Depth(side, t.b) <= 0 /\ Depth(side, q) <= 0
      BY <1>1, <3>2, <3>3, DepthIs
    <3>5. OnSegment(ea, t.b, q)
      BY <1>1, <2>2, <3>1, <3>2, <3>4, RestOfSegment
    <3> QED
      BY <2>4, <3>5
  <2>8. LeavesOf(s, u)
    BY <2>4, <2>5, <2>6, <2>7 DEF LeavesOf
  <2> QED
    BY <2>8 DEF u
<1>4. CASE ~Settled(t) /\ BitCode(t.a) = {}
  <2>1. BitCode(t.b) # {} /\ BitCode(t.a) \cap BitCode(t.b) = {}
    BY <1>4 DEF Settled, Accepted
  <2>2. eb \in Plane /\ OnSegment(t.a, t.b, eb)
        /\ \E side \in Sides : side \in BitCode(t.b) /\ Depth(side, eb) = 0
    BY <1>1, <2>1, ExactMove
  <2>3. u = [t EXCEPT !.b = eb]
    BY <1>4 DEF ClipStep, Settled
  <2> HIDE DEF eb, u
  <2>4. u \in Segment /\ u.a = t.a /\ u.b = eb
    BY <1>1, <2>2, <2>3 DEF Segment
  <2>5. Meets(u.a, u.b)
    BY <1>1, <2>2, <2>4, PartMeets
  <2>6. OnSegment(s.a, s.b, u.a) /\ OnSegment(s.a, s.b, u.b)
    <3>1. OnSegment(s.a, s.b, t.a) /\ OnSegment(s.a, s.b, t.b)
      BY DEF LeavesOf
    <3>2. OnSegment(s.a, s.b, eb)
      BY <1>1, <2>2, <3>1, PartOfPart
    <3> QED
      BY <2>4, <3>1, <3>2
  <2>7. ASSUME NEW q \in Plane, OnSegment(s.a, s.b, q), BitCode(q) = {}
        PROVE  OnSegment(u.a, u.b, q)
    <3>1. OnSegment(t.b, t.a, q) /\ OnSegment(t.b, t.a, eb)
      <4>1. OnSegment(t.a, t.b, q)
        BY <2>7 DEF LeavesOf
      <4> QED
        BY <1>1, <2>2, <4>1, SegmentTurned
    <3>2. PICK side \in Sides : side \in BitCode(t.b) /\ Depth(side, eb) = 0
      BY <2>2
    <3>3. side \notin BitCode(t.a) /\ side \notin BitCode(q)
      BY <1>4, <2>7
    <3>4. Depth(side, t.b) > 0 /\ Depth(side, t.a) <= 0 /\ Depth(side, q) <= 0
      BY <1>1, <3>2, <3>3, DepthIs
    <3>5. OnSegment(eb, t.a, q)
      BY <1>1, <2>2, <3>1, <3>2, <3>4, RestOfSegment
    <3>6. OnSegment(t.a, eb, q)
      BY <1>1, <2>2, <3>5, SegmentTurned
    <3> QED
      BY <2>4, <3>6
  <2>8. LeavesOf(s, u)
    BY <2>4, <2>5, <2>6, <2>7 DEF LeavesOf
  <2> QED
    BY <2>8 DEF u
<1> QED
  BY <1>2, <1>3, <1>4

LEMMA ClipSegmentLeaves ==
  ASSUME NEW a \in Plane, NEW b \in Plane, Meets(a, b)
  PROVE  LeavesOf([a |-> a, b |-> b], ClipSegment(a, b))
<1> DEFINE s == [a |-> a, b |-> b]
           seq == <<1, 2, 3, 4>>
<1>1. s \in Segment /\ s.a = a /\ s.b = b
  BY DEF Segment
<1>2. seq \in Seq(Nat) /\ Len(seq) = 4
  OBVIOUS
<1>3. ClipSegment(a, b) = ClipStepAll(seq, s)
  BY DEF ClipSegment, ClipStepAll
<1> HIDE DEF s, seq
<1>4. PICK made : ClipStepMade(made, seq, s) /\ ClipStepAll(seq, s) = made[Len(seq)]
  BY <1>1, <1>2, ClipStepFold
<1> DEFINE T == {k \in Nat : k <= 4 => LeavesOf(s, made[k])}
<1>5. 0 \in T
  <2>1. LeavesOf(s, s)
    BY <1>1, LeavesOfSelf
  <2> QED
    BY <1>4, <2>1 DEF ClipStepMade
<1>6. ASSUME NEW k \in Nat, k \in T PROVE k + 1 \in T
  <2> SUFFICES ASSUME k + 1 <= 4 PROVE LeavesOf(s, made[k + 1])
    OBVIOUS
  <2>1. k + 1 \in 1..4 /\ (k + 1) - 1 = k /\ LeavesOf(s, made[k])
    BY <1>6
  <2>2. made[k + 1] = ClipStep(made[k], seq[k + 1])
    BY <1>2, <1>4, <2>1 DEF ClipStepMade
  <2> QED
    BY <1>1, <2>1, <2>2, StepLeaves
<1>7. Nat \subseteq T
  <2> HIDE DEF T
  <2> QED
    BY <1>5, <1>6, SetInduction
<1>8. LeavesOf(s, made[4])
  BY <1>7
<1> QED
  BY <1>2, <1>3, <1>4, <1>8 DEF s

\* A point is on a line drawn through points, or on one of several.
OnPath(path, q) == \E k \in 1..Len(path) - 1 : OnSegment(path[k], path[k + 1], q)
Covered(parts, q) == \E j \in 1..Len(parts) : OnPath(parts[j], q)

\* The points of the parts are on the line.
AllOnPath(points, parts) ==
  \A j \in 1..Len(parts) : \A v \in 1..Len(parts[j]) : OnPath(points, parts[j][v])

\* Where the last part has got to.
Tip(parts) == parts[Len(parts)][Len(parts[Len(parts)])]

LEMMA AppendedIs ==
  ASSUME NEW path \in Seq(Plane), NEW p \in Plane
  PROVE  /\ Append(path, p) \in Seq(Plane) /\ Len(path) \in Nat
         /\ Len(Append(path, p)) = Len(path) + 1
         /\ \A k \in 1..Len(path) : Append(path, p)[k] = path[k]
         /\ Append(path, p)[Len(path) + 1] = p
OBVIOUS

LEMMA LongerPath ==
  ASSUME NEW path \in Seq(Plane), NEW p \in Plane, NEW q
  PROVE  /\ OnPath(path, q) => OnPath(Append(path, p), q)
         /\ Len(path) > 0 /\ OnSegment(path[Len(path)], p, q) => OnPath(Append(path, p), q)
<1> DEFINE longer == Append(path, p)
           n == Len(path)
<1>1. /\ n \in Nat /\ Len(longer) = n + 1
      /\ \A k \in 1..n : longer[k] = path[k]
      /\ longer[n + 1] = p
  BY AppendedIs
<1> HIDE DEF longer, n
<1>2. ASSUME NEW k \in 1..n - 1, OnSegment(path[k], path[k + 1], q) PROVE OnPath(longer, q)
  <2>1. k \in 1..n /\ k + 1 \in 1..n /\ k \in 1..Len(longer) - 1
    BY <1>1
  <2>2. longer[k] = path[k] /\ longer[k + 1] = path[k + 1]
    BY <1>1, <2>1
  <2> QED
    BY <1>2, <2>1, <2>2 DEF OnPath
<1>3. ASSUME n > 0, OnSegment(path[n], p, q) PROVE OnPath(longer, q)
  <2>1. n \in 1..n /\ n \in 1..Len(longer) - 1
    BY <1>1, <1>3
  <2>2. longer[n] = path[n] /\ longer[n + 1] = p
    BY <1>1, <2>1
  <2> QED
    BY <1>3, <2>1, <2>2 DEF OnPath
<1>4. OnPath(path, q) => OnPath(longer, q)
  BY <1>2 DEF OnPath, n
<1> QED
  BY <1>3, <1>4 DEF longer, n

\* The last part goes on to p.
GoesOn(s, t, p) ==
  /\ s \in Seq(Seq(Plane)) /\ t \in Seq(Seq(Plane)) /\ Len(s) > 0 /\ Len(t) = Len(s)
  /\ t[Len(s)] = Append(s[Len(s)], p)
  /\ \A k \in 1..Len(s) - 1 : t[k] = s[k]

\* A part begins at p.
BeginsAt(s, t, p) ==
  /\ s \in Seq(Seq(Plane)) /\ t \in Seq(Seq(Plane)) /\ Len(t) = Len(s) + 1
  /\ t[Len(s) + 1] = <<p>>
  /\ \A k \in 1..Len(s) : t[k] = s[k]

LEMMA PartsOf ==
  ASSUME NEW s \in Seq(Seq(Plane))
  PROVE  Len(s) \in Nat /\ \A j \in 1..Len(s) : s[j] \in Seq(Plane) /\ Len(s[j]) \in Nat
<1>1. Len(s) \in Nat /\ \A j \in 1..Len(s) : s[j] \in Seq(Plane)
  BY ElementOfSeq
<1>2. ASSUME NEW j \in 1..Len(s) PROVE Len(s[j]) \in Nat
  <2>1. s[j] \in Seq(Plane)
    BY <1>1
  <2> QED
    BY <2>1
<1> QED
  BY <1>1, <1>2

LEMMA GoingOnCovers ==
  ASSUME NEW s, NEW t, NEW p \in Plane, GoesOn(s, t, p)
  PROVE  /\ \A q : Covered(s, q) => Covered(t, q)
         /\ Len(s[Len(s)]) > 0 => \A q : OnSegment(Tip(s), p, q) => Covered(t, q)
         /\ Tip(t) = p
         /\ \A points : AllOnPath(points, s) /\ OnPath(points, p) => AllOnPath(points, t)
<1> DEFINE n == Len(s)
           before == s[n]
           after == t[n]
<1>1. n \in Nat /\ n \in 1..n /\ Len(t) = n /\ \A j \in 1..n : s[j] \in Seq(Plane)
  <2>1. s \in Seq(Seq(Plane)) /\ n > 0 /\ Len(t) = n
    BY DEF GoesOn
  <2> QED
    BY <2>1, PartsOf
<1>2. before \in Seq(Plane) /\ after = Append(before, p)
  BY <1>1 DEF GoesOn
<1>3. \A k \in 1..n - 1 : t[k] = s[k]
  BY DEF GoesOn
<1>4. /\ after \in Seq(Plane) /\ Len(before) \in Nat /\ Len(after) = Len(before) + 1
      /\ \A k \in 1..Len(before) : after[k] = before[k]
      /\ after[Len(before) + 1] = p
  <2> HIDE DEF before, after
  <2> QED
    BY <1>2, AppendedIs
<1>5. ASSUME NEW q, NEW j \in 1..n, OnPath(s[j], q) PROVE Covered(t, q)
  <2>1. CASE j = n
    <3>1. OnPath(before, q)
      BY <1>5, <2>1
    <3>2. OnPath(after, q)
      <4> HIDE DEF before, after
      <4> QED
        BY <1>2, <3>1, LongerPath
    <3> QED
      BY <1>1, <3>2 DEF Covered
  <2>2. CASE j # n
    <3>1. j \in 1..n - 1
      BY <1>1, <2>2
    <3> QED
      BY <1>1, <1>3, <1>5, <3>1 DEF Covered
  <2> QED
    BY <2>1, <2>2
<1>6. ASSUME NEW q, Len(before) > 0, OnSegment(Tip(s), p, q) PROVE Covered(t, q)
  <2>1. OnSegment(before[Len(before)], p, q)
    BY <1>6 DEF Tip
  <2>2. OnPath(after, q)
    <3> HIDE DEF before, after
    <3> QED
      BY <1>2, <1>6, <2>1, LongerPath
  <2> QED
    BY <1>1, <2>2 DEF Covered
<1>7. Tip(t) = p
  BY <1>1, <1>4 DEF Tip
<1>8. ASSUME NEW points, AllOnPath(points, s), OnPath(points, p),
             NEW j \in 1..n, NEW v \in 1..Len(t[j])
      PROVE  OnPath(points, t[j][v])
  <2>1. CASE j = n
    <3>1. v \in 1..Len(before) + 1
      BY <1>4, <2>1
    <3>2. CASE v \in 1..Len(before)
      <4>1. after[v] = before[v]
        BY <1>4, <3>2
      <4>2. OnPath(points, before[v])
        BY <1>1, <1>8, <3>2 DEF AllOnPath
      <4> QED
        BY <2>1, <4>1, <4>2
    <3>3. CASE v \notin 1..Len(before)
      <4>1. v = Len(before) + 1
        BY <1>4, <3>1, <3>3
      <4> QED
        BY <1>4, <1>8, <2>1, <4>1
    <3> QED
      BY <3>2, <3>3
  <2>2. CASE j # n
    <3>1. j \in 1..n - 1
      BY <1>1, <2>2
    <3>2. t[j] = s[j]
      BY <1>3, <3>1
    <3> QED
      BY <1>8, <3>2 DEF AllOnPath
  <2> QED
    BY <2>1, <2>2
<1>9. \A q : Covered(s, q) => Covered(t, q)
  BY <1>5 DEF Covered
<1>10. \A points : AllOnPath(points, s) /\ OnPath(points, p) => AllOnPath(points, t)
  <2> SUFFICES ASSUME NEW points, AllOnPath(points, s), OnPath(points, p)
               PROVE  AllOnPath(points, t)
    OBVIOUS
  <2>1. \A j \in 1..n : \A v \in 1..Len(t[j]) : OnPath(points, t[j][v])
    BY <1>8
  <2> QED
    BY <1>1, <2>1 DEF AllOnPath
<1> QED
  BY <1>6, <1>7, <1>9, <1>10

LEMMA BeginningCovers ==
  ASSUME NEW s, NEW t, NEW p \in Plane, BeginsAt(s, t, p)
  PROVE  /\ \A q : Covered(s, q) => Covered(t, q)
         /\ Tip(t) = p
         /\ \A points : AllOnPath(points, s) /\ OnPath(points, p) => AllOnPath(points, t)
<1> DEFINE n == Len(s)
<1>1. n \in Nat /\ Len(t) = n + 1 /\ t[n + 1] = <<p>> /\ \A j \in 1..n : t[j] = s[j]
  <2>1. s \in Seq(Seq(Plane))
    BY DEF BeginsAt
  <2> QED
    BY <2>1, PartsOf DEF BeginsAt
<1>2. ASSUME NEW q, NEW j \in 1..n, OnPath(s[j], q) PROVE Covered(t, q)
  <2>1. j \in 1..n + 1
    BY <1>1
  <2> QED
    BY <1>1, <1>2, <2>1 DEF Covered
<1>3. Len(<<p>>) = 1 /\ <<p>>[1] = p
  OBVIOUS
<1>4. Tip(t) = p
  BY <1>1, <1>3 DEF Tip
<1>5. ASSUME NEW points, AllOnPath(points, s), OnPath(points, p),
             NEW j \in 1..n + 1, NEW v \in 1..Len(t[j])
      PROVE  OnPath(points, t[j][v])
  <2>1. CASE j = n + 1
    <3>1. t[j] = <<p>>
      BY <1>1, <2>1
    <3>2. v = 1
      BY <1>3, <3>1
    <3> QED
      BY <1>3, <1>5, <3>1, <3>2
  <2>2. CASE j # n + 1
    <3>1. j \in 1..n
      BY <1>1, <2>2
    <3> QED
      BY <1>1, <1>5, <3>1 DEF AllOnPath
  <2> QED
    BY <2>1, <2>2
<1>6. \A q : Covered(s, q) => Covered(t, q)
  BY <1>2 DEF Covered
<1>7. \A points : AllOnPath(points, s) /\ OnPath(points, p) => AllOnPath(points, t)
  <2> SUFFICES ASSUME NEW points, AllOnPath(points, s), OnPath(points, p)
               PROVE  AllOnPath(points, t)
    OBVIOUS
  <2>1. \A j \in 1..n + 1 : \A v \in 1..Len(t[j]) : OnPath(points, t[j][v])
    BY <1>5
  <2> QED
    BY <1>1, <2>1 DEF AllOnPath
<1> QED
  BY <1>4, <1>6, <1>7

\* A segment in view begins a part or continues the open one, and ends it or not.
LEMMA StartedGoes ==
  ASSUME NEW c \in Parts, NEW p \in Plane
  PROVE  IF c.open THEN GoesOn(c.parts, StartedAt(c, p), p) ELSE BeginsAt(c.parts, StartedAt(c, p), p)
<1> DEFINE begun == StartedAt(c, p)
<1>1. c.parts \in Seq(Seq(Plane)) /\ Len(c.parts) \in Nat /\ (c.open => Len(c.parts) > 0)
  BY DEF Parts
<1>2. /\ begun \in Seq(Seq(Plane)) /\ Len(begun) > 0
      /\ Len(begun) = IF c.open THEN Len(c.parts) ELSE Len(c.parts) + 1
      /\ begun[Len(begun)] = IF c.open THEN Append(c.parts[Len(c.parts)], p) ELSE <<p>>
      /\ \A k \in 1..Len(begun) - 1 : begun[k] = c.parts[k]
  BY BegunIs
<1> HIDE DEF begun
<1>3. CASE c.open
  <2>1. GoesOn(c.parts, begun, p)
    BY <1>1, <1>2, <1>3 DEF GoesOn
  <2> QED
    BY <1>3, <2>1 DEF begun
<1>4. CASE ~c.open
  <2>1. Len(begun) = Len(c.parts) + 1 /\ Len(begun) - 1 = Len(c.parts)
    BY <1>1, <1>2, <1>4
  <2>2. begun[Len(c.parts) + 1] = <<p>> /\ \A k \in 1..Len(c.parts) : begun[k] = c.parts[k]
    BY <1>2, <1>4, <2>1
  <2>3. BeginsAt(c.parts, begun, p)
    BY <1>1, <1>2, <2>1, <2>2 DEF BeginsAt
  <2> QED
    BY <1>4, <2>3 DEF begun
<1> QED
  BY <1>3, <1>4

LEMMA EndedGoes ==
  ASSUME NEW s \in Seq(Seq(Plane)), Len(s) > 0, NEW p \in Plane
  PROVE  GoesOn(s, EndedAt(s, p), p)
BY EndedIs DEF GoesOn

\* What the parts hold of the first k segments: their points are on the line, and
\* they cover what is in view, but for where the open part is to go on to.
LeftOpen(points, c, k, q) == c.open /\ OnSegment(Tip(c.parts), points[k + 1], q)

DrawnUpTo(points, c, k) ==
  /\ PartsUpTo(points, c, k) /\ AllOnPath(points, c.parts)
  /\ \A i \in 1..k : \A q \in Plane :
       BitCode(q) = {} /\ OnSegment(points[i], points[i + 1], q) =>
         Covered(c.parts, q) \/ (i = k /\ LeftOpen(points, c, k, q))

\* A segment of a line that is clipped.
LEMMA SegmentLeaves ==
  ASSUME NEW a \in Plane, NEW b \in Plane, Meets(a, b)
  PROVE  LET s == ClipSegment(a, b)
         IN /\ s.a \in Plane /\ s.b \in Plane /\ Settled(s)
            /\ BitCode(a) = {} => s.a = a
            /\ OnSegment(a, b, s.a) /\ OnSegment(a, b, s.b)
            /\ \A q \in Plane : OnSegment(a, b, q) /\ BitCode(q) = {} => OnSegment(s.a, s.b, q)
            /\ Rejected(s) => \A q \in Plane : ~(OnSegment(a, b, q) /\ BitCode(q) = {})
<1> DEFINE s == ClipSegment(a, b)
           r == [a |-> a, b |-> b]
<1>1. r.a = a /\ r.b = b
  OBVIOUS
<1>2. s \in Segment /\ Settled(s) /\ (BitCode(a) = {} => s.a = a)
  BY ClipSegmentIs
<1>3. s.a \in Plane /\ s.b \in Plane
  BY <1>2 DEF Segment
<1>4. LeavesOf(r, s)
  BY ClipSegmentLeaves
<1> HIDE DEF s, r
<1>5. /\ OnSegment(a, b, s.a) /\ OnSegment(a, b, s.b)
      /\ \A q \in Plane : OnSegment(a, b, q) /\ BitCode(q) = {} => OnSegment(s.a, s.b, q)
  BY <1>1, <1>4 DEF LeavesOf
<1>6. ASSUME Rejected(s), NEW q \in Plane, OnSegment(a, b, q), BitCode(q) = {} PROVE FALSE
  <2>1. OnSegment(s.a, s.b, q)
    BY <1>5, <1>6
  <2>2. BitCode(s.a) \cap BitCode(s.b) \subseteq BitCode(q)
    BY <1>3, <2>1, BetweenSides DEF OnSegment
  <2> QED
    BY <1>6, <2>2 DEF Rejected
<1> QED
  BY <1>2, <1>3, <1>5, <1>6 DEF s

LEMMA DrawnNext ==
  ASSUME NEW points \in Seq(Plane), NEW k \in Nat, k + 1 <= Len(points) - 1,
         Meets(points[k + 1], points[k + 2]), NEW c, DrawnUpTo(points, c, k)
  PROVE  DrawnUpTo(points, ClipPart(points, c, k + 1), k + 1)
<1> DEFINE i == k + 1
           s == ClipSegment(points[i], points[i + 1])
           begun == StartedAt(c, s.a)
           ended == EndedAt(begun, s.b)
           ends == s.b # points[i + 1] \/ i = Len(points) - 1
           d == ClipPart(points, c, i)
           Here(q) == q \in Plane /\ BitCode(q) = {} /\ OnSegment(points[i], points[i + 1], q)
           Earlier(q) == q \in Plane /\ BitCode(q) = {}
                         /\ \E j \in 1..k : OnSegment(points[j], points[j + 1], q)
<1>1. i \in 1..Len(points) - 1 /\ c \in Parts /\ Len(points) \in Nat /\ i + 1 = k + 2
  BY DEF DrawnUpTo, PartsUpTo
<1>2. points[i] \in Plane /\ points[i + 1] \in Plane /\ Meets(points[i], points[i + 1])
  BY <1>1, SegmentOf
<1>3. /\ s.a \in Plane /\ s.b \in Plane /\ Settled(s)
      /\ BitCode(points[i]) = {} => s.a = points[i]
      /\ OnSegment(points[i], points[i + 1], s.a) /\ OnSegment(points[i], points[i + 1], s.b)
      /\ \A q : Here(q) => OnSegment(s.a, s.b, q)
      /\ Rejected(s) => \A q : ~Here(q)
  BY <1>2, SegmentLeaves
<1>4. PartsUpTo(points, d, i)
  BY PartsNext DEF DrawnUpTo
<1>5. IF Rejected(s) THEN d = c ELSE d = [parts |-> IF ends THEN ended ELSE begun, open |-> ~ends]
  BY ClipPartDoes DEF ClipPartIs
<1>6. c.open => BitCode(points[i]) = {}
  BY DEF DrawnUpTo, PartsUpTo
<1>7. OnPath(points, s.a) /\ OnPath(points, s.b)
  BY <1>1, <1>3 DEF OnPath
<1>8. \A q : Earlier(q) => Covered(c.parts, q) \/ LeftOpen(points, c, k, q)
  BY DEF DrawnUpTo
<1>9. ASSUME AllOnPath(points, d.parts),
             \A q : Earlier(q) => Covered(d.parts, q),
             \A q : Here(q) => Covered(d.parts, q) \/ LeftOpen(points, d, i, q)
      PROVE  DrawnUpTo(points, d, i)
  <2> HIDE DEF d
  <2>1. ASSUME NEW j \in 1..i, NEW q \in Plane, BitCode(q) = {},
               OnSegment(points[j], points[j + 1], q)
        PROVE  Covered(d.parts, q) \/ (j = i /\ LeftOpen(points, d, i, q))
    <3>1. CASE j = i
      BY <1>9, <2>1, <3>1
    <3>2. CASE j # i
      <4>1. j \in 1..k
        BY <3>2
      <4>2. Earlier(q)
        BY <2>1, <4>1
      <4> QED
        BY <1>9, <4>2
    <3> QED
      BY <3>1, <3>2
  <2> QED
    BY <1>4, <1>9, <2>1 DEF DrawnUpTo
<1>10. AllOnPath(points, c.parts)
  BY DEF DrawnUpTo
<1> HIDE DEF d, s, Here, Earlier, ends
<1>11. CASE Rejected(s)
  <2>1. ~c.open
    <3>1. BitCode(points[i]) = {} => BitCode(s.a) = {}
      BY <1>3
    <3> QED
      BY <1>6, <1>11, <3>1 DEF Rejected
  <2>2. d = c
    BY <1>5, <1>11
  <2>3. \A q : Earlier(q) => Covered(c.parts, q)
    BY <1>8, <2>1 DEF LeftOpen
  <2>4. \A q : ~Here(q)
    BY <1>3, <1>11
  <2>5. DrawnUpTo(points, d, i)
    BY <1>9, <1>10, <2>2, <2>3, <2>4
  <2> QED
    BY <2>5 DEF d
<1>12. CASE ~Rejected(s)
  <2>1. begun \in Seq(Seq(Plane)) /\ Len(begun) > 0
    BY <1>1, <1>3, BegunIs
  <2>2. IF c.open THEN GoesOn(c.parts, begun, s.a) ELSE BeginsAt(c.parts, begun, s.a)
    BY <1>1, <1>3, StartedGoes
  <2>3. GoesOn(begun, ended, s.b)
    BY <1>3, <2>1, EndedGoes
  <2> HIDE DEF begun, ended
  <2>4. /\ \A q : Covered(c.parts, q) => Covered(begun, q)
        /\ Tip(begun) = s.a
        /\ \A path : AllOnPath(path, c.parts) /\ OnPath(path, s.a) => AllOnPath(path, begun)
    <3>1. CASE c.open
      <4>1. GoesOn(c.parts, begun, s.a)
        BY <2>2, <3>1
      <4> QED
        BY <1>3, <4>1, GoingOnCovers
    <3>2. CASE ~c.open
      <4>1. BeginsAt(c.parts, begun, s.a)
        BY <2>2, <3>2
      <4> QED
        BY <1>3, <4>1, BeginningCovers
    <3> QED
      BY <3>1, <3>2
  <2>5. AllOnPath(points, begun)
    BY <1>7, <1>10, <2>4
  <2>6. ASSUME NEW q, LeftOpen(points, c, k, q) PROVE Covered(begun, q)
    <3>1. c.open /\ GoesOn(c.parts, begun, s.a) /\ s.a = points[i]
      BY <1>3, <1>6, <2>2, <2>6 DEF LeftOpen
    <3>2. OnSegment(Tip(c.parts), s.a, q)
      BY <2>6, <3>1 DEF LeftOpen
    <3>3. Len(c.parts[Len(c.parts)]) > 0
      <4> DEFINE m == Len(c.parts)
      <4>1. c.parts \in Seq(Seq(Plane)) /\ m > 0
        BY <1>1, <3>1 DEF Parts
      <4>2. m \in Nat /\ m \in 1..m
        BY <4>1, PartsOf
      <4>3. Len(c.parts[m]) >= 1 /\ Len(c.parts[m]) \in Nat
        <5>1. Long(c.parts, c.open)
          BY DEF DrawnUpTo, PartsUpTo
        <5>2. Len(c.parts[m]) >= 1
          BY <3>1, <4>2, <5>1 DEF Long
        <5>3. Len(c.parts[m]) \in Nat
          BY <4>1, <4>2, PartsOf
        <5> QED
          BY <5>2, <5>3
      <4> QED
        BY <4>3
    <3> QED
      BY <1>3, <3>1, <3>2, <3>3, GoingOnCovers
  <2>7. \A q : Earlier(q) => Covered(begun, q)
    BY <1>8, <2>4, <2>6
  <2>8. CASE ~ends
    <3>1. d.parts = begun /\ d.open = TRUE
      <4>1. d = [parts |-> begun, open |-> ~ends]
        BY <1>5, <1>12, <2>8
      <4> QED
        BY <2>8, <4>1
    <3>2. s.b = points[i + 1]
      BY <2>8 DEF ends
    <3>3. ASSUME NEW q, Here(q) PROVE LeftOpen(points, d, i, q)
      <4>1. OnSegment(Tip(begun), points[i + 1], q)
        BY <1>3, <2>4, <3>2, <3>3
      <4> QED
        BY <3>1, <4>1 DEF LeftOpen
    <3>4. DrawnUpTo(points, d, i)
      BY <1>9, <2>5, <2>7, <3>1, <3>3
    <3> QED
      BY <3>4 DEF d
  <2>9. CASE ends
    <3>1. d.parts = ended
      <4>1. d = [parts |-> ended, open |-> ~ends]
        BY <1>5, <1>12, <2>9
      <4> QED
        BY <4>1
    <3>2. Len(begun[Len(begun)]) > 0
      <4> DEFINE m == Len(begun)
      <4>1. m \in 1..m
        BY <2>1, PartsOf
      <4>2. begun[m] \in Seq(Plane)
        BY <2>1, <4>1, PartsOf
      <4>3. \E before \in Seq(Plane) : begun[m] = Append(before, s.a)
        <5>1. CASE c.open
          <6>1. c.parts \in Seq(Seq(Plane)) /\ Len(c.parts) > 0 /\ Len(begun) = Len(c.parts)
                /\ begun[Len(c.parts)] = Append(c.parts[Len(c.parts)], s.a)
            BY <2>2, <5>1 DEF GoesOn
          <6>2. Len(c.parts) \in 1..Len(c.parts)
            BY <6>1, PartsOf
          <6>3. c.parts[Len(c.parts)] \in Seq(Plane)
            BY <6>1, <6>2, PartsOf
          <6> QED
            BY <6>1, <6>3
        <5>2. CASE ~c.open
          <6>1. begun[m] = <<s.a>>
            BY <2>2, <5>2 DEF BeginsAt
          <6>2. <<>> \in Seq(Plane) /\ Append(<<>>, s.a) = <<s.a>>
            OBVIOUS
          <6> QED
            BY <6>1, <6>2
        <5> QED
          BY <5>1, <5>2
      <4>4. PICK before \in Seq(Plane) : begun[m] = Append(before, s.a)
        BY <4>3
      <4>5. Len(begun[m]) = Len(before) + 1 /\ Len(before) \in Nat
        BY <1>3, <4>4, AppendedIs
      <4> QED
        BY <4>5
    <3>3. /\ \A q : Covered(begun, q) => Covered(ended, q)
          /\ \A q : OnSegment(Tip(begun), s.b, q) => Covered(ended, q)
          /\ \A path : AllOnPath(path, begun) /\ OnPath(path, s.b) => AllOnPath(path, ended)
      BY <1>3, <2>3, <3>2, GoingOnCovers
    <3>4. ASSUME NEW q, Here(q) PROVE Covered(ended, q)
      BY <1>3, <2>4, <3>3, <3>4
    <3>5. DrawnUpTo(points, d, i)
      BY <1>7, <1>9, <2>5, <2>7, <3>1, <3>3, <3>4
    <3> QED
      BY <3>5 DEF d
  <2> QED
    BY <2>8, <2>9
<1> QED
  BY <1>11, <1>12

\* A clipped line is exactly what is in view of the line.
LEMMA LineDrawn ==
  ASSUME NEW points \in Seq(Plane), Len(points) > 1,
         \A i \in 1..Len(points) - 1 : Meets(points[i], points[i + 1])
  PROVE  /\ AllOnPath(points, ClipPoints(points))
         /\ \A i \in 1..Len(points) - 1 : \A q \in Plane :
              BitCode(q) = {} /\ OnSegment(points[i], points[i + 1], q) =>
                Covered(ClipPoints(points), q)
<1> DEFINE n == Len(points) - 1
<1>1. n \in Nat /\ n > 0
  OBVIOUS
<1>2. PICK made : /\ made[0] = [parts |-> <<>>, open |-> FALSE]
                  /\ \A k \in 1..n : made[k] = ClipPart(points, made[k - 1], k)
                  /\ ClipPoints(points) = made[n].parts
  BY ClipPointsFold
<1> DEFINE T == {k \in Nat : k <= n => DrawnUpTo(points, made[k], k)}
<1>3. 0 \in T
  <2>1. made[0] \in Parts /\ made[0].parts = <<>> /\ made[0].open = FALSE
    BY <1>2 DEF Parts
  <2>2. DrawnUpTo(points, made[0], 0)
    BY <2>1 DEF DrawnUpTo, PartsUpTo, Long, AllOnPath
  <2> QED
    BY <2>2
<1>4. ASSUME NEW k \in Nat, k \in T PROVE k + 1 \in T
  <2> SUFFICES ASSUME k + 1 <= n PROVE DrawnUpTo(points, made[k + 1], k + 1)
    OBVIOUS
  <2>1. k + 1 \in 1..n /\ (k + 1) - 1 = k /\ (k + 1) + 1 = k + 2 /\ DrawnUpTo(points, made[k], k)
    BY <1>1, <1>4
  <2>2. made[k + 1] = ClipPart(points, made[k], k + 1)
    BY <1>2, <2>1
  <2>3. Meets(points[k + 1], points[k + 2])
    BY <2>1
  <2> QED
    BY <2>1, <2>2, <2>3, DrawnNext
<1>5. Nat \subseteq T
  <2> HIDE DEF T
  <2> QED
    BY <1>3, <1>4, SetInduction
<1>6. DrawnUpTo(points, made[n], n)
  BY <1>1, <1>5
<1>7. ~made[n].open
  BY <1>1, <1>6 DEF DrawnUpTo, PartsUpTo
<1>8. \A i \in 1..n : \A q \in Plane :
        BitCode(q) = {} /\ OnSegment(points[i], points[i + 1], q) => Covered(made[n].parts, q)
  BY <1>6, <1>7 DEF DrawnUpTo, LeftOpen
<1>9. AllOnPath(points, made[n].parts)
  BY <1>6 DEF DrawnUpTo
<1> QED
  BY <1>2, <1>8, <1>9

\* The points that divide a segment of the grid are on it.
LEMMA SampleIs ==
  ASSUME NEW u \in Grid, NEW v \in Grid, NEW k \in 0..Unit
  PROVE  u * Unit + ((v * Unit - u * Unit) * k) \div Unit = u * Unit + (v - u) * k
<1>1. u \in Int /\ v \in Int /\ k \in Int /\ Unit \in Nat \ {0}
  BY GridAssumption, UnitAssumption
<1> DEFINE m == (v - u) * k
           n == (v * Unit - u * Unit) * k
<1>2. m \in Int /\ n = m * Unit
  <2>1. v * Unit - u * Unit = (v - u) * Unit
    BY <1>1
  <2>2. ((v - u) * Unit) * k = ((v - u) * k) * Unit
    BY <1>1
  <2> QED
    BY <1>1, <2>1, <2>2
<1> HIDE DEF m, n
<1>3. Quotient(m * Unit, Unit) = m
  BY <1>1, <1>2, ExactQuotient
<1>4. Quotient(n, Unit) = n \div Unit
  BY <1>1 DEF Quotient
<1>5. n \div Unit = m
  BY <1>2, <1>3, <1>4
<1> QED
  BY <1>5 DEF m, n

LEMMA SampleBetween ==
  ASSUME NEW u \in Grid, NEW v \in Grid, NEW k \in 0..Unit
  PROVE  /\ u * Unit + (v - u) * k \in Int
         /\ Middle(u * Unit, u * Unit + (v - u) * k, v * Unit)
<1>1. u \in Int /\ v \in Int /\ k \in Nat /\ Unit \in Nat /\ k <= Unit
  BY GridAssumption, UnitAssumption
<1> DEFINE e == v - u
<1>2. e \in Int /\ v * Unit = u * Unit + e * Unit /\ u * Unit \in Int
  BY <1>1
<1> HIDE DEF e
<1>3. IF e >= 0 THEN 0 <= e * k /\ e * k <= e * Unit ELSE e * Unit <= e * k /\ e * k <= 0
  BY <1>1, <1>2, ProductBetween
<1>4. e * k \in Int /\ e * Unit \in Int
  BY <1>1, <1>2
<1> DEFINE a == u * Unit
           m == e * k
           n == e * Unit
<1>5. a \in Int /\ m \in Int /\ n \in Int /\ ((0 <= m /\ m <= n) \/ (n <= m /\ m <= 0))
  BY <1>2, <1>3, <1>4
<1> HIDE DEF a, m, n
<1>6. a + m \in Int /\ Middle(a, a + m, a + n)
  BY <1>5 DEF Middle
<1> QED
  BY <1>2, <1>6 DEF a, m, n, e

LEMMA SamplesOnSegment ==
  ASSUME NEW a \in GridPoints, NEW b \in GridPoints, NEW q \in Samples(a, b)
  PROVE  q \in Plane /\ OnSegment(a, b, q)
<1>1. PICK ax \in Grid, ay \in Grid : a = Point(ax * Unit, ay * Unit)
  BY DEF GridPoints
<1>2. PICK bx \in Grid, by \in Grid : b = Point(bx * Unit, by * Unit)
  BY DEF GridPoints
<1>3. a.x = ax * Unit /\ a.y = ay * Unit /\ b.x = bx * Unit /\ b.y = by * Unit
  BY <1>1, <1>2 DEF Point
<1>4. PICK k \in 0..Unit : q = Point(a.x + ((b.x - a.x) * k) \div Unit, a.y + ((b.y - a.y) * k) \div Unit)
  BY DEF Samples
<1>5. q.x = a.x + ((b.x - a.x) * k) \div Unit /\ q.y = a.y + ((b.y - a.y) * k) \div Unit
      /\ q = [x |-> q.x, y |-> q.y]
  BY <1>4 DEF Point
<1>6. q.x = ax * Unit + (bx - ax) * k /\ q.y = ay * Unit + (by - ay) * k
  BY <1>3, <1>5, SampleIs
<1>7. q.x \in Int /\ q.y \in Int /\ Middle(a.x, q.x, b.x) /\ Middle(a.y, q.y, b.y)
  BY <1>3, <1>6, SampleBetween
<1>8. q \in Plane
  BY <1>5, <1>7 DEF Plane
<1>9. ax \in Int /\ ay \in Int /\ bx \in Int /\ by \in Int /\ k \in Int /\ Unit \in Int
  BY GridAssumption, UnitAssumption
<1>10. Cross(a, b, q) = 0
  <2> DEFINE dx == bx - ax
             dy == by - ay
  <2>1. b.x - a.x = dx * Unit /\ b.y - a.y = dy * Unit /\ q.x - a.x = dx * k /\ q.y - a.y = dy * k
        /\ dx \in Int /\ dy \in Int
    BY <1>3, <1>6, <1>9
  <2> HIDE DEF dx, dy
  <2>2. (dx * k) * (dy * Unit) = (dx * Unit) * (dy * k)
    BY <1>9, <2>1
  <2>3. (q.x - a.x) * (b.y - a.y) = (b.x - a.x) * (q.y - a.y)
    BY <2>1, <2>2
  <2>4. a \in Plane /\ b \in Plane
    BY GridInPlane
  <2> QED
    BY <1>8, <2>3, <2>4, CrossIs
<1> QED
  BY <1>7, <1>8, <1>10 DEF OnSegment

\* Lines are clipped exactly.
LEMMA LineIsExact ==
  ASSUME NEW points \in Seq(GridPoints), Len(points) > 1
  PROVE  ClippedLine(points, ClipPoints(points))
<1> DEFINE parts == ClipPoints(points)
           n == Len(points) - 1
<1>1. points \in Seq(Plane) /\ Len(points) > 0 /\ n \in Nat
  BY GridInPlane, SeqOfMore
<1>2. ASSUME NEW i \in 1..n
      PROVE  points[i] \in GridPoints /\ points[i + 1] \in GridPoints
  <2>1. i \in 1..Len(points) /\ i + 1 \in 1..Len(points)
    BY <1>1
  <2> QED
    BY <2>1, ElementOfSeq
<1>3. \A i \in 1..n : Meets(points[i], points[i + 1])
  BY <1>2, GridMeets
<1>4. /\ AllOnPath(points, parts)
      /\ \A i \in 1..n : \A q \in Plane :
           BitCode(q) = {} /\ OnSegment(points[i], points[i + 1], q) => Covered(parts, q)
  BY <1>1, <1>3, LineDrawn
<1>5. AllInView(parts)
  BY <1>1, LineInView
<1>6. parts \in Seq(Seq(Plane))
  BY <1>1, PartsAreLines
<1> HIDE DEF parts, n
<1>7. Len(parts) \in Nat /\ DOMAIN parts = 1..Len(parts)
      /\ \A j \in 1..Len(parts) : DOMAIN parts[j] = 1..Len(parts[j])
  <2>1. \A j \in 1..Len(parts) : parts[j] \in Seq(Plane)
    BY <1>6, PartsOf
  <2>2. \A s \in Seq(Plane) : DOMAIN s = 1..Len(s)
    OBVIOUS
  <2>3. Len(parts) \in Nat /\ DOMAIN parts = 1..Len(parts)
    BY <1>6
  <2> QED
    BY <2>1, <2>2, <2>3
<1>8. ASSUME NEW part \in Range(parts), NEW v \in Range(part)
      PROVE  InView(v) /\ OnPath(points, v)
  <2>1. PICK j \in 1..Len(parts) : part = parts[j]
    BY <1>7 DEF Range
  <2>2. PICK l \in 1..Len(parts[j]) : v = parts[j][l]
    BY <1>7, <2>1 DEF Range
  <2> QED
    BY <1>4, <1>5, <2>2 DEF AllInView, AllOnPath
<1>9. ASSUME NEW i \in 1..n, NEW q \in Samples(points[i], points[i + 1]), InView(q)
      PROVE  \E part \in Range(parts) : OnPath(part, q)
  <2>1. q \in Plane /\ OnSegment(points[i], points[i + 1], q)
    BY <1>2, SamplesOnSegment
  <2>2. BitCode(q) = {}
    BY <1>9, <2>1, InViewIs
  <2>3. PICK j \in 1..Len(parts) : OnPath(parts[j], q)
    BY <1>4, <2>1, <2>2 DEF Covered
  <2>4. parts[j] \in Range(parts)
    BY <1>7 DEF Range
  <2> QED
    BY <2>3, <2>4
<1>10. ClippedLine(points, parts)
  BY <1>8, <1>9 DEF ClippedLine, OnPath, n
<1> QED
  BY <1>10 DEF parts

-------------------------------------------------------------------------------
\* Shapes drawn.

LEMMA ShapesExact == GeInv => ClippedExactly
<1> SUFFICES ASSUME GeInv, geo.kind = "clip", Len(geo.points) > 1 PROVE ClippedExactly
  BY DEF ClippedExactly
<1>1. geo.points \in Seq(GridPoints) /\ geo.points \in Seq(Plane)
  BY DEF GeInv
<1>2. BoundsDecide(geo.points)
  BY <1>1, BoundsDecideAll
<1>3. ClippedLine(geo.points, ClipPoints(geo.points))
  BY <1>1, LineIsExact
<1>4. LET rings == ClipRings(<<geo.points>>)
      IN ClippedPolygon(geo.points, IF rings = <<>> THEN <<>> ELSE rings[1])
  BY <1>1, PolygonIsExact
<1> QED
  BY <1>2, <1>3, <1>4 DEF ClippedExactly

\* What is drawn of a shape is what lies in view of it: the parts of a line cover
\* it and nothing else, the clipped polygon has the same points of the view
\* inside, and what is in view is simplified within the tolerance (L.LineUtil.clipSegment,
\* Polyline._clipPoints, L.PolyUtil.clipPolygon, Polygon._clipPoints and
\* L.LineUtil.simplify).
THEOREM ShapesDrawnAsGiven == GeSpec => []DrawnAsGiven
<1>1. GeInv => DrawnAsGiven
  BY ShapesExact, EverythingWithin DEF DrawnAsGiven
<1>2. GeSpec => []GeInv
  BY ShapeInvariant
<1> QED
  BY <1>1, <1>2, PTL
===============================================================================
