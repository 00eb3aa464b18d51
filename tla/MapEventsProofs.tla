---------------------------- MODULE MapEventsProofs ----------------------------
(***************************************************************************)
(* What the proofs about the map page rest on, and the event mixin, for    *)
(* any listeners, events and depth of dispatch.                            *)
(* First what proofs about folds need: induction over the numbers, which   *)
(* is WFMin of WellFoundedInduction in first-order form, and that a fold   *)
(* is what its steps make one after the other. Then the mixin: what the    *)
(* count of contexts counts, that no dispatch calls a removed listener,    *)
(* and its types.                                                          *)
(***************************************************************************)
EXTENDS MapEvents, WellFoundedInduction, SequenceTheorems, FiniteSetTheorems, TLAPS

-------------------------------------------------------------------------------
\* Induction and folds.

\* Induction: a set that holds 0 and, with a number, the next holds them all.
LEMMA SetInduction ==
  ASSUME NEW T, 0 \in T, \A n \in Nat : n \in T => n + 1 \in T
  PROVE  Nat \subseteq T
<1> DEFINE R == {p \in Nat \X Nat : p[1] < p[2]}
           Bad == Nat \ T
<1>1. IsWellFoundedOn(R, Nat)
  BY NatLessThanWellFounded DEF OpToRel
<1> SUFFICES ASSUME Bad # {} PROVE FALSE
  OBVIOUS
<1>2. PICK x \in Bad : \A y \in Bad : ~(<<y, x>> \in R)
  <2>1. Bad \subseteq Nat
    OBVIOUS
  <2> HIDE DEF R, Bad
  <2> QED
    BY <1>1, <2>1, WFMin
<1>3. x \in Nat /\ x # 0
  OBVIOUS
<1>4. x - 1 \in Nat /\ x - 1 < x /\ x = (x - 1) + 1
  BY <1>3
<1>5. x - 1 \in Bad
  BY <1>3, <1>4
<1>6. <<x - 1, x>> \in R
  BY <1>3, <1>4
<1> QED
  BY <1>2, <1>5, <1>6

\* Strong induction: a set that holds a number when it holds all below it.
LEMMA BelowInduction ==
  ASSUME NEW T, \A n \in Nat : (\A m \in 0..n - 1 : m \in T) => n \in T
  PROVE  Nat \subseteq T
<1> DEFINE U == {n \in Nat : \A m \in 0..n : m \in T}
<1>1. 0 \in U
  <2>1. 0 \in T
    OBVIOUS
  <2> QED
    BY <2>1
<1>2. ASSUME NEW n \in Nat, n \in U PROVE n + 1 \in U
  <2>1. \A m \in 0..(n + 1) - 1 : m \in T
    BY <1>2
  <2>2. n + 1 \in T
    BY <2>1
  <2> QED
    BY <1>2, <2>2
<1>3. Nat \subseteq U
  <2> HIDE DEF U
  <2> QED
    BY <1>1, <1>2, SetInduction
<1> QED
  BY <1>3

\* Subsets of intervals.
LEMMA EmptyInterval == ASSUME NEW s \in SUBSET (1..0) PROVE s = {}
<1>1. 1..0 = {}
  OBVIOUS
<1> QED
  BY <1>1

LEMMA NextInterval ==
  ASSUME NEW k \in Nat, NEW s \in SUBSET (1..k + 1)
  PROVE  s \ {k + 1} \in SUBSET (1..k) /\ (k + 1 \notin s => s \in SUBSET (1..k))
<1>1. \A y \in s : y # k + 1 => y \in 1..k
  OBVIOUS
<1> QED
  BY <1>1

LEMMA LongerInterval ==
  ASSUME NEW k \in Nat, NEW s \in SUBSET (1..k)
  PROVE  s \in SUBSET (1..k + 1)
<1>1. \A y \in 1..k : y \in 1..k + 1
  OBVIOUS
<1> QED
  BY <1>1

\* The maximum of numbers that are bounded.
LEMMA MaxOfNumbers ==
  ASSUME NEW n \in Nat, NEW s \in SUBSET (1..n), s # {}
  PROVE  Max(s) \in s /\ \A y \in s : Max(s) >= y
<1> DEFINE T == {k \in Nat : \A u \in SUBSET (1..k) : u # {} => \E x \in u : \A y \in u : x >= y}
<1>1. 0 \in T
  BY EmptyInterval
<1>2. ASSUME NEW k \in Nat, k \in T PROVE k + 1 \in T
  <2> SUFFICES ASSUME NEW u \in SUBSET (1..k + 1), u # {}
               PROVE  \E x \in u : \A y \in u : x >= y
    OBVIOUS
  <2>1. CASE k + 1 \in u
    BY <2>1
  <2>2. CASE k + 1 \notin u
    <3>1. u \in SUBSET (1..k)
      BY <2>2, NextInterval
    <3> QED
      BY <1>2, <3>1
  <2> QED
    BY <2>1, <2>2
<1>3. Nat \subseteq T
  <2> HIDE DEF T
  <2> QED
    BY <1>1, <1>2, SetInduction
<1>4. \E x \in s : \A y \in s : x >= y
  BY <1>3
<1> QED
  BY <1>4 DEF Max

\* An interval is its last number and the interval before it.
LEMMA Interval ==
  ASSUME NEW k \in Nat, k > 0
  PROVE  /\ 1..k # {} /\ Max(1..k) = k /\ (1..k) \ {k} = 1..k - 1
<1>1. (1..k) \in SUBSET (1..k) /\ k \in 1..k
  OBVIOUS
<1>2. Max(1..k) \in 1..k /\ Max(1..k) >= k
  BY <1>1, MaxOfNumbers
<1> QED
  BY <1>1, <1>2

\* A fold fills a table with what it makes of each set of positions.  There is
\* such a table for any step that keeps to a set of results.
Table(t, step, base, n) ==
  t = [s \in SUBSET (1..n) |->
         IF s = {} THEN base ELSE step[<<t[s \ {Max(s)}], Max(s)>>]]

HasTable(step, base, Results, n) ==
  \E t \in [SUBSET (1..n) -> Results] : Table(t, step, base, n)

LEMMA TableExists ==
  ASSUME NEW n \in Nat, NEW Results, NEW base \in Results,
         NEW step \in [Results \X (1..n) -> Results]
  PROVE  HasTable(step, base, Results, n)
<1> DEFINE T == {k \in Nat : k <= n => HasTable(step, base, Results, k)}
<1>1. 0 \in T
  <2> DEFINE t == [s \in SUBSET (1..0) |-> base]
  <2>1. \A s \in SUBSET (1..0) : s = {}
    BY EmptyInterval
  <2>2. t = [s \in SUBSET (1..0) |->
               IF s = {} THEN base ELSE step[<<t[s \ {Max(s)}], Max(s)>>]]
    BY <2>1
  <2>3. t \in [SUBSET (1..0) -> Results] /\ Table(t, step, base, 0)
    BY <2>2 DEF Table
  <2> QED
    BY <2>3 DEF HasTable
<1>2. ASSUME NEW k \in Nat, k \in T PROVE k + 1 \in T
  <2> SUFFICES ASSUME k + 1 <= n
               PROVE  HasTable(step, base, Results, k + 1)
    OBVIOUS
  <2>1. PICK t \in [SUBSET (1..k) -> Results] : Table(t, step, base, k)
    <3>1. HasTable(step, base, Results, k)
      BY <1>2
    <3> QED
      BY <3>1 DEF HasTable
  <2> DEFINE u == [s \in SUBSET (1..k + 1) |->
                     IF k + 1 \in s THEN step[<<t[s \ {k + 1}], k + 1>>] ELSE t[s]]
  <2>2. ASSUME NEW s \in SUBSET (1..k + 1), k + 1 \in s
        PROVE  /\ s \ {k + 1} \in SUBSET (1..k) /\ Max(s) = k + 1 /\ s # {}
               /\ u[s] = step[<<t[s \ {k + 1}], k + 1>>] /\ u[s] \in Results
               /\ u[s \ {k + 1}] = t[s \ {k + 1}]
    <3>1. s \ {k + 1} \in SUBSET (1..k) /\ s \ {k + 1} \in SUBSET (1..k + 1)
      BY NextInterval
    <3>2. Max(s) \in s /\ Max(s) >= k + 1
      <4>1. k + 1 \in Nat /\ s # {}
        BY <2>2
      <4> HIDE DEF u
      <4>2. Max(s) \in s /\ \A y \in s : Max(s) >= y
        BY <4>1, MaxOfNumbers
      <4> QED
        BY <2>2, <4>2
    <3>3. u[s] = step[<<t[s \ {k + 1}], k + 1>>] /\ u[s \ {k + 1}] = t[s \ {k + 1}]
      BY <2>2, <3>1
    <3>4. t[s \ {k + 1}] \in Results /\ k + 1 \in 1..n
      BY <3>1
    <3>5. step[<<t[s \ {k + 1}], k + 1>>] \in Results
      BY <3>4
    <3>6. Max(s) = k + 1
      <4> DEFINE z == Max(s)
      <4>1. z \in 1..k + 1 /\ z >= k + 1
        BY <3>2
      <4> HIDE DEF z
      <4>2. z = k + 1
        BY <4>1
      <4> QED
        BY <4>2 DEF z
    <3> HIDE DEF u
    <3> QED
      BY <2>2, <3>1, <3>3, <3>5, <3>6
  <2>3. ASSUME NEW s \in SUBSET (1..k + 1), k + 1 \notin s
        PROVE  /\ u[s] = t[s] /\ u[s] \in Results
               /\ u[s] = IF s = {} THEN base ELSE step[<<u[s \ {Max(s)}], Max(s)>>]
    <3>1. s \in SUBSET (1..k) /\ s \ {Max(s)} \in SUBSET (1..k)
          /\ s \ {Max(s)} \in SUBSET (1..k + 1)
      <4>1. s \in SUBSET (1..k)
        BY <2>3, NextInterval
      <4> DEFINE z == Max(s)
      <4> HIDE DEF z
      <4>2. s \ {z} \in SUBSET (1..k) /\ s \ {z} \in SUBSET (1..k + 1)
        BY <4>1
      <4> QED
        BY <4>1, <4>2 DEF z
    <3>2. u[s] = t[s] /\ u[s \ {Max(s)}] = t[s \ {Max(s)}]
      BY <2>3, <3>1
    <3>3. t[s] = IF s = {} THEN base ELSE step[<<t[s \ {Max(s)}], Max(s)>>]
      <4> HIDE DEF u
      <4> QED
      BY <2>1, <3>1 DEF Table
    <3> QED
      BY <3>1, <3>2, <3>3
  <2>4. u \in [SUBSET (1..k + 1) -> Results]
    BY <2>2, <2>3
  <2>5. Table(u, step, base, k + 1)
    <3>1. \A s \in SUBSET (1..k + 1) :
            u[s] = IF s = {} THEN base ELSE step[<<u[s \ {Max(s)}], Max(s)>>]
      BY <2>2, <2>3
    <3> HIDE DEF u
    <3> QED
      BY <2>4, <3>1 DEF Table
  <2> HIDE DEF u
  <2> QED
    BY <2>4, <2>5 DEF HasTable
<1>3. Nat \subseteq T
  <2> HIDE DEF T
  <2> QED
    BY <1>1, <1>2, SetInduction
<1> QED
  BY <1>3
\* Of the table the fold shows what it makes of all positions: what the steps
\* make one after the other.
StepsFrom(made, step, base, n) ==
  made[0] = base /\ \A k \in 1..n : made[k] = step[<<made[k - 1], k>>]

Unfolds(t, step, Results, base, n) ==
  /\ t[{}] = base
  /\ \A k \in 1..n : t[1..k - 1] \in Results => t[1..k] = step[<<t[1..k - 1], k>>]

HasSteps(step, Results, base, n, result) ==
  \E made \in [0..n -> Results] : StepsFrom(made, step, base, n) /\ made[n] = result

LEMMA TableRow ==
  ASSUME NEW n \in Nat, NEW k \in 1..n
  PROVE  /\ (1..k) \in SUBSET (1..n) /\ 1..k # {} /\ Max(1..k) = k /\ (1..k) \ {k} = 1..k - 1
         /\ k - 1 \in 0..n /\ k \in 0..n
<1>1. k \in Nat /\ k > 0
  OBVIOUS
<1> QED
  BY <1>1, Interval

LEMMA StepsOfTable ==
  ASSUME NEW n \in Nat, NEW Results, NEW base \in Results,
         NEW step \in [Results \X (1..n) -> Results],
         NEW t, Unfolds(t, step, Results, base, n)
  PROVE  HasSteps(step, Results, base, n, t[1..n])
<1> DEFINE made == [k \in 0..n |-> t[1..k]]
           T == {k \in Nat : k <= n => made[k] \in Results}
<1>1. made[0] = base
  BY EmptyInterval DEF Unfolds
<1>2. ASSUME NEW k \in 1..n, made[k - 1] \in Results PROVE made[k] = step[<<made[k - 1], k>>]
  <2>1. k - 1 \in 0..n /\ k \in 0..n
    BY TableRow
  <2>2. made[k - 1] = t[1..k - 1] /\ made[k] = t[1..k]
    BY <2>1
  <2> HIDE DEF made
  <2> QED
    BY <1>2, <2>2 DEF Unfolds
<1>3. 0 \in T
  BY <1>1
<1>4. ASSUME NEW k \in Nat, k \in T PROVE k + 1 \in T
  <2> SUFFICES ASSUME k + 1 <= n PROVE made[k + 1] \in Results
    OBVIOUS
  <2>1. k + 1 \in 1..n /\ (k + 1) - 1 = k /\ made[k] \in Results
    BY <1>4
  <2> HIDE DEF made
  <2>2. made[k + 1] = step[<<made[k], k + 1>>]
    BY <1>2, <2>1
  <2> QED
    BY <2>1, <2>2
<1>5. Nat \subseteq T
  <2> HIDE DEF T
  <2> QED
    BY <1>3, <1>4, SetInduction
<1>6. \A k \in 0..n : made[k] \in Results
  <2> HIDE DEF made
  <2> QED
    BY <1>5
<1>7. \A k \in 1..n : made[k] = step[<<made[k - 1], k>>]
  <2> HIDE DEF made
  <2> QED
    BY <1>2, <1>6, TableRow
<1>8. made \in [0..n -> Results] /\ made[n] = t[1..n]
  BY <1>6
<1> HIDE DEF made
<1> QED
  BY <1>1, <1>7, <1>8 DEF StepsFrom, HasSteps

-------------------------------------------------------------------------------
(* The event mixin.                                                         *)

IsSeq(q) == \E S : q \in Seq(S)

\* Sequences of anything.
LEMMA SeqDomain ==
  ASSUME NEW q, IsSeq(q)
  PROVE  Len(q) \in Nat /\ DOMAIN q = 1..Len(q)
<1> QED
  BY DEF IsSeq

LEMMA SeqAppend ==
  ASSUME NEW q, IsSeq(q), NEW e
  PROVE  /\ IsSeq(Append(q, e)) /\ Len(Append(q, e)) = Len(q) + 1 /\ Append(q, e) # <<>>
         /\ Append(q, e)[Len(q) + 1] = e
         /\ \A i \in 1..Len(q) : Append(q, e)[i] = q[i]
<1>1. PICK S : q \in Seq(S)
  BY DEF IsSeq
<1> DEFINE T == S \cup {e}
<1>2. q \in Seq(T) /\ e \in T
  BY <1>1, SeqMonotonic
<1>3. Append(q, e) \in Seq(T)
  BY <1>2
<1> QED
  BY <1>2, <1>3, SeqDomain DEF IsSeq

LEMMA SeqChange ==
  ASSUME NEW q, IsSeq(q), NEW p, p = [j \in DOMAIN q |-> p[j]]
  PROVE  IsSeq(p) /\ Len(p) = Len(q)
<1> DEFINE n == Len(q)
           S == {p[j] : j \in 1..n}
<1>1. n \in Nat /\ DOMAIN q = 1..n
  BY SeqDomain
<1> HIDE DEF n
<1>2. p \in [1..n -> S]
  BY <1>1
<1> HIDE DEF S
<1>3. p \in Seq(S) /\ DOMAIN p = 1..n
  BY <1>1, <1>2, SeqDef
<1>4. Len(p) = n
  BY <1>1, <1>3
<1> QED
  BY <1>3, <1>4 DEF IsSeq, n

LEMMA EmptyIsSeq == IsSeq(<<>>) /\ Len(<<>>) = 0
<1> QED
  BY DEF IsSeq

\* What is left of a list is a list.
LEMMA WithoutIsSeq ==
  ASSUME NEW list, IsSeq(list), NEW out
  PROVE  IsSeq(Without(list, out))
<1> DEFINE kept == {k \in 1..Len(list) : list[k] \notin out}
           w == Without(list, out)
           n == Cardinality(kept)
<1>1. Len(list) \in Nat
  BY SeqDomain
<1>2. n \in Nat
  <2>1. kept \subseteq 1..Len(list)
    OBVIOUS
  <2>2. IsFiniteSet(1..Len(list))
    BY <1>1, FS_Interval
  <2> HIDE DEF kept
  <2>3. IsFiniteSet(kept)
    BY <2>1, <2>2, FS_Subset
  <2> QED
    BY <2>3, FS_CardinalityType
<1>3. w = [i \in 1..n |-> w[i]]
  BY DEF Without
<1> HIDE DEF w, n
<1> DEFINE S == {w[i] : i \in 1..n}
<1>4. w \in [1..n -> S]
  BY <1>3
<1> HIDE DEF S
<1>5. w \in Seq(S)
  BY <1>2, <1>4, SeqDef
<1> QED
  BY <1>5 DEF IsSeq, w

-------------------------------------------------------------------------------
EvFields == {"objs", "noop", "gone", "stores", "live", "indexes"}
StoreFields == {"hasOwn", "own", "idx", "len", "missed"}

\* The lists of an index, one for each context.
IndexLists(indexes) ==
  /\ IsSeq(indexes)
  /\ \A i \in 1..Len(indexes) :
       DOMAIN indexes[i] = Foreign /\ \A c \in Foreign : IsSeq(indexes[i][c])

\* CountFollowsIndex of any store; without an index there is nothing to count.
StoreFollows(st, indexes) ==
  /\ DOMAIN st = StoreFields /\ IsSeq(st.own)
  /\ st.len \in Int /\ st.missed \in Int /\ st.idx \in 0..Len(indexes)
  /\ st.len + st.missed = IF st.idx = 0 THEN 0 ELSE Cardinality(Keys(indexes[st.idx]))

\* The inductive invariant of the emitter: its store in use counts its index,
\* and every listener that was removed by its function does nothing any more.
StoresFollow(E) ==
  /\ DOMAIN E = EvFields
  /\ IsSeq(E.objs) /\ IsSeq(E.stores) /\ IndexLists(E.indexes)
  /\ E.gone \subseteq E.noop
  /\ E.live => Len(E.stores) > 0 /\ StoreFollows(E.stores[Len(E.stores)], E.indexes)

\* The last of a sequence replaced: the store in use, or the innermost dispatch.
LastPut(q, e) == [q EXCEPT ![Len(q)] = e]

LEMMA LastReplaced ==
  ASSUME NEW q, IsSeq(q), Len(q) > 0, NEW st
  PROVE  /\ IsSeq(LastPut(q, st)) /\ Len(LastPut(q, st)) = Len(q)
         /\ LastPut(q, st)[Len(q)] = st
         /\ \A i \in 1..Len(q) : i # Len(q) => LastPut(q, st)[i] = q[i]
<1> DEFINE p == LastPut(q, st)
           n == Len(q)
<1>1. DOMAIN q = 1..Len(q) /\ n \in DOMAIN q /\ p = [q EXCEPT ![n] = st]
  BY SeqDomain DEF LastPut
<1> HIDE DEF p, n
<1>2. /\ p = [j \in DOMAIN q |-> p[j]] /\ p[n] = st
      /\ \A i \in DOMAIN q : i # n => p[i] = q[i]
  BY <1>1
<1>3. IsSeq(p) /\ Len(p) = Len(q)
  BY <1>1, <1>2, SeqChange
<1> QED
  BY <1>1, <1>2, <1>3 DEF p, n

\* A change of the store in use, or of its index.
LEMMA StoreReplaced ==
  ASSUME NEW E, StoresFollow(E), E.live, NEW m, NEW st,
         DOMAIN m = EvFields, IsSeq(m.objs), IndexLists(m.indexes), m.gone \subseteq m.noop,
         m.stores = LastPut(E.stores, st), StoreFollows(st, m.indexes)
  PROVE  StoresFollow(m) /\ Len(m.stores) = Len(E.stores) /\ m.stores[Len(m.stores)] = st
<1>1. IsSeq(E.stores) /\ Len(E.stores) \in 1..Len(E.stores)
  BY SeqDomain DEF StoresFollow
<1>2. IsSeq(m.stores) /\ Len(m.stores) = Len(E.stores) /\ m.stores[Len(E.stores)] = st
  BY <1>1, LastReplaced
<1> QED
  BY <1>1, <1>2 DEF StoresFollow

\* The contexts of an index are finitely many.
LEMMA KeysFinite ==
  ASSUME NEW index
  PROVE  IsFiniteSet(Keys(index)) /\ Cardinality(Keys(index)) \in Nat
<1>1. Keys(index) \subseteq Foreign
  BY DEF Keys
<1> QED
  BY <1>1, ForeignAssumption, FS_Subset, FS_CardinalityType

\* One list of one index replaced.
ListPut(indexes, i, c, list) == [indexes EXCEPT ![i][c] = list]

\* A list of an index is replaced: its context joins or leaves the index.
LEMMA ListReplaced ==
  ASSUME NEW indexes, IndexLists(indexes), NEW i \in 1..Len(indexes), NEW c \in Foreign,
         NEW list, IsSeq(list), NEW ix, ix = ListPut(indexes, i, c, list)
  PROVE  /\ IndexLists(ix) /\ Len(ix) = Len(indexes)
         /\ Cardinality(Keys(ix[i])) = Cardinality(Keys(indexes[i]))
              + (IF list = <<>> THEN 0 ELSE 1) - (IF indexes[i][c] = <<>> THEN 0 ELSE 1)
<1> DEFINE f == indexes[i]
           g == [f EXCEPT ![c] = list]
<1>1. ix = [indexes EXCEPT ![i] = g]
  BY DEF ListPut
<1>2. /\ DOMAIN f = Foreign /\ DOMAIN g = Foreign
      /\ \A d \in Foreign : g[d] = IF d = c THEN list ELSE f[d]
  BY DEF IndexLists
<1>3. \A d \in Foreign : IsSeq(f[d])
  BY DEF IndexLists
<1> HIDE DEF g
<1>4. /\ IsSeq(ix) /\ Len(ix) = Len(indexes) /\ ix[i] = g
      /\ \A j \in 1..Len(indexes) : j # i => ix[j] = indexes[j]
  <2>1. IsSeq(indexes) /\ DOMAIN indexes = 1..Len(indexes)
    BY SeqDomain DEF IndexLists
  <2>2. /\ ix = [j \in DOMAIN indexes |-> ix[j]] /\ ix[i] = g
        /\ \A j \in DOMAIN indexes : j # i => ix[j] = indexes[j]
    BY <1>1, <2>1
  <2>3. IsSeq(ix) /\ Len(ix) = Len(indexes)
    BY <2>1, <2>2, SeqChange
  <2> QED
    BY <2>1, <2>2, <2>3
<1>5. IndexLists(ix)
  BY <1>2, <1>3, <1>4 DEF IndexLists
<1>6. IsFiniteSet(Keys(f)) /\ Cardinality(Keys(f)) \in Nat
  BY KeysFinite
<1>7. Keys(g) = IF list = <<>> THEN Keys(f) \ {c} ELSE Keys(f) \cup {c}
  BY <1>2 DEF Keys
<1>8. c \in Keys(f) <=> f[c] # <<>>
  BY DEF Keys
<1>9. f = indexes[i]
  OBVIOUS
<1> HIDE DEF f
<1>10. Cardinality(Keys(g)) = Cardinality(Keys(f))
              + (IF list = <<>> THEN 0 ELSE 1) - (IF f[c] = <<>> THEN 0 ELSE 1)
  <2>1. CASE list = <<>>
    <3>1. Cardinality(Keys(f) \ {c}) = IF c \in Keys(f) THEN Cardinality(Keys(f)) - 1
                                       ELSE Cardinality(Keys(f))
      BY <1>6, FS_RemoveElement
    <3> QED
      BY <1>6, <1>7, <1>8, <2>1, <3>1
  <2>2. CASE list # <<>>
    <3>1. Cardinality(Keys(f) \cup {c}) = IF c \in Keys(f) THEN Cardinality(Keys(f))
                                          ELSE Cardinality(Keys(f)) + 1
      BY <1>6, FS_AddElement
    <3> QED
      BY <1>6, <1>7, <1>8, <2>2, <3>1
  <2> QED
    BY <2>1, <2>2
<1> QED
  BY <1>4, <1>5, <1>9, <1>10

\* A store without an index has nothing to count.
LEMMA NewStoreFollows ==
  ASSUME NEW indexes, IndexLists(indexes)
  PROVE  StoreFollows(NewStore, indexes)
<1>1. Len(indexes) \in Nat
  BY SeqDomain DEF IndexLists
<1>2. /\ DOMAIN NewStore = StoreFields /\ NewStore.own = <<>> /\ NewStore.len = 0
      /\ NewStore.missed = 0 /\ NewStore.idx = 0
  BY DEF NewStore, StoreFields
<1> QED
  BY <1>1, <1>2, EmptyIsSeq DEF StoreFollows

\* The four operations on the stores keep the invariant: opening a store,
LEMMA OpenedKeeps ==
  ASSUME NEW E, StoresFollow(E)
  PROVE  /\ StoresFollow(Opened(E)) /\ Opened(E).live
         /\ Opened(E).objs = E.objs
<1>1. CASE E.live
  BY <1>1 DEF Opened
<1>2. CASE ~E.live
  <2> DEFINE m == Opened(E)
             s == Append(E.stores, NewStore)
  <2>1. m = [E EXCEPT !.live = TRUE, !.stores = s] /\ DOMAIN E = EvFields
    BY <1>2 DEF Opened, StoresFollow
  <2>2. /\ IsSeq(s) /\ Len(s) \in Nat /\ Len(s) > 0 /\ s[Len(s)] = NewStore
    BY SeqAppend, SeqDomain DEF StoresFollow
  <2> HIDE DEF m, s
  <2>3. /\ DOMAIN m = EvFields /\ m.live = TRUE /\ m.stores = s /\ m.objs = E.objs
        /\ m.noop = E.noop /\ m.gone = E.gone /\ m.indexes = E.indexes
    BY <2>1 DEF EvFields
  <2>4. StoreFollows(NewStore, E.indexes)
    BY NewStoreFollows DEF StoresFollow
  <2>5. StoresFollow(m)
    BY <2>2, <2>3, <2>4 DEF StoresFollow
  <2> QED
    BY <2>3, <2>5 DEF m
<1> QED
  BY <1>1, <1>2

\* giving it an index,
LEMMA IndexedKeeps ==
  ASSUME NEW E, StoresFollow(E), E.live
  PROVE  /\ StoresFollow(Indexed(E)) /\ Indexed(E).live
         /\ Indexed(E).stores[Current(Indexed(E))].idx # 0
<1> DEFINE old == E.stores[Len(E.stores)]
<1>1. StoreFollows(old, E.indexes)
  BY DEF StoresFollow
<1>2. CASE old.idx # 0
  BY <1>2 DEF Indexed, Current
<1>3. CASE old.idx = 0
  <2> DEFINE m == Indexed(E)
             st == [old EXCEPT !.idx = Len(E.indexes) + 1]
             ix == Append(E.indexes, NoKeys)
             ss == LastPut(E.stores, st)
  <2>1. m = [E EXCEPT !.indexes = ix, !.stores = ss] /\ DOMAIN E = EvFields
    BY <1>3 DEF Indexed, Current, StoresFollow, LastPut
  <2>2. /\ IsSeq(ix) /\ Len(E.indexes) \in Nat /\ Len(ix) = Len(E.indexes) + 1
        /\ ix[Len(ix)] = NoKeys /\ \A i \in 1..Len(E.indexes) : ix[i] = E.indexes[i]
    BY SeqAppend, SeqDomain DEF StoresFollow, IndexLists
  <2>3. /\ DOMAIN st = StoreFields /\ st.own = old.own /\ st.len = old.len
        /\ st.missed = old.missed /\ st.idx = Len(E.indexes) + 1
    BY <1>1 DEF StoreFollows, StoreFields
  <2>4. old.idx = 0
    BY <1>3
  <2> HIDE DEF m, ss, st, ix, old
  <2>5. /\ DOMAIN m = EvFields /\ m.indexes = ix /\ m.stores = ss
        /\ m.objs = E.objs /\ m.noop = E.noop /\ m.gone = E.gone /\ m.live
    BY <2>1 DEF EvFields
  <2>6. IndexLists(ix)
    <3>1. DOMAIN NoKeys = Foreign /\ \A c \in Foreign : NoKeys[c] = <<>>
      BY DEF NoKeys
    <3>2. ASSUME NEW i \in 1..Len(ix)
          PROVE  DOMAIN ix[i] = Foreign /\ \A c \in Foreign : IsSeq(ix[i][c])
      <4>1. i = Len(ix) \/ i \in 1..Len(E.indexes)
        BY <2>2
      <4>2. CASE i = Len(ix)
        BY <2>2, <3>1, <4>2, EmptyIsSeq
      <4>3. CASE i \in 1..Len(E.indexes)
        BY <2>2, <4>3 DEF StoresFollow, IndexLists
      <4> QED
        BY <4>1, <4>2, <4>3
    <3> QED
      BY <2>2, <3>2 DEF IndexLists
  <2>7. StoreFollows(st, ix)
    <3>1. Keys(ix[st.idx]) = {}
      BY <2>2, <2>3 DEF Keys, NoKeys
    <3>2. Cardinality(Keys(ix[st.idx])) = 0
      BY <3>1, FS_EmptySet
    <3> QED
      BY <1>1, <2>2, <2>3, <2>4, <3>2 DEF StoreFollows
  <2>8. IsSeq(m.objs) /\ m.gone \subseteq m.noop
    BY <2>5 DEF StoresFollow
  <2>9. StoresFollow(m) /\ m.stores[Len(m.stores)] = st
    BY <2>5, <2>6, <2>7, <2>8, StoreReplaced DEF ss
  <2>10. st.idx # 0
    BY <2>2, <2>3
  <2>11. StoresFollow(m) /\ m.live /\ m.stores[Current(m)].idx # 0
    BY <2>5, <2>9, <2>10 DEF Current
  <2> QED
    BY <2>11 DEF m
<1> QED
  BY <1>2, <1>3

\* adding a listener,
LEMMA AddedKeeps ==
  ASSUME NEW E0, StoresFollow(E0), NEW fn, NEW c
  PROVE  StoresFollow(Added(E0, fn, c))
<1> DEFINE O == Opened(E0)
           id == Len(E0.objs) + 1
           objs == Append(O.objs, [fn |-> fn, ctx |-> IF c = NoContext THEN Own ELSE c, arg |-> c])
           E1 == [O EXCEPT !.objs = objs]
<1>1. StoresFollow(E1) /\ E1.live
  <2>1. StoresFollow(O) /\ O.live /\ DOMAIN O = EvFields
    BY OpenedKeeps DEF StoresFollow
  <2>2. IsSeq(objs)
    BY <2>1, SeqAppend DEF StoresFollow
  <2> HIDE DEF O, objs
  <2>3. /\ DOMAIN E1 = EvFields /\ E1.objs = objs /\ E1.stores = O.stores /\ E1.live
        /\ E1.indexes = O.indexes /\ E1.noop = O.noop /\ E1.gone = O.gone
    BY <2>1 DEF EvFields
  <2> HIDE DEF E1
  <2> QED
    BY <2>1, <2>2, <2>3 DEF StoresFollow
<1>2. Added(E0, fn, c) =
        IF c \in Foreign
        THEN LET E == Indexed(E1)
                 i == E.stores[Current(E)].idx
             IN [E EXCEPT !.stores[Current(E)].len = @ + NewKeys(E.indexes[i], c),
                          !.indexes[i][c] = Append(@, id)]
        ELSE [E1 EXCEPT !.stores[Current(E1)].hasOwn = TRUE,
                        !.stores[Current(E1)].own = Append(@, id)]
  BY DEF Added
<1> HIDE DEF E1, objs, O, id
<1>3. CASE c \in Foreign
  <2> DEFINE E == Indexed(E1)
             st == E.stores[Len(E.stores)]
             i == st.idx
             index == E.indexes[i]
             list == Append(index[c], id)
             st2 == [st EXCEPT !.len = st.len + NewKeys(index, c)]
             ss == LastPut(E.stores, st2)
             ix == ListPut(E.indexes, i, c, list)
             m == [E EXCEPT !.stores = ss, !.indexes = ix]
  <2>1. Added(E0, fn, c) = m
    BY <1>2, <1>3 DEF Current, LastPut, ListPut
  <2>2. StoresFollow(E) /\ E.live /\ i # 0
    BY <1>1, IndexedKeeps DEF Current
  <2>3. DOMAIN E = EvFields /\ StoreFollows(st, E.indexes) /\ IndexLists(E.indexes)
    BY <2>2 DEF StoresFollow
  <2>4. i \in 1..Len(E.indexes)
    <3>1. Len(E.indexes) \in Nat
      BY <2>3, SeqDomain DEF IndexLists
    <3> QED
      BY <2>2, <2>3, <3>1 DEF StoreFollows
  <2>5. IsSeq(list) /\ list # <<>>
    <3>1. IsSeq(index[c])
      BY <1>3, <2>3, <2>4 DEF IndexLists
    <3> QED
      BY <3>1, SeqAppend
  <2>6. /\ DOMAIN st2 = StoreFields /\ st2.own = st.own /\ st2.missed = st.missed
        /\ st2.idx = i /\ st2.len = st.len + NewKeys(index, c)
    BY <2>3 DEF StoreFollows, StoreFields
  <2> HIDE DEF m, ss, ix, st2, list
  <2>7. /\ IndexLists(ix) /\ Len(ix) = Len(E.indexes)
        /\ Cardinality(Keys(ix[i])) = Cardinality(Keys(index))
              + (IF list = <<>> THEN 0 ELSE 1) - (IF index[c] = <<>> THEN 0 ELSE 1)
    <3>1. index = E.indexes[i] /\ ix = ListPut(E.indexes, i, c, list)
      BY DEF ix
    <3> HIDE DEF index, st, i, E
    <3> QED
      BY <1>3, <2>3, <2>4, <2>5, <3>1, ListReplaced
  <2>8. /\ DOMAIN m = EvFields /\ m.indexes = ix /\ m.stores = ss
        /\ m.objs = E.objs /\ m.noop = E.noop /\ m.gone = E.gone
    BY <2>3 DEF m, EvFields
  <2>9. Cardinality(Keys(index)) \in Nat
    BY KeysFinite
  <2>10. /\ IsSeq(st.own) /\ st.len \in Int /\ st.missed \in Int
         /\ st.len + st.missed = Cardinality(Keys(index))
    BY <2>2, <2>3 DEF StoreFollows
  <2>11. IsSeq(m.objs) /\ m.gone \subseteq m.noop
    BY <2>2, <2>8 DEF StoresFollow
  <2> HIDE DEF index, st, i, E
  <2>12. /\ NewKeys(index, c) \in Int
         /\ NewKeys(index, c) = 1 - (IF index[c] = <<>> THEN 0 ELSE 1)
    BY DEF NewKeys
  <2>13. st2.len \in Int /\ st2.len + st2.missed = Cardinality(Keys(ix[i]))
    BY <2>5, <2>6, <2>7, <2>9, <2>10, <2>12
  <2>14. StoreFollows(st2, ix)
    <3>1. i \in 0..Len(ix) /\ i # 0
      BY <2>2, <2>4, <2>7
    <3> QED
      BY <2>6, <2>10, <2>13, <3>1 DEF StoreFollows
  <2>15. StoresFollow(m)
    BY <2>2, <2>7, <2>8, <2>11, <2>14, StoreReplaced DEF ss
  <2> QED
    BY <2>1, <2>15
<1>4. CASE c \notin Foreign
  <2> DEFINE st == E1.stores[Len(E1.stores)]
             own == Append(st.own, id)
             st2 == [st EXCEPT !.hasOwn = TRUE, !.own = own]
             ss == LastPut(E1.stores, st2)
             m == [E1 EXCEPT !.stores = ss]
  <2>1. Added(E0, fn, c) = m
    BY <1>2, <1>4 DEF Current, LastPut
  <2>2. /\ DOMAIN E1 = EvFields /\ StoreFollows(st, E1.indexes) /\ IndexLists(E1.indexes)
        /\ IsSeq(E1.objs) /\ E1.gone \subseteq E1.noop
    BY <1>1 DEF StoresFollow
  <2>3. IsSeq(own)
    BY <2>2, SeqAppend DEF StoreFollows
  <2> HIDE DEF own
  <2>4. /\ DOMAIN st2 = StoreFields /\ st2.own = own /\ st2.missed = st.missed
        /\ st2.idx = st.idx /\ st2.len = st.len
    BY <2>2 DEF StoreFollows, StoreFields
  <2> HIDE DEF m, ss, st2
  <2>5. /\ DOMAIN m = EvFields /\ m.indexes = E1.indexes /\ m.stores = ss
        /\ m.objs = E1.objs /\ m.noop = E1.noop /\ m.gone = E1.gone
    BY <2>2 DEF m, EvFields
  <2> HIDE DEF st
  <2>6. StoreFollows(st2, E1.indexes)
    BY <2>2, <2>3, <2>4 DEF StoreFollows
  <2>7. StoresFollow(m)
    BY <1>1, <2>2, <2>5, <2>6, StoreReplaced DEF ss
  <2> QED
    BY <2>1, <2>7
<1> QED
  BY <1>3, <1>4

\* and removing the listeners of a function and a context.
LEMMA RemovedKeeps ==
  ASSUME NEW E, StoresFollow(E), NEW fn, NEW c
  PROVE  StoresFollow(Removed(E, fn, c))
<1> DEFINE st == E.stores[Len(E.stores)]
           inIndex == c \in Foreign /\ st.idx # 0
           list == IF inIndex THEN E.indexes[st.idx][c] ELSE st.own
           Match(i) == E.objs[i].fn = fn /\ (c = NoContext \/ E.objs[i].ctx = c)
           out == {list[k] : k \in {k \in 1..Len(list) : Match(list[k])}}
           rest == Without(list, out)
           uncount == c # NoContext /\ st.idx # 0 /\ rest = <<>>
           skip == ~E.live \/ (IF inIndex THEN list = <<>> ELSE ~st.hasOwn)
           st2 == [st EXCEPT !.own = IF inIndex THEN @ ELSE rest,
                             !.len = IF uncount THEN @ - 1 ELSE @,
                             !.missed = IF uncount /\ ~inIndex THEN @ + 1 ELSE @]
           ss == LastPut(E.stores, st2)
           ix == IF inIndex THEN ListPut(E.indexes, st.idx, c, rest) ELSE E.indexes
           noop == E.noop \cup out
           gone == E.gone \cup out
           m == [E EXCEPT !.noop = noop, !.gone = gone, !.stores = ss, !.indexes = ix]
<1>1. Removed(E, fn, c) = IF skip THEN E ELSE m
  BY DEF Removed, Current, Silenced, LastPut, ListPut
<1>2. CASE skip
  BY <1>1, <1>2
<1>3. CASE ~skip
  <2>1. E.live /\ DOMAIN E = EvFields /\ E.gone \subseteq E.noop /\ IsSeq(E.objs)
    BY <1>3 DEF StoresFollow
  <2>2. StoreFollows(st, E.indexes) /\ IndexLists(E.indexes)
    BY <2>1 DEF StoresFollow
  <2>3. Len(E.indexes) \in Nat
    BY <2>2, SeqDomain DEF IndexLists
  <2>4. inIndex => st.idx \in 1..Len(E.indexes) /\ list = E.indexes[st.idx][c] /\ list # <<>>
    BY <1>3, <2>2, <2>3 DEF StoreFollows
  <2>5. IsSeq(list)
    BY <2>2, <2>4 DEF StoreFollows, IndexLists
  <2>6. IsSeq(rest)
    BY <2>5, WithoutIsSeq
  <2>7. gone \subseteq noop
    BY <2>1
  <2>8. /\ DOMAIN st2 = StoreFields /\ st2.idx = st.idx
        /\ st2.own = IF inIndex THEN st.own ELSE rest
        /\ st2.len = IF uncount THEN st.len - 1 ELSE st.len
        /\ st2.missed = IF uncount /\ ~inIndex THEN st.missed + 1 ELSE st.missed
    BY <2>2 DEF StoreFollows, StoreFields
  <2>9. uncount <=> c # NoContext /\ st.idx # 0 /\ rest = <<>>
    OBVIOUS
  <2>10. inIndex <=> c \in Foreign /\ st.idx # 0
    OBVIOUS
  <2>11. ix = IF inIndex THEN ListPut(E.indexes, st.idx, c, rest) ELSE E.indexes
    OBVIOUS
  <2>12. st.idx # 0 => Cardinality(Keys(E.indexes[st.idx])) \in Nat
    BY KeysFinite
  <2> HIDE DEF st2, ss, ix, noop, gone, uncount, rest, out, list, inIndex, st, m, skip
  <2>13. /\ DOMAIN m = EvFields /\ m.indexes = ix /\ m.stores = ss
         /\ m.objs = E.objs /\ m.noop = noop /\ m.gone = gone
    BY <2>1 DEF m, EvFields
  <2>14. IndexLists(ix) /\ StoreFollows(st2, ix)
    <3>1. CASE inIndex
      <4>1. /\ IndexLists(ix) /\ Len(ix) = Len(E.indexes)
            /\ Cardinality(Keys(ix[st.idx])) = Cardinality(Keys(E.indexes[st.idx]))
                 + (IF rest = <<>> THEN 0 ELSE 1) - (IF E.indexes[st.idx][c] = <<>> THEN 0 ELSE 1)
        BY <2>2, <2>4, <2>6, <2>10, <2>11, <3>1, ListReplaced
      <4>2. E.indexes[st.idx][c] # <<>>
        BY <2>4, <3>1
      <4>3. uncount <=> rest = <<>>
        BY <2>9, <2>10, <3>1, ForeignAssumption
      <4>4. /\ st2.own = st.own /\ st2.missed = st.missed /\ st2.idx = st.idx /\ st.idx # 0
            /\ st2.len = IF uncount THEN st.len - 1 ELSE st.len
        BY <2>8, <2>10, <3>1
      <4>5. /\ st.len \in Int /\ st.missed \in Int /\ IsSeq(st.own) /\ st.idx \in 0..Len(E.indexes)
            /\ st.len + st.missed = Cardinality(Keys(E.indexes[st.idx]))
        BY <2>2, <4>4 DEF StoreFollows
      <4>6. st2.len \in Int /\ st2.len + st2.missed = Cardinality(Keys(ix[st.idx]))
        BY <2>12, <4>1, <4>2, <4>3, <4>4, <4>5
      <4> QED
        BY <2>8, <4>1, <4>4, <4>5, <4>6 DEF StoreFollows
    <3>2. CASE ~inIndex
      <4>1. /\ st2.own = rest /\ st2.idx = st.idx /\ ix = E.indexes
            /\ st2.len = IF uncount THEN st.len - 1 ELSE st.len
            /\ st2.missed = IF uncount THEN st.missed + 1 ELSE st.missed
        BY <2>8, <2>11, <3>2
      <4>2. /\ st.len \in Int /\ st.missed \in Int /\ st.idx \in 0..Len(E.indexes)
            /\ st.len + st.missed = IF st.idx = 0 THEN 0 ELSE Cardinality(Keys(E.indexes[st.idx]))
        BY <2>2 DEF StoreFollows
      <4>3. /\ st2.len \in Int /\ st2.missed \in Int
            /\ st2.len + st2.missed = st.len + st.missed
        <5>1. CASE uncount
          BY <4>1, <4>2, <5>1
        <5>2. CASE ~uncount
          BY <4>1, <4>2, <5>2
        <5> QED
          BY <5>1, <5>2
      <4> QED
        BY <2>2, <2>6, <2>8, <4>1, <4>2, <4>3 DEF StoreFollows
    <3> QED
      BY <3>1, <3>2
  <2>15. StoresFollow(m)
    BY <2>1, <2>7, <2>13, <2>14, StoreReplaced DEF ss
  <2>16. Removed(E, fn, c) = m
    BY <1>1, <1>3
  <2> QED
    BY <2>15, <2>16
<1> QED
  BY <1>2, <1>3

\* Every step of the emitter keeps its invariant.
LEMMA EvStep == StoresFollow(ev) /\ [EvNext]_evVars => StoresFollow(ev')
<1> SUFFICES ASSUME StoresFollow(ev), [EvNext]_evVars PROVE StoresFollow(ev')
  OBVIOUS
<1>1. CASE UNCHANGED evVars
  BY <1>1 DEF evVars
<1>2. ASSUME NEW f \in Fns, NEW c \in Contexts, On(f, c) PROVE StoresFollow(ev')
  BY <1>2, AddedKeeps DEF On
<1>3. ASSUME NEW f \in Fns, NEW c \in Contexts, Once(f, c) PROVE StoresFollow(ev')
  <2> DEFINE E == Added(ev, Plain(f), c)
  <2>1. StoresFollow(E)
    BY AddedKeeps
  <2>2. ev' = Added(E, [f |-> f, once |-> Len(E.objs)], c)
    BY <1>3 DEF Once
  <2> HIDE DEF E
  <2> QED
    BY <2>1, <2>2, AddedKeeps
<1>4. ASSUME NEW f \in Fns, NEW c \in Contexts, Off(f, c) PROVE StoresFollow(ev')
  BY <1>4, RemovedKeeps DEF Off
<1>5. CASE OffType
  <2> DEFINE ss == LastPut(ev.stores, NewStore)
  <2>1. ev' = [ev EXCEPT !.stores = ss] /\ ev.live /\ DOMAIN ev = EvFields
    BY <1>5 DEF OffType, Current, LastPut, StoresFollow
  <2> HIDE DEF ss
  <2>2. /\ DOMAIN ev' = EvFields /\ ev'.indexes = ev.indexes /\ ev'.stores = ss
        /\ ev'.objs = ev.objs /\ ev'.noop = ev.noop /\ ev'.gone = ev.gone
    BY <2>1 DEF EvFields
  <2>3. IsSeq(ev.objs) /\ IndexLists(ev.indexes) /\ ev.gone \subseteq ev.noop
    BY DEF StoresFollow
  <2>4. StoreFollows(NewStore, ev'.indexes)
    BY <2>2, <2>3, NewStoreFollows
  <2> QED
    BY <2>1, <2>2, <2>3, <2>4, StoreReplaced DEF ss
<1>6. CASE ClearAll
  <2>1. ev' = [ev EXCEPT !.live = FALSE] /\ DOMAIN ev = EvFields
    BY <1>6 DEF ClearAll, StoresFollow
  <2>2. /\ DOMAIN ev' = EvFields /\ ev'.indexes = ev.indexes /\ ev'.stores = ev.stores
        /\ ev'.objs = ev.objs /\ ev'.noop = ev.noop /\ ev'.gone = ev.gone /\ ~ev'.live
    BY <2>1 DEF EvFields
  <2> QED
    BY <2>2 DEF StoresFollow
<1>7. CASE Fire \/ EnterIndex \/ NextContext \/ Return
  BY <1>7 DEF Fire, EnterIndex, NextContext, Return
<1>8. CASE CallListener
  <2>1. PICK obj : ev' = IF obj.fn.once = 0 THEN ev
                         ELSE Removed(Removed(ev, Plain(obj.fn.f), obj.arg), obj.fn, obj.arg)
    BY <1>8 DEF CallListener
  <2> QED
    BY <2>1, RemovedKeeps
<1> QED
  BY <1>1, <1>2, <1>3, <1>4, <1>5, <1>6, <1>7, <1>8 DEF EvNext

\* The emitter's inductive invariant holds.
LEMMA EmitterInvariant == EvSpec => []StoresFollow(ev)
<1>1. EvInit => StoresFollow(ev)
  <2> SUFFICES ASSUME EvInit PROVE StoresFollow(ev)
    OBVIOUS
  <2>1. /\ DOMAIN ev = EvFields /\ ev.objs = <<>> /\ ev.stores = <<>> /\ ev.indexes = <<>>
        /\ ev.gone = {} /\ ~ev.live
    BY DEF EvInit, EvFields
  <2> QED
    BY <2>1, EmptyIsSeq DEF StoresFollow, IndexLists
<1>2. StoresFollow(ev) /\ [EvNext]_evVars => StoresFollow(ev)'
  BY EvStep
<1> QED
  BY <1>1, <1>2, PTL DEF EvSpec

\* The contexts counted are those of the index, less the removals counted in
\* the wrong list, whatever listeners are added, removed and called meanwhile.
THEOREM CountAlwaysFollows == EvSpec => []CountFollowsIndex
<1>1. StoresFollow(ev) => CountFollowsIndex
  BY DEF StoresFollow, StoreFollows, CountFollowsIndex, Current
<1> QED
  BY <1>1, EmitterInvariant, PTL

FrameFields == {"events", "list", "at", "inOwn", "index", "todo", "running", "since"}

\* The dispatches running, one in another.
Dispatches(stack) ==
  IsSeq(stack) /\ \A i \in 1..Len(stack) : DOMAIN stack[i] = FrameFields

\* All but the last of a sequence.
LEMMA FrontIsSeq ==
  ASSUME NEW q, IsSeq(q), Len(q) > 0
  PROVE  /\ IsSeq(Front(q)) /\ Len(Front(q)) = Len(q) - 1
         /\ \A i \in 1..Len(q) - 1 : Front(q)[i] = q[i]
<1> DEFINE n == Len(q)
           f == Front(q)
<1>1. f = SubSeq(q, 1, n - 1) /\ n \in Nat /\ n > 0
  BY SeqDomain DEF Front
<1>2. PICK S : q \in Seq(S)
  BY DEF IsSeq
<1>3. \A i \in 1..n - 1 : q[i] \in S
  BY <1>1, <1>2
<1> HIDE DEF f
<1>4. /\ SubSeq(q, 1, n - 1) \in Seq(S)
      /\ Len(SubSeq(q, 1, n - 1)) = IF 1 <= n - 1 THEN n - 1 - 1 + 1 ELSE 0
      /\ \A i \in 1..n - 1 - 1 + 1 : SubSeq(q, 1, n - 1)[i] = q[1 + i - 1]
  BY <1>1, <1>3, SubSeqProperties
<1>5. n - 1 - 1 + 1 = n - 1 /\ \A i \in 1..n - 1 : 1 + i - 1 = i
  BY <1>1
<1>6. (IF 1 <= n - 1 THEN n - 1 - 1 + 1 ELSE 0) = n - 1
  <2> HIDE DEF n
  <2> QED
    BY <1>1
<1> QED
  BY <1>1, <1>4, <1>5, <1>6 DEF IsSeq, f

\* A step of the innermost dispatch.
LEMMA FrameReplaced ==
  ASSUME NEW stack, Dispatches(stack), Len(stack) > 0, NEW fr, DOMAIN fr = FrameFields
  PROVE  /\ Dispatches(LastPut(stack, fr))
         /\ Len(LastPut(stack, fr)) = Len(stack) /\ LastPut(stack, fr)[Len(stack)] = fr
<1>1. IsSeq(stack)
  BY DEF Dispatches
<1> DEFINE p == LastPut(stack, fr)
<1>2. /\ IsSeq(p) /\ Len(p) = Len(stack) /\ p[Len(stack)] = fr
      /\ \A i \in 1..Len(stack) : i # Len(stack) => p[i] = stack[i]
  BY <1>1, LastReplaced
<1> HIDE DEF p
<1>3. Dispatches(p)
  BY <1>2 DEF Dispatches
<1> QED
  BY <1>2, <1>3 DEF p

\* A listener the innermost dispatch calls still does something; a new list
\* calls none.
LEMMA StackStep ==
  ASSUME StoresFollow(ev), Dispatches(evStack), [EvNext]_evVars
  PROVE  Dispatches(evStack') /\ \A id \in 1..Len(ev.objs) : Calls(id) => id \notin ev.gone
<1> DEFINE Kept == Dispatches(evStack') /\ \A id \in 1..Len(ev.objs) : Calls(id) => id \notin ev.gone
           n == Len(evStack)
<1>1. IsSeq(evStack) /\ n \in Nat /\ \A i \in 1..n : DOMAIN evStack[i] = FrameFields
  BY SeqDomain DEF Dispatches
<1>2. evStack # <<>> => n > 0
  BY <1>1 DEF IsSeq
<1>3. ASSUME UNCHANGED evStack PROVE Kept
  BY <1>3 DEF Calls
<1>4. ASSUME NEW fr, DOMAIN fr = FrameFields, evStack # <<>>, evStack' = LastPut(evStack, fr),
             fr.running = 0 \/ fr.running \notin ev.noop
      PROVE  Kept
  <2>1. Dispatches(evStack') /\ evStack'[n] = fr
    BY <1>2, <1>4, FrameReplaced
  <2>2. ASSUME NEW id \in 1..Len(ev.objs), Calls(id) PROVE id \notin ev.gone
    <3>1. id = fr.running
      BY <2>1, <2>2 DEF Calls
    <3>2. id # 0
      OBVIOUS
    <3> QED
      BY <1>4, <3>1, <3>2 DEF StoresFollow
  <2> QED
    BY <2>1, <2>2
<1>5. CASE Fire
  <2>1. PICK fr : DOMAIN fr = FrameFields /\ evStack' = Append(evStack, fr)
    BY <1>5 DEF Fire, FrameFields
  <2>2. /\ IsSeq(evStack') /\ Len(evStack') = n + 1 /\ evStack'[n + 1] = fr
        /\ \A i \in 1..n : evStack'[i] = evStack[i]
    BY <1>1, <2>1, SeqAppend
  <2>3. Dispatches(evStack')
    <3>1. ASSUME NEW i \in 1..Len(evStack') PROVE DOMAIN evStack'[i] = FrameFields
      <4>1. i = n + 1 \/ i \in 1..n
        BY <1>1, <2>2
      <4> QED
        BY <1>1, <2>1, <2>2, <4>1
    <3> QED
      BY <2>2, <3>1 DEF Dispatches
  <2>4. Len(evStack') # n
    BY <1>1, <2>2
  <2> QED
    BY <2>3, <2>4 DEF Calls
<1>6. CASE Return
  <2>1. n > 0 /\ evStack' = Front(evStack)
    BY <1>2, <1>6 DEF Return
  <2>2. /\ IsSeq(evStack') /\ Len(evStack') = n - 1
        /\ \A i \in 1..n - 1 : evStack'[i] = evStack[i]
    BY <1>1, <2>1, FrontIsSeq
  <2>3. Dispatches(evStack')
    BY <1>1, <2>2 DEF Dispatches
  <2>4. Len(evStack') # n
    BY <1>1, <2>2
  <2> QED
    BY <2>3, <2>4 DEF Calls
<1>7. CASE CallListener
  <2>1. PICK k \in Pending(Top) :
          evStack' = [evStack EXCEPT ![Len(evStack)].at = k,
                                     ![Len(evStack)].running = Top.list[k]]
    BY <1>7 DEF CallListener
  <2> DEFINE id == Top.list[k]
             fr == [Top EXCEPT !.at = k, !.running = id]
  <2>2. evStack # <<>> /\ evStack' = LastPut(evStack, fr) /\ id \notin ev.noop
    BY <1>7, <2>1 DEF CallListener, LastPut, Top, Pending
  <2>3. DOMAIN Top = FrameFields
    BY <1>1, <1>2, <2>2 DEF Top
  <2> HIDE DEF id
  <2>4. DOMAIN fr = FrameFields /\ fr.running = id
    BY <2>3 DEF FrameFields
  <2> HIDE DEF fr
  <2> QED
    BY <1>4, <2>2, <2>4
<1>8. CASE EnterIndex \/ NextContext
  <2>1. DOMAIN Top = FrameFields
    <3>1. evStack # <<>>
      BY <1>8 DEF EnterIndex, NextContext
    <3> QED
      BY <1>1, <1>2, <3>1 DEF Top
  <2>2. CASE EnterIndex
    <3> DEFINE i == ev.stores[Top.events].idx
               todo == IF i = 0 THEN <<>>
                       ELSE SelectSeq(ContextSeq, LAMBDA c : c \in Keys(ev.indexes[i]))
               fr == [Top EXCEPT !.inOwn = FALSE, !.list = <<>>, !.at = 0, !.running = 0,
                                 !.index = i, !.todo = todo]
    <3>1. evStack # <<>> /\ evStack' = LastPut(evStack, fr)
      BY <2>2 DEF EnterIndex, LastPut, Top
    <3> HIDE DEF todo, i
    <3>2. DOMAIN fr = FrameFields /\ fr.running = 0
      BY <2>1 DEF FrameFields
    <3> HIDE DEF fr
    <3> QED
      BY <1>4, <3>1, <3>2
  <2>3. CASE NextContext
    <3> DEFINE list == ev.indexes[Top.index][Head(Top.todo)]
               todo == Tail(Top.todo)
               fr == [Top EXCEPT !.todo = todo, !.at = 0, !.running = 0, !.list = list]
    <3>1. evStack # <<>> /\ evStack' = LastPut(evStack, fr)
      BY <2>3 DEF NextContext, LastPut, Top
    <3> HIDE DEF todo, list
    <3>2. DOMAIN fr = FrameFields /\ fr.running = 0
      BY <2>1 DEF FrameFields
    <3> HIDE DEF fr
    <3> QED
      BY <1>4, <3>1, <3>2
  <2> QED
    BY <1>8, <2>2, <2>3
<1>9. CASE \/ \E f \in Fns, c \in Contexts : On(f, c) \/ Once(f, c) \/ Off(f, c)
           \/ OffType \/ ClearAll \/ UNCHANGED evVars
  BY <1>3, <1>9 DEF On, Once, Off, OffType, ClearAll, evVars
<1> QED
  BY <1>5, <1>6, <1>7, <1>8, <1>9 DEF EvNext

\* No dispatch, at whatever depth, calls a listener that was removed by its
\* function, for any listeners, contexts and depth.
THEOREM RemovedNeverCalled == EvSpec => RemovedNotCalled
<1>1. EvInit => Dispatches(evStack)
  <2> SUFFICES ASSUME evStack = <<>> PROVE Dispatches(evStack)
    BY DEF EvInit
  <2> QED
    BY EmptyIsSeq DEF Dispatches
<1>2. StoresFollow(ev) /\ Dispatches(evStack) /\ [EvNext]_evVars => Dispatches(evStack)'
  BY StackStep
<1>3. StoresFollow(ev) /\ Dispatches(evStack) /\ [EvNext]_evVars
        => [\A id \in 1..Len(ev.objs) : Calls(id) => id \notin ev.gone]_evVars
  BY StackStep
<1> QED
  BY <1>1, <1>2, <1>3, EmitterInvariant, PTL DEF EvSpec, RemovedNotCalled

-------------------------------------------------------------------------------
\* The types of the emitter.

\* In a finite set of numbers there is one of every rank.
Ranked(kept) ==
  \A i \in 1..Cardinality(kept) : \E k \in kept : Cardinality({j \in kept : j <= k}) = i

LEMMA RankedAll ==
  ASSUME NEW n \in Nat, NEW kept \in SUBSET (1..n)
  PROVE  IsFiniteSet(kept) /\ Cardinality(kept) \in Nat /\ Ranked(kept)
<1> DEFINE T == {k \in Nat : \A s \in SUBSET (1..k) :
                               IsFiniteSet(s) /\ Cardinality(s) \in Nat /\ Ranked(s)}
<1>1. 0 \in T
  <2>1. \A s \in SUBSET (1..0) : s = {}
    BY EmptyInterval
  <2>2. IsFiniteSet({}) /\ Cardinality({}) = 0
    BY FS_EmptySet
  <2>3. ASSUME NEW s, s = {} PROVE IsFiniteSet(s) /\ Cardinality(s) \in Nat /\ Ranked(s)
    <3>1. IsFiniteSet(s) /\ Cardinality(s) = 0
      BY <2>2, <2>3
    <3> DEFINE z == Cardinality(s)
    <3> HIDE DEF z
    <3>2. ASSUME NEW i \in 1..z PROVE FALSE
      BY <3>1, <3>2 DEF z
    <3>3. Ranked(s)
      BY <3>2 DEF Ranked, z
    <3> QED
      BY <3>1, <3>3
  <2> QED
    BY <2>1, <2>3
<1>2. ASSUME NEW k \in Nat, k \in T PROVE k + 1 \in T
  <2> SUFFICES ASSUME NEW s \in SUBSET (1..k + 1)
               PROVE  IsFiniteSet(s) /\ Cardinality(s) \in Nat /\ Ranked(s)
    OBVIOUS
  <2>1. CASE k + 1 \notin s
    <3>1. s \in SUBSET (1..k)
      BY <2>1, NextInterval
    <3> QED
      BY <1>2, <3>1
  <2>2. CASE k + 1 \in s
    <3> DEFINE u == s \ {k + 1}
    <3>1. u \in SUBSET (1..k) /\ s = u \cup {k + 1} /\ k + 1 \notin u
      BY <2>2, NextInterval
    <3> HIDE DEF u
    <3>2. IsFiniteSet(u) /\ Cardinality(u) \in Nat /\ Ranked(u)
      BY <1>2, <3>1
    <3>3. IsFiniteSet(s) /\ Cardinality(s) = Cardinality(u) + 1
      BY <3>1, <3>2, FS_AddElement
    <3>4. ASSUME NEW i \in 1..Cardinality(s)
          PROVE  \E r \in s : Cardinality({j \in s : j <= r}) = i
      <4>1. CASE i = Cardinality(s)
        <5>1. {j \in s : j <= k + 1} = s
          <6>1. \A j \in 1..k + 1 : j <= k + 1
            OBVIOUS
          <6> QED
            BY <6>1
        <5> QED
          BY <2>2, <4>1, <5>1
      <4>2. CASE i # Cardinality(s)
        <5>1. i \in 1..Cardinality(u)
          BY <3>2, <3>3, <4>2
        <5>2. PICK r \in u : Cardinality({j \in u : j <= r}) = i
          BY <3>2, <5>1 DEF Ranked
        <5>3. r \in 1..k /\ ~(k + 1 <= r)
          BY <3>1
        <5>4. {j \in s : j <= r} = {j \in u : j <= r}
          BY <3>1, <5>3
        <5> QED
          BY <3>1, <5>2, <5>4
      <4> QED
        BY <4>1, <4>2
    <3> QED
      BY <3>2, <3>3, <3>4 DEF Ranked
  <2> QED
    BY <2>1, <2>2
<1>3. Nat \subseteq T
  <2> HIDE DEF T
  <2> QED
    BY <1>1, <1>2, SetInduction
<1> QED
  BY <1>3

\* Listeners are objects that were made.
Ids(list, n) == \A k \in 1..Len(list) : list[k] \in 1..n

\* What is left of a list is of the list.
LEMMA WithoutIsOfList ==
  ASSUME NEW list, IsSeq(list), NEW out, NEW n, Ids(list, n)
  PROVE  Ids(Without(list, out), n)
<1> DEFINE kept == {k \in 1..Len(list) : list[k] \notin out}
           place == [i \in 1..Cardinality(kept) |->
                       CHOOSE k \in kept : Cardinality({j \in kept : j <= k}) = i]
           w == Without(list, out)
           c == Cardinality(kept)
<1>1. Len(list) \in Nat /\ kept \in SUBSET (1..Len(list))
  BY SeqDomain
<1>2. w = [i \in 1..c |-> list[place[i]]]
  BY DEF Without
<1> HIDE DEF w
<1>3. c \in Nat /\ Ranked(kept)
  <2> HIDE DEF kept
  <2> QED
    BY <1>1, RankedAll
<1>4. \A i \in 1..c : place[i] \in kept
  <2> HIDE DEF kept
  <2> QED
    BY <1>3 DEF Ranked
<1> HIDE DEF place
<1>5. \A i \in 1..c : list[place[i]] \in 1..n
  BY <1>4 DEF Ids
<1> HIDE DEF kept, c
<1>6. Len(w) = c /\ \A i \in 1..c : w[i] \in 1..n
  <2>1. w \in [1..c -> 1..n]
    BY <1>2, <1>5
  <2>2. w \in Seq(1..n)
    BY <1>3, <2>1, SeqDef
  <2> QED
    BY <1>2, <1>3, <1>5, <2>2
<1> QED
  BY <1>6 DEF Ids, w

StoreTyped(st, n, k) ==
  /\ DOMAIN st = StoreFields /\ IsSeq(st.own) /\ Ids(st.own, n)
  /\ st.idx \in 0..k /\ st.len \in Int /\ st.missed \in Nat
  /\ st.own # <<>> => st.hasOwn

StoresTyped(stores, n, k) ==
  IsSeq(stores) /\ \A j \in 1..Len(stores) : StoreTyped(stores[j], n, k)

IndexTyped(indexes, n) ==
  IndexLists(indexes) /\ \A i \in 1..Len(indexes) : \A c \in Foreign : Ids(indexes[i][c], n)

\* The emitter is made of what was made: every list holds listeners, those
\* silenced among them, and every store has its index.
WellMade(E) ==
  /\ DOMAIN E = EvFields /\ IsSeq(E.objs) /\ E.live \in BOOLEAN
  /\ E.noop \subseteq 1..Len(E.objs)
  /\ StoresTyped(E.stores, Len(E.objs), Len(E.indexes)) /\ IndexTyped(E.indexes, Len(E.objs))
  /\ E.live => Len(E.stores) > 0

\* With more listeners, or more indexes, what was well made still is.
LEMMA IdsGrow ==
  ASSUME NEW n \in Nat, NEW m \in Nat, n <= m, NEW list, Ids(list, n)
  PROVE  Ids(list, m)
<1>1. \A x \in 1..n : x \in 1..m
  OBVIOUS
<1> QED
  BY <1>1 DEF Ids

LEMMA StoreGrows ==
  ASSUME NEW n \in Nat, NEW m \in Nat, n <= m, NEW k \in Nat, NEW l \in Nat, k <= l,
         NEW st, StoreTyped(st, n, k)
  PROVE  StoreTyped(st, m, l)
<1>1. \A x \in 0..k : x \in 0..l
  OBVIOUS
<1>2. Ids(st.own, m)
  BY IdsGrow DEF StoreTyped
<1> QED
  BY <1>1, <1>2 DEF StoreTyped

LEMMA StoresGrow ==
  ASSUME NEW n \in Nat, NEW m \in Nat, n <= m, NEW k \in Nat, NEW l \in Nat, k <= l,
         NEW stores, StoresTyped(stores, n, k)
  PROVE  StoresTyped(stores, m, l)
BY StoreGrows DEF StoresTyped

LEMMA IndexGrows ==
  ASSUME NEW n \in Nat, NEW m \in Nat, n <= m, NEW indexes, IndexTyped(indexes, n)
  PROVE  IndexTyped(indexes, m)
BY IdsGrow DEF IndexTyped

\* Every length is a number.
LEMMA MadeLengths ==
  ASSUME NEW E, WellMade(E)
  PROVE  Len(E.objs) \in Nat /\ Len(E.stores) \in Nat /\ Len(E.indexes) \in Nat
BY SeqDomain DEF WellMade, StoresTyped, IndexTyped, IndexLists

\* The store in use replaced, and a store appended.
LEMMA StorePut ==
  ASSUME NEW n, NEW k, NEW stores, StoresTyped(stores, n, k), Len(stores) > 0,
         NEW st, StoreTyped(st, n, k)
  PROVE  StoresTyped(LastPut(stores, st), n, k) /\ Len(LastPut(stores, st)) = Len(stores)
<1> DEFINE p == LastPut(stores, st)
<1>1. /\ IsSeq(p) /\ Len(p) = Len(stores) /\ p[Len(stores)] = st
      /\ \A i \in 1..Len(stores) : i # Len(stores) => p[i] = stores[i]
  BY LastReplaced DEF StoresTyped
<1> HIDE DEF p
<1>2. StoresTyped(p, n, k)
  BY <1>1 DEF StoresTyped
<1> QED
  BY <1>1, <1>2 DEF p

LEMMA StoreAdded ==
  ASSUME NEW n, NEW k \in Nat, NEW stores, StoresTyped(stores, n, k)
  PROVE  /\ StoresTyped(Append(stores, NewStore), n, k)
         /\ Len(Append(stores, NewStore)) = Len(stores) + 1
<1> DEFINE p == Append(stores, NewStore)
<1>1. /\ IsSeq(p) /\ Len(p) = Len(stores) + 1 /\ p[Len(stores) + 1] = NewStore /\ Len(stores) \in Nat
      /\ \A i \in 1..Len(stores) : p[i] = stores[i]
  BY SeqAppend, SeqDomain DEF StoresTyped
<1> HIDE DEF p
<1>2. StoreTyped(NewStore, n, k)
  <2>1. /\ DOMAIN NewStore = StoreFields /\ NewStore.own = <<>> /\ NewStore.len = 0
        /\ NewStore.missed = 0 /\ NewStore.idx = 0
    BY DEF NewStore, StoreFields
  <2> QED
    BY <2>1, EmptyIsSeq DEF StoreTyped, Ids
<1>3. ASSUME NEW i \in 1..Len(p) PROVE StoreTyped(p[i], n, k)
  <2>1. i = Len(stores) + 1 \/ i \in 1..Len(stores)
    BY <1>1
  <2> QED
    BY <1>1, <1>2, <2>1 DEF StoresTyped
<1> QED
  BY <1>1, <1>3 DEF StoresTyped, p

\* An operation makes m of E, with so many more listeners and stores.
Makes(E, m, objs, stores) ==
  /\ WellMade(m) /\ Len(m.objs) = Len(E.objs) + objs /\ Len(m.stores) = Len(E.stores) + stores
  /\ Len(m.indexes) >= Len(E.indexes)

\* One list of one index replaced.
LEMMA ListTyped ==
  ASSUME NEW n, NEW indexes, IndexTyped(indexes, n), NEW i \in 1..Len(indexes),
         NEW c \in Foreign, NEW list, IsSeq(list), Ids(list, n)
  PROVE  IndexTyped(ListPut(indexes, i, c, list), n)
         /\ Len(ListPut(indexes, i, c, list)) = Len(indexes)
<1> DEFINE ix == ListPut(indexes, i, c, list)
           index == [indexes[i] EXCEPT ![c] = list]
<1>1. /\ IsSeq(indexes) /\ DOMAIN indexes = 1..Len(indexes) /\ DOMAIN indexes[i] = Foreign
      /\ IndexLists(indexes)
  BY SeqDomain DEF IndexTyped, IndexLists
<1>2. ix = [indexes EXCEPT ![i] = index]
  BY DEF ListPut
<1>3. DOMAIN index = Foreign /\ index[c] = list
      /\ \A d \in Foreign : d # c => index[d] = indexes[i][d]
  BY <1>1
<1> HIDE DEF ix, index
<1>4. /\ ix = [j \in DOMAIN indexes |-> ix[j]] /\ ix[i] = index
      /\ \A j \in 1..Len(indexes) : j # i => ix[j] = indexes[j]
  BY <1>1, <1>2
<1>5. IsSeq(ix) /\ Len(ix) = Len(indexes)
  BY <1>1, <1>4, SeqChange
<1>6. ASSUME NEW j \in 1..Len(ix)
      PROVE  DOMAIN ix[j] = Foreign /\ \A d \in Foreign : IsSeq(ix[j][d]) /\ Ids(ix[j][d], n)
  <2>1. CASE j = i
    <3>1. ASSUME NEW d \in Foreign PROVE IsSeq(index[d]) /\ Ids(index[d], n)
      <4>1. CASE d = c
        BY <1>3, <4>1
      <4>2. CASE d # c
        BY <1>3, <4>2 DEF IndexTyped, IndexLists
      <4> QED
        BY <4>1, <4>2
    <3> QED
      BY <1>3, <1>4, <2>1, <3>1
  <2>2. CASE j # i
    BY <1>4, <1>5, <2>2 DEF IndexTyped, IndexLists
  <2> QED
    BY <2>1, <2>2
<1>7. IndexTyped(ix, n)
  BY <1>5, <1>6 DEF IndexTyped, IndexLists
<1> QED
  BY <1>5, <1>7 DEF ix

LEMMA OpenedMakes ==
  ASSUME NEW E, WellMade(E)
  PROVE  Makes(E, Opened(E), 0, IF E.live THEN 0 ELSE 1) /\ Opened(E).live /\ Opened(E).objs = E.objs
<1> DEFINE m == Opened(E)
           s == Append(E.stores, NewStore)
<1>1. Len(E.objs) \in Nat /\ Len(E.stores) \in Nat /\ Len(E.indexes) \in Nat
  BY MadeLengths
<1>2. CASE E.live
  BY <1>1, <1>2 DEF Opened, Makes
<1>3. CASE ~E.live
  <2>1. m = [E EXCEPT !.live = TRUE, !.stores = s] /\ DOMAIN E = EvFields
    BY <1>3 DEF Opened, WellMade
  <2>2. StoresTyped(s, Len(E.objs), Len(E.indexes)) /\ Len(s) = Len(E.stores) + 1
    BY <1>1, StoreAdded DEF WellMade
  <2> HIDE DEF m, s
  <2>3. /\ DOMAIN m = EvFields /\ m.live = TRUE /\ m.stores = s /\ m.objs = E.objs
        /\ m.noop = E.noop /\ m.gone = E.gone /\ m.indexes = E.indexes
    BY <2>1 DEF EvFields
  <2>4. WellMade(m)
    <3>1. m.live \in BOOLEAN
      BY <2>3
    <3>2. Len(m.stores) > 0
      BY <1>1, <2>2, <2>3
    <3>3. DOMAIN m = EvFields /\ IsSeq(m.objs) /\ m.noop \subseteq 1..Len(m.objs)
      BY <2>3 DEF WellMade
    <3>4. StoresTyped(m.stores, Len(m.objs), Len(m.indexes)) /\ IndexTyped(m.indexes, Len(m.objs))
      BY <2>2, <2>3 DEF WellMade
    <3> QED
      BY <3>1, <3>2, <3>3, <3>4 DEF WellMade
  <2>5. Len(m.objs) = Len(E.objs) + 0 /\ Len(m.stores) = Len(E.stores) + 1
        /\ Len(m.indexes) >= Len(E.indexes)
    <3>1. Len(m.objs) = Len(E.objs)
      BY <2>3
    <3>2. Len(m.stores) = Len(E.stores) + 1
      BY <2>2, <2>3
    <3>3. Len(m.indexes) = Len(E.indexes)
      BY <2>3
    <3> QED
      BY <1>1, <3>1, <3>2, <3>3
  <2>6. Makes(E, m, 0, 1)
    BY <2>4, <2>5 DEF Makes
  <2> QED
    BY <1>3, <2>3, <2>6 DEF m
<1> QED
  BY <1>2, <1>3

LEMMA IndexedMakes ==
  ASSUME NEW E, WellMade(E), E.live
  PROVE  /\ Makes(E, Indexed(E), 0, 0) /\ Indexed(E).live /\ Indexed(E).objs = E.objs
         /\ Indexed(E).stores[Len(Indexed(E).stores)].idx # 0
<1> DEFINE old == E.stores[Len(E.stores)]
           n == Len(E.objs)
           k == Len(E.indexes)
<1>1. Len(E.objs) \in Nat /\ Len(E.stores) \in Nat /\ Len(E.indexes) \in Nat /\ Len(E.stores) > 0
  BY MadeLengths DEF WellMade
<1>2. StoreTyped(old, n, k)
  <2>1. Len(E.stores) \in 1..Len(E.stores)
    BY <1>1
  <2> QED
    BY <2>1 DEF WellMade, StoresTyped
<1>3. CASE old.idx # 0
  BY <1>1, <1>3 DEF Indexed, Current, Makes
<1>4. CASE old.idx = 0
  <2> DEFINE m == Indexed(E)
             st == [old EXCEPT !.idx = Len(E.indexes) + 1]
             ix == Append(E.indexes, NoKeys)
             ss == LastPut(E.stores, st)
  <2>1. m = [E EXCEPT !.indexes = ix, !.stores = ss] /\ DOMAIN E = EvFields
    BY <1>4 DEF Indexed, Current, WellMade, LastPut
  <2>2. /\ IsSeq(ix) /\ Len(ix) = k + 1
        /\ ix[k + 1] = NoKeys /\ \A i \in 1..k : ix[i] = E.indexes[i]
    BY SeqAppend DEF WellMade, IndexTyped, IndexLists
  <2>3. /\ DOMAIN st = StoreFields /\ st.own = old.own /\ st.len = old.len
        /\ st.missed = old.missed /\ st.idx = k + 1 /\ st.hasOwn = old.hasOwn
    BY <1>2 DEF StoreTyped, StoreFields
  <2> HIDE DEF m, ss, st, ix, old
  <2>4. StoreTyped(st, n, k + 1)
    BY <1>1, <1>2, <2>3 DEF StoreTyped
  <2>5. StoresTyped(E.stores, n, k + 1)
    BY <1>1, StoresGrow DEF WellMade
  <2>6. StoresTyped(ss, n, k + 1) /\ Len(ss) = Len(E.stores)
    BY <1>1, <2>4, <2>5, StorePut DEF ss
  <2>7. ASSUME NEW i \in 1..Len(ix)
        PROVE  DOMAIN ix[i] = Foreign /\ \A c \in Foreign : IsSeq(ix[i][c]) /\ Ids(ix[i][c], n)
    <3>1. i = k + 1 \/ i \in 1..k
      BY <1>1, <2>2
    <3>2. CASE i = k + 1
      <4>1. DOMAIN NoKeys = Foreign /\ \A c \in Foreign : NoKeys[c] = <<>>
        BY DEF NoKeys
      <4> QED
        BY <2>2, <3>2, <4>1, EmptyIsSeq DEF Ids
    <3>3. CASE i \in 1..k
      BY <2>2, <3>3 DEF WellMade, IndexTyped, IndexLists
    <3> QED
      BY <3>1, <3>2, <3>3
  <2>8. IndexTyped(ix, n)
    BY <2>2, <2>7 DEF IndexTyped, IndexLists
  <2>9. /\ DOMAIN m = EvFields /\ m.indexes = ix /\ m.stores = ss
        /\ m.objs = E.objs /\ m.noop = E.noop /\ m.gone = E.gone /\ m.live = E.live
    BY <2>1 DEF EvFields
  <2>10. WellMade(m)
    BY <1>1, <2>2, <2>6, <2>8, <2>9 DEF WellMade
  <2>11. Makes(E, m, 0, 0)
    BY <1>1, <2>2, <2>6, <2>9, <2>10 DEF Makes
  <2>12. m.stores[Len(m.stores)].idx # 0
    <3>1. ss[Len(E.stores)] = st
      BY <1>1, LastReplaced DEF ss, WellMade, StoresTyped
    <3> QED
      BY <1>1, <2>3, <2>6, <2>9, <3>1
  <2> QED
    BY <2>9, <2>11, <2>12 DEF m
<1> QED
  BY <1>3, <1>4

LEMMA AddedMakes ==
  ASSUME NEW E0, WellMade(E0), NEW fn, NEW c
  PROVE  Makes(E0, Added(E0, fn, c), 1, IF E0.live THEN 0 ELSE 1) /\ Added(E0, fn, c).live
<1> DEFINE O == Opened(E0)
           n == Len(E0.objs)
           id == Len(E0.objs) + 1
           objs == Append(O.objs, [fn |-> fn, ctx |-> IF c = NoContext THEN Own ELSE c, arg |-> c])
           E1 == [O EXCEPT !.objs = objs]
           more == IF E0.live THEN 0 ELSE 1
<1>1. Len(E0.objs) \in Nat /\ Len(E0.stores) \in Nat /\ Len(E0.indexes) \in Nat
  BY MadeLengths
<1>2. Makes(E0, E1, 1, more) /\ E1.live /\ Len(E1.objs) = id
  <2>1. Makes(E0, O, 0, more) /\ O.live /\ O.objs = E0.objs /\ WellMade(O)
    BY OpenedMakes DEF Makes
  <2>2. IsSeq(objs) /\ Len(objs) = id
    BY <2>1, SeqAppend DEF WellMade
  <2>3. Len(O.stores) \in Nat /\ Len(O.indexes) \in Nat
    BY <2>1, MadeLengths
  <2>4. StoresTyped(O.stores, id, Len(O.indexes)) /\ IndexTyped(O.indexes, id)
    <3>1. StoresTyped(O.stores, n, Len(O.indexes)) /\ IndexTyped(O.indexes, n)
      BY <2>1 DEF WellMade
    <3>2. n \in Nat /\ id \in Nat /\ n <= id /\ Len(O.indexes) <= Len(O.indexes)
      BY <1>1, <2>3
    <3> HIDE DEF O, n, id
    <3> QED
      BY <2>3, <3>1, <3>2, StoresGrow, IndexGrows
  <2> HIDE DEF O, objs, more
  <2>5. /\ DOMAIN E1 = EvFields /\ E1.objs = objs /\ E1.stores = O.stores /\ E1.live = O.live
        /\ E1.indexes = O.indexes /\ E1.noop = O.noop /\ E1.gone = O.gone
    BY <2>1 DEF EvFields, WellMade
  <2> HIDE DEF E1
  <2>6. \A x \in 1..n : x \in 1..id
    BY <1>1
  <2>7. E1.noop \subseteq 1..Len(E1.objs)
    BY <2>1, <2>2, <2>5, <2>6 DEF WellMade
  <2>8. WellMade(E1)
    BY <2>1, <2>2, <2>4, <2>5, <2>7 DEF WellMade
  <2>9. Len(E1.objs) = Len(E0.objs) + 1 /\ Len(E1.stores) = Len(E0.stores) + more
        /\ Len(E1.indexes) >= Len(E0.indexes)
    BY <2>1, <2>2, <2>5 DEF Makes
  <2> QED
    BY <2>1, <2>2, <2>5, <2>8, <2>9 DEF Makes
<1>3. Added(E0, fn, c) =
        IF c \in Foreign
        THEN LET E == Indexed(E1)
                 i == E.stores[Current(E)].idx
             IN [E EXCEPT !.stores[Current(E)].len = @ + NewKeys(E.indexes[i], c),
                          !.indexes[i][c] = Append(@, id)]
        ELSE [E1 EXCEPT !.stores[Current(E1)].hasOwn = TRUE,
                        !.stores[Current(E1)].own = Append(@, id)]
  BY DEF Added
<1>4. id \in 1..id /\ id \in Nat
  BY <1>1
<1> HIDE DEF E1, objs, O, id, more
<1>5. WellMade(E1) /\ Len(E1.stores) > 0 /\ Len(E1.stores) \in Nat /\ Len(E1.indexes) \in Nat
  BY <1>2, MadeLengths DEF Makes, WellMade
\* An id appended to a list.
<1>6. ASSUME NEW list, IsSeq(list), Ids(list, id)
      PROVE  IsSeq(Append(list, id)) /\ Append(list, id) # <<>> /\ Ids(Append(list, id), id)
  <2> DEFINE q == Append(list, id)
  <2>1. /\ IsSeq(q) /\ Len(q) = Len(list) + 1 /\ q # <<>> /\ q[Len(list) + 1] = id
        /\ \A i \in 1..Len(list) : q[i] = list[i]
    BY <1>6, SeqAppend
  <2>2. Len(list) \in Nat
    BY <1>6, SeqDomain
  <2> HIDE DEF q
  <2>3. ASSUME NEW k \in 1..Len(q) PROVE q[k] \in 1..id
    <3>1. k = Len(list) + 1 \/ k \in 1..Len(list)
      BY <2>1, <2>2
    <3> QED
      BY <1>4, <1>6, <2>1, <3>1 DEF Ids
  <2> QED
    BY <2>1, <2>3 DEF Ids, q
<1>7. CASE c \in Foreign
  <2> DEFINE E == Indexed(E1)
             st == E.stores[Len(E.stores)]
             i == st.idx
             index == E.indexes[i]
             list == Append(index[c], id)
             st2 == [st EXCEPT !.len = st.len + NewKeys(index, c)]
             ss == LastPut(E.stores, st2)
             ix == ListPut(E.indexes, i, c, list)
             m == [E EXCEPT !.stores = ss, !.indexes = ix]
  <2>1. Added(E0, fn, c) = m
    BY <1>3, <1>7 DEF Current, LastPut, ListPut
  <2>2. Makes(E1, E, 0, 0) /\ E.live /\ i # 0 /\ E.objs = E1.objs
    BY <1>2, <1>5, IndexedMakes
  <2>3. WellMade(E) /\ DOMAIN E = EvFields /\ Len(E.stores) > 0 /\ Len(E.stores) \in Nat
        /\ Len(E.indexes) \in Nat /\ Len(E.objs) = id
    BY <1>2, <2>2, MadeLengths DEF Makes, WellMade
  <2>4. StoreTyped(st, id, Len(E.indexes)) /\ IndexTyped(E.indexes, id) /\ IndexLists(E.indexes)
    <3>1. Len(E.stores) \in 1..Len(E.stores)
      BY <2>3
    <3> QED
      BY <2>3, <3>1 DEF WellMade, StoresTyped, IndexTyped
  <2>5. i \in 1..Len(E.indexes)
    BY <2>2, <2>3, <2>4 DEF StoreTyped
  <2>6. IsSeq(list) /\ list # <<>> /\ Ids(list, id)
    <3>1. IsSeq(index[c]) /\ Ids(index[c], id)
      BY <1>7, <2>4, <2>5 DEF IndexTyped, IndexLists
    <3> QED
      BY <1>6, <3>1
  <2>7. NewKeys(index, c) \in Int
    BY DEF NewKeys
  <2>8. /\ DOMAIN st2 = StoreFields /\ st2.own = st.own /\ st2.missed = st.missed
        /\ st2.idx = i /\ st2.len = st.len + NewKeys(index, c) /\ st2.hasOwn = st.hasOwn
    BY <2>4 DEF StoreTyped, StoreFields
  <2> HIDE DEF m, ss, ix, st2, list
  <2>9. IndexTyped(ix, id) /\ Len(ix) = Len(E.indexes)
    <3>1. index = E.indexes[i] /\ ix = ListPut(E.indexes, i, c, list)
      BY DEF ix
    <3> HIDE DEF index, st, i, E
    <3> QED
      BY <1>7, <2>4, <2>5, <2>6, <3>1, ListTyped
  <2>10. /\ DOMAIN m = EvFields /\ m.indexes = ix /\ m.stores = ss
         /\ m.objs = E.objs /\ m.noop = E.noop /\ m.gone = E.gone /\ m.live = E.live
    BY <2>3 DEF m, EvFields
  <2> HIDE DEF index, st, i
  <2>11. StoreTyped(st2, id, Len(ix))
    <3>1. st2.len \in Int
      BY <2>4, <2>7, <2>8 DEF StoreTyped
    <3> QED
      BY <2>4, <2>5, <2>8, <2>9, <3>1 DEF StoreTyped, i
  <2>12. StoresTyped(E.stores, id, Len(ix))
    BY <2>3, <2>9 DEF WellMade
  <2>13. StoresTyped(ss, id, Len(ix)) /\ Len(ss) = Len(E.stores)
    BY <2>3, <2>11, <2>12, StorePut DEF ss
  <2> HIDE DEF E
  <2>14. WellMade(m)
    BY <2>2, <2>3, <2>9, <2>10, <2>13 DEF WellMade
  <2>15. Len(m.objs) = Len(E1.objs) /\ Len(m.stores) = Len(E1.stores)
         /\ Len(m.indexes) >= Len(E1.indexes)
    BY <1>5, <2>2, <2>3, <2>9, <2>10, <2>13 DEF Makes
  <2>16. Len(m.indexes) >= Len(E0.indexes) /\ Len(m.objs) = Len(E0.objs) + 1
         /\ Len(m.stores) = Len(E0.stores) + more
    BY <1>1, <1>2, <1>5, <2>3, <2>9, <2>10, <2>15 DEF Makes
  <2>17. Makes(E0, m, 1, more) /\ m.live
    BY <2>2, <2>10, <2>14, <2>16 DEF Makes
  <2> QED
    BY <2>1, <2>17 DEF more
<1>8. CASE c \notin Foreign
  <2> DEFINE st == E1.stores[Len(E1.stores)]
             own == Append(st.own, id)
             st2 == [st EXCEPT !.hasOwn = TRUE, !.own = own]
             ss == LastPut(E1.stores, st2)
             m == [E1 EXCEPT !.stores = ss]
  <2>1. Added(E0, fn, c) = m
    BY <1>3, <1>8 DEF Current, LastPut
  <2>2. DOMAIN E1 = EvFields /\ StoreTyped(st, id, Len(E1.indexes))
    <3>1. Len(E1.stores) \in 1..Len(E1.stores)
      BY <1>5
    <3> QED
      BY <1>2, <1>5, <3>1 DEF WellMade, StoresTyped
  <2>3. IsSeq(own) /\ Ids(own, id)
    BY <1>6, <2>2 DEF StoreTyped
  <2> HIDE DEF own
  <2>4. /\ DOMAIN st2 = StoreFields /\ st2.own = own /\ st2.missed = st.missed
        /\ st2.idx = st.idx /\ st2.len = st.len /\ st2.hasOwn = TRUE
    BY <2>2 DEF StoreTyped, StoreFields
  <2> HIDE DEF m, ss, st2
  <2>5. /\ DOMAIN m = EvFields /\ m.indexes = E1.indexes /\ m.stores = ss
        /\ m.objs = E1.objs /\ m.noop = E1.noop /\ m.gone = E1.gone /\ m.live = E1.live
    BY <2>2 DEF m, EvFields
  <2> HIDE DEF st
  <2>6. StoreTyped(st2, id, Len(E1.indexes))
    BY <2>2, <2>3, <2>4 DEF StoreTyped
  <2>7. StoresTyped(E1.stores, id, Len(E1.indexes))
    BY <1>2, <1>5 DEF WellMade
  <2>8. StoresTyped(ss, id, Len(E1.indexes)) /\ Len(ss) = Len(E1.stores)
    BY <1>5, <2>6, <2>7, StorePut DEF ss
  <2>9. WellMade(m)
    BY <1>2, <1>5, <2>5, <2>8 DEF WellMade
  <2>10. Makes(E0, m, 1, more) /\ m.live
    BY <1>2, <2>5, <2>8, <2>9 DEF Makes
  <2> QED
    BY <2>1, <2>10 DEF more
<1> QED
  BY <1>7, <1>8

\* What is taken from a list is of the list.
LEMMA TakenIsOfList ==
  ASSUME NEW list, NEW n, Ids(list, n), NEW S, S \subseteq 1..Len(list)
  PROVE  {list[k] : k \in S} \subseteq 1..n
BY DEF Ids

LEMMA RemovedMakes ==
  ASSUME NEW E, WellMade(E), NEW fn, NEW c
  PROVE  Makes(E, Removed(E, fn, c), 0, 0) /\ Removed(E, fn, c).live = E.live
<1> DEFINE st == E.stores[Len(E.stores)]
           inIndex == c \in Foreign /\ st.idx # 0
           list == IF inIndex THEN E.indexes[st.idx][c] ELSE st.own
           Match(i) == E.objs[i].fn = fn /\ (c = NoContext \/ E.objs[i].ctx = c)
           matching == {k \in 1..Len(list) : Match(list[k])}
           out == {list[k] : k \in matching}
           rest == Without(list, out)
           uncount == c # NoContext /\ st.idx # 0 /\ rest = <<>>
           skip == ~E.live \/ (IF inIndex THEN list = <<>> ELSE ~st.hasOwn)
           st2 == [st EXCEPT !.own = IF inIndex THEN @ ELSE rest,
                             !.len = IF uncount THEN @ - 1 ELSE @,
                             !.missed = IF uncount /\ ~inIndex THEN @ + 1 ELSE @]
           ss == LastPut(E.stores, st2)
           ix == IF inIndex THEN ListPut(E.indexes, st.idx, c, rest) ELSE E.indexes
           noop == E.noop \cup out
           gone == E.gone \cup out
           m == [E EXCEPT !.noop = noop, !.gone = gone, !.stores = ss, !.indexes = ix]
           n == Len(E.objs)
           k == Len(E.indexes)
<1>1. Removed(E, fn, c) = IF skip THEN E ELSE m
  BY DEF Removed, Current, Silenced, LastPut, ListPut
<1>2. n \in Nat /\ Len(E.stores) \in Nat /\ k \in Nat
  BY MadeLengths
<1>3. CASE skip
  <2>1. Removed(E, fn, c) = E
    BY <1>1, <1>3
  <2>2. Makes(E, E, 0, 0)
    <3>1. Len(E.objs) = Len(E.objs) + 0 /\ Len(E.stores) = Len(E.stores) + 0
          /\ Len(E.indexes) >= Len(E.indexes)
      BY <1>2
    <3> QED
      BY <3>1 DEF Makes
  <2> QED
    BY <2>1, <2>2
<1>4. CASE ~skip
  <2>1. E.live /\ DOMAIN E = EvFields /\ E.noop \subseteq 1..n /\ IsSeq(E.objs)
        /\ Len(E.stores) > 0 /\ StoresTyped(E.stores, n, k)
    BY <1>4 DEF WellMade
  <2>2. StoreTyped(st, n, k) /\ IndexTyped(E.indexes, n) /\ IndexLists(E.indexes)
    <3>1. Len(E.stores) \in 1..Len(E.stores)
      BY <1>2, <2>1
    <3> QED
      BY <2>1, <3>1 DEF WellMade, StoresTyped, IndexTyped
  <2>3. ~inIndex => st.hasOwn
    BY <1>4
  <2>4. inIndex => c \in Foreign /\ st.idx \in 1..k /\ list = E.indexes[st.idx][c]
    BY <1>2, <2>2 DEF StoreTyped
  <2>5. IsSeq(list) /\ Ids(list, n)
    <3>1. CASE inIndex
      BY <2>2, <2>4, <3>1 DEF IndexTyped, IndexLists
    <3>2. CASE ~inIndex
      BY <2>2, <3>2 DEF StoreTyped
    <3> QED
      BY <3>1, <3>2
  <2>6. matching \subseteq 1..Len(list)
    OBVIOUS
  <2>7. out \subseteq 1..n
    <3> HIDE DEF list, matching, n
    <3> QED
      BY <2>5, <2>6, TakenIsOfList
  <2>8. IsSeq(rest) /\ Ids(rest, n)
    <3> HIDE DEF list, out, n
    <3> QED
      BY <2>5, WithoutIsSeq, WithoutIsOfList
  <2>9. /\ DOMAIN st2 = StoreFields /\ st2.idx = st.idx /\ st2.hasOwn = st.hasOwn
        /\ st2.own = IF inIndex THEN st.own ELSE rest
        /\ st2.len = IF uncount THEN st.len - 1 ELSE st.len
        /\ st2.missed = IF uncount /\ ~inIndex THEN st.missed + 1 ELSE st.missed
    BY <2>2 DEF StoreTyped, StoreFields
  <2>10. ix = IF inIndex THEN ListPut(E.indexes, st.idx, c, rest) ELSE E.indexes
    OBVIOUS
  <2>11. Removed(E, fn, c) = m
    BY <1>1, <1>4
  <2> HIDE DEF st2, ss, ix, noop, gone, uncount, rest, out, list, matching, inIndex, st, m, skip, n, k
  <2>12. /\ DOMAIN m = EvFields /\ m.indexes = ix /\ m.stores = ss
         /\ m.objs = E.objs /\ m.noop = noop /\ m.live = E.live
    BY <2>1 DEF m, EvFields
  <2>13. StoreTyped(st2, n, k)
    <3>1. IsSeq(st2.own) /\ Ids(st2.own, n) /\ (st2.own # <<>> => st2.hasOwn)
      <4>1. CASE inIndex
        BY <2>2, <2>9, <4>1 DEF StoreTyped
      <4>2. CASE ~inIndex
        BY <2>3, <2>8, <2>9, <4>2
      <4> QED
        BY <4>1, <4>2
    <3>2. st.len \in Int /\ st.missed \in Nat /\ st.idx \in 0..k
      BY <2>2 DEF StoreTyped
    <3>3. st2.len \in Int
      BY <2>9, <3>2
    <3>4. st2.missed \in Nat
      BY <2>9, <3>2
    <3> QED
      BY <2>9, <3>1, <3>2, <3>3, <3>4 DEF StoreTyped
  <2>14. StoresTyped(ss, n, k) /\ Len(ss) = Len(E.stores)
    BY <2>1, <2>13, StorePut DEF ss
  <2>15. IndexTyped(ix, n) /\ Len(ix) = k
    <3>1. CASE inIndex
      <4>1. st.idx \in 1..Len(E.indexes) /\ c \in Foreign
        BY <2>4, <3>1 DEF k
      <4>2. IndexTyped(ListPut(E.indexes, st.idx, c, rest), n)
            /\ Len(ListPut(E.indexes, st.idx, c, rest)) = Len(E.indexes)
        BY <2>2, <2>8, <4>1, ListTyped
      <4> QED
        BY <2>10, <3>1, <4>2 DEF k
    <3>2. CASE ~inIndex
      BY <2>2, <2>10, <3>2 DEF k
    <3> QED
      BY <3>1, <3>2
  <2>16. m.noop \subseteq 1..n
    BY <2>1, <2>7, <2>12 DEF noop
  <2>17. WellMade(m)
    <3>1. Len(m.objs) = n /\ Len(m.indexes) = k
      BY <2>12, <2>15 DEF n
    <3>2. DOMAIN m = EvFields /\ IsSeq(m.objs) /\ m.live \in BOOLEAN
      BY <2>1, <2>12 DEF WellMade
    <3>3. m.noop \subseteq 1..Len(m.objs)
      BY <2>16, <3>1
    <3>4. StoresTyped(m.stores, Len(m.objs), Len(m.indexes)) /\ IndexTyped(m.indexes, Len(m.objs))
      BY <2>12, <2>14, <2>15, <3>1
    <3>5. Len(m.stores) > 0
      BY <2>1, <2>12, <2>14
    <3> QED
      BY <3>2, <3>3, <3>4, <3>5 DEF WellMade
  <2>18. Len(m.objs) = Len(E.objs) + 0 /\ Len(m.stores) = Len(E.stores) + 0
         /\ Len(m.indexes) >= Len(E.indexes)
    <3>1. Len(m.objs) = Len(E.objs) /\ Len(m.stores) = Len(E.stores)
          /\ Len(m.indexes) = Len(E.indexes)
      BY <2>12, <2>14, <2>15 DEF k
    <3>2. Len(E.objs) \in Nat /\ Len(E.indexes) \in Nat
      BY <1>2 DEF n, k
    <3> QED
      BY <1>2, <3>1, <3>2
  <2> QED
    BY <2>11, <2>12, <2>17, <2>18 DEF Makes
<1> QED
  BY <1>3, <1>4

\* The emitter within its bounds.
Bounded(E) == WellMade(E) /\ Len(E.objs) <= MaxListeners /\ Len(E.stores) <= MaxStores

\* Stores and indexes are never fewer: a dispatch keeps those it started with.
Grown(E, m) ==
  Bounded(m) /\ Len(m.stores) >= Len(E.stores) /\ Len(m.indexes) >= Len(E.indexes)

LEMMA MadeInBounds ==
  ASSUME NEW E, NEW m, NEW objs \in Nat, NEW stores \in Nat, Bounded(E), Makes(E, m, objs, stores),
         Len(E.objs) + objs <= MaxListeners, Len(E.stores) + stores <= MaxStores
  PROVE  Grown(E, m)
<1>1. Len(E.objs) \in Nat /\ Len(E.stores) \in Nat /\ Len(E.indexes) \in Nat
  BY MadeLengths DEF Bounded
<1>2. Len(m.stores) >= Len(E.stores)
  BY <1>1 DEF Makes
<1> QED
  BY <1>2 DEF Makes, Bounded, Grown

\* Every step of the emitter grows it within its bounds.
LEMMA EmitterGrows ==
  ASSUME Bounded(ev), [EvNext]_evVars
  PROVE  Grown(ev, ev')
<1>1. /\ Len(ev.objs) \in Nat /\ Len(ev.stores) \in Nat /\ Len(ev.indexes) \in Nat
      /\ MaxListeners \in Nat /\ MaxStores \in Nat
      /\ Len(ev.objs) <= MaxListeners /\ Len(ev.stores) <= MaxStores
  BY MadeLengths, DispatchesAssumption DEF Bounded
<1>2. ASSUME ev' = ev PROVE Grown(ev, ev')
  BY <1>1, <1>2 DEF Grown
<1>3. ASSUME NEW f \in Fns, NEW c \in Contexts, On(f, c) PROVE Grown(ev, ev')
  <2> DEFINE more == IF ev.live THEN 0 ELSE 1
  <2>1. Makes(ev, ev', 1, more)
    BY <1>3, AddedMakes DEF On, Bounded
  <2>2. more \in Nat /\ Len(ev.stores) + more <= MaxStores
    <3>1. ~ev.live => Len(ev.stores) < MaxStores
      BY <1>3 DEF On, Current
    <3>2. (ev.live => more = 0) /\ (~ev.live => more = 1)
      OBVIOUS
    <3> HIDE DEF more
    <3>3. CASE ev.live
      BY <1>1, <3>2, <3>3
    <3>4. CASE ~ev.live
      BY <1>1, <3>1, <3>2, <3>4
    <3> QED
      BY <3>3, <3>4
  <2>3. Len(ev.objs) + 1 <= MaxListeners
    BY <1>1, <1>3 DEF On
  <2> HIDE DEF more
  <2> QED
    BY <2>1, <2>2, <2>3, MadeInBounds
<1>4. ASSUME NEW f \in Fns, NEW c \in Contexts, Once(f, c) PROVE Grown(ev, ev')
  <2> DEFINE more == IF ev.live THEN 0 ELSE 1
             E == Added(ev, Plain(f), c)
  <2>1. Makes(ev, E, 1, more) /\ E.live
    BY AddedMakes DEF Bounded
  <2>2. ev' = Added(E, [f |-> f, once |-> Len(E.objs)], c)
    BY <1>4 DEF Once
  <2>3. more \in Nat /\ Len(ev.stores) + more <= MaxStores
    <3>1. ~ev.live => Len(ev.stores) < MaxStores
      BY <1>4 DEF Once, Current
    <3>2. (ev.live => more = 0) /\ (~ev.live => more = 1)
      OBVIOUS
    <3> HIDE DEF more
    <3>3. CASE ev.live
      BY <1>1, <3>2, <3>3
    <3>4. CASE ~ev.live
      BY <1>1, <3>1, <3>2, <3>4
    <3> QED
      BY <3>3, <3>4
  <2>4. Len(ev.objs) + 2 <= MaxListeners
    BY <1>1, <1>4 DEF Once
  <2> HIDE DEF more, E
  <2>5. Makes(E, ev', 1, 0)
    <3>1. WellMade(E)
      BY <2>1 DEF Makes
    <3> QED
      BY <2>1, <2>2, <3>1, AddedMakes
  <2>6. Len(ev'.objs) = Len(ev.objs) + 2 /\ Len(ev'.stores) = Len(ev.stores) + more
        /\ Len(ev'.indexes) >= Len(ev.indexes) /\ WellMade(ev')
    <3>1. Len(E.objs) \in Nat /\ Len(E.stores) \in Nat /\ Len(E.indexes) \in Nat
      BY <2>1, MadeLengths DEF Makes
    <3>2. Len(ev'.indexes) \in Nat
      BY <2>5, MadeLengths DEF Makes
    <3> QED
      BY <1>1, <2>1, <2>3, <2>5, <3>1, <3>2 DEF Makes
  <2> QED
    BY <1>1, <2>3, <2>4, <2>6 DEF Grown, Bounded
<1>5. ASSUME NEW m, Makes(ev, m, 0, 0) PROVE Grown(ev, m)
  <2>1. Len(ev.objs) + 0 <= MaxListeners /\ Len(ev.stores) + 0 <= MaxStores /\ 0 \in Nat
    BY <1>1
  <2> QED
    BY <1>5, <2>1, MadeInBounds
<1>6. ASSUME NEW f \in Fns, NEW c \in Contexts, Off(f, c) PROVE Grown(ev, ev')
  <2>1. Makes(ev, ev', 0, 0)
    BY <1>6, RemovedMakes DEF Off, Bounded
  <2> QED
    BY <1>5, <2>1
<1>7. CASE OffType
  <2> DEFINE ss == LastPut(ev.stores, NewStore)
             n == Len(ev.objs)
             k == Len(ev.indexes)
  <2>1. ev' = [ev EXCEPT !.stores = ss] /\ ev.live /\ DOMAIN ev = EvFields /\ Len(ev.stores) > 0
    BY <1>7 DEF OffType, Current, LastPut, WellMade, Bounded
  <2>2. StoreTyped(NewStore, n, k)
    <3>1. /\ DOMAIN NewStore = StoreFields /\ NewStore.own = <<>> /\ NewStore.len = 0
          /\ NewStore.missed = 0 /\ NewStore.idx = 0
      BY DEF NewStore, StoreFields
    <3> HIDE DEF n
    <3> QED
      BY <1>1, <3>1, EmptyIsSeq DEF StoreTyped, Ids
  <2>3. StoresTyped(ev.stores, n, k)
    BY DEF WellMade, Bounded
  <2>4. StoresTyped(ss, n, k) /\ Len(ss) = Len(ev.stores)
    <3> HIDE DEF n, k
    <3> QED
      BY <2>1, <2>2, <2>3, StorePut
  <2> HIDE DEF ss
  <2>5. /\ DOMAIN ev' = EvFields /\ ev'.indexes = ev.indexes /\ ev'.stores = ss
        /\ ev'.objs = ev.objs /\ ev'.noop = ev.noop /\ ev'.live = ev.live
    BY <2>1 DEF EvFields
  <2>6. WellMade(ev')
    BY <2>1, <2>4, <2>5 DEF WellMade, Bounded
  <2>7. Makes(ev, ev', 0, 0)
    BY <1>1, <2>4, <2>5, <2>6 DEF Makes
  <2> QED
    BY <1>5, <2>7
<1>8. CASE ClearAll
  <2>1. ev' = [ev EXCEPT !.live = FALSE] /\ DOMAIN ev = EvFields
    BY <1>8 DEF ClearAll, WellMade, Bounded
  <2>2. /\ DOMAIN ev' = EvFields /\ ev'.indexes = ev.indexes /\ ev'.stores = ev.stores
        /\ ev'.objs = ev.objs /\ ev'.noop = ev.noop /\ ev'.live = FALSE
    BY <2>1 DEF EvFields
  <2>3. WellMade(ev')
    BY <2>2 DEF WellMade, Bounded
  <2>4. Makes(ev, ev', 0, 0)
    BY <1>1, <2>2, <2>3 DEF Makes
  <2> QED
    BY <1>5, <2>4
<1>9. CASE CallListener
  <2>1. PICK obj : ev' = IF obj.fn.once = 0 THEN ev
                         ELSE Removed(Removed(ev, Plain(obj.fn.f), obj.arg), obj.fn, obj.arg)
    BY <1>9 DEF CallListener
  <2>2. CASE obj.fn.once = 0
    BY <1>2, <2>1, <2>2
  <2>3. CASE obj.fn.once # 0
    <3> DEFINE E == Removed(ev, Plain(obj.fn.f), obj.arg)
    <3>1. Makes(ev, E, 0, 0)
      BY RemovedMakes DEF Bounded
    <3>2. ev' = Removed(E, obj.fn, obj.arg)
      BY <2>1, <2>3
    <3> HIDE DEF E
    <3>3. Makes(E, ev', 0, 0)
      BY <3>1, <3>2, RemovedMakes DEF Makes
    <3>4. Len(ev'.indexes) \in Nat /\ Len(E.indexes) \in Nat
      BY <3>1, <3>3, MadeLengths DEF Makes
    <3>5. Makes(ev, ev', 0, 0)
      BY <1>1, <3>1, <3>3, <3>4 DEF Makes
    <3> QED
      BY <1>5, <3>5
  <2> QED
    BY <2>2, <2>3
<1>10. CASE Fire \/ EnterIndex \/ NextContext \/ Return \/ UNCHANGED evVars
  BY <1>2, <1>10 DEF Fire, EnterIndex, NextContext, Return, evVars
<1> QED
  BY <1>3, <1>4, <1>6, <1>7, <1>8, <1>9, <1>10 DEF EvNext

\* A dispatch reads stores and an index that were made.
FrameIn(fr, n, k) == DOMAIN fr = FrameFields /\ fr.events \in 1..n /\ fr.index \in 0..k

FramesIn(stack, E) ==
  /\ IsSeq(stack) /\ Len(stack) <= MaxDepth
  /\ \A i \in 1..Len(stack) : FrameIn(stack[i], Len(E.stores), Len(E.indexes))

LEMMA FramesStep ==
  ASSUME Bounded(ev), Grown(ev, ev'), FramesIn(evStack, ev), [EvNext]_evVars
  PROVE  FramesIn(evStack', ev')
<1> DEFINE n == Len(evStack)
           s == Len(ev.stores)
           k == Len(ev.indexes)
<1>1. /\ IsSeq(evStack) /\ n \in Nat /\ n <= MaxDepth /\ s \in Nat /\ k \in Nat /\ MaxDepth \in Nat
      /\ \A i \in 1..n : FrameIn(evStack[i], s, k)
  BY SeqDomain, MadeLengths, DispatchesAssumption DEF FramesIn, Bounded
<1>2. evStack # <<>> => n > 0
  BY <1>1 DEF IsSeq
\* What was within the emitter is within what it becomes.
<1>3. ASSUME NEW fr, FrameIn(fr, s, k) PROVE FrameIn(fr, Len(ev'.stores), Len(ev'.indexes))
  <2>1. Len(ev'.stores) \in Nat /\ Len(ev'.indexes) \in Nat /\ Len(ev'.stores) >= s
        /\ Len(ev'.indexes) >= k
    BY MadeLengths DEF Grown, Bounded
  <2>2. \A x \in 1..s : x \in 1..Len(ev'.stores)
    BY <1>1, <2>1
  <2>3. \A x \in 0..k : x \in 0..Len(ev'.indexes)
    BY <1>1, <2>1
  <2> QED
    BY <1>3, <2>2, <2>3 DEF FrameIn
<1>4. ASSUME UNCHANGED evStack PROVE FramesIn(evStack', ev')
  BY <1>1, <1>3, <1>4 DEF FramesIn
<1>5. ASSUME NEW fr, FrameIn(fr, s, k), evStack # <<>>, evStack' = LastPut(evStack, fr)
      PROVE  FramesIn(evStack', ev')
  <2>1. /\ IsSeq(evStack') /\ Len(evStack') = n /\ evStack'[n] = fr
        /\ \A i \in 1..n : i # n => evStack'[i] = evStack[i]
    BY <1>1, <1>2, <1>5, LastReplaced
  <2> HIDE DEF n, s, k
  <2>2. ASSUME NEW i \in 1..n PROVE FrameIn(evStack'[i], s, k)
    BY <1>1, <1>5, <2>1
  <2> QED
    BY <1>1, <1>3, <2>1, <2>2 DEF FramesIn
<1>6. CASE Fire
  <2> DEFINE fr == [events |-> Current(ev), list |-> Snapshot(ev.stores[Current(ev)].own), at |-> 0,
                    inOwn |-> TRUE, index |-> 0, todo |-> <<>>, running |-> 0,
                    since |-> Len(ev.objs)]
  <2>1. evStack' = Append(evStack, fr) /\ n < MaxDepth /\ ev.live
    BY <1>6 DEF Fire, HasListeners
  <2>2. FrameIn(fr, s, k)
    <3>1. s \in 1..s /\ 0 \in 0..k
      BY <1>1, <2>1 DEF Bounded, WellMade
    <3> QED
      BY <3>1 DEF FrameIn, FrameFields, Current
  <2> HIDE DEF fr
  <2>3. /\ IsSeq(evStack') /\ Len(evStack') = n + 1 /\ evStack'[n + 1] = fr
        /\ \A i \in 1..n : evStack'[i] = evStack[i]
    BY <1>1, <2>1, SeqAppend
  <2> HIDE DEF n, s, k
  <2>4. ASSUME NEW i \in 1..n + 1 PROVE FrameIn(evStack'[i], s, k)
    <3>1. i = n + 1 \/ i \in 1..n
      BY <1>1
    <3> QED
      BY <1>1, <2>2, <2>3, <3>1
  <2>5. n + 1 <= MaxDepth
    BY <1>1, <2>1
  <2> QED
    BY <1>3, <2>3, <2>4, <2>5 DEF FramesIn
<1>7. CASE Return
  <2>1. n > 0 /\ evStack' = Front(evStack)
    BY <1>2, <1>7 DEF Return
  <2>2. /\ IsSeq(evStack') /\ Len(evStack') = n - 1
        /\ \A i \in 1..n - 1 : evStack'[i] = evStack[i]
    BY <1>1, <2>1, FrontIsSeq
  <2> HIDE DEF n, s, k
  <2>3. n - 1 <= MaxDepth /\ \A i \in 1..n - 1 : i \in 1..n
    BY <1>1
  <2>4. ASSUME NEW i \in 1..n - 1 PROVE FrameIn(evStack'[i], s, k)
    BY <1>1, <2>2, <2>3
  <2> QED
    BY <1>3, <2>2, <2>3, <2>4 DEF FramesIn
<1>8. ASSUME evStack # <<>> PROVE FrameIn(Top, s, k)
  BY <1>1, <1>2, <1>8 DEF Top
<1>9. CASE CallListener
  <2>1. PICK j \in Pending(Top) :
          evStack' = [evStack EXCEPT ![Len(evStack)].at = j,
                                     ![Len(evStack)].running = Top.list[j]]
    BY <1>9 DEF CallListener
  <2> DEFINE id == Top.list[j]
             fr == [Top EXCEPT !.at = j, !.running = id]
  <2>2. evStack # <<>> /\ evStack' = LastPut(evStack, fr)
    BY <1>9, <2>1 DEF CallListener, LastPut, Top
  <2> HIDE DEF id
  <2>3. FrameIn(fr, s, k)
    <3>1. DOMAIN Top = FrameFields
      BY <1>8, <2>2 DEF FrameIn
    <3>2. DOMAIN fr = FrameFields /\ fr.events = Top.events /\ fr.index = Top.index
      BY <3>1 DEF FrameFields
    <3> HIDE DEF fr
    <3> QED
      BY <1>8, <2>2, <3>2 DEF FrameIn
  <2> HIDE DEF fr
  <2> QED
    BY <1>5, <2>2, <2>3
<1>10. CASE EnterIndex
  <2> DEFINE i == ev.stores[Top.events].idx
             todo == IF i = 0 THEN <<>>
                     ELSE SelectSeq(ContextSeq, LAMBDA c : c \in Keys(ev.indexes[i]))
             fr == [Top EXCEPT !.inOwn = FALSE, !.list = <<>>, !.at = 0, !.running = 0,
                               !.index = i, !.todo = todo]
  <2>1. evStack # <<>> /\ evStack' = LastPut(evStack, fr)
    BY <1>10 DEF EnterIndex, LastPut, Top
  <2>2. i \in 0..k
    <3>1. Top.events \in 1..s
      BY <1>8, <2>1 DEF FrameIn
    <3> QED
      BY <3>1 DEF Bounded, WellMade, StoresTyped, StoreTyped
  <2> HIDE DEF todo, i
  <2>3. FrameIn(fr, s, k)
    <3>1. DOMAIN Top = FrameFields
      BY <1>8, <2>1 DEF FrameIn
    <3>2. DOMAIN fr = FrameFields /\ fr.events = Top.events /\ fr.index = i
      BY <3>1 DEF FrameFields
    <3> HIDE DEF fr
    <3> QED
      BY <1>8, <2>1, <2>2, <3>2 DEF FrameIn
  <2> HIDE DEF fr
  <2> QED
    BY <1>5, <2>1, <2>3
<1>11. CASE NextContext
  <2> DEFINE list == ev.indexes[Top.index][Head(Top.todo)]
             todo == Tail(Top.todo)
             fr == [Top EXCEPT !.todo = todo, !.at = 0, !.running = 0, !.list = list]
  <2>1. evStack # <<>> /\ evStack' = LastPut(evStack, fr)
    BY <1>11 DEF NextContext, LastPut, Top
  <2> HIDE DEF todo, list
  <2>2. FrameIn(fr, s, k)
    <3>1. DOMAIN Top = FrameFields
      BY <1>8, <2>1 DEF FrameIn
    <3>2. DOMAIN fr = FrameFields /\ fr.events = Top.events /\ fr.index = Top.index
      BY <3>1 DEF FrameFields
    <3> HIDE DEF fr
    <3> QED
      BY <1>8, <2>1, <3>2 DEF FrameIn
  <2> HIDE DEF fr
  <2> QED
    BY <1>5, <2>1, <2>2
<1>12. CASE \/ \E f \in Fns, c \in Contexts : On(f, c) \/ Once(f, c) \/ Off(f, c)
            \/ OffType \/ ClearAll \/ UNCHANGED evVars
  BY <1>4, <1>12 DEF On, Once, Off, OffType, ClearAll, evVars
<1> QED
  BY <1>6, <1>7, <1>9, <1>10, <1>11, <1>12 DEF EvNext

EvTyped == Bounded(ev) /\ FramesIn(evStack, ev)

\* Within the bounds of the model, the stores, their indexes and the dispatches
\* that read them exist whatever listeners do, for any listeners and contexts:
\* a dispatch never reads a store or an index that is not there, and a list
\* with listeners is one that was opened.
THEOREM EmitterTypeCorrect == EvSpec => []EvTypeOK
<1>1. EvInit => EvTyped
  <2> SUFFICES ASSUME EvInit PROVE EvTyped
    OBVIOUS
  <2>1. /\ DOMAIN ev = EvFields /\ ev.objs = <<>> /\ ev.stores = <<>> /\ ev.indexes = <<>>
        /\ ev.noop = {} /\ ev.live = FALSE /\ evStack = <<>>
    BY DEF EvInit, EvFields
  <2>2. Bounded(ev)
    <3>1. IsSeq(<<>>) /\ Len(<<>>) = 0
      BY EmptyIsSeq
    <3>2. WellMade(ev)
      <4>1. StoresTyped(ev.stores, Len(ev.objs), Len(ev.indexes))
        BY <2>1, <3>1 DEF StoresTyped
      <4>2. IndexTyped(ev.indexes, Len(ev.objs))
        BY <2>1, <3>1 DEF IndexTyped, IndexLists
      <4> QED
        BY <2>1, <3>1, <4>1, <4>2 DEF WellMade
    <3> QED
      BY <2>1, <3>1, <3>2, DispatchesAssumption DEF Bounded
  <2>3. FramesIn(evStack, ev)
    BY <2>1, EmptyIsSeq, DispatchesAssumption DEF FramesIn
  <2> QED
    BY <2>2, <2>3 DEF EvTyped
<1>2. EvTyped /\ [EvNext]_evVars => EvTyped'
  <2> SUFFICES ASSUME EvTyped, [EvNext]_evVars PROVE EvTyped'
    OBVIOUS
  <2>1. Bounded(ev) /\ FramesIn(evStack, ev)
    BY DEF EvTyped
  <2>2. Grown(ev, ev')
    BY <2>1, EmitterGrows
  <2>3. FramesIn(evStack', ev')
    BY <2>1, <2>2, FramesStep
  <2> QED
    BY <2>2, <2>3 DEF EvTyped, Grown
<1>3. EvTyped /\ StoresFollow(ev) => EvTypeOK
  <2> SUFFICES ASSUME EvTyped, StoresFollow(ev) PROVE EvTypeOK
    OBVIOUS
  <2>1. WellMade(ev) /\ Len(ev.objs) <= MaxListeners /\ Len(ev.stores) <= MaxStores
        /\ FramesIn(evStack, ev)
    BY DEF EvTyped, Bounded
  <2>2. ev.noop \subseteq 1..Len(ev.objs) /\ ev.gone \subseteq 1..Len(ev.objs)
    BY <2>1 DEF WellMade, StoresFollow
  <2>3. ev.live \in BOOLEAN /\ (ev.live => ev.stores # <<>>)
    <3>1. ev.live => Len(ev.stores) > 0
      BY <2>1 DEF WellMade
    <3>2. ~(Len(<<>>) > 0)
      BY EmptyIsSeq
    <3> QED
      BY <2>1, <3>1, <3>2 DEF WellMade
  <2>4. ASSUME NEW st \in Range(ev.stores)
        PROVE  /\ st.idx \in 0..Len(ev.indexes) /\ st.len \in Int /\ st.missed \in Nat
               /\ st.own # <<>> => st.hasOwn
    <3>1. PICK j \in DOMAIN ev.stores : st = ev.stores[j]
      BY DEF Range
    <3>2. j \in 1..Len(ev.stores)
      BY <2>1, <3>1, SeqDomain DEF WellMade, StoresTyped
    <3> QED
      BY <2>1, <3>1, <3>2 DEF WellMade, StoresTyped, StoreTyped
  <2>5. ASSUME NEW d \in Range(evStack)
        PROVE  d.events \in 1..Len(ev.stores) /\ d.index \in 0..Len(ev.indexes)
    <3>1. PICK j \in DOMAIN evStack : d = evStack[j]
      BY DEF Range
    <3>2. j \in 1..Len(evStack)
      BY <2>1, <3>1, SeqDomain DEF FramesIn
    <3> QED
      BY <2>1, <3>1, <3>2 DEF FramesIn, FrameIn
  <2>6. Len(evStack) <= MaxDepth
    BY <2>1 DEF FramesIn
  <2> QED
    BY <2>1, <2>2, <2>3, <2>4, <2>5, <2>6 DEF EvTypeOK
<1> QED
  BY <1>1, <1>2, <1>3, EmitterInvariant, PTL DEF EvSpec
===============================================================================
