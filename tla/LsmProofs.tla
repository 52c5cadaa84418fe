----------------------------- MODULE LsmProofs -----------------------------
(***************************************************************************)
(* Lemmas about the pure functions of Lsm, for every value of its          *)
(* constants: smallest and largest elements, the tables a flush and a      *)
(* compaction build and what they do to the levels; then the order of      *)
(* versions: how levels stay disjoint, numbers unique and newer versions   *)
(* above older ones, and why a lookup then finds the newest.               *)
(***************************************************************************)
EXTENDS Lsm, FiniteSetTheorems, TLAPS

-----------------------------------------------------------------------------
(* Finite sets of numbers.                                                 *)

\* The image of a finite set is finite and no larger.
LEMMA FiniteImage ==
  ASSUME NEW S, IsFiniteSet(S), NEW T, NEW f \in [S -> T], \A y \in T : \E x \in S : f[x] = y
  PROVE  IsFiniteSet(T) /\ Cardinality(T) <= Cardinality(S)
<1>1. f \in Surjection(S, T)
  BY DEF Surjection
<1> QED
  BY <1>1, FS_Surjection

\* A nonempty set of naturals that has an upper bound has a largest element.
LEMMA MaxOfFinite ==
  ASSUME NEW S \in SUBSET Nat, S # {}, IsFiniteSet(S)
  PROVE  Max(S) \in S /\ \A x \in S : x <= Max(S)
<1> DEFINE R   == StrictSubsetOrdering(Nat)
           Bad == {T \in FiniteSubsetsOf(Nat) : T # {} /\ ~ \E m \in T : \A x \in T : x <= m}
<1>1. Bad = {}
  <2> SUFFICES ASSUME Bad # {} PROVE FALSE
    OBVIOUS
  <2>1. PICK T \in Bad : \A U \in Bad : <<U, T>> \notin R
    <3>1. IsWellFoundedOn(R, FiniteSubsetsOf(Nat))
      BY FS_StrictSubsetOrderingWellFounded
    <3> QED
      BY <3>1, WFMin
  <2>2. PICK a \in T : TRUE
    OBVIOUS
  <2> DEFINE U == T \ {a}
  <2>3. IsFiniteSet(U) /\ U \in SUBSET Nat /\ U # T
    BY FS_RemoveElement DEF FiniteSubsetsOf
  <2>4. U \notin Bad
    BY <2>1, <2>3 DEF StrictSubsetOrdering, FiniteSubsetsOf
  <2>5. CASE U = {}
    BY <2>5, <2>2 DEF FiniteSubsetsOf
  <2>6. CASE U # {}
    <3>1. PICK m \in U : \A x \in U : x <= m
      BY <2>3, <2>4, <2>6 DEF FiniteSubsetsOf
    <3>2. T \subseteq Nat
      BY DEF FiniteSubsetsOf
    <3> QED
      BY <3>1, <3>2, <2>2
  <2> QED
    BY <2>5, <2>6
<1>2. \E m \in S : \A x \in S : x <= m
  BY <1>1 DEF FiniteSubsetsOf
<1>3. \E m \in S : \A x \in S : m >= x
  BY <1>2
<1> QED
  BY <1>3 DEF Max

\* Every nonempty set of naturals has a smallest element.
LEMMA MinOfNats ==
  ASSUME NEW S \in SUBSET Nat, S # {}
  PROVE  Min(S) \in S /\ \A x \in S : Min(S) <= x
<1> DEFINE R     == StrictSubsetOrdering(Nat)
           Below == {0..n : n \in S}
<1>1. Below \subseteq FiniteSubsetsOf(Nat)
  <2>1. \A n \in S : IsFiniteSet(0..n)
    BY FS_Interval
  <2>2. \A n \in S : 0..n \in SUBSET Nat
    OBVIOUS
  <2> QED
    BY <2>1, <2>2 DEF FiniteSubsetsOf
<1>2. PICK T \in Below : \A U \in Below : <<U, T>> \notin R
  <2>1. IsWellFoundedOn(R, FiniteSubsetsOf(Nat)) /\ Below # {}
    BY FS_StrictSubsetOrderingWellFounded
  <2> QED
    BY <2>1, <1>1, WFMin
<1>3. PICK m \in S : T = 0..m
  OBVIOUS
<1>4. \A x \in S : m <= x
  <2> SUFFICES ASSUME NEW x \in S, x < m PROVE FALSE
    OBVIOUS
  <2>1. 0..x \in Below
    OBVIOUS
  <2>2. 0..x \subseteq T /\ m \in T /\ m \notin 0..x /\ T \subseteq Nat
    BY <1>3
  <2> QED
    BY <1>2, <2>1, <2>2 DEF StrictSubsetOrdering
<1> QED
  BY <1>4 DEF Min

-----------------------------------------------------------------------------
(* Sorting.                                                                *)

\* Any two elements of T are ordered by R.
Linear(R, T) ==
  /\ \A t, u \in T : t = u \/ <<t, u>> \in R \/ <<u, t>> \in R
  /\ \A t, u, v \in T : <<t, u>> \in R /\ <<u, v>> \in R => <<t, v>> \in R

\* A nonempty finite set has a last element.
LEMMA LastExists ==
  ASSUME NEW T, IsFiniteSet(T), NEW R, Linear(R, T), T # {}
  PROVE  \E m \in T : \A x \in T : x = m \/ <<x, m>> \in R
<1> DEFINE Q   == StrictSubsetOrdering(T)
           Bad == {U \in FiniteSubsetsOf(T) : U # {} /\ ~ \E m \in U : \A x \in U : x = m \/ <<x, m>> \in R}
<1>1. Bad = {}
  <2> SUFFICES ASSUME Bad # {} PROVE FALSE
    OBVIOUS
  <2>1. PICK U \in Bad : \A W \in Bad : <<W, U>> \notin Q
    <3>1. IsWellFoundedOn(Q, FiniteSubsetsOf(T))
      BY FS_StrictSubsetOrderingWellFounded
    <3> QED
      BY <3>1, WFMin
  <2>2. PICK a \in U : TRUE
    OBVIOUS
  <2> DEFINE W == U \ {a}
  <2>3. IsFiniteSet(W) /\ W \in SUBSET T /\ W # U /\ U \in SUBSET T
    BY FS_RemoveElement DEF FiniteSubsetsOf
  <2>4. W \notin Bad
    BY <2>1, <2>3 DEF StrictSubsetOrdering, FiniteSubsetsOf
  <2>5. CASE W = {}
    <3>1. \A x \in U : x = a
      BY <2>5
    <3> QED
      BY <2>2, <3>1
  <2>6. CASE W # {}
    <3>1. PICK m \in W : \A x \in W : x = m \/ <<x, m>> \in R
      BY <2>3, <2>4, <2>6 DEF FiniteSubsetsOf
    <3>2. \A x \in U : x = a \/ x \in W
      OBVIOUS
    <3>3. CASE <<a, m>> \in R
      BY <2>3, <3>1, <3>2, <3>3
    <3>4. CASE <<m, a>> \in R
      <4>1. \A x \in U : x = a \/ <<x, a>> \in R
        BY <2>3, <3>1, <3>2, <3>4 DEF Linear
      <4> QED
        BY <2>2, <4>1
    <3>5. <<a, m>> \in R \/ <<m, a>> \in R
      BY <2>2, <2>3, <3>1 DEF Linear
    <3> QED
      BY <3>3, <3>4, <3>5
  <2> QED
    BY <2>5, <2>6
<1>2. T \in FiniteSubsetsOf(T)
  BY DEF FiniteSubsetsOf
<1> QED
  BY <1>1, <1>2

\* A finite set can be put in a sequence, in order.
LEMMA SortedExists ==
  ASSUME NEW T, IsFiniteSet(T), NEW R, Linear(R, T)
  PROVE  \E s \in Bijection(1..Cardinality(T), T) : \A i, j \in DOMAIN s : i < j => <<s[i], s[j]>> \in R
<1> DEFINE Q          == StrictSubsetOrdering(T)
           InOrder(s) == \A i, j \in DOMAIN s : i < j => <<s[i], s[j]>> \in R
           Bad        == {U \in FiniteSubsetsOf(T) : ~ \E s \in Bijection(1..Cardinality(U), U) : InOrder(s)}
<1>1. Bad = {}
  <2> SUFFICES ASSUME Bad # {} PROVE FALSE
    OBVIOUS
  <2>1. PICK U \in Bad : \A W \in Bad : <<W, U>> \notin Q
    <3>1. IsWellFoundedOn(Q, FiniteSubsetsOf(T))
      BY FS_StrictSubsetOrderingWellFounded
    <3> HIDE DEF InOrder
    <3> QED
      BY <3>1, WFMin
  <2>2. IsFiniteSet(U) /\ U \in SUBSET T /\ \A s \in Bijection(1..Cardinality(U), U) : ~InOrder(s)
    BY DEF FiniteSubsetsOf
  <2>3. CASE U = {}
    <3>1. Cardinality(U) = 0
      BY <2>3, FS_EmptySet
    <3>2. 1..0 = {}
      OBVIOUS
    <3>3. <<>> \in Bijection(1..Cardinality(U), U)
      BY <2>3, <3>1, <3>2 DEF Bijection, Injection, Surjection, IsInjective
    <3> QED
      BY <2>2, <3>3
  <2>4. CASE U # {}
    <3>1. PICK a \in U : \A u \in U : u = a \/ <<u, a>> \in R
      <4>1. Linear(R, U)
        BY <2>2 DEF Linear
      <4> QED
        BY <2>2, <2>4, <4>1, LastExists
    <3> DEFINE W == U \ {a}
               n == Cardinality(W)
    <3>2. IsFiniteSet(W) /\ Cardinality(U) = n + 1 /\ n \in Nat /\ W \in SUBSET T /\ W # U
      <4>1. IsFiniteSet(W) /\ n = Cardinality(U) - 1
        BY <2>2, FS_RemoveElement
      <4>2. n \in Nat /\ Cardinality(U) \in Nat
        BY <2>2, <4>1, FS_CardinalityType
      <4> QED
        BY <2>2, <4>1, <4>2
    <3>3. W \notin Bad /\ W \in FiniteSubsetsOf(T)
      BY <2>1, <2>2, <3>2 DEF StrictSubsetOrdering, FiniteSubsetsOf
    <3>4. PICK s \in Bijection(1..n, W) : \A i, j \in DOMAIN s : i < j => <<s[i], s[j]>> \in R
      BY <3>3
    <3> HIDE DEF n
    <3>5. /\ s \in [1..n -> W] /\ \A i, j \in 1..n : s[i] = s[j] => i = j
          /\ \A w \in W : \E i \in 1..n : s[i] = w
      BY DEF Bijection, Injection, Surjection, IsInjective
    <3> DEFINE z == [i \in 1..(n + 1) |-> IF i = n + 1 THEN a ELSE s[i]]
    <3>6. z \in [1..(n + 1) -> U] /\ z[n + 1] = a /\ \A i \in 1..n : z[i] = s[i] /\ z[i] # a
      BY <3>2, <3>5
    <3>7. \A i \in 1..(n + 1) : i \in 1..n \/ i = n + 1
      BY <3>2
    <3> HIDE DEF z
    <3>8. \A i, j \in 1..(n + 1) : z[i] = z[j] => i = j
      BY <3>5, <3>6, <3>7
    <3>9. \A u \in U : \E i \in 1..(n + 1) : z[i] = u
      <4> SUFFICES ASSUME NEW u \in U PROVE \E i \in 1..(n + 1) : z[i] = u
        OBVIOUS
      <4>1. CASE u = a
        BY <3>2, <3>6, <4>1
      <4>2. CASE u # a
        <5>1. PICK i \in 1..n : s[i] = u
          BY <3>5, <4>2
        <5> QED
          BY <3>2, <3>6, <5>1
      <4> QED
        BY <4>1, <4>2
    <3>10. z \in Bijection(1..Cardinality(U), U)
      BY <3>2, <3>6, <3>8, <3>9 DEF Bijection, Injection, Surjection, IsInjective
    <3>11. \A i, j \in 1..(n + 1) : i < j => <<z[i], z[j]>> \in R
      <4> SUFFICES ASSUME NEW i \in 1..(n + 1), NEW j \in 1..(n + 1), i < j PROVE <<z[i], z[j]>> \in R
        OBVIOUS
      <4>1. i \in 1..n
        BY <3>2
      <4>2. CASE j = n + 1
        <5>1. s[i] \in U /\ s[i] # a
          BY <3>5, <4>1
        <5> QED
          BY <3>1, <3>6, <4>1, <4>2, <5>1
      <4>3. CASE j \in 1..n
        BY <3>4, <3>5, <3>6, <4>1, <4>3
      <4> QED
        BY <3>7, <4>2, <4>3
    <3>12. DOMAIN z = 1..(n + 1)
      BY <3>6
    <3> QED
      BY <2>2, <3>10, <3>11, <3>12
  <2> QED
    BY <2>3, <2>4
<1>2. T \in FiniteSubsetsOf(T)
  BY DEF FiniteSubsetsOf
<1> QED
  BY <1>1, <1>2

-----------------------------------------------------------------------------
(* Tables.                                                                 *)

\* What a memtable holds when it is flushed, and a table when it is written.
Batch == {S \in SUBSET Record : S # {} /\ IsFiniteSet(S)}

\* The tables the builder makes: the range is that of the records.
Built == {t \in Table : t.recs \in Batch /\ t = MkTable(t.num, t.recs)}

\* The smallest and the largest key of a batch are keys of its records.
LEMMA BatchRange ==
  ASSUME NEW S \in Batch
  PROVE  LET K == {r.key : r \in S}
         IN  /\ Min(K) \in K /\ Max(K) \in K /\ K \subseteq Keys
             /\ \A k \in K : Min(K) <= k /\ k <= Max(K)
<1> DEFINE K == {r.key : r \in S}
           f == [r \in S |-> r.key]
<1>1. K \subseteq Keys /\ K # {}
  BY DEF Batch, Record
<1>2. K \in SUBSET Nat
  BY <1>1, LsmAssumption DEF LsmAssumption
<1>3. IsFiniteSet(K)
  <2>1. f \in [S -> K] /\ \A k \in K : \E r \in S : f[r] = k
    OBVIOUS
  <2>2. IsFiniteSet(S)
    BY DEF Batch
  <2> HIDE DEF f, K
  <2> QED
    BY <2>1, <2>2, FiniteImage, ZenonT(30)
<1> HIDE DEF K
<1>4. Min(K) \in K /\ \A k \in K : Min(K) <= k
  BY <1>1, <1>2, MinOfNats
<1>5. Max(K) \in K /\ \A k \in K : k <= Max(K)
  BY <1>1, <1>2, <1>3, MaxOfFinite
<1> QED
  BY <1>1, <1>4, <1>5 DEF K

\* The builder makes a table of any batch, with its number and its records.
LEMMA MkTableBuilt ==
  ASSUME NEW S \in Batch, NEW n \in Nat
  PROVE  MkTable(n, S) \in Built /\ MkTable(n, S).num = n /\ MkTable(n, S).recs = S
<1>1. Min({r.key : r \in S}) \in Keys /\ Max({r.key : r \in S}) \in Keys
  BY BatchRange
<1>2. MkTable(n, S).num = n /\ MkTable(n, S).recs = S
  BY DEF MkTable
<1>3. MkTable(n, S) \in Table
  BY <1>1 DEF MkTable, Table, Batch
<1> QED
  BY <1>2, <1>3 DEF Built

\* Every record of a built table lies in its range.
LEMMA BuiltRange ==
  ASSUME NEW t \in Built
  PROVE  /\ t.lo \in Nat /\ t.hi \in Nat /\ t.lo <= t.hi
         /\ \A r \in t.recs : t.lo <= r.key /\ r.key <= t.hi /\ r.key \in Nat
<1>1. t.recs \in Batch /\ t.lo = Min({r.key : r \in t.recs}) /\ t.hi = Max({r.key : r \in t.recs})
  BY DEF Built, MkTable
<1>2. /\ t.lo \in Keys /\ t.hi \in Keys /\ t.lo <= t.hi
      /\ \A r \in t.recs : t.lo <= r.key /\ r.key <= t.hi /\ r.key \in Keys
  BY <1>1, BatchRange
<1> QED
  BY <1>2, LsmAssumption DEF LsmAssumption

\* Levels of finitely many built tables: what the engine keeps.
Sound(lv) == lv \in [Level -> SUBSET Built] /\ \A l \in Level : IsFiniteSet(lv[l])

-----------------------------------------------------------------------------
(* Flush.                                                                  *)

\* A flush turns its n oldest batches into n level-0 tables and leaves the
\* others frozen, oldest first as before.
LEMMA FlushResult ==
  ASSUME NEW im \in Seq(Batch), NEW lv, Sound(lv), NEW nf \in Nat \ {0}, NEW n \in 0..Len(im)
  PROVE  LET f == FlushImms(im, lv, nf, n)
         IN  /\ f.imms \in Seq(Batch) /\ Len(f.imms) = Len(im) - n
             /\ Sound(f.levels)
             /\ Cardinality(f.levels[0]) <= Cardinality(lv[0]) + n
             /\ f.nextFile \in Nat \ {0}
<1> DEFINE f  == FlushImms(im, lv, nf, n)
           g  == [i \in 1..n |-> MkTable(nf + i - 1, im[i])]
           ts == {g[i] : i \in 1..n}
<1>1. f.imms = SubSeq(im, n + 1, Len(im)) /\ f.levels = [lv EXCEPT ![0] = @ \cup ts]
      /\ f.nextFile = nf + n + (IF n < Len(im) THEN 1 ELSE 0)
  BY DEF FlushImms
<1>2. 0 \in Level
  BY LsmAssumption DEF Level, LsmAssumption
<1>3. ts \subseteq Built
  <2>1. \A i \in 1..n : im[i] \in Batch /\ nf + i - 1 \in Nat
    OBVIOUS
  <2> QED
    BY <2>1, MkTableBuilt
<1>4. IsFiniteSet(ts) /\ Cardinality(ts) <= n /\ Cardinality(ts) \in Nat
  <2>1. IsFiniteSet(1..n) /\ Cardinality(1..n) = n
    BY FS_Interval
  <2>2. g \in [1..n -> ts] /\ \A t \in ts : \E i \in 1..n : g[i] = t
    OBVIOUS
  <2>3. IsFiniteSet(ts) /\ Cardinality(ts) <= n
    BY <2>1, <2>2, FiniteImage, ZenonT(30)
  <2> QED
    BY <2>3, FS_CardinalityType
<1> HIDE DEF ts
<1>5. IsFiniteSet(lv[0] \cup ts) /\ Cardinality(lv[0] \cup ts) <= Cardinality(lv[0]) + n
  <2>1. IsFiniteSet(lv[0]) /\ Cardinality(lv[0]) \in Nat
    BY <1>2, FS_CardinalityType DEF Sound
  <2>2. Cardinality(lv[0] \cap ts) \in Nat
    BY <2>1, FS_Subset, FS_CardinalityType
  <2>3. IsFiniteSet(lv[0] \cup ts) /\ Cardinality(lv[0] \cup ts)
          = Cardinality(lv[0]) + Cardinality(ts) - Cardinality(lv[0] \cap ts)
    BY <1>4, <2>1, FS_Union
  <2> QED
    BY <1>4, <2>1, <2>2, <2>3
<1>6. f.levels \in [Level -> SUBSET Built] /\ f.levels[0] = lv[0] \cup ts
      /\ \A l \in Level \ {0} : f.levels[l] = lv[l]
  BY <1>1, <1>2, <1>3 DEF Sound
<1>7. Sound(f.levels)
  BY <1>5, <1>6 DEF Sound
<1>8. f.imms \in Seq(Batch) /\ Len(f.imms) = Len(im) - n
  BY <1>1
<1>9. f.nextFile \in Nat \ {0}
  BY <1>1
<1> QED
  BY <1>5, <1>6, <1>7, <1>8, <1>9

-----------------------------------------------------------------------------
(* Compaction.                                                             *)

\* The place of a record in the merge, and so the output file it goes to, is
\* a natural number.
LEMMA ChunkType ==
  ASSUME NEW S, IsFiniteSet(S), NEW r
  PROVE  Rank(S, r) \in Nat /\ Chunk(S, r) \in Nat
<1>1. Rank(S, r) \in Nat
  BY FS_Subset, FS_CardinalityType DEF Rank
<1> QED
  BY <1>1, LsmAssumption DEF Chunk, LsmAssumption

\* A compaction writes finitely many built tables, numbered from nf on, that
\* hold no record but those it was given.
LEMMA OutputsBuilt ==
  ASSUME NEW S \in SUBSET Record, IsFiniteSet(S), NEW nf \in Nat
  PROVE  /\ Outputs(S, nf) \subseteq Built
         /\ IsFiniteSet(Outputs(S, nf))
         /\ \A t \in Outputs(S, nf) : t.num >= nf /\ t.recs \subseteq S
<1> DEFINE Out(c) == {r \in S : Chunk(S, r) = c}
           f      == [r \in S |-> MkTable(nf + Chunk(S, r), Out(Chunk(S, r)))]
<1>1. ASSUME NEW r \in S
      PROVE  /\ f[r] \in Built
             /\ f[r].num >= nf /\ f[r].recs \subseteq S
  <2>1. Chunk(S, r) \in Nat
    BY ChunkType
  <2>2. IsFiniteSet(Out(Chunk(S, r)))
    BY FS_Subset
  <2>3. Out(Chunk(S, r)) \in Batch
    BY <2>2 DEF Batch
  <2>4. nf + Chunk(S, r) \in Nat /\ nf + Chunk(S, r) >= nf
    BY <2>1
  <2> HIDE DEF Out
  <2>5. f[r] = MkTable(nf + Chunk(S, r), Out(Chunk(S, r)))
    OBVIOUS
  <2>6. f[r] \in Built /\ f[r].num = nf + Chunk(S, r) /\ f[r].recs = Out(Chunk(S, r))
    BY <2>3, <2>4, <2>5, MkTableBuilt
  <2> QED
    BY <2>4, <2>6 DEF Out
<1>2. \A t \in Outputs(S, nf) : \E r \in S : f[r] = t
  BY DEF Outputs
<1>3. \A r \in S : f[r] \in Outputs(S, nf)
  BY DEF Outputs
<1>4. f \in [S -> Outputs(S, nf)]
  BY <1>3
<1>5. IsFiniteSet(Outputs(S, nf))
  BY <1>2, <1>4, FiniteImage, ZenonT(30)
<1> QED
  BY <1>1, <1>2, <1>5

\* The next file number after a compaction is above every number it used.
LEMMA AfterLastType ==
  ASSUME NEW T \in SUBSET Built, IsFiniteSet(T), NEW nf \in Nat \ {0}
  PROVE  AfterLast(T, nf) \in Nat \ {0} /\ \A t \in T : t.num < AfterLast(T, nf)
<1> DEFINE N == {t.num : t \in T}
           f == [t \in T |-> t.num]
<1>1. N \in SUBSET Nat
  BY DEF Built, Table
<1>2. IsFiniteSet(N)
  <2>1. f \in [T -> N] /\ \A n \in N : \E t \in T : f[t] = n
    OBVIOUS
  <2> QED
    BY <2>1, FiniteImage, ZenonT(30)
<1>3. CASE T = {}
  BY <1>3 DEF AfterLast
<1>4. CASE T # {}
  <2>1. N # {}
    BY <1>4
  <2>2. Max(N) \in Nat /\ \A n \in N : n <= Max(N)
    BY <1>1, <1>2, <2>1, MaxOfFinite
  <2>3. AfterLast(T, nf) = Max(N) + 1
    BY <1>4 DEF AfterLast
  <2>4. \A t \in T : t.num \in N /\ t.num \in Nat
    BY <1>1
  <2> HIDE DEF N
  <2>5. \A t \in T : t.num < Max(N) + 1
    BY <2>2, <2>4
  <2> QED
    BY <2>2, <2>3, <2>5
<1> QED
  BY <1>3, <1>4

\* The job is taken from the first overfull level, which is not the last one.
LEMMA JobLevelProps ==
  ASSUME NEW lv, Overfull(lv) # {}
  PROVE  /\ JobLevel(lv) \in Overfull(lv)
         /\ JobLevel(lv) \in Level /\ JobLevel(lv) + 1 \in Level
         /\ JobLevel(lv) \in Nat
<1>1. Overfull(lv) \in SUBSET Nat /\ Overfull(lv) \subseteq 0..(MaxLevels - 2)
  BY DEF Overfull
<1>2. JobLevel(lv) \in Overfull(lv)
  BY <1>1, MinOfNats DEF JobLevel
<1> QED
  BY <1>1, <1>2, LsmAssumption DEF Level, LsmAssumption

\* Sound levels are levels of tables.
LEMMA SoundLevels ==
  ASSUME NEW lv, Sound(lv)
  PROVE  lv \in Levels
BY DEF Sound, Levels, Built

\* The inputs are tables of the level and of the next one.
LEMMA JobInputs ==
  ASSUME NEW lv \in Levels, Overfull(lv) # {}
  PROVE  LET l == JobLevel(lv)
         IN  /\ Upper(lv, l) \subseteq lv[l] /\ Upper(lv, l) # {}
             /\ Lower(lv, l) \subseteq lv[l + 1]
<1> DEFINE l == JobLevel(lv)
<1>1. l \in Overfull(lv) /\ l \in Level /\ l + 1 \in Level
  BY JobLevelProps
<1>2. Lower(lv, l) \subseteq lv[l + 1]
  BY DEF Lower, Overlapping
<1>3. CASE l = 0
  <2>1. Cardinality(lv[0]) >= L0Trigger
    BY <1>1, <1>3 DEF Overfull
  <2>2. lv[0] # {}
    BY <2>1, FS_EmptySet, LsmAssumption DEF LsmAssumption
  <2> QED
    BY <1>2, <1>3, <2>2 DEF Upper
<1>4. CASE l # 0
  <2> DEFINE los  == {t.lo : t \in lv[l]}
             nums == {t.num : t \in {u \in lv[l] : u.lo = Min(los)}}
  <2>1. lv[l] # {} /\ lv[l] \subseteq Table
    BY <1>1, <1>4 DEF Overfull, Levels
  <2>2. los \in SUBSET Nat /\ los # {} /\ nums \in SUBSET Nat
    <3>1. \A t \in lv[l] : t.lo \in Nat /\ t.num \in Nat
      BY <2>1, LsmAssumption DEF Table, LsmAssumption
    <3> QED
      BY <2>1, <3>1
  <2>3. Min(los) \in los /\ \A x \in los : Min(los) <= x
    BY <2>2, MinOfNats
  <2>4. nums # {}
    BY <2>3
  <2>5. Min(nums) \in nums /\ \A x \in nums : Min(nums) <= x
    BY <2>2, <2>4, MinOfNats
  <2>6. PICK t \in lv[l] : t.lo = Min(los) /\ t.num = Min(nums)
    BY <2>5
  <2>7. \A u \in lv[l] : Precedes(t, u)
    <3> SUFFICES ASSUME NEW u \in lv[l] PROVE Precedes(t, u)
      OBVIOUS
    <3>1. u.lo \in Nat /\ t.lo \in Nat /\ t.lo <= u.lo
      BY <2>2, <2>3, <2>6
    <3>2. t.lo = u.lo => t.num <= u.num
      BY <2>5, <2>6
    <3> QED
      BY <3>1, <3>2 DEF Precedes
  <2> QED
    BY <1>2, <1>4, <2>7 DEF Upper
<1> QED
  BY <1>3, <1>4

\* Finitely many tables hold finitely many records.
LEMMA RecsFinite ==
  ASSUME NEW T, IsFiniteSet(T), \A t \in T : t.recs \in Batch
  PROVE  Recs(T) \in SUBSET Record /\ IsFiniteSet(Recs(T))
<1> DEFINE f == [t \in T |-> t.recs]
           R == {t.recs : t \in T}
<1>1. f \in [T -> R] /\ \A y \in R : \E t \in T : f[t] = y
  OBVIOUS
<1>2. IsFiniteSet(R)
  BY <1>1, FiniteImage, ZenonT(30)
<1>3. \A y \in R : IsFiniteSet(y) /\ y \subseteq Record
  BY DEF Batch
<1>4. IsFiniteSet(UNION R) /\ (UNION R) \subseteq Record
  BY <1>2, <1>3, FS_UNION
<1> QED
  BY <1>4 DEF Recs

\* A compaction leaves finitely many built tables in every level, never more
\* of them in level 0, and a next file number.
LEMMA CompactResult ==
  ASSUME NEW lv, Sound(lv), NEW nf \in Nat \ {0}, NEW wm
  PROVE  LET c == MaybeCompact(lv, nf, wm)
         IN  /\ Sound(c.levels)
             /\ Cardinality(c.levels[0]) <= Cardinality(lv[0])
             /\ c.nextFile \in Nat \ {0}
<1> DEFINE c    == MaybeCompact(lv, nf, wm)
           l    == JobLevel(lv)
           up   == Upper(lv, l)
           low  == Lower(lv, l)
           surv == Survivors(Recs(up \cup low), l + 1, wm)
           outs == Outputs(surv, nf)
<1>0. 0 \in Level /\ IsFiniteSet(lv[0]) /\ Cardinality(lv[0]) \in Nat
  BY LsmAssumption, FS_CardinalityType DEF Level, LsmAssumption, Sound
<1>1. CASE Overfull(lv) = {}
  BY <1>0, <1>1 DEF MaybeCompact
<1>2. CASE Overfull(lv) # {}
  <2>1. l \in Level /\ l + 1 \in Level /\ l \in Nat
    BY <1>2, JobLevelProps
  <2>2. up \subseteq lv[l] /\ low \subseteq lv[l + 1]
    BY <1>2, JobInputs, SoundLevels
  <2>3. up \subseteq Built /\ low \subseteq Built /\ IsFiniteSet(up \cup low)
    <3>1. lv[l] \subseteq Built /\ lv[l + 1] \subseteq Built
          /\ IsFiniteSet(lv[l]) /\ IsFiniteSet(lv[l + 1])
      BY <2>1 DEF Sound
    <3>2. IsFiniteSet(up) /\ IsFiniteSet(low)
      BY <2>2, <3>1, FS_Subset
    <3> QED
      BY <2>2, <3>1, <3>2, FS_Union
  <2>4. Recs(up \cup low) \subseteq Record /\ IsFiniteSet(Recs(up \cup low))
    <3>1. \A t \in up \cup low : t.recs \in Batch
      BY <2>3 DEF Built
    <3> QED
      BY <2>3, <3>1, RecsFinite
  <2>5. surv \in SUBSET Record /\ IsFiniteSet(surv)
    <3>1. surv \subseteq Recs(up \cup low)
      BY DEF Survivors
    <3> QED
      BY <2>4, <3>1, FS_Subset
  <2>6. outs \subseteq Built /\ IsFiniteSet(outs)
    BY <2>5, OutputsBuilt
  <2>7. c.levels = [lv EXCEPT ![l] = @ \ up, ![l + 1] = (@ \ low) \cup outs]
        /\ c.nextFile = AfterLast(outs, nf)
    BY <1>2 DEF MaybeCompact, Compacted
  <2> HIDE DEF c, l, up, low, surv, outs
  <2>8. c.levels[l] = lv[l] \ up /\ c.levels[l + 1] = (lv[l + 1] \ low) \cup outs
        /\ \A m \in Level \ {l, l + 1} : c.levels[m] = lv[m]
    BY <2>1, <2>7 DEF Sound
  <2>9. c.levels \in [Level -> SUBSET Built]
    BY <2>1, <2>6, <2>7 DEF Sound
  <2>10. \A m \in Level : IsFiniteSet(c.levels[m])
    <3>1. IsFiniteSet(lv[l] \ up) /\ IsFiniteSet(lv[l + 1] \ low)
      BY <2>1, FS_Difference DEF Sound
    <3>2. IsFiniteSet((lv[l + 1] \ low) \cup outs)
      BY <2>6, <3>1, FS_Union
    <3> QED
      BY <2>8, <3>1, <3>2 DEF Sound
  <2>11. Cardinality(c.levels[0]) <= Cardinality(lv[0])
    <3>1. c.levels[0] \subseteq lv[0]
      BY <1>0, <2>1, <2>8
    <3> QED
      BY <1>0, <3>1, FS_Subset
  <2>12. c.nextFile \in Nat \ {0}
    BY <2>6, <2>7, AfterLastType
  <2> QED
    BY <2>9, <2>10, <2>11, <2>12 DEF Sound, c
<1> QED
  BY <1>1, <1>2

-----------------------------------------------------------------------------
(* The order of versions.                                                  *)


\* Every record of S is newer than every record of T of the same key, those
\* of X excepted that S has too: the log that open() replays into the memtable
\* may repeat records of the tables.
Newer(X, S, T) ==
  \A r \in S, q \in T : q.key = r.key => r.seq > q.seq \/ (q \in S /\ q \in X)

\* The places a lookup visits hold ever older versions: strictly so when X is
\* empty, or else with repetitions of the records of X.
Layered(X, m, im, lv) ==
  /\ \A i \in DOMAIN im : Newer(X, m, im[i])
  /\ \A i, j \in DOMAIN im : i < j => Newer(X, im[j], im[i])
  /\ \A l \in Level : Newer(X, m, Recs(lv[l])) /\ \A i \in DOMAIN im : Newer(X, im[i], Recs(lv[l]))
  /\ \A t, u \in lv[0] : t.num > u.num => Newer(X, t.recs, u.recs)
  /\ \A l, k \in Level : l < k => Newer(X, Recs(lv[l]), Recs(lv[k]))

\* The ranges of two tables do not meet.
Apart(t, u) == t.hi < u.lo \/ u.hi < t.lo

Disjoint(lv) == \A l \in Level \ {0} : \A t, u \in lv[l] : t = u \/ Apart(t, u)

\* Numbers below nf, each of one table.
Numbered(lv, nf) ==
  \A l, k \in Level : \A t \in lv[l], u \in lv[k] :
    t.num < nf /\ (t.num = u.num => l = k /\ t = u)

\* A sequence number belongs to one record.
OncePerSeq(S) == \A r, q \in S : r.seq = q.seq => r = q

-----------------------------------------------------------------------------
(* The newest record of a set: there is one, since numbers are bounded.    *)

\* A set of records that is not empty has a newest one.
LEMMA NewestExists ==
  ASSUME NEW S \in SUBSET Record, S # {}
  PROVE  Newest(S) \in S /\ \A q \in S : q.seq <= Newest(S).seq
<1> DEFINE N == {r.seq : r \in S}
<1>1. N \in SUBSET Nat /\ N # {} /\ N \subseteq 1..MaxSeq
  BY LsmAssumption DEF Record, LsmAssumption
<1>2. IsFiniteSet(N)
  <2>1. IsFiniteSet(1..MaxSeq)
    BY FS_Interval, LsmAssumption DEF LsmAssumption
  <2> HIDE DEF N
  <2> QED
    BY <1>1, <2>1, FS_Subset
<1>3. Max(N) \in N /\ \A n \in N : n <= Max(N)
  BY <1>1, <1>2, MaxOfFinite
<1>4. PICK r \in S : r.seq = Max(N)
  BY <1>3
<1>5. \A q \in S : q.seq <= r.seq
  BY <1>3, <1>4
<1> QED
  BY <1>5 DEF Newest

\* The newest record is the one no other is newer than.
LEMMA NewestIs ==
  ASSUME NEW S \in SUBSET Record, OncePerSeq(S), NEW r \in S, \A q \in S : q.seq <= r.seq
  PROVE  Newest(S) = r
<1>1. Newest(S) \in S /\ \A q \in S : q.seq <= Newest(S).seq
  BY DEF Newest
<1>2. Newest(S).seq = r.seq
  BY <1>1 DEF Record
<1> QED
  BY <1>1, <1>2 DEF OncePerSeq

\* A search that ends in F answers for all of G, when what it has not looked
\* at is older.
LEMMA AnswerAgrees ==
  ASSUME NEW G \in SUBSET Record, OncePerSeq(G), NEW F \in SUBSET G,
         F = {} => G = {},
         \A r \in F, q \in G \ F : r.seq > q.seq
  PROVE  Answer(F) = Answer(G)
<1>1. CASE F = {}
  BY <1>1
<1>2. CASE F # {}
  <2>1. Newest(F) \in F /\ \A q \in F : q.seq <= Newest(F).seq
    BY <1>2, NewestExists
  <2>2. \A q \in G : q.seq <= Newest(F).seq
    BY <2>1 DEF Record
  <2>3. Newest(G) = Newest(F)
    BY <2>1, <2>2, NewestIs
  <2> QED
    BY <1>2, <2>3 DEF Answer
<1> QED
  BY <1>1, <1>2

-----------------------------------------------------------------------------
(* One level.                                                              *)

\* The ends of a table's range are keys of its records.
LEMMA BuiltKeys ==
  ASSUME NEW t \in Built
  PROVE  (\E r \in t.recs : r.key = t.lo) /\ (\E r \in t.recs : r.key = t.hi)
<1>1. t.recs \in Batch /\ t.lo = Min({r.key : r \in t.recs}) /\ t.hi = Max({r.key : r \in t.recs})
  BY DEF Built, MkTable
<1>2. t.lo \in {r.key : r \in t.recs} /\ t.hi \in {r.key : r \in t.recs}
  BY <1>1, BatchRange
<1> QED
  BY <1>2

\* The range test of a table hides none of its records.
LEMMA TableGetIsVisible ==
  ASSUME NEW t \in Built, NEW k \in Keys, NEW max \in Nat
  PROVE  TableGet(t, k, max) = Visible(t.recs, k, max)
<1>1. \A r \in t.recs : t.lo <= r.key /\ r.key <= t.hi
  BY BuiltRange
<1> QED
  BY <1>1 DEF TableGet, Visible, Covers

\* The table find_in_level opens has all of the level's records of the key.
LEMMA DeeperLevel ==
  ASSUME NEW L \in SUBSET Built, \A t, u \in L : t = u \/ Apart(t, u),
         NEW k \in Keys, NEW max \in Nat
  PROVE  LET H == Hits(FindInLevel(L, k), k, max)
         IN  /\ H = {} => Visible(Recs(L), k, max) = {}
             /\ \A t \in H : t \in L /\ TableGet(t, k, max) = Visible(Recs(L), k, max)
<1> DEFINE H == Hits(FindInLevel(L, k), k, max)
<1>1. k \in Nat /\ \A t \in L : t.lo \in Nat /\ t.hi \in Nat /\ t.num \in Nat
  BY BuiltRange, LsmAssumption DEF LsmAssumption, Built, Table
<1>2. \A t, u \in L : Covers(t, k) /\ Covers(u, k) => t = u
  BY <1>1 DEF Covers, Apart
<1>3. \A t \in L : Covers(t, k) => t \in FindInLevel(L, k)
  BY <1>1, <1>2 DEF FindInLevel, Precedes
<1>4. \A t \in L : Visible(t.recs, k, max) # {} => Covers(t, k)
  BY TableGetIsVisible DEF TableGet
<1>5. \A t \in L : Visible(t.recs, k, max) # {} => t \in H
  BY <1>3, <1>4, TableGetIsVisible DEF Hits
<1>6. H = {} => Visible(Recs(L), k, max) = {}
  BY <1>5 DEF Visible, Recs
<1>7. ASSUME NEW t \in H
      PROVE  t \in L /\ TableGet(t, k, max) = Visible(Recs(L), k, max)
  <2>1. t \in L /\ Covers(t, k)
    BY DEF Hits, FindInLevel
  <2>2. \A u \in L : Visible(u.recs, k, max) # {} => u = t
    BY <1>2, <1>4, <2>1
  <2>3. Visible(Recs(L), k, max) = Visible(t.recs, k, max)
    BY <2>1, <2>2 DEF Visible, Recs
  <2> QED
    BY <2>1, <2>3, TableGetIsVisible
<1> QED
  BY <1>6, <1>7

\* Level 0 as a whole: the newest table that has a record has the newest one.
LEMMA LevelZero ==
  ASSUME NEW X, NEW L \in SUBSET Built, NEW k \in Keys, NEW max \in Nat, IsFiniteSet(L),
         \A t, u \in L : t.num = u.num => t = u,
         \A t, u \in L : t.num > u.num => Newer(X, t.recs, u.recs)
  PROVE  LET H == Hits(L, k, max)
             t == CHOOSE x \in H : \A u \in H : u.num <= x.num
         IN  /\ H = {} => Visible(Recs(L), k, max) = {}
             /\ H # {} => /\ t \in L /\ t \in H /\ TableGet(t, k, max) = Visible(t.recs, k, max)
                          /\ \A r \in Visible(t.recs, k, max) :
                               \A q \in Visible(Recs(L), k, max) \ Visible(t.recs, k, max) : r.seq > q.seq
<1> DEFINE H == Hits(L, k, max)
           t == CHOOSE x \in H : \A u \in H : u.num <= x.num
<1>1. \A u \in L : Visible(u.recs, k, max) # {} => u \in H
  BY TableGetIsVisible DEF Hits
<1>2. H = {} => Visible(Recs(L), k, max) = {}
  BY <1>1 DEF Visible, Recs
<1>3. ASSUME H # {}
      PROVE  t \in H /\ \A u \in H : u.num <= t.num
  <2> DEFINE N == {u.num : u \in H}
             f == [u \in H |-> u.num]
  <2>1. H \subseteq L /\ IsFiniteSet(H)
    <3>1. H \subseteq L
      BY DEF Hits
    <3> QED
      BY <3>1, FS_Subset
  <2>2. N \in SUBSET Nat /\ N # {}
    BY <1>3, <2>1 DEF Built, Table
  <2>3. IsFiniteSet(N)
    <3>1. f \in [H -> N] /\ \A n \in N : \E u \in H : f[u] = n
      OBVIOUS
    <3> HIDE DEF N, f, H
    <3> QED
      BY <2>1, <3>1, FiniteImage, SMTT(30)
  <2>4. Max(N) \in N /\ \A n \in N : n <= Max(N)
    BY <2>2, <2>3, MaxOfFinite
  <2>5. PICK x \in H : x.num = Max(N)
    BY <2>4
  <2>6. \A u \in H : u.num <= x.num
    BY <2>4, <2>5
  <2> HIDE DEF H
  <2> QED
    BY <2>6
<1>4. ASSUME H # {}
      PROVE  /\ t \in L /\ t \in H /\ TableGet(t, k, max) = Visible(t.recs, k, max)
             /\ \A r \in Visible(t.recs, k, max) :
                  \A q \in Visible(Recs(L), k, max) \ Visible(t.recs, k, max) : r.seq > q.seq
  <2>1. t \in L /\ t \in H /\ \A u \in H : u.num <= t.num
    BY <1>3, <1>4 DEF Hits
  <2> HIDE DEF t
  <2>2. TableGet(t, k, max) = Visible(t.recs, k, max)
    BY <2>1, TableGetIsVisible
  <2>3. ASSUME NEW r \in Visible(t.recs, k, max),
               NEW q \in Visible(Recs(L), k, max) \ Visible(t.recs, k, max)
        PROVE  r.seq > q.seq
    <3>1. PICK u \in L : q \in u.recs
      BY DEF Visible, Recs
    <3>2. u \in H /\ u # t
      BY <1>1, <3>1 DEF Visible
    <3>3. u.num \in Nat /\ t.num \in Nat
      BY <2>1 DEF Built, Table
    <3>4. t.num > u.num
      BY <2>1, <3>1, <3>2, <3>3
    <3>5. Newer(X, t.recs, u.recs)
      BY <2>1, <3>1, <3>4
    <3> QED
      BY <3>1, <3>5 DEF Newer, Visible
  <2> QED
    BY <2>1, <2>2, <2>3
<1> QED
  BY <1>2, <1>3, <1>4

-----------------------------------------------------------------------------
(* Lookup.                                                                 *)

\* What AllRecs collects.
LEMMA AllRecsAre ==
  ASSUME NEW m, NEW im, NEW lv, NEW q
  PROVE  q \in AllRecs(m, im, lv) <=> \/ q \in m
                                      \/ \E i \in DOMAIN im : q \in im[i]
                                      \/ \E l \in Level : \E t \in lv[l] : q \in t.recs
BY DEF AllRecs, Recs

\* What memtables and levels hold are records.
LEMMA AllRecsType ==
  ASSUME NEW m \in SUBSET Record, NEW im \in Seq(Batch), NEW lv, Sound(lv)
  PROVE  AllRecs(m, im, lv) \subseteq Record
<1>1. \A i \in DOMAIN im : im[i] \subseteq Record
  BY DEF Batch
<1>2. \A l \in Level : \A t \in lv[l] : t.recs \subseteq Record
  BY DEF Sound, Built, Batch
<1> QED
  BY <1>1, <1>2, AllRecsAre

\* get_with_seq ends at its first hit, scan_with_seq merges everything; in
\* layered, disjoint and numbered levels they give the same answer.
LEMMA LookupFindsNewest ==
  ASSUME NEW X, NEW m \in SUBSET Record, NEW im \in Seq(Batch), NEW lv, Sound(lv), NEW nf \in Nat,
         Layered(X, m, im, lv), Disjoint(lv), Numbered(lv, nf), OncePerSeq(AllRecs(m, im, lv)),
         NEW k \in Keys, NEW max \in Nat
  PROVE  Answer(Lookup(m, im, lv, k, max)) = Answer(Visible(AllRecs(m, im, lv), k, max))
<1> DEFINE A       == AllRecs(m, im, lv)
           G       == Visible(A, k, max)
           immHits == {i \in DOMAIN im : Visible(im[i], k, max) # {}}
           l0Hits  == Hits(lv[0], k, max)
           deeper  == {l \in Level \ {0} : Hits(FindInLevel(lv[l], k), k, max) # {}}
           In(l)   == Visible(Recs(lv[l]), k, max)
<1>1. 0 \in Level /\ Level \subseteq Nat
  BY LsmAssumption DEF Level, LsmAssumption
<1>2. \A l \in Level : lv[l] \subseteq Built
  BY DEF Sound
<1>3. A \subseteq Record
  BY AllRecsType
<1>4. G \in SUBSET Record /\ OncePerSeq(G)
  BY <1>3 DEF Visible, OncePerSeq
<1>5. \A q \in G : \/ q \in Visible(m, k, max)
                   \/ \E i \in immHits : q \in Visible(im[i], k, max)
                   \/ \E l \in Level : q \in In(l)
  BY DEF AllRecs, Visible
<1>6. /\ Visible(m, k, max) \subseteq G
      /\ \A i \in DOMAIN im : Visible(im[i], k, max) \subseteq G
      /\ \A l \in Level : In(l) \subseteq G
      /\ \A l \in Level : \A t \in lv[l] : Visible(t.recs, k, max) \subseteq In(l)
  BY DEF AllRecs, Visible, Recs
<1>7. \A l \in Level \ {0} :
        LET H == Hits(FindInLevel(lv[l], k), k, max)
        IN  /\ H = {} => In(l) = {}
            /\ \A t \in H : t \in lv[l] /\ TableGet(t, k, max) = In(l)
  <2> SUFFICES ASSUME NEW l \in Level \ {0}
               PROVE  LET H == Hits(FindInLevel(lv[l], k), k, max)
                      IN  /\ H = {} => In(l) = {}
                          /\ \A t \in H : t \in lv[l] /\ TableGet(t, k, max) = In(l)
    OBVIOUS
  <2>1. lv[l] \in SUBSET Built /\ \A t, u \in lv[l] : t = u \/ Apart(t, u)
    BY <1>2 DEF Disjoint
  <2> QED
    BY <2>1, DeeperLevel
<1>8. LET t == CHOOSE x \in l0Hits : \A u \in l0Hits : u.num <= x.num
      IN  /\ l0Hits = {} => In(0) = {}
          /\ l0Hits # {} => /\ t \in lv[0] /\ t \in l0Hits /\ TableGet(t, k, max) = Visible(t.recs, k, max)
                            /\ \A r \in Visible(t.recs, k, max) :
                                 \A q \in In(0) \ Visible(t.recs, k, max) : r.seq > q.seq
  <2>1. lv[0] \in SUBSET Built /\ IsFiniteSet(lv[0])
    BY <1>1 DEF Sound
  <2>2. \A t, u \in lv[0] : t.num = u.num => t = u
    BY <1>1 DEF Numbered
  <2>3. \A t, u \in lv[0] : t.num > u.num => Newer(X, t.recs, u.recs)
    BY DEF Layered
  <2> QED
    BY <2>1, <2>2, <2>3, LevelZero
<1> HIDE DEF A, G, immHits, l0Hits, deeper, In
<1>9. CASE Visible(m, k, max) # {}
  <2>1. Lookup(m, im, lv, k, max) = Visible(m, k, max)
    BY <1>9 DEF Lookup
  <2>2. ASSUME NEW r \in Visible(m, k, max), NEW q \in G \ Visible(m, k, max)
        PROVE  r.seq > q.seq
    <3>1. CASE \E i \in immHits : q \in Visible(im[i], k, max)
      BY <3>1 DEF Layered, Newer, Visible, immHits
    <3>2. CASE \E l \in Level : q \in In(l)
      BY <3>2 DEF Layered, Newer, Visible, In
    <3> QED
      BY <1>5, <3>1, <3>2
  <2>3. Visible(m, k, max) \in SUBSET G
    BY <1>6
  <2>4. Answer(Visible(m, k, max)) = Answer(G)
    BY <1>4, <1>9, <2>2, <2>3, AnswerAgrees
  <2> QED
    BY <2>1, <2>4 DEF G, A
<1>10. CASE Visible(m, k, max) = {} /\ immHits # {}
  <2> DEFINE i == Max(immHits)
  <2>1. Lookup(m, im, lv, k, max) = Visible(im[i], k, max)
    BY <1>10 DEF Lookup, immHits
  <2>2. i \in immHits /\ \A j \in immHits : j <= i
    <3>1. DOMAIN im = 1..Len(im) /\ IsFiniteSet(1..Len(im))
      BY FS_Interval
    <3>2. immHits \subseteq 1..Len(im) /\ immHits \in SUBSET Nat
      BY <3>1 DEF immHits
    <3> QED
      BY <1>10, <3>1, <3>2, FS_Subset, MaxOfFinite
  <2> HIDE DEF i
  <2>3. i \in DOMAIN im /\ Visible(im[i], k, max) # {} /\ immHits \subseteq DOMAIN im /\ DOMAIN im \subseteq Nat
    BY <2>2 DEF immHits
  <2>4. ASSUME NEW r \in Visible(im[i], k, max), NEW q \in G \ Visible(im[i], k, max)
        PROVE  r.seq > q.seq
    <3>1. ASSUME NEW j \in immHits, q \in Visible(im[j], k, max)
          PROVE  r.seq > q.seq
      <4>1. j < i
        BY <2>2, <2>3, <3>1
      <4>2. Newer(X, im[i], im[j])
        BY <2>3, <4>1 DEF Layered
      <4> QED
        BY <3>1, <4>2 DEF Newer, Visible
    <3>2. ASSUME NEW l \in Level, q \in In(l)
          PROVE  r.seq > q.seq
      <4>1. Newer(X, im[i], Recs(lv[l]))
        BY <2>3 DEF Layered
      <4> QED
        BY <3>2, <4>1 DEF Newer, Visible, In
    <3> QED
      BY <1>5, <1>10, <3>1, <3>2
  <2>5. Visible(im[i], k, max) \in SUBSET G
    BY <1>6, <2>3
  <2>6. Answer(Visible(im[i], k, max)) = Answer(G)
    BY <1>4, <2>3, <2>4, <2>5, AnswerAgrees
  <2> QED
    BY <2>1, <2>6 DEF G, A
<1>11. CASE Visible(m, k, max) = {} /\ immHits = {} /\ l0Hits # {}
  <2> DEFINE t == CHOOSE x \in l0Hits : \A u \in l0Hits : u.num <= x.num
  <2>1. Lookup(m, im, lv, k, max) = TableGet(t, k, max)
    BY <1>11 DEF Lookup, immHits, l0Hits
  <2>2. /\ t \in lv[0] /\ t \in l0Hits /\ TableGet(t, k, max) = Visible(t.recs, k, max)
        /\ \A r \in Visible(t.recs, k, max) :
             \A q \in In(0) \ Visible(t.recs, k, max) : r.seq > q.seq
    BY <1>8, <1>11
  <2>3. Visible(t.recs, k, max) # {}
    BY <2>2 DEF l0Hits, Hits
  <2> HIDE DEF t
  <2>4. ASSUME NEW r \in Visible(t.recs, k, max), NEW q \in G \ Visible(t.recs, k, max)
        PROVE  r.seq > q.seq
    <3>1. PICK l \in Level : q \in In(l)
      BY <1>5, <1>11
    <3>2. CASE l = 0
      BY <2>2, <3>1, <3>2
    <3>3. CASE l # 0
      <4>1. Newer(X, Recs(lv[0]), Recs(lv[l]))
        BY <1>1, <3>3 DEF Layered
      <4>2. r \in Recs(lv[0]) /\ r.key = k
        BY <2>2 DEF Recs, Visible
      <4>3. CASE q \in In(0)
        BY <2>2, <4>3
      <4>4. CASE q \notin In(0)
        BY <3>1, <4>1, <4>2, <4>4 DEF Newer, Visible, In
      <4> QED
        BY <4>3, <4>4
    <3> QED
      BY <3>2, <3>3
  <2>5. Visible(t.recs, k, max) \in SUBSET G
    BY <1>1, <1>6, <2>2
  <2>6. Answer(Visible(t.recs, k, max)) = Answer(G)
    BY <1>4, <2>3, <2>4, <2>5, AnswerAgrees
  <2> QED
    BY <2>1, <2>2, <2>6 DEF G, A
<1>12. CASE Visible(m, k, max) = {} /\ immHits = {} /\ l0Hits = {} /\ deeper # {}
  <2> DEFINE l == Min(deeper)
             H == Hits(FindInLevel(lv[l], k), k, max)
             t == CHOOSE x \in H : TRUE
  <2>1. Lookup(m, im, lv, k, max) = TableGet(t, k, max)
    BY <1>12 DEF Lookup, immHits, l0Hits, deeper
  <2>2. l \in deeper /\ \A x \in deeper : l <= x
    <3>1. deeper \in SUBSET Nat
      BY <1>1 DEF deeper
    <3> QED
      BY <1>12, <3>1, MinOfNats
  <2> HIDE DEF l
  <2>3. l \in Level \ {0} /\ H # {}
    BY <2>2 DEF deeper
  <2>4. t \in H
    BY <2>3
  <2>5. t \in lv[l] /\ TableGet(t, k, max) = In(l) /\ In(l) # {}
    <3>1. TableGet(t, k, max) # {}
      BY <2>4 DEF Hits
    <3> QED
      BY <1>7, <2>3, <2>4, <3>1
  <2> HIDE DEF H, t
  <2>6. ASSUME NEW r \in In(l), NEW q \in G \ In(l)
        PROVE  r.seq > q.seq
    <3>1. PICK x \in Level : q \in In(x)
      BY <1>5, <1>12
    <3>2. x # 0
      BY <1>8, <1>12, <3>1
    <3>3. x \in deeper
      BY <1>7, <3>1, <3>2 DEF deeper
    <3>4. l < x
      BY <1>1, <2>2, <2>3, <3>1, <3>3
    <3>5. Newer(X, Recs(lv[l]), Recs(lv[x]))
      BY <2>3, <3>4 DEF Layered
    <3> QED
      BY <3>1, <3>5 DEF Newer, Visible, In
  <2>7. In(l) \in SUBSET G
    BY <1>6, <2>3
  <2>8. Answer(In(l)) = Answer(G)
    BY <1>4, <2>5, <2>6, <2>7, AnswerAgrees
  <2> QED
    BY <2>1, <2>5, <2>8 DEF G, A
<1>13. CASE Visible(m, k, max) = {} /\ immHits = {} /\ l0Hits = {} /\ deeper = {}
  <2>1. Lookup(m, im, lv, k, max) = {}
    BY <1>13 DEF Lookup, immHits, l0Hits, deeper
  <2>2. \A l \in Level : In(l) = {}
    BY <1>7, <1>8, <1>13 DEF deeper
  <2>3. G = {}
    BY <1>5, <1>13, <2>2
  <2> QED
    BY <2>1, <2>3 DEF G, A
<1> QED
  BY <1>9, <1>10, <1>11, <1>12, <1>13

-----------------------------------------------------------------------------
(* Flush.                                                                  *)

\* Freezing the memtable puts it above the frozen ones.
LEMMA FreezeKeepsOrder ==
  ASSUME NEW X, NEW m, NEW im \in Seq(Batch), NEW lv, Layered(X, m, im, lv)
  PROVE  /\ Layered(X, {}, Append(im, m), lv)
         /\ AllRecs({}, Append(im, m), lv) = AllRecs(m, im, lv)
<1> DEFINE an == Append(im, m)
<1>1. /\ DOMAIN an = 1..(Len(im) + 1) /\ DOMAIN im = 1..Len(im) /\ Len(im) \in Nat
      /\ \A i \in DOMAIN im : an[i] = im[i]
      /\ an[Len(im) + 1] = m
  OBVIOUS
<1> HIDE DEF an
<1>2. \A i \in DOMAIN an : i \in DOMAIN im \/ (an[i] = m /\ i = Len(im) + 1)
  BY <1>1
<1>3. \A i, j \in DOMAIN an : i < j => Newer(X, an[j], an[i])
  BY <1>1, <1>2 DEF Layered
<1>4. \A l \in Level : \A i \in DOMAIN an : Newer(X, an[i], Recs(lv[l]))
  BY <1>1, <1>2 DEF Layered
<1>5. Layered(X, {}, an, lv)
  BY <1>3, <1>4 DEF Layered, Newer
<1>6. AllRecs({}, an, lv) = AllRecs(m, im, lv)
  <2>1. ASSUME NEW q PROVE q \in AllRecs({}, an, lv) <=> q \in AllRecs(m, im, lv)
    <3>1. (\E i \in DOMAIN an : q \in an[i]) <=> (q \in m \/ \E i \in DOMAIN im : q \in im[i])
      BY <1>1, <1>2
    <3> QED
      BY <3>1, AllRecsAre
  <2> QED
    BY <2>1
<1> QED
  BY <1>5, <1>6 DEF an

\* A flush moves the oldest batches, in order, to the top of level 0 and
\* changes nothing a merge of everything would see.
LEMMA FlushKeepsOrder ==
  ASSUME NEW X, NEW m, NEW im \in Seq(Batch), NEW lv, Sound(lv), NEW nf \in Nat \ {0}, NEW n \in 0..Len(im),
         Layered(X, m, im, lv), Disjoint(lv), Numbered(lv, nf)
  PROVE  LET f == FlushImms(im, lv, nf, n)
         IN  /\ Layered(X, m, f.imms, f.levels)
             /\ Disjoint(f.levels)
             /\ Numbered(f.levels, f.nextFile)
             /\ AllRecs(m, f.imms, f.levels) = AllRecs(m, im, lv)
<1> DEFINE f  == FlushImms(im, lv, nf, n)
           ts == {MkTable(nf + i - 1, im[i]) : i \in 1..n}
<1>0. 0 \in Level /\ Level \subseteq Nat
  BY LsmAssumption DEF Level, LsmAssumption
<1>1. f.imms = SubSeq(im, n + 1, Len(im)) /\ f.levels = [lv EXCEPT ![0] = @ \cup ts]
      /\ f.nextFile = nf + n + (IF n < Len(im) THEN 1 ELSE 0)
  BY DEF FlushImms
<1>2. f.levels[0] = lv[0] \cup ts /\ \A l \in Level \ {0} : f.levels[l] = lv[l]
  BY <1>0, <1>1 DEF Sound
<1>3. /\ DOMAIN f.imms = 1..(Len(im) - n) /\ DOMAIN im = 1..Len(im)
      /\ \A j \in DOMAIN f.imms : f.imms[j] = im[n + j] /\ n + j \in DOMAIN im
  BY <1>1
<1>4. /\ \A i \in 1..n : \E t \in ts : t.num = nf + i - 1 /\ t.recs = im[i]
      /\ \A t \in ts : \E i \in 1..n : t = MkTable(nf + i - 1, im[i]) /\ t.num = nf + i - 1 /\ t.recs = im[i]
  <2>1. \A i \in 1..n : im[i] \in Batch /\ nf + i - 1 \in Nat
    OBVIOUS
  <2>2. \A i \in 1..n : LET t == MkTable(nf + i - 1, im[i])
                       IN  t.num = nf + i - 1 /\ t.recs = im[i]
    BY <2>1, MkTableBuilt
  <2> QED
    BY <2>2
<1>5. f.nextFile \in Nat /\ f.nextFile >= nf + n
  BY <1>1
<1>6. \A l \in Level : \A t \in lv[l] : t.num \in Nat /\ t.num < nf
  BY DEF Sound, Built, Table, Numbered
<1> HIDE DEF f, ts
<1>7. Layered(X, m, f.imms, f.levels)
  <2>1. \A t \in f.levels[0] : \A r \in t.recs : r \in Recs(lv[0]) \/ (\E i \in 1..n : r \in im[i])
    <3>1. \A t \in ts : \E i \in 1..n : t.recs = im[i]
      BY <1>4
    <3> QED
      BY <1>2, <3>1 DEF Recs
  <2>2. \A l \in Level : \A r \in Recs(f.levels[l]) :
          r \in Recs(lv[l]) \/ (l = 0 /\ \E i \in 1..n : r \in im[i])
    BY <1>2, <2>1 DEF Recs
  <2>3. 1..n \subseteq DOMAIN im
    BY <1>3
  <2>4. \A i \in DOMAIN f.imms : Newer(X, m, f.imms[i])
    BY <1>3 DEF Layered
  <2>5. \A i, j \in DOMAIN f.imms : i < j => Newer(X, f.imms[j], f.imms[i])
    BY <1>3 DEF Layered
  <2>6. ASSUME NEW l \in Level PROVE Newer(X, m, Recs(f.levels[l]))
    BY <2>2, <2>3 DEF Layered, Newer
  <2>7. ASSUME NEW l \in Level, NEW j \in DOMAIN f.imms PROVE Newer(X, f.imms[j], Recs(f.levels[l]))
    <3>1. \A i \in 1..n : Newer(X, im[n + j], im[i])
      BY <1>3, <2>3 DEF Layered
    <3>2. Newer(X, im[n + j], Recs(lv[l]))
      BY <1>3 DEF Layered
    <3> QED
      BY <1>3, <2>2, <3>1, <3>2 DEF Newer
  <2>8. ASSUME NEW t \in f.levels[0], NEW u \in f.levels[0], t.num > u.num
        PROVE  Newer(X, t.recs, u.recs)
    <3>1. CASE t \in lv[0] /\ u \in lv[0]
      BY <2>8, <3>1 DEF Layered
    <3>2. CASE t \in ts /\ u \in lv[0]
      <4>1. PICK i \in 1..n : t.recs = im[i]
        BY <1>4, <3>2
      <4>2. Newer(X, im[i], Recs(lv[0]))
        BY <1>0, <2>3 DEF Layered
      <4> QED
        BY <3>2, <4>1, <4>2 DEF Newer, Recs
    <3>3. CASE t \in ts /\ u \in ts
      <4>1. PICK i \in 1..n, j \in 1..n : /\ t.recs = im[i] /\ t.num = nf + i - 1
                                          /\ u.recs = im[j] /\ u.num = nf + j - 1
        BY <1>4, <3>3
      <4>2. j < i
        BY <2>8, <4>1
      <4> QED
        BY <2>3, <4>1, <4>2 DEF Layered
    <3>4. CASE t \in lv[0] /\ u \in ts
      <4>1. PICK j \in 1..n : u.num = nf + j - 1
        BY <1>4, <3>4
      <4> QED
        BY <1>0, <1>6, <2>8, <3>4, <4>1
    <3> QED
      BY <1>2, <3>1, <3>2, <3>3, <3>4
  <2>9. ASSUME NEW l \in Level, NEW k \in Level, l < k
        PROVE  Newer(X, Recs(f.levels[l]), Recs(f.levels[k]))
    <3>1. k # 0
      BY <1>0, <2>9
    <3>2. Newer(X, Recs(lv[l]), Recs(lv[k])) /\ \A i \in 1..n : Newer(X, im[i], Recs(lv[k]))
      BY <2>3, <2>9 DEF Layered
    <3>3. /\ Recs(lv[l]) \subseteq Recs(f.levels[l]) /\ Recs(f.levels[k]) = Recs(lv[k])
          /\ \A i \in 1..n : im[i] \subseteq Recs(f.levels[0])
      BY <1>2, <1>4, <3>1 DEF Recs
    <3> QED
      BY <2>2, <3>2, <3>3 DEF Newer
  <2> QED
    BY <2>4, <2>5, <2>6, <2>7, <2>8, <2>9 DEF Layered
<1>8. Disjoint(f.levels)
  BY <1>2 DEF Disjoint
<1>9. Numbered(f.levels, f.nextFile)
  <2>1. \A t \in ts : t.num \in Nat /\ nf <= t.num /\ t.num < nf + n
    BY <1>4
  <2>2. \A t, u \in ts : t.num = u.num => t = u
    <3> SUFFICES ASSUME NEW t \in ts, NEW u \in ts, t.num = u.num PROVE t = u
      OBVIOUS
    <3>1. PICK i \in 1..n, j \in 1..n : /\ t = MkTable(nf + i - 1, im[i]) /\ t.num = nf + i - 1
                                        /\ u = MkTable(nf + j - 1, im[j]) /\ u.num = nf + j - 1
      BY <1>4
    <3>2. i = j
      BY <3>1
    <3> QED
      BY <3>1, <3>2
  <2>3. \A l \in Level : \A t \in f.levels[l] : t \in lv[l] \/ (l = 0 /\ t \in ts)
    BY <1>2
  <2> SUFFICES ASSUME NEW l \in Level, NEW k \in Level, NEW t \in f.levels[l], NEW u \in f.levels[k]
               PROVE  t.num < f.nextFile /\ (t.num = u.num => l = k /\ t = u)
    BY DEF Numbered
  <2>4. CASE t \in lv[l] /\ u \in lv[k]
    BY <1>5, <1>6, <2>4 DEF Numbered
  <2>5. CASE t \in lv[l] /\ u \in ts
    BY <1>5, <1>6, <2>1, <2>5
  <2>6. CASE t \in ts /\ u \in lv[k]
    BY <1>5, <1>6, <2>1, <2>6
  <2>7. CASE t \in ts /\ u \in ts /\ l = 0 /\ k = 0
    BY <1>5, <2>1, <2>2, <2>7
  <2> QED
    BY <2>3, <2>4, <2>5, <2>6, <2>7
<1>10. AllRecs(m, f.imms, f.levels) = AllRecs(m, im, lv)
  <2>1. ASSUME NEW q, q \in AllRecs(m, f.imms, f.levels) PROVE q \in AllRecs(m, im, lv)
    <3>1. (\E j \in DOMAIN f.imms : q \in f.imms[j]) => \E i \in DOMAIN im : q \in im[i]
      BY <1>3
    <3>2. ASSUME NEW l \in Level, NEW t \in f.levels[l], q \in t.recs
          PROVE  (\E i \in DOMAIN im : q \in im[i]) \/ (\E x \in Level : \E u \in lv[x] : q \in u.recs)
      <4>1. t \in lv[l] \/ t \in ts
        BY <1>2
      <4>2. 1..n \subseteq DOMAIN im
        BY <1>3
      <4> QED
        BY <1>4, <3>2, <4>1, <4>2
    <3> QED
      BY <2>1, <3>1, <3>2, AllRecsAre
  <2>2. ASSUME NEW q, q \in AllRecs(m, im, lv) PROVE q \in AllRecs(m, f.imms, f.levels)
    <3>1. ASSUME NEW i \in DOMAIN im, q \in im[i]
          PROVE  (\E j \in DOMAIN f.imms : q \in f.imms[j]) \/ (\E t \in f.levels[0] : q \in t.recs)
      <4>1. CASE i <= n
        <5>1. i \in 1..n
          BY <1>3, <4>1
        <5>2. PICK t \in ts : t.recs = im[i]
          BY <1>4, <5>1
        <5> QED
          BY <1>2, <3>1, <5>2
      <4>2. CASE i > n
        <5>1. i - n \in DOMAIN f.imms /\ n + (i - n) = i
          BY <1>3, <4>2
        <5> QED
          BY <1>3, <3>1, <5>1
      <4> QED
        BY <1>3, <4>1, <4>2
    <3>2. \A l \in Level : lv[l] \subseteq f.levels[l]
      BY <1>2
    <3> QED
      BY <1>0, <2>2, <3>1, <3>2, AllRecsAre
  <2> QED
    BY <2>1, <2>2
<1> QED
  BY <1>7, <1>8, <1>9, <1>10 DEF f

-----------------------------------------------------------------------------
(* Compaction.                                                             *)

\* Division by the file size keeps the order.
LEMMA DivKeepsOrder ==
  ASSUME NEW a \in Nat, NEW b \in Nat, NEW n \in Nat \ {0}, a <= b
  PROVE  a \div n <= b \div n
OBVIOUS

\* The outputs are cut between keys: no two share a number or a key, and
\* together they hold what was merged.
LEMMA OutputsApart ==
  ASSUME NEW S \in SUBSET Record, IsFiniteSet(S), NEW nf \in Nat
  PROVE  /\ \A t, u \in Outputs(S, nf) : t = u \/ (t.num # u.num /\ Apart(t, u))
         /\ Recs(Outputs(S, nf)) = S
<1> DEFINE Out(c) == {r \in S : Chunk(S, r) = c}
<1>1. \A r \in S : Chunk(S, r) \in Nat /\ r.key \in Nat
  BY ChunkType, LsmAssumption DEF Record, LsmAssumption
<1>2. ASSUME NEW r \in S, NEW q \in S, r.key <= q.key
      PROVE  Chunk(S, r) <= Chunk(S, q)
  <2>1. {x \in S : x.key < r.key} \subseteq {x \in S : x.key < q.key}
    BY <1>1, <1>2
  <2>2. IsFiniteSet({x \in S : x.key < q.key})
    BY FS_Subset
  <2>3. Rank(S, r) <= Rank(S, q)
    BY <2>1, <2>2, FS_Subset DEF Rank
  <2> QED
    BY <2>3, ChunkType, DivKeepsOrder, LsmAssumption DEF Chunk, LsmAssumption
<1>3. ASSUME NEW r \in S
      PROVE  LET t == MkTable(nf + Chunk(S, r), Out(Chunk(S, r)))
             IN  t \in Built /\ t.num = nf + Chunk(S, r) /\ t.recs = Out(Chunk(S, r))
  <2>1. Out(Chunk(S, r)) \in Batch
    BY FS_Subset DEF Batch
  <2>2. nf + Chunk(S, r) \in Nat
    BY <1>1
  <2> HIDE DEF Out
  <2> QED
    BY <2>1, <2>2, MkTableBuilt
<1>4. ASSUME NEW t \in Outputs(S, nf)
      PROVE  \E r \in S : t = MkTable(nf + Chunk(S, r), Out(Chunk(S, r)))
  BY DEF Outputs
<1>5. ASSUME NEW r \in S
      PROVE  MkTable(nf + Chunk(S, r), Out(Chunk(S, r))) \in Outputs(S, nf)
  BY DEF Outputs
<1>6. ASSUME NEW t \in Built, NEW u \in Built, \A r \in t.recs, q \in u.recs : r.key < q.key
      PROVE  t.hi < u.lo
  BY <1>6, BuiltKeys
<1>7. ASSUME NEW t \in Outputs(S, nf), NEW u \in Outputs(S, nf), t # u
      PROVE  t.num # u.num /\ Apart(t, u)
  <2>1. PICK r \in S : t = MkTable(nf + Chunk(S, r), Out(Chunk(S, r)))
    BY <1>4
  <2>2. PICK q \in S : u = MkTable(nf + Chunk(S, q), Out(Chunk(S, q)))
    BY <1>4
  <2>3. Chunk(S, r) # Chunk(S, q)
    BY <1>7, <2>1, <2>2
  <2>4. /\ t \in Built /\ t.num = nf + Chunk(S, r) /\ t.recs = Out(Chunk(S, r))
        /\ u \in Built /\ u.num = nf + Chunk(S, q) /\ u.recs = Out(Chunk(S, q))
    BY <1>3, <2>1, <2>2
  <2>5. t.num # u.num
    BY <1>1, <2>3, <2>4
  <2>6. ASSUME Chunk(S, r) < Chunk(S, q) PROVE t.hi < u.lo
    <3>1. \A x \in t.recs, y \in u.recs : x.key < y.key
      BY <1>1, <1>2, <2>4, <2>6
    <3> QED
      BY <1>6, <2>4, <3>1
  <2>7. ASSUME Chunk(S, q) < Chunk(S, r) PROVE u.hi < t.lo
    <3>1. \A x \in u.recs, y \in t.recs : x.key < y.key
      BY <1>1, <1>2, <2>4, <2>7
    <3> QED
      BY <1>6, <2>4, <3>1
  <2> QED
    BY <1>1, <2>3, <2>5, <2>6, <2>7 DEF Apart
<1>8. Recs(Outputs(S, nf)) = S
  <2>1. ASSUME NEW t \in Outputs(S, nf) PROVE t.recs \subseteq S
    BY OutputsBuilt
  <2>2. ASSUME NEW r \in S PROVE \E t \in Outputs(S, nf) : r \in t.recs
    BY <1>3, <1>5
  <2> QED
    BY <2>1, <2>2 DEF Recs
<1> QED
  BY <1>7, <1>8

\* The records a compaction merges.
Merged(lv) == Recs(Upper(lv, JobLevel(lv)) \cup Lower(lv, JobLevel(lv)))

\* What a compaction leaves alone in the level below lies to one side of all
\* it merges, because the tables it takes there are all that meet the range.
LEMMA KeptBeside ==
  ASSUME NEW lv, Sound(lv), Disjoint(lv), Overfull(lv) # {}
  PROVE  LET l == JobLevel(lv)
         IN  \A u \in lv[l + 1] \ Lower(lv, l) :
               \/ \A r \in Merged(lv) : u.hi < r.key
               \/ \A r \in Merged(lv) : r.key < u.lo
<1> DEFINE l   == JobLevel(lv)
           up  == Upper(lv, l)
           low == Lower(lv, l)
           los == {t.lo : t \in up}
           his == {t.hi : t \in up}
<1>1. l \in Level /\ l + 1 \in Level /\ l \in Nat
  BY JobLevelProps
<1>2. up \subseteq lv[l] /\ up # {} /\ low \subseteq lv[l + 1]
  BY JobInputs, SoundLevels
<1>3. up \subseteq Built /\ lv[l + 1] \subseteq Built /\ IsFiniteSet(up)
  BY <1>1, <1>2, FS_Subset DEF Sound
<1>4. low = Overlapping(lv[l + 1], Min(los), Max(his))
  BY DEF Lower
<1> HIDE DEF up, low, l
<1>5. \A t \in Built : /\ t.lo \in Nat /\ t.hi \in Nat /\ t.lo <= t.hi
                       /\ \A r \in t.recs : t.lo <= r.key /\ r.key <= t.hi /\ r.key \in Nat
  BY BuiltRange
<1>6. Min(los) \in Nat /\ \A t \in up : Min(los) <= t.lo
  <2>1. los \in SUBSET Nat /\ los # {}
    BY <1>2, <1>3, <1>5
  <2>2. \A t \in up : t.lo \in los
    OBVIOUS
  <2> HIDE DEF los
  <2> QED
    BY <2>1, <2>2, MinOfNats
<1>7. Max(his) \in Nat /\ \A t \in up : t.hi <= Max(his)
  <2> DEFINE f == [t \in up |-> t.hi]
  <2>1. his \in SUBSET Nat /\ his # {}
    BY <1>2, <1>3, <1>5
  <2>2. f \in [up -> his] /\ \A y \in his : \E t \in up : f[t] = y
    OBVIOUS
  <2>3. IsFiniteSet(his)
    BY <1>3, <2>2, FiniteImage, ZenonT(30)
  <2> QED
    BY <2>1, <2>3, MaxOfFinite
<1> HIDE DEF los, his
<1>8. ASSUME NEW u \in lv[l + 1] \ low
      PROVE  \/ \A r \in Recs(up \cup low) : u.hi < r.key
             \/ \A r \in Recs(up \cup low) : r.key < u.lo
  <2>1. u.hi < Min(los) \/ Max(his) < u.lo
    BY <1>3, <1>4, <1>5, <1>6, <1>7 DEF Overlapping
  <2>2. \A t \in low : Apart(t, u) /\ t.hi >= Min(los) /\ t.lo <= Max(his)
    <3>1. l + 1 # 0
      BY <1>1
    <3> QED
      BY <1>1, <1>2, <1>4, <3>1 DEF Disjoint, Overlapping
  <2>3. CASE u.hi < Min(los)
    <3>1. \A t \in up \cup low : u.hi < t.lo
      BY <1>2, <1>3, <1>5, <1>6, <2>2, <2>3 DEF Apart
    <3> QED
      BY <1>2, <1>3, <1>5, <3>1 DEF Recs
  <2>4. CASE Max(his) < u.lo
    <3>1. \A t \in up \cup low : t.hi < u.lo
      BY <1>2, <1>3, <1>5, <1>7, <2>2, <2>4 DEF Apart
    <3> QED
      BY <1>2, <1>3, <1>5, <3>1 DEF Recs
  <2> QED
    BY <2>1, <2>3, <2>4
<1> QED
  BY <1>8 DEF Merged, l, up, low

\* What a compaction leaves alone in its own level shares no key with what
\* it takes from there.
LEMMA KeptAbove ==
  ASSUME NEW lv, Sound(lv), Disjoint(lv), Overfull(lv) # {}
  PROVE  LET l == JobLevel(lv)
         IN  \A r \in Recs(lv[l] \ Upper(lv, l)), q \in Recs(Upper(lv, l)) : r.key # q.key
<1> DEFINE l  == JobLevel(lv)
           up == Upper(lv, l)
<1>1. l \in Level /\ up \subseteq lv[l] /\ lv[l] \subseteq Built
  BY JobLevelProps, JobInputs, SoundLevels DEF Sound
<1>2. CASE l = 0
  BY <1>2 DEF Upper, Recs
<1>3. CASE l # 0
  <2> HIDE DEF up, l
  <2>1. \A t \in lv[l] \ up, u \in up : Apart(t, u)
    BY <1>1, <1>3 DEF Disjoint
  <2>2. ASSUME NEW r \in Recs(lv[l] \ up), NEW q \in Recs(up)
        PROVE  r.key # q.key
    <3>1. PICK t \in lv[l] \ up : r \in t.recs
      BY DEF Recs
    <3>2. PICK u \in up : q \in u.recs
      BY DEF Recs
    <3>3. t \in Built /\ u \in Built /\ Apart(t, u)
      BY <1>1, <2>1, <3>1, <3>2
    <3> QED
      BY <3>1, <3>2, <3>3, BuiltRange DEF Apart
  <2> QED
    BY <2>2 DEF up, l
<1> QED
  BY <1>2, <1>3

\* Nor does what it leaves alone in the level below share one with the merge.
LEMMA KeptBelow ==
  ASSUME NEW lv, Sound(lv), Disjoint(lv), Overfull(lv) # {}
  PROVE  LET l == JobLevel(lv)
         IN  \A r \in Recs(lv[l + 1] \ Lower(lv, l)), q \in Merged(lv) : r.key # q.key
<1> DEFINE l   == JobLevel(lv)
           low == Lower(lv, l)
<1>1. \A u \in lv[l + 1] \ low :
        (\A r \in Merged(lv) : u.hi < r.key) \/ (\A r \in Merged(lv) : r.key < u.lo)
  BY KeptBeside
<1>2. lv[l + 1] \subseteq Built
  BY JobLevelProps DEF Sound
<1> HIDE DEF l, low
<1>3. ASSUME NEW r \in Recs(lv[l + 1] \ low), NEW q \in Merged(lv)
      PROVE  r.key # q.key
  <2>1. PICK u \in lv[l + 1] \ low : r \in u.recs
    BY DEF Recs
  <2>2. u.lo <= r.key /\ r.key <= u.hi /\ u.lo \in Nat /\ u.hi \in Nat /\ r.key \in Nat
    BY <1>2, <2>1, BuiltRange
  <2>3. u.hi < q.key \/ q.key < u.lo
    BY <1>1, <2>1
  <2> QED
    BY <2>2, <2>3
<1> QED
  BY <1>3 DEF l, low

\* A survivor is the newest record of its key in the merge.
LEMMA SurvivorsNewest ==
  ASSUME NEW S \in SUBSET Record, NEW out, NEW wm, NEW r \in Survivors(S, out, wm),
         NEW q \in S, q.key = r.key
  PROVE  q.seq <= r.seq
<1>1. r = Newest(Visible(S, r.key, MaxSeq))
  BY DEF Survivors
<1>2. q \in Visible(S, r.key, MaxSeq) /\ Visible(S, r.key, MaxSeq) \in SUBSET Record
  BY LsmAssumption DEF Visible, Record, LsmAssumption
<1> QED
  BY <1>1, <1>2, NewestExists

\* The survivors are records of the merge, one of each key.
LEMMA SurvivorsAre ==
  ASSUME NEW S, NEW out, NEW wm
  PROVE  /\ Survivors(S, out, wm) \subseteq S
         /\ \A r, q \in Survivors(S, out, wm) : r.key = q.key => r = q
BY DEF Survivors

\* A compaction, in parts: its level, what it takes and what it puts there.
LEMMA CompactParts ==
  ASSUME NEW lv, Sound(lv), NEW nf \in Nat \ {0}, NEW wm, Overfull(lv) # {}
  PROVE  LET l    == JobLevel(lv)
             c    == MaybeCompact(lv, nf, wm)
             surv == Survivors(Merged(lv), l + 1, wm)
             outs == Outputs(surv, nf)
         IN  /\ l \in Level /\ l + 1 \in Level /\ l \in Nat
             /\ Upper(lv, l) \subseteq lv[l] /\ Lower(lv, l) \subseteq lv[l + 1]
             /\ Merged(lv) \in SUBSET Record /\ IsFiniteSet(Merged(lv))
             /\ surv \in SUBSET Record /\ IsFiniteSet(surv)
             /\ outs \subseteq Built /\ IsFiniteSet(outs) /\ Recs(outs) = surv
             /\ c.levels[l] = lv[l] \ Upper(lv, l)
             /\ c.levels[l + 1] = (lv[l + 1] \ Lower(lv, l)) \cup outs
             /\ \A x \in Level \ {l, l + 1} : c.levels[x] = lv[x]
             /\ c.nextFile = AfterLast(outs, nf)
<1> DEFINE l    == JobLevel(lv)
           up   == Upper(lv, l)
           low  == Lower(lv, l)
           c    == MaybeCompact(lv, nf, wm)
           surv == Survivors(Merged(lv), l + 1, wm)
           outs == Outputs(surv, nf)
<1>1. l \in Level /\ l + 1 \in Level /\ l \in Nat
  BY JobLevelProps
<1>2. up \subseteq lv[l] /\ low \subseteq lv[l + 1]
  BY JobInputs, SoundLevels
<1>3. Merged(lv) \in SUBSET Record /\ IsFiniteSet(Merged(lv))
  <2>1. up \subseteq Built /\ low \subseteq Built /\ IsFiniteSet(up \cup low)
    <3>1. lv[l] \subseteq Built /\ lv[l + 1] \subseteq Built
          /\ IsFiniteSet(lv[l]) /\ IsFiniteSet(lv[l + 1])
      BY <1>1 DEF Sound
    <3>2. IsFiniteSet(up) /\ IsFiniteSet(low)
      BY <1>2, <3>1, FS_Subset
    <3> QED
      BY <1>2, <3>1, <3>2, FS_Union
  <2>2. \A t \in up \cup low : t.recs \in Batch
    BY <2>1 DEF Built
  <2> QED
    BY <2>1, <2>2, RecsFinite DEF Merged
<1>4. surv \in SUBSET Record /\ IsFiniteSet(surv)
  BY <1>3, SurvivorsAre, FS_Subset
<1>5. outs \subseteq Built /\ IsFiniteSet(outs) /\ Recs(outs) = surv
  BY <1>4, OutputsBuilt, OutputsApart
<1>6. c.levels = [lv EXCEPT ![l] = @ \ up, ![l + 1] = (@ \ low) \cup outs]
      /\ c.nextFile = AfterLast(outs, nf)
  BY DEF MaybeCompact, Compacted, Merged
<1> HIDE DEF c, l, up, low, surv, outs
<1>7. /\ c.levels[l] = lv[l] \ up
      /\ c.levels[l + 1] = (lv[l + 1] \ low) \cup outs
      /\ \A x \in Level \ {l, l + 1} : c.levels[x] = lv[x]
  BY <1>1, <1>6 DEF Sound
<1> QED
  BY <1>1, <1>2, <1>3, <1>4, <1>5, <1>6, <1>7 DEF c, l, up, low, surv, outs

\* The levels a compaction leaves are disjoint again.
LEMMA CompactKeepsDisjoint ==
  ASSUME NEW lv, Sound(lv), Disjoint(lv), NEW nf \in Nat \ {0}, NEW wm
  PROVE  Disjoint(MaybeCompact(lv, nf, wm).levels)
<1> DEFINE l    == JobLevel(lv)
           low  == Lower(lv, l)
           c    == MaybeCompact(lv, nf, wm)
           surv == Survivors(Merged(lv), l + 1, wm)
           outs == Outputs(surv, nf)
<1>1. CASE Overfull(lv) = {}
  BY <1>1 DEF MaybeCompact
<1>2. CASE Overfull(lv) # {}
  <2>1. /\ l \in Level /\ l + 1 \in Level /\ surv \in SUBSET Record /\ IsFiniteSet(surv)
        /\ outs \subseteq Built /\ Recs(outs) = surv
        /\ c.levels[l] = lv[l] \ Upper(lv, l)
        /\ c.levels[l + 1] = (lv[l + 1] \ low) \cup outs
        /\ \A x \in Level \ {l, l + 1} : c.levels[x] = lv[x]
    BY <1>2, CompactParts
  <2>2. \A u \in lv[l + 1] \ low :
          (\A r \in Merged(lv) : u.hi < r.key) \/ (\A r \in Merged(lv) : r.key < u.lo)
    BY <1>2, KeptBeside
  <2>3. surv \subseteq Merged(lv)
    BY SurvivorsAre
  <2>4. \A t, u \in outs : t = u \/ Apart(t, u)
    BY <2>1, OutputsApart
  <2> HIDE DEF l, low, c, surv, outs
  <2>5. ASSUME NEW t \in outs, NEW u \in lv[l + 1] \ low
        PROVE  Apart(t, u) /\ Apart(u, t)
    <3>1. PICK r \in t.recs, q \in t.recs : r.key = t.lo /\ q.key = t.hi
      BY <2>1, BuiltKeys
    <3>2. r \in Merged(lv) /\ q \in Merged(lv)
      BY <2>1, <2>3 DEF Recs
    <3> QED
      BY <2>2, <3>1, <3>2 DEF Apart
  <2>6. ASSUME NEW x \in Level \ {0}, NEW t \in c.levels[x], NEW u \in c.levels[x], t # u
        PROVE  Apart(t, u)
    <3>1. CASE t \in lv[x] /\ u \in lv[x]
      BY <2>6, <3>1 DEF Disjoint
    <3>2. CASE x = l + 1 /\ t \in outs /\ u \in outs
      BY <2>4, <2>6, <3>2
    <3>3. CASE x = l + 1 /\ t \in outs /\ u \in lv[l + 1] \ low
      BY <2>5, <3>3
    <3>4. CASE x = l + 1 /\ u \in outs /\ t \in lv[l + 1] \ low
      BY <2>5, <3>4
    <3> QED
      BY <2>1, <3>1, <3>2, <3>3, <3>4
  <2> QED
    BY <2>6 DEF Disjoint, c
<1> QED
  BY <1>1, <1>2

\* The numbers of the outputs are new, and the next one is above them.
LEMMA CompactKeepsNumbers ==
  ASSUME NEW lv, Sound(lv), NEW nf \in Nat \ {0}, NEW wm, Numbered(lv, nf)
  PROVE  LET c == MaybeCompact(lv, nf, wm)
         IN  Numbered(c.levels, c.nextFile) /\ c.nextFile \in Nat /\ c.nextFile >= nf
<1> DEFINE l    == JobLevel(lv)
           c    == MaybeCompact(lv, nf, wm)
           surv == Survivors(Merged(lv), l + 1, wm)
           outs == Outputs(surv, nf)
<1>1. CASE Overfull(lv) = {}
  BY <1>1 DEF MaybeCompact
<1>2. CASE Overfull(lv) # {}
  <2>1. /\ l \in Level /\ l + 1 \in Level /\ surv \in SUBSET Record /\ IsFiniteSet(surv)
        /\ outs \subseteq Built /\ IsFiniteSet(outs)
        /\ c.levels[l] = lv[l] \ Upper(lv, l)
        /\ c.levels[l + 1] = (lv[l + 1] \ Lower(lv, l)) \cup outs
        /\ \A x \in Level \ {l, l + 1} : c.levels[x] = lv[x]
        /\ c.nextFile = AfterLast(outs, nf)
    BY <1>2, CompactParts
  <2>2. c.nextFile \in Nat /\ \A t \in outs : t.num < c.nextFile
    BY <2>1, AfterLastType
  <2>3. \A t \in outs : t.num \in Nat /\ t.num >= nf
    BY <2>1, OutputsBuilt DEF Built, Table
  <2>4. c.nextFile >= nf
    <3>1. CASE outs = {}
      BY <2>1, <3>1 DEF AfterLast
    <3>2. CASE outs # {}
      <4>1. PICK t \in outs : TRUE
        BY <3>2
      <4> HIDE DEF c, outs
      <4> QED
        BY <2>2, <2>3, <4>1
    <3> QED
      BY <3>1, <3>2
  <2>5. \A t, u \in outs : t.num = u.num => t = u
    BY <2>1, OutputsApart
  <2> HIDE DEF l, c, surv, outs
  <2>6. \A x \in Level : \A t \in c.levels[x] : t \in lv[x] \/ (x = l + 1 /\ t \in outs)
    BY <2>1
  <2>7. \A x \in Level : \A t \in lv[x] : t.num \in Nat /\ t.num < nf
    BY DEF Sound, Built, Table, Numbered
  <2>8. ASSUME NEW x \in Level, NEW y \in Level, NEW t \in c.levels[x], NEW u \in c.levels[y]
        PROVE  t.num < c.nextFile /\ (t.num = u.num => x = y /\ t = u)
    <3>1. CASE t \in lv[x] /\ u \in lv[y]
      BY <2>2, <2>4, <2>7, <3>1 DEF Numbered
    <3>2. CASE t \in outs /\ u \in lv[y]
      BY <2>2, <2>3, <2>7, <3>2
    <3>3. CASE t \in lv[x] /\ u \in outs
      BY <2>2, <2>3, <2>4, <2>7, <3>3
    <3>4. CASE t \in outs /\ u \in outs /\ x = l + 1 /\ y = l + 1
      BY <2>2, <2>5, <3>4
    <3> QED
      BY <2>6, <3>1, <3>2, <3>3, <3>4
  <2> QED
    BY <2>2, <2>4, <2>8 DEF Numbered, c
<1> QED
  BY <1>1, <1>2

\* A compaction moves records one level down and never past older ones.
LEMMA CompactKeepsOrder ==
  ASSUME NEW X, NEW m \in SUBSET Record, NEW im \in Seq(Batch), NEW lv, Sound(lv), Disjoint(lv),
         Layered(X, m, im, lv), OncePerSeq(AllRecs(m, im, lv)), NEW nf \in Nat \ {0}, NEW wm
  PROVE  LET c == MaybeCompact(lv, nf, wm)
         IN  Layered(X, m, im, c.levels) /\ AllRecs(m, im, c.levels) \subseteq AllRecs(m, im, lv)
<1> DEFINE l    == JobLevel(lv)
           up   == Upper(lv, l)
           low  == Lower(lv, l)
           c    == MaybeCompact(lv, nf, wm)
           surv == Survivors(Merged(lv), l + 1, wm)
           outs == Outputs(surv, nf)
<1>1. CASE Overfull(lv) = {}
  BY <1>1 DEF MaybeCompact
<1>2. CASE Overfull(lv) # {}
  <2>1. /\ l \in Level /\ l + 1 \in Level /\ l \in Nat
        /\ up \subseteq lv[l] /\ low \subseteq lv[l + 1]
        /\ Recs(outs) = surv
        /\ c.levels[l] = lv[l] \ up
        /\ c.levels[l + 1] = (lv[l + 1] \ low) \cup outs
        /\ \A x \in Level \ {l, l + 1} : c.levels[x] = lv[x]
    BY <1>2, CompactParts
  <2>2. surv \subseteq Merged(lv)
    BY SurvivorsAre
  <2>3. \A r \in Recs(lv[l] \ up), q \in Recs(up) : r.key # q.key
    BY <1>2, KeptAbove
  <2>4. Merged(lv) = Recs(up) \cup Recs(low)
    BY DEF Merged, Recs
  <2>5. l = 0 => up = lv[0]
    BY DEF Upper
  <2>15. Merged(lv) \in SUBSET Record /\ OncePerSeq(Merged(lv))
    <3>1. Merged(lv) \in SUBSET Record
      BY <1>2, CompactParts
    <3>2. Recs(up) \subseteq AllRecs(m, im, lv) /\ Recs(low) \subseteq AllRecs(m, im, lv)
      BY <2>1, AllRecsAre DEF Recs
    <3> QED
      BY <2>4, <3>1, <3>2 DEF OncePerSeq
  <2>17. \A r \in Recs(lv[l + 1] \ low), q \in Merged(lv) : r.key # q.key
    BY <1>2, KeptBelow
  <2>18. \A r \in surv, q \in Merged(lv) : q.key = r.key => q.seq <= r.seq
    BY <2>15, SurvivorsNewest
  <2> HIDE DEF l, up, low, c, surv, outs
  <2>16. /\ Recs(low) \subseteq Recs(lv[l + 1]) /\ Recs(lv[l + 1] \ low) \subseteq Recs(lv[l + 1])
         /\ surv \subseteq Recs(c.levels[l + 1])
         /\ Recs(lv[l + 1] \ low) \subseteq Recs(c.levels[l + 1])
         /\ \A r \in Recs(c.levels[l + 1]) : r \in surv \/ r \in Recs(lv[l + 1] \ low)
    BY <2>1 DEF Recs
  <2>6. /\ Recs(c.levels[l]) = Recs(lv[l] \ up)
        /\ Recs(lv[l] \ up) \subseteq Recs(lv[l]) /\ Recs(up) \subseteq Recs(lv[l])
        /\ \A r \in Recs(c.levels[l + 1]) : r \in Recs(lv[l + 1]) \/ r \in Recs(up)
    BY <2>1, <2>2, <2>4 DEF Recs
  <2>7. \A x \in Level : \A r \in Recs(c.levels[x]) :
          r \in Recs(lv[x]) \/ (x = l + 1 /\ r \in Recs(lv[l]))
    BY <2>1, <2>6
  <2>8. Level \subseteq Nat /\ 0 \in Level
    BY LsmAssumption DEF Level, LsmAssumption
  <2>9. ASSUME NEW x \in Level
        PROVE  Newer(X, m, Recs(c.levels[x])) /\ \A i \in DOMAIN im : Newer(X, im[i], Recs(c.levels[x]))
    BY <2>1, <2>7 DEF Layered, Newer
  <2>10. \A t, u \in c.levels[0] : t.num > u.num => Newer(X, t.recs, u.recs)
    <3>1. c.levels[0] \subseteq lv[0]
      BY <2>1, <2>8
    <3> QED
      BY <3>1 DEF Layered
  <2>11. ASSUME NEW x \in Level, NEW y \in Level, x < y,
                NEW r \in Recs(c.levels[x]), NEW q \in Recs(c.levels[y]), q.key = r.key
         PROVE  r.seq > q.seq \/ (q \in Recs(c.levels[x]) /\ q \in X)
    <3>1. CASE x = l /\ y = l + 1 /\ q \in Recs(up)
      BY <2>3, <2>6, <2>11, <3>1
    <3>2. CASE x = l + 1
      <4>2. x \in Nat /\ y \in Nat
        BY <2>8
      <4>1. y # l /\ y # l + 1 /\ l < y /\ l + 1 < y
        BY <2>1, <2>11, <3>2, <4>2
      <4>3. q \in Recs(lv[y])
        BY <2>7, <4>1
      <4>4. CASE r \in surv
        <5>1. r \in Merged(lv) /\ r \in Record
          BY <2>2, <2>15, <4>4
        <5>2. r.seq > q.seq \/ (q \in X /\ q \in Merged(lv))
          <6>1. CASE r \in Recs(up)
            <7>1. r.seq > q.seq \/ (q \in X /\ q \in Recs(lv[l]))
              BY <2>1, <2>6, <2>11, <4>1, <4>3, <6>1 DEF Layered, Newer
            <7>2. q \in Recs(lv[l]) => q \in Recs(lv[l] \ up) \/ q \in Recs(up)
              BY DEF Recs
            <7> QED
              BY <2>3, <2>4, <2>11, <6>1, <7>1, <7>2
          <6>2. CASE r \in Recs(low)
            <7>1. r.seq > q.seq \/ (q \in X /\ q \in Recs(lv[l + 1]))
              BY <2>1, <2>16, <2>11, <4>1, <4>3, <6>2 DEF Layered, Newer
            <7>2. q \in Recs(lv[l + 1]) => q \in Recs(lv[l + 1] \ low) \/ q \in Recs(low)
              BY DEF Recs
            <7> QED
              BY <2>4, <2>17, <2>11, <5>1, <7>1, <7>2
          <6> QED
            BY <2>4, <5>1, <6>1, <6>2
        <5>3. ASSUME q \in X, q \in Merged(lv) PROVE r.seq > q.seq \/ q = r
          <6>1. q.seq <= r.seq
            BY <2>11, <2>18, <4>4, <5>3
          <6>2. q \in Record /\ (q.seq = r.seq => q = r)
            BY <2>15, <5>1, <5>3 DEF OncePerSeq
          <6> QED
            BY <5>1, <6>1, <6>2 DEF Record
        <5> QED
          BY <3>2, <5>2, <5>3
      <4>5. CASE r \in Recs(lv[l + 1] \ low)
        <5>1. r.seq > q.seq \/ (q \in X /\ q \in Recs(lv[l + 1]))
          BY <2>1, <2>16, <2>11, <4>1, <4>3, <4>5 DEF Layered, Newer
        <5>2. q \in Recs(lv[l + 1]) => q \in Recs(lv[l + 1] \ low) \/ q \in Recs(low)
          BY DEF Recs
        <5>3. q \notin Recs(low)
          BY <2>4, <2>11, <2>17, <4>5
        <5> QED
          BY <2>16, <3>2, <5>1, <5>2, <5>3
      <4> QED
        BY <2>16, <3>2, <4>4, <4>5
    <3>3. CASE x = l /\ ~(y = l + 1 /\ q \in Recs(up))
      <4>1. q \in Recs(lv[y]) /\ r \in Recs(lv[l] \ up) /\ r \in Recs(lv[l])
        BY <2>1, <2>6, <2>7, <2>11, <3>3
      <4>2. r.seq > q.seq \/ (q \in X /\ q \in Recs(lv[l]))
        BY <2>1, <2>11, <3>3, <4>1 DEF Layered, Newer
      <4>3. q \in Recs(lv[l]) => q \in Recs(lv[l] \ up) \/ q \in Recs(up)
        BY DEF Recs
      <4> QED
        BY <2>3, <2>6, <2>11, <3>3, <4>1, <4>2, <4>3
    <3>4. CASE x # l /\ x # l + 1
      <4>1. r \in Recs(lv[x]) /\ Recs(c.levels[x]) = Recs(lv[x])
        BY <2>1, <3>4
      <4>2. CASE q \in Recs(lv[y])
        BY <2>11, <4>1, <4>2 DEF Layered, Newer
      <4>3. CASE y = l + 1 /\ q \in Recs(up)
        <5>1. x < l
          BY <2>1, <2>8, <2>11, <3>4, <4>3
        <5> QED
          BY <2>1, <2>6, <2>11, <4>1, <4>3, <5>1 DEF Layered, Newer
      <4> QED
        BY <2>6, <2>7, <4>2, <4>3
    <3> QED
      BY <3>1, <3>2, <3>3, <3>4
  <2>12. \A x, y \in Level : x < y => Newer(X, Recs(c.levels[x]), Recs(c.levels[y]))
    BY <2>11 DEF Newer
  <2>13. Layered(X, m, im, c.levels)
    BY <2>9, <2>10, <2>12 DEF Layered
  <2>14. ASSUME NEW q, q \in AllRecs(m, im, c.levels) PROVE q \in AllRecs(m, im, lv)
    <3>1. ASSUME NEW x \in Level, NEW t \in c.levels[x], q \in t.recs
          PROVE  \E y \in Level : \E u \in lv[y] : q \in u.recs
      <4>1. q \in Recs(c.levels[x])
        BY <3>1 DEF Recs
      <4>2. q \in Recs(lv[x]) \/ q \in Recs(lv[l])
        BY <2>7, <4>1
      <4> QED
        BY <2>1, <4>2 DEF Recs
    <3> QED
      BY <2>14, <3>1, AllRecsAre
  <2> QED
    BY <2>13, <2>14 DEF c
<1> QED
  BY <1>1, <1>2

\* A tombstone that is dropped hid nothing that is left: whatever stays of its
\* key was written after it.
LEMMA DroppedHidesNothing ==
  ASSUME NEW X, NEW m \in SUBSET Record, NEW im \in Seq(Batch), NEW lv, Sound(lv), Disjoint(lv),
         Layered(X, m, im, lv), NEW nf \in Nat \ {0}, NEW wm, Overfull(lv) # {},
         NEW r \in Merged(lv), r = Newest(Visible(Merged(lv), r.key, MaxSeq)),
         Droppable(r, JobLevel(lv) + 1, wm),
         r \notin AllRecs(m, im, MaybeCompact(lv, nf, wm).levels),
         NEW q \in AllRecs(m, im, MaybeCompact(lv, nf, wm).levels), q.key = r.key
  PROVE  q.seq > r.seq
<1> DEFINE l    == JobLevel(lv)
           up   == Upper(lv, l)
           low  == Lower(lv, l)
           c    == MaybeCompact(lv, nf, wm)
           surv == Survivors(Merged(lv), l + 1, wm)
           outs == Outputs(surv, nf)
           B    == AllRecs(m, im, c.levels)
<1>1. /\ l \in Level /\ l + 1 \in Level /\ l \in Nat
      /\ up \subseteq lv[l] /\ low \subseteq lv[l + 1]
      /\ Recs(outs) = surv
      /\ c.levels[l] = lv[l] \ up
      /\ c.levels[l + 1] = (lv[l + 1] \ low) \cup outs
      /\ \A x \in Level \ {l, l + 1} : c.levels[x] = lv[x]
  BY CompactParts
<1>2. Merged(lv) = Recs(up) \cup Recs(low)
  BY DEF Merged, Recs
<1>3. \A a \in Recs(lv[l] \ up), b \in Recs(up) : a.key # b.key
  BY KeptAbove
<1>4. \A a \in Recs(lv[l + 1] \ low), b \in Merged(lv) : a.key # b.key
  BY KeptBelow
<1>5. Level \subseteq Nat /\ \A x \in Level : x < MaxLevels
  BY LsmAssumption DEF Level, LsmAssumption
<1>6. r \notin surv
  BY DEF Survivors
<1> HIDE DEF l, up, low, c, surv, outs, B
<1>7. \A x \in Level : x <= l + 1
  BY <1>1, <1>5, LsmAssumption DEF Droppable, LsmAssumption, l
<1>8. r \notin B /\ q \in B
  BY DEF B, c
<1>9. r \in Recs(lv[l]) \/ r \in Recs(lv[l + 1])
  BY <1>1, <1>2 DEF Recs
<1>10. /\ r \notin m /\ \A i \in DOMAIN im : r \notin im[i]
       /\ \A y \in Level : r \notin Recs(c.levels[y])
  BY <1>8, AllRecsAre DEF B, Recs
<1> SUFFICES ASSUME ~(q.seq > r.seq) PROVE FALSE
  OBVIOUS
<1>11. q \notin m /\ \A i \in DOMAIN im : q \notin im[i]
  BY <1>1, <1>9, <1>10 DEF Layered, Newer
<1>12. PICK x \in Level : \E u \in c.levels[x] : q \in u.recs
  BY <1>8, <1>11, AllRecsAre DEF B
<1>13. PICK u \in c.levels[x] : q \in u.recs
  BY <1>12
<1>14. CASE x # l /\ x # l + 1
  <2>1. u \in lv[x] /\ q \in Recs(lv[x]) /\ r \notin Recs(lv[x])
    BY <1>1, <1>10, <1>13, <1>14 DEF Recs
  <2>2. x \in Nat /\ x < l /\ x < l + 1
    BY <1>1, <1>5, <1>7, <1>14
  <2> QED
    BY <1>1, <1>9, <2>1, <2>2 DEF Layered, Newer
<1>15. CASE x = l
  <2>1. q \in Recs(lv[l] \ up) /\ q \in Recs(lv[l]) /\ r \notin Recs(lv[l] \ up)
    BY <1>1, <1>10, <1>13, <1>15 DEF Recs
  <2>2. r \in Recs(low)
    BY <1>2, <1>3, <2>1
  <2>3. r \in Recs(lv[l + 1]) /\ l < l + 1
    BY <1>1, <2>2 DEF Recs
  <2>4. r \notin Recs(lv[l])
    <3>1. r \in Recs(lv[l]) => r \in Recs(lv[l] \ up) \/ r \in Recs(up)
      BY DEF Recs
    <3> QED
      BY <1>3, <2>1, <3>1
  <2> QED
    BY <1>1, <2>1, <2>3, <2>4 DEF Layered, Newer
<1>16. CASE x = l + 1 /\ u \in outs
  <2>1. q \in surv
    BY <1>1, <1>13, <1>16 DEF Recs
  <2>2. q = r
    BY <2>1 DEF Survivors, surv
  <2> QED
    BY <1>6, <2>1, <2>2
<1>17. CASE x = l + 1 /\ u \in lv[l + 1] \ low
  <2>1. q \in Recs(lv[l + 1] \ low)
    BY <1>13, <1>17 DEF Recs
  <2> QED
    BY <1>4, <2>1
<1> QED
  BY <1>1, <1>13, <1>14, <1>15, <1>16, <1>17

\* A record d that lets r go from A to B: a newer one that stays, or a
\* tombstone, at most wm, that leaves nothing older of its key.
LetsGo(r, d, A, B, wm) ==
  /\ d \in A /\ d.key = r.key /\ d.seq >= r.seq
  /\ \/ d \in B /\ d # r
     \/ d.val = Tomb /\ d.seq <= wm /\ \A q \in B : q.key = d.key => q.seq > d.seq

\* Whatever record a compaction discards, there is one that lets it go: the
\* newest of its key in the merge, whether that stays or is dropped.
LEMMA CompactDiscardsDead ==
  ASSUME NEW X, NEW m \in SUBSET Record, NEW im \in Seq(Batch), NEW lv, Sound(lv), Disjoint(lv),
         Layered(X, m, im, lv), OncePerSeq(AllRecs(m, im, lv)),
         NEW nf \in Nat \ {0}, NEW wm,
         NEW r \in AllRecs(m, im, lv), r \notin AllRecs(m, im, MaybeCompact(lv, nf, wm).levels)
  PROVE  \E d : LetsGo(r, d, AllRecs(m, im, lv), AllRecs(m, im, MaybeCompact(lv, nf, wm).levels), wm)
<1> DEFINE l    == JobLevel(lv)
           up   == Upper(lv, l)
           low  == Lower(lv, l)
           c    == MaybeCompact(lv, nf, wm)
           surv == Survivors(Merged(lv), l + 1, wm)
           outs == Outputs(surv, nf)
           A    == AllRecs(m, im, lv)
           B    == AllRecs(m, im, c.levels)
           V    == Visible(Merged(lv), r.key, MaxSeq)
           d    == Newest(V)
<1>1. Overfull(lv) # {}
  BY DEF MaybeCompact
<1>2. /\ l \in Level /\ l + 1 \in Level /\ l \in Nat
      /\ up \subseteq lv[l] /\ low \subseteq lv[l + 1]
      /\ Merged(lv) \in SUBSET Record /\ Recs(outs) = surv
      /\ c.levels[l] = lv[l] \ up
      /\ c.levels[l + 1] = (lv[l + 1] \ low) \cup outs
      /\ \A x \in Level \ {l, l + 1} : c.levels[x] = lv[x]
  BY <1>1, CompactParts
<1>3. Merged(lv) = Recs(up) \cup Recs(low) /\ Merged(lv) \subseteq A
  <2>1. Merged(lv) = Recs(up) \cup Recs(low)
    BY DEF Merged, Recs
  <2>2. Recs(up) \subseteq A /\ Recs(low) \subseteq A
    BY <1>2, AllRecsAre DEF Recs
  <2> QED
    BY <2>1, <2>2
<1>4. r \in A /\ r \notin B /\ A \subseteq Record
  BY AllRecsType
<1>5. surv \subseteq B
  BY <1>2, AllRecsAre DEF Recs
<1>6. r \in Merged(lv)
  <2> HIDE DEF l, up, low, c, surv, outs
  <2>1. PICK x \in Level : \E t \in lv[x] : r \in t.recs
    BY <1>4, AllRecsAre DEF B
  <2>2. PICK t \in lv[x] : r \in t.recs
    BY <2>1
  <2>3. t \notin c.levels[x]
    BY <1>4, <2>2, AllRecsAre DEF B
  <2>4. t \in up \/ t \in low
    BY <1>2, <2>2, <2>3
  <2> QED
    BY <1>3, <2>2, <2>4 DEF Recs
<1>7. r \in V /\ V \in SUBSET Record
  BY <1>2, <1>4, <1>6, LsmAssumption DEF Visible, Record, LsmAssumption
<1>8. d \in V /\ \A q \in V : q.seq <= d.seq
  BY <1>7, NewestExists
<1>9. d \in Merged(lv) /\ d \in A /\ d.key = r.key /\ d.seq >= r.seq
  BY <1>3, <1>7, <1>8 DEF Visible, Record
<1>10. d = Newest(Visible(Merged(lv), d.key, MaxSeq))
  BY <1>9
<1>11. CASE d \in B
  <2>1. d # r
    BY <1>4, <1>11
  <2>2. LetsGo(r, d, A, B, wm)
    BY <1>9, <1>11, <2>1 DEF LetsGo
  <2> QED
    BY <2>2
<1>12. CASE d \notin B
  <2>1. Droppable(d, l + 1, wm)
    BY <1>5, <1>9, <1>10, <1>12 DEF Survivors
  <2>2. d.val = Tomb /\ d.seq <= wm
    BY <2>1 DEF Droppable
  <2>3. ASSUME NEW q \in B, q.key = d.key PROVE q.seq > d.seq
    <3> HIDE DEF d
    <3> QED
      BY <1>1, <1>9, <1>10, <1>12, <2>1, <2>3, DroppedHidesNothing
  <2>4. LetsGo(r, d, A, B, wm)
    BY <1>9, <2>2, <2>3 DEF LetsGo
  <2> QED
    BY <2>4
<1> QED
  BY <1>11, <1>12

\* For a key that has no record above max, a compaction changes no answer at
\* max: the newest record stays, or it was a tombstone, merged into the last
\* level, and nothing older is left for it to hide.
LEMMA CompactKeepsAnswers ==
  ASSUME NEW X, NEW m \in SUBSET Record, NEW im \in Seq(Batch), NEW lv, Sound(lv), Disjoint(lv),
         Layered(X, m, im, lv), OncePerSeq(AllRecs(m, im, lv)),
         NEW nf \in Nat \ {0}, NEW wm, NEW k \in Keys, NEW max \in Nat,
         \A r \in AllRecs(m, im, lv) : r.key = k => r.seq <= max
  PROVE  LET c == MaybeCompact(lv, nf, wm)
         IN  Answer(Visible(AllRecs(m, im, c.levels), k, max))
               = Answer(Visible(AllRecs(m, im, lv), k, max))
<1> DEFINE l    == JobLevel(lv)
           up   == Upper(lv, l)
           low  == Lower(lv, l)
           c    == MaybeCompact(lv, nf, wm)
           surv == Survivors(Merged(lv), l + 1, wm)
           outs == Outputs(surv, nf)
           A    == AllRecs(m, im, lv)
           B    == AllRecs(m, im, c.levels)
           G    == Visible(A, k, max)
           H    == Visible(B, k, max)
<1>1. CASE Overfull(lv) = {}
  BY <1>1 DEF MaybeCompact
<1>2. CASE Overfull(lv) # {}
  <2>1. /\ l \in Level /\ l + 1 \in Level /\ l \in Nat
        /\ up \subseteq lv[l] /\ low \subseteq lv[l + 1]
        /\ Recs(outs) = surv
        /\ c.levels[l] = lv[l] \ up
        /\ c.levels[l + 1] = (lv[l + 1] \ low) \cup outs
        /\ \A x \in Level \ {l, l + 1} : c.levels[x] = lv[x]
    BY <1>2, CompactParts
  <2>2. A \subseteq Record /\ B \subseteq A
    BY AllRecsType, CompactKeepsOrder
  <2>3. /\ G \in SUBSET Record /\ OncePerSeq(G) /\ H \subseteq G
        /\ H \in SUBSET Record /\ OncePerSeq(H)
        /\ \A q \in A : q.key = k <=> q \in G
    BY <2>2 DEF Visible, OncePerSeq
  <2>4. Merged(lv) = Recs(up) \cup Recs(low) /\ Merged(lv) \subseteq A
    <3>1. Merged(lv) = Recs(up) \cup Recs(low)
      BY DEF Merged, Recs
    <3>2. Recs(up) \subseteq A /\ Recs(low) \subseteq A
      BY <2>1, AllRecsAre DEF Recs
    <3> QED
      BY <3>1, <3>2
  <2>5. CASE G = {}
    BY <2>3, <2>5
  <2>6. CASE G # {}
    <3> DEFINE r == Newest(G)
    <3>1. r \in G /\ r \in A /\ r.key = k /\ \A q \in G : q.seq <= r.seq
      BY <2>3, <2>6, NewestExists DEF Visible
    <3> HIDE DEF l, up, low, c, outs, A, B, G, r
    <3>2. CASE r \in B
      <4>1. r \in H /\ \A q \in H : q.seq <= r.seq
        BY <2>3, <3>1, <3>2 DEF Visible, G
      <4>2. Newest(H) = r
        BY <2>3, <4>1, NewestIs
      <4> HIDE DEF H
      <4> QED
        BY <2>6, <4>1, <4>2 DEF Answer, A, B, G, H, c, r
    <3>3. CASE r \notin B
      <4>1. r \in Merged(lv) /\ r \notin surv
        <5>1. PICK x \in Level : \E t \in lv[x] : r \in t.recs
          BY <3>1, <3>3, AllRecsAre DEF A, B
        <5>2. PICK t \in lv[x] : r \in t.recs
          BY <5>1
        <5>3. t \notin c.levels[x]
          BY <3>3, <5>2, AllRecsAre DEF B
        <5>4. t \in up \/ t \in low
          BY <2>1, <5>2, <5>3
        <5>5. r \notin Recs(outs)
          <6>1. \A u \in outs : r \notin u.recs
            BY <2>1, <3>3, AllRecsAre DEF B
          <6> QED
            BY <6>1 DEF Recs
        <5> QED
          BY <2>1, <2>4, <5>2, <5>4, <5>5 DEF Recs
      <4>2. Newest(Visible(Merged(lv), k, MaxSeq)) = r
        <5> DEFINE V == Visible(Merged(lv), k, MaxSeq)
        <5>1. V \subseteq G
          BY <2>3, <2>4 DEF Visible
        <5>2. r \in V
          BY <2>2, <3>1, <4>1 DEF Visible, Record
        <5>3. OncePerSeq(V) /\ V \in SUBSET Record /\ \A q \in V : q.seq <= r.seq
          BY <2>3, <3>1, <5>1 DEF OncePerSeq
        <5> HIDE DEF V
        <5>4. Newest(V) = r
          BY <5>2, <5>3, NewestIs
        <5> QED
          BY <5>4 DEF V
      <4>3. Droppable(r, l + 1, wm)
        BY <3>1, <4>1, <4>2 DEF Survivors
      <4>4. r.val = Tomb
        BY <4>3 DEF Droppable
      <4>5. ASSUME NEW q \in H PROVE FALSE
        <5>1. q \in B /\ q.key = r.key /\ q \in Record /\ r \in Record /\ q.seq <= r.seq
          BY <2>2, <2>3, <3>1 DEF Visible, H, G
        <5>2. r = Newest(Visible(Merged(lv), r.key, MaxSeq))
          BY <3>1, <4>2
        <5>3. q.seq > r.seq
          BY <1>2, <3>3, <4>1, <4>3, <5>1, <5>2, DroppedHidesNothing DEF B, c, l
        <5> QED
          BY <5>1, <5>3 DEF Record
      <4>6. H = {}
        BY <4>5
      <4> HIDE DEF H
      <4> QED
        BY <2>6, <4>4, <4>6 DEF Answer, A, B, G, H, c, r
    <3> QED
      BY <3>2, <3>3
  <2> QED
    BY <2>5, <2>6
<1> QED
  BY <1>1, <1>2

=============================================================================
