---------------------------- MODULE TableProofs ----------------------------
(***************************************************************************)
(* Theorems about the inside of a table, for any keys, block size, filter  *)
(* and pair of hashes: a key that was added passes the filter, and the     *)
(* walk over index and blocks ends with the newest visible record.         *)
(***************************************************************************)
EXTENDS Table, LsmProofs

\* No key of a record is filtered out, whatever the hashes and the number of
\* bits (bloom.rs, may_contain after add): builder and reader probe the same
\* bits, which they would not with a number of bits rounded up to bytes.
THEOREM FilterKeepsKeys ==
  ASSUME NEW S
  PROVE  NoFalseNegative(S)
BY DEF NoFalseNegative, MayContain, BloomOf

-----------------------------------------------------------------------------
(* Places and blocks.                                                      *)

\* The records of a table stand in a strict order.
LEMMA RecordsOrdered ==
  ASSUME NEW S \in SUBSET Record, OncePerSeq(S)
  PROVE  /\ \A r \in S : r.key \in Nat /\ r.seq \in Nat
         /\ \A r, q \in S : r = q \/ Before(r, q) \/ Before(q, r)
         /\ \A r \in S : ~Before(r, r)
         /\ \A r, q, x \in S : Before(r, q) /\ Before(q, x) => Before(r, x)
<1>1. \A r \in S : r.key \in Nat /\ r.seq \in Nat
  <2>1. \A r \in S : r.key \in Keys /\ r.seq \in 1..MaxSeq
    BY DEF Record
  <2>2. Keys \subseteq Nat /\ 1..MaxSeq \subseteq Nat
    BY LsmAssumption DEF LsmAssumption
  <2> QED
    BY <2>1, <2>2
<1>2. ASSUME NEW r \in S, NEW q \in S
      PROVE  r = q \/ Before(r, q) \/ Before(q, r)
  <2>1. r.seq = q.seq => r = q
    BY DEF OncePerSeq
  <2> QED
    BY <1>1, <2>1 DEF Before
<1>3. ASSUME NEW r \in S PROVE ~Before(r, r)
  BY <1>1 DEF Before
<1>4. ASSUME NEW r \in S, NEW q \in S, NEW x \in S, Before(r, q), Before(q, x)
      PROVE  Before(r, x)
  BY <1>1, <1>4 DEF Before
<1> QED
  BY <1>1, <1>2, <1>3, <1>4

\* An earlier record has an earlier place and no later block.
LEMMA PlacesOrdered ==
  ASSUME NEW S \in SUBSET Record, IsFiniteSet(S), OncePerSeq(S)
  PROVE  /\ \A r \in S : Pos(S, r) \in 0..(Cardinality(S) - 1) /\ BlockNo(S, r) \in Nat
         /\ \A r, q \in S : Before(r, q) => Pos(S, r) < Pos(S, q) /\ BlockNo(S, r) <= BlockNo(S, q)
<1> DEFINE Earlier(r) == {q \in S : Before(q, r)}
<1>1. ASSUME NEW r \in S
      PROVE  /\ IsFiniteSet(Earlier(r)) /\ Pos(S, r) \in Nat
             /\ Pos(S, r) < Cardinality(S)
  <2>1. Earlier(r) \subseteq S /\ r \notin Earlier(r)
    BY RecordsOrdered
  <2>2. IsFiniteSet(Earlier(r)) /\ Cardinality(Earlier(r)) <= Cardinality(S)
        /\ Cardinality(Earlier(r)) # Cardinality(S)
    BY <2>1, FS_Subset
  <2>3. Cardinality(Earlier(r)) \in Nat /\ Cardinality(S) \in Nat
    BY <2>2, FS_CardinalityType
  <2> QED
    BY <2>2, <2>3 DEF Pos
<1>2. ASSUME NEW r \in S, NEW q \in S, Before(r, q)
      PROVE  Pos(S, r) < Pos(S, q)
  <2>1. Earlier(r) \subseteq Earlier(q) /\ r \in Earlier(q) /\ r \notin Earlier(r)
    BY <1>2, RecordsOrdered
  <2>2. IsFiniteSet(Earlier(q)) /\ Pos(S, r) \in Nat /\ Pos(S, q) \in Nat
    BY <1>1
  <2>3. Cardinality(Earlier(r)) <= Cardinality(Earlier(q))
        /\ Cardinality(Earlier(r)) # Cardinality(Earlier(q))
    BY <2>1, <2>2, FS_Subset
  <2>4. Cardinality(Earlier(r)) = Pos(S, r) /\ Cardinality(Earlier(q)) = Pos(S, q)
    BY DEF Pos
  <2> QED
    BY <2>2, <2>3, <2>4
<1>3. ASSUME NEW r \in S PROVE Pos(S, r) \in Nat /\ Pos(S, r) < Cardinality(S) /\ BlockNo(S, r) \in Nat
  <2>1. Pos(S, r) \in Nat /\ Pos(S, r) < Cardinality(S)
    BY <1>1
  <2>2. BlockSize \in Nat \ {0}
    BY TableAssumption DEF TableAssumption
  <2> QED
    BY <2>1, <2>2 DEF BlockNo
<1> HIDE DEF Earlier
<1>4. ASSUME NEW r \in S, NEW q \in S, Before(r, q)
      PROVE  BlockNo(S, r) <= BlockNo(S, q)
  <2>1. Pos(S, r) \in Nat /\ Pos(S, q) \in Nat /\ Pos(S, r) <= Pos(S, q)
    BY <1>2, <1>3, <1>4
  <2> QED
    BY <2>1, DivKeepsOrder, TableAssumption DEF BlockNo, TableAssumption
<1>5. Cardinality(S) \in Nat
  BY FS_CardinalityType
<1> QED
  BY <1>2, <1>3, <1>4, <1>5

\* Rounding down to blocks of n.
LEMMA DivOfMultiple ==
  ASSUME NEW b \in Nat, NEW n \in Nat \ {0}, NEW p \in Nat
  PROVE  /\ b * n \in Nat /\ (b * n) \div n = b
         /\ b <= p \div n => b * n <= p
<1>1. b * n \in Nat /\ (b * n) \div n = b
  OBVIOUS
<1>2. ASSUME b <= p \div n PROVE b * n <= p
  <2>1. p \div n \in Nat /\ (p \div n) * n <= p
    OBVIOUS
  <2>2. b * n <= (p \div n) * n
    BY <1>2, <2>1
  <2> QED
    BY <1>1, <2>1, <2>2
<1> QED
  BY <1>1, <1>2

\* Blocks are numbered without gaps, so that counting them visits them all.
LEMMA BlocksContiguous ==
  ASSUME NEW S \in SUBSET Record, IsFiniteSet(S), OncePerSeq(S), NEW r \in S
  PROVE  /\ Cardinality(BlockNos(S)) \in Nat
         /\ BlockNo(S, r) < Cardinality(BlockNos(S))
<1> DEFINE N == Cardinality(S)
           B == BlockNo(S, r)
           f == [q \in S |-> Pos(S, q)]
<1>1. N \in Nat /\ Pos(S, r) \in 0..(N - 1) /\ B \in Nat
  BY FS_CardinalityType, PlacesOrdered
<1>2. \A p \in 0..(N - 1) : \E q \in S : Pos(S, q) = p
  <2>1. f \in [S -> 0..(N - 1)] /\ \A q \in S : f[q] = Pos(S, q)
    BY PlacesOrdered
  <2>2. \A q, x \in S : f[q] = f[x] => q = x
    <3>1. \A q \in S : Pos(S, q) \in Nat
      BY <1>1, PlacesOrdered
    <3>2. \A q, x \in S : Before(q, x) => Pos(S, q) < Pos(S, x)
      BY PlacesOrdered
    <3> QED
      BY <2>1, <3>1, <3>2, RecordsOrdered
  <2> HIDE DEF f
  <2>3. f \in Injection(S, 0..(N - 1))
    BY <2>1, <2>2 DEF Injection, IsInjective
  <2>4. IsFiniteSet(0..(N - 1)) /\ Cardinality(0..(N - 1)) = N
    BY <1>1, FS_Interval
  <2>5. f \in Surjection(S, 0..(N - 1))
    BY <2>3, <2>4, FS_Injection
  <2> QED
    BY <2>1, <2>5 DEF Surjection
<1>3. 0..B \subseteq BlockNos(S)
  <2> SUFFICES ASSUME NEW b \in 0..B PROVE b \in BlockNos(S)
    OBVIOUS
  <2>1. b \in Nat /\ b <= B /\ BlockSize \in Nat \ {0}
    BY <1>1, TableAssumption DEF TableAssumption
  <2>2. b * BlockSize \in Nat /\ (b * BlockSize) \div BlockSize = b /\ b * BlockSize <= Pos(S, r)
    BY <1>1, <2>1, DivOfMultiple DEF BlockNo
  <2>3. PICK q \in S : Pos(S, q) = b * BlockSize
    BY <1>1, <1>2, <2>2
  <2>4. BlockNo(S, q) = b
    BY <2>2, <2>3 DEF BlockNo
  <2> QED
    BY <2>4 DEF BlockNos
<1>4. IsFiniteSet(BlockNos(S))
  <2> DEFINE g == [q \in S |-> BlockNo(S, q)]
  <2>1. g \in [S -> BlockNos(S)] /\ \A b \in BlockNos(S) : \E q \in S : g[q] = b
    BY DEF BlockNos
  <2> HIDE DEF g
  <2> QED
    BY <2>1, FiniteImage, ZenonT(30)
<1>5. IsFiniteSet(0..B) /\ Cardinality(0..B) = B + 1
  BY <1>1, FS_Interval
<1>6. Cardinality(0..B) <= Cardinality(BlockNos(S)) /\ Cardinality(BlockNos(S)) \in Nat
  BY <1>3, <1>4, FS_Subset, FS_CardinalityType
<1> QED
  BY <1>1, <1>5, <1>6

\* The index never points behind a block that has the key.
LEMMA IndexNotTooFar ==
  ASSUME NEW S \in SUBSET Record, IsFiniteSet(S), OncePerSeq(S), NEW r \in S
  PROVE  FindBlock(S, r.key) \in Nat /\ FindBlock(S, r.key) <= BlockNo(S, r)
<1> DEFINE b == BlockNo(S, r)
           K == {q.key : q \in Block(S, b)}
           C == {x \in BlockNos(S) : Separator(S, x) >= r.key}
<1>1. BlockNos(S) \in SUBSET Nat /\ b \in BlockNos(S)
  BY PlacesOrdered DEF BlockNos
<1>2. Block(S, b) \subseteq S /\ r \in Block(S, b)
  BY DEF Block
<1>3. Separator(S, b) >= r.key
  <2> DEFINE f == [q \in Block(S, b) |-> q.key]
  <2>1. K \in SUBSET Nat /\ r.key \in K
    BY <1>2, RecordsOrdered
  <2>2. f \in [Block(S, b) -> K] /\ \A k \in K : \E q \in Block(S, b) : f[q] = k
    OBVIOUS
  <2>3. IsFiniteSet(Block(S, b))
    BY <1>2, FS_Subset
  <2>4. Separator(S, b) = Max(K)
    BY DEF Separator
  <2> HIDE DEF K, f
  <2>5. IsFiniteSet(K)
    BY <2>2, <2>3, FiniteImage, ZenonT(30)
  <2>6. Max(K) \in Nat /\ r.key \in Nat /\ r.key <= Max(K)
    BY <2>1, <2>5, MaxOfFinite
  <2> QED
    BY <2>4, <2>6
<1>4. C \in SUBSET Nat /\ b \in C
  BY <1>1, <1>3
<1>5. FindBlock(S, r.key) = Min(C)
  BY <1>4 DEF FindBlock
<1> HIDE DEF C, b
<1>6. Min(C) \in C /\ Min(C) <= b
  BY <1>4, MinOfNats
<1> QED
  BY <1>4, <1>5, <1>6 DEF b

-----------------------------------------------------------------------------
(* Lookup.                                                                 *)

\* The walk visits the block x, then all N blocks from the first.
LEMMA PlanShape ==
  ASSUME NEW x, NEW N \in Nat
  PROVE  LET plan == <<x>> \o [i \in 1..N |-> i - 1]
         IN  /\ DOMAIN plan = 1..(N + 1)
             /\ plan[1] = x
             /\ \A i \in 2..(N + 1) : plan[i] = i - 2
<1> DEFINE tail == [i \in 1..N |-> i - 1]
           plan == <<x>> \o tail
<1>1. tail \in Seq(Int) /\ Len(tail) = N /\ \A i \in 1..N : tail[i] = i - 1
  OBVIOUS
<1> HIDE DEF tail
<1>2. Len(plan) = N + 1 /\ DOMAIN plan = 1..(N + 1)
  BY <1>1
<1>3. plan[1] = x
  BY <1>1
<1>4. ASSUME NEW i \in 2..(N + 1) PROVE plan[i] = i - 2
  <2>1. i - 1 \in 1..N /\ plan[i] = tail[i - 1]
    BY <1>1
  <2> QED
    BY <1>1, <2>1
<1> QED
  BY <1>2, <1>3, <1>4 DEF tail

\* SsTable::get returns what TableGet promises: the filter and the range hide
\* nothing, the index points at the first block that may have the key, and
\* the blocks that are tried after it are tried from the newest version on.
THEOREM TableFindsNewest ==
  ASSUME NEW t \in Built, OncePerSeq(t.recs)
  PROVE  FindsNewest(t)
<1> DEFINE S == t.recs
<1>1. S \in SUBSET Record /\ IsFiniteSet(S)
  BY DEF Built, Batch
<1> SUFFICES ASSUME NEW k \in Keys, NEW max \in 0..MaxSeq
             PROVE  /\ SsTableGet(t, k, max) = {} <=> TableGet(t, k, max) = {}
                    /\ Answer(SsTableGet(t, k, max)) = Answer(TableGet(t, k, max))
  BY DEF FindsNewest
<1> DEFINE G    == Visible(S, k, max)
           plan == BlockPlan(S, k)
           N    == Cardinality(BlockNos(S))
           In(b) == Visible(Block(S, b), k, max)
           hits == {i \in DOMAIN plan : In(plan[i]) # {}}
<1>2. max \in Nat
  BY LsmAssumption DEF LsmAssumption
<1>3. TableGet(t, k, max) = G
  BY <1>2, TableGetIsVisible
<1>4. G \in SUBSET Record /\ OncePerSeq(G)
  BY <1>1 DEF Visible, OncePerSeq
<1>5. G # {} => TableMayContain(t, k)
  <2> SUFFICES ASSUME NEW r \in G PROVE TableMayContain(t, k)
    OBVIOUS
  <2>1. r \in t.recs /\ r.key = k
    BY DEF Visible
  <2>2. Covers(t, k)
    BY <2>1, BuiltRange DEF Covers
  <2>3. MayContain(BloomOf(t.recs), k)
    BY <2>1, FilterKeepsKeys DEF NoFalseNegative
  <2> QED
    BY <2>2, <2>3 DEF TableMayContain
<1>6. SsTableGet(t, k, max) = IF TableMayContain(t, k) /\ hits # {} THEN In(plan[Min(hits)]) ELSE {}
  BY DEF SsTableGet
<1>7. ASSUME NEW r \in S
      PROVE  /\ BlockNo(S, r) \in Nat /\ N \in Nat /\ BlockNo(S, r) < N
             /\ BlockNo(S, r) + 2 \in DOMAIN plan /\ plan[BlockNo(S, r) + 2] = BlockNo(S, r)
  <2>1. BlockNo(S, r) \in Nat /\ N \in Nat /\ BlockNo(S, r) < N
    BY <1>1, PlacesOrdered, BlocksContiguous
  <2>2. plan = <<FindBlock(S, k)>> \o [i \in 1..N |-> i - 1]
    BY DEF BlockPlan
  <2>3. DOMAIN plan = 1..(N + 1) /\ \A i \in 2..(N + 1) : plan[i] = i - 2
    BY <2>1, <2>2, PlanShape
  <2> HIDE DEF plan, N
  <2> QED
    BY <2>1, <2>3
<1>8. plan[1] = FindBlock(S, k) /\ DOMAIN plan \in SUBSET Nat
      /\ \A i \in DOMAIN plan : i # 1 => i \in Nat /\ plan[i] = i - 2
  <2>1. N \in Nat
    <3>1. CASE S = {}
      <4>1. BlockNos(S) = {}
        BY <3>1 DEF BlockNos
      <4> QED
        BY <4>1, FS_EmptySet
    <3>2. CASE S # {}
      BY <1>7, <3>2
    <3> QED
      BY <3>1, <3>2
  <2>2. plan = <<FindBlock(S, k)>> \o [i \in 1..N |-> i - 1]
    BY DEF BlockPlan
  <2>3. /\ DOMAIN plan = 1..(N + 1) /\ plan[1] = FindBlock(S, k)
        /\ \A i \in 2..(N + 1) : plan[i] = i - 2
    BY <2>1, <2>2, PlanShape
  <2> HIDE DEF plan, N
  <2> QED
    BY <2>1, <2>3
<1>9. \A r \in G : r \in S /\ r \in In(BlockNo(S, r)) /\ r.key = k
  BY DEF Visible, Block
<1>10. \A b : In(b) \subseteq G /\ \A r \in In(b) : r \in S /\ r.key = k /\ BlockNo(S, r) = b
  BY DEF Visible, Block
<1> HIDE DEF S, G, plan, N, In
<1>11. CASE G = {}
  <2>1. SsTableGet(t, k, max) = {}
    BY <1>6, <1>10, <1>11
  <2> QED
    BY <1>3, <1>11, <2>1
<1>12. CASE G # {}
  <2>1. hits # {} /\ hits \in SUBSET Nat
    <3>1. PICK r \in G : TRUE
      BY <1>12
    <3>2. BlockNo(S, r) + 2 \in hits
      BY <1>7, <1>9, <3>1
    <3> QED
      BY <1>8, <3>2
  <2> DEFINE i == Min(hits)
             F == In(plan[i])
  <2>2. i \in hits /\ \A j \in hits : i <= j
    BY <2>1, MinOfNats
  <2>3. i \in DOMAIN plan /\ F # {} /\ F \in SUBSET G
    BY <1>10, <2>2
  <2>4. SsTableGet(t, k, max) = F
    BY <1>5, <1>6, <1>12, <2>1
  <2> HIDE DEF i, F
  <2>5. ASSUME NEW r \in F, NEW q \in G \ F, ~(r.seq > q.seq) PROVE FALSE
    <3>1. r \in S /\ r.key = k /\ BlockNo(S, r) = plan[i]
      BY <1>10 DEF F
    <3>2. q \in S /\ q.key = k /\ BlockNo(S, q) # plan[i] /\ q \in In(BlockNo(S, q))
      BY <1>9 DEF F
    <3>3. Before(q, r)
      <4>1. r.seq \in Nat /\ q.seq \in Nat /\ r # q
        BY <1>1, <3>1, <3>2, RecordsOrdered DEF S
      <4>2. r.seq # q.seq
        BY <3>1, <3>2, <4>1 DEF S, OncePerSeq
      <4> QED
        BY <2>5, <3>1, <3>2, <4>1, <4>2 DEF Before
    <3>4. BlockNo(S, q) \in Nat /\ BlockNo(S, r) \in Nat /\ BlockNo(S, q) < BlockNo(S, r)
      <4>1. BlockNo(S, q) \in Nat /\ BlockNo(S, r) \in Nat /\ BlockNo(S, q) <= BlockNo(S, r)
        BY <1>1, <3>1, <3>2, <3>3, PlacesOrdered DEF S
      <4> QED
        BY <3>1, <3>2, <4>1
    <3>5. CASE i = 1
      <4>1. FindBlock(S, k) \in Nat /\ FindBlock(S, k) <= BlockNo(S, q)
        BY <1>1, <3>2, IndexNotTooFar DEF S
      <4> QED
        BY <1>8, <3>1, <3>4, <3>5, <4>1
    <3>6. CASE i # 1
      <4>1. plan[i] = i - 2 /\ i \in Nat
        BY <1>8, <2>3, <3>6
      <4>2. BlockNo(S, q) + 2 \in hits
        BY <1>7, <3>2
      <4> QED
        BY <2>2, <3>1, <3>4, <4>1, <4>2
    <3> QED
      BY <3>5, <3>6
  <2>6. Answer(F) = Answer(G)
    BY <1>4, <1>12, <2>3, <2>5, AnswerAgrees
  <2> QED
    BY <1>3, <1>12, <2>3, <2>4, <2>6
<1> QED
  BY <1>11, <1>12

=============================================================================
