--------------------------- MODULE ReadersProofs ---------------------------
(***************************************************************************)
(* Theorems about the readers beside the engine, for any keys, options,    *)
(* threads and capacity of the cache: what the files and the cache hold    *)
(* are the tables someone may still read, and a get that reads them after  *)
(* it has let go of the mutex answers as it would have done at once.       *)
(***************************************************************************)
EXTENDS Readers, TableProofs, DbProofs

\* In every state of the engine, each table of the Version, whatever flushes
\* and compactions made it, finds the newest visible record of every key, so
\* that the lookup of DbProofs may look no further into it.
TablesAnswer == \A l \in Level : \A t \in levels[l] : FindsNewest(t)

\* Every table the engine ever has answers with its newest visible record.
THEOREM EngineTablesAnswer == Spec => []TablesAnswer
<1>1. ASSUME OrderInv, NEW l \in Level, NEW t \in levels[l]
      PROVE  FindsNewest(t)
  <2>1. t \in Built
    BY <1>1 DEF OrderInv, TypeInv, Sound
  <2>2. t.recs \subseteq Everything
    BY AllRecsAre DEF Everything
  <2>3. OncePerSeq(t.recs)
    BY <1>1, <2>2 DEF OrderInv, OncePerSeq
  <2> QED
    BY <2>1, <2>3, TableFindsNewest
<1>2. OrderInv => TablesAnswer
  BY <1>1 DEF TablesAnswer
<1> QED
  BY <1>2, OrderAlways, PTL

-----------------------------------------------------------------------------
(* What a search over several places finds.                                *)

\* Of a sequence of sets of records, the first that is not empty.
FirstOf(s) ==
  LET hits == {i \in DOMAIN s : s[i] # {}}
  IN IF hits = {} THEN {} ELSE s[Min(hits)]

\* It is that of the head, or when that is empty, of the tail.
LEMMA FirstOfStep ==
  ASSUME NEW X, NEW s \in Seq(X)
  PROVE  /\ s = <<>> => FirstOf(s) = {}
         /\ s # <<>> /\ Head(s) # {} => FirstOf(s) = Head(s)
         /\ s # <<>> /\ Head(s) = {} => FirstOf(s) = FirstOf(Tail(s))
<1> DEFINE hits == {i \in DOMAIN s : s[i] # {}}
           t    == Tail(s)
           more == {i \in DOMAIN t : t[i] # {}}
<1>1. DOMAIN s = 1..Len(s) /\ Len(s) \in Nat
  OBVIOUS
<1>2. hits \in SUBSET Nat
  BY <1>1
<1>3. hits # {} => Min(hits) \in hits /\ \A i \in hits : Min(hits) <= i
  BY <1>2, MinOfNats
<1>4. FirstOf(s) = IF hits = {} THEN {} ELSE s[Min(hits)]
  BY DEF FirstOf
<1>5. ASSUME s = <<>> PROVE FirstOf(s) = {}
  <2>1. hits = {}
    BY <1>5
  <2> QED
    BY <1>4, <2>1
<1>6. ASSUME s # <<>>, Head(s) # {} PROVE FirstOf(s) = Head(s)
  <2>1. 1 \in hits /\ Head(s) = s[1]
    BY <1>6
  <2>2. \A i \in hits : 1 <= i
    BY <1>1
  <2> HIDE DEF hits
  <2>3. Min(hits) = 1
    <3>1. Min(hits) \in Nat /\ Min(hits) <= 1 /\ 1 <= Min(hits)
      BY <1>2, <1>3, <2>1, <2>2
    <3> QED
      BY <3>1
  <2> QED
    BY <1>4, <2>1, <2>3
<1>7. ASSUME s # <<>>, Head(s) = {} PROVE FirstOf(s) = FirstOf(t)
  <2>1. /\ DOMAIN t = 1..(Len(s) - 1) /\ Len(s) - 1 \in Nat
        /\ \A i \in DOMAIN t : t[i] = s[i + 1]
        /\ s[1] = {}
    BY <1>7
  <2> HIDE DEF t
  <2>2. \A i \in more : i + 1 \in hits /\ s[i + 1] = t[i]
    BY <1>1, <2>1
  <2>3. \A i \in hits : i - 1 \in more /\ i \in Nat
    <3>1. \A i \in hits : i # 1 /\ i \in 1..Len(s)
      BY <1>1, <2>1
    <3>2. \A i \in hits : i - 1 \in DOMAIN t
      BY <2>1, <3>1
    <3>3. \A i \in hits : t[i - 1] = s[i]
      BY <2>1, <3>1, <3>2
    <3> QED
      BY <3>1, <3>2, <3>3
  <2>4. more \in SUBSET Nat
    BY <2>1
  <2>5. FirstOf(t) = IF more = {} THEN {} ELSE t[Min(more)]
    BY DEF FirstOf
  <2>6. more # {} => Min(more) \in more /\ \A i \in more : Min(more) <= i
    BY <2>4, MinOfNats
  <2> HIDE DEF hits, more
  <2>7. CASE more = {}
    BY <1>4, <2>3, <2>5, <2>7
  <2>8. CASE more # {}
    <3>1. hits # {}
      BY <2>2, <2>8
    <3>2. Min(hits) \in Nat /\ Min(more) \in Nat
      BY <1>2, <1>3, <2>4, <2>6, <2>8, <3>1
    <3>3. Min(hits) <= Min(more) + 1 /\ Min(more) <= Min(hits) - 1
      BY <1>3, <2>2, <2>3, <2>6, <2>8, <3>1
    <3>4. Min(hits) = Min(more) + 1
      BY <3>2, <3>3
    <3> QED
      BY <1>4, <2>2, <2>5, <2>6, <2>8, <3>1, <3>4
  <2> QED
    BY <2>7, <2>8
<1> QED
  BY <1>5, <1>6, <1>7

\* What the blocks a reader has to go say, and what its tables say.
BlockHits(S, blocks, k, max) == [i \in DOMAIN blocks |-> Visible(Block(S, blocks[i]), k, max)]
BlocksSay(S, blocks, k, max) == FirstOf(BlockHits(S, blocks, k, max))
TableHits(tables, k, max) == [i \in DOMAIN tables |-> TableGet(tables[i], k, max)]
TablesSay(tables, k, max) == FirstOf(TableHits(tables, k, max))

\* There are blocks to go.
ToGo(blocks) == blocks \in Seq(Nat) /\ blocks # <<>>

\* Block by block.
LEMMA BlocksSayStep ==
  ASSUME NEW S, NEW blocks, ToGo(blocks), NEW k, NEW max
  PROVE  /\ Visible(Block(S, Head(blocks)), k, max) # {}
              => BlocksSay(S, blocks, k, max) = Visible(Block(S, Head(blocks)), k, max)
         /\ Visible(Block(S, Head(blocks)), k, max) = {}
              => BlocksSay(S, blocks, k, max) = BlocksSay(S, Tail(blocks), k, max)
<1> DEFINE F(b) == Visible(Block(S, b), k, max)
           s    == [i \in DOMAIN blocks |-> F(blocks[i])]
           X    == {F(b) : b \in Nat}
<1>1. s \in Seq(X) /\ s # <<>> /\ Head(s) = F(Head(blocks))
  BY DEF ToGo
<1>2. Tail(s) = [i \in DOMAIN Tail(blocks) |-> F(Tail(blocks)[i])]
  BY DEF ToGo
<1>3. BlocksSay(S, blocks, k, max) = FirstOf(s) /\ BlocksSay(S, Tail(blocks), k, max) = FirstOf(Tail(s))
  BY <1>2 DEF BlocksSay, BlockHits
<1> HIDE DEF s, X
<1> QED
  BY <1>1, <1>3, FirstOfStep

\* No block is left.
LEMMA NoBlocksSay ==
  ASSUME NEW S, NEW k, NEW max
  PROVE  BlocksSay(S, <<>>, k, max) = {}
<1>1. BlockHits(S, <<>>, k, max) = <<>>
  BY DEF BlockHits
<1>2. <<>> \in Seq({})
  OBVIOUS
<1> QED
  BY <1>1, <1>2, FirstOfStep DEF BlocksSay

\* Table by table.
LEMMA TablesSayStep ==
  ASSUME NEW tables \in Seq(Built), tables # <<>>, NEW k, NEW max
  PROVE  LET found == TableGet(Head(tables), k, max)
         IN  /\ found # {} => TablesSay(tables, k, max) = found
             /\ found = {} => TablesSay(tables, k, max) = TablesSay(Tail(tables), k, max)
<1> DEFINE F(t) == TableGet(t, k, max)
           s    == [i \in DOMAIN tables |-> F(tables[i])]
           X    == {F(t) : t \in Built}
<1>1. s \in Seq(X) /\ s # <<>> /\ Head(s) = F(Head(tables))
  OBVIOUS
<1>2. Tail(s) = [i \in DOMAIN Tail(tables) |-> F(Tail(tables)[i])]
  OBVIOUS
<1>3. TablesSay(tables, k, max) = FirstOf(s) /\ TablesSay(Tail(tables), k, max) = FirstOf(Tail(s))
  BY <1>2 DEF TablesSay, TableHits
<1> HIDE DEF s, X
<1> QED
  BY <1>1, <1>3, FirstOfStep

\* No table is left.
LEMMA NoTablesSay ==
  ASSUME NEW k, NEW max
  PROVE  TablesSay(<<>>, k, max) = {}
<1>1. TableHits(<<>>, k, max) = <<>>
  BY DEF TableHits
<1>2. <<>> \in Seq({})
  OBVIOUS
<1> QED
  BY <1>1, <1>2, FirstOfStep DEF TablesSay

-----------------------------------------------------------------------------
(* One get.                                                                *)

\* What a get may answer.
Outcome == Vals \cup {NoValue}

Reading == [at : {"read"}, key : Keys, max : 0..MaxSeq, tables : Seq(Built),
            blocks : Seq(Nat), expect : Outcome]

\* A table a reader may look into: its versions are told apart by their
\* numbers, and neither its range nor its filter rules the key out.
Searchable(t, k) == OncePerSeq(t.recs) /\ TableMayContain(t, k)

\* The answer the reader should give is the one that the blocks and the
\* tables it has to go will give.
OnCourse(r) ==
  LET found == BlocksSay(Head(r.tables).recs, r.blocks, r.key, r.max)
  IN r.expect = IF found # {} THEN Answer(found) ELSE Answer(TablesSay(Tail(r.tables), r.key, r.max))

InProgress(r) ==
  /\ r \in Reading
  /\ r.tables # <<>> /\ r.blocks # <<>>
  /\ \A t \in Range(r.tables) : Searchable(t, r.key)
  /\ OnCourse(r)

\* The states of a get: about to read, with the right block in hand, done
\* with the right answer, or failed.
Inserting(r) ==
  /\ r = [get |-> r.get, at |-> "insert", block |-> Block(Head(r.get.tables).recs, Head(r.get.blocks))]
  /\ InProgress(r.get)

GetFits(r) ==
  \/ r = Idle
  \/ InProgress(r)
  \/ Inserting(r)
  \/ r = Done(r.answer, r.answer)
  \/ r = Failed(r.table) /\ r.table \in Built

\* The blocks of a table that are looked into are numbered.
LEMMA PlanType ==
  ASSUME NEW t \in Built, OncePerSeq(t.recs), NEW k \in Keys
  PROVE  BlockPlan(t.recs, k) \in Seq(Nat) /\ BlockPlan(t.recs, k) # <<>>
<1> DEFINE S == t.recs
           B == BlockNos(S)
           C == {b \in B : Separator(S, b) >= k}
<1>1. S \in SUBSET Record /\ IsFiniteSet(S) /\ S # {}
  BY DEF Built, Batch
<1>2. B \in SUBSET Nat /\ B # {}
  BY <1>1, PlacesOrdered DEF BlockNos
<1>3. IsFiniteSet(B)
  <2> DEFINE f == [r \in S |-> BlockNo(S, r)]
  <2>1. f \in [S -> B] /\ \A b \in B : \E r \in S : f[r] = b
    BY DEF BlockNos
  <2> HIDE DEF f, S, B
  <2> QED
    BY <1>1, <2>1, FiniteImage, ZenonT(30)
<1>4. Cardinality(B) \in Nat
  BY <1>3, FS_CardinalityType
<1>5. FindBlock(S, k) = IF C = {} THEN Max(B) ELSE Min(C)
  BY DEF FindBlock
<1>6. Max(B) \in B
  BY <1>2, <1>3, MaxOfFinite
<1>7. C # {} => Min(C) \in C
  <2>1. C \in SUBSET Nat
    BY <1>2
  <2> QED
    BY <2>1, MinOfNats
<1> HIDE DEF C
<1>8. FindBlock(S, k) \in Nat
  <2>1. C \subseteq B
    BY DEF C
  <2> QED
    BY <1>2, <1>5, <1>6, <1>7, <2>1
<1>9. BlockPlan(S, k) = <<FindBlock(S, k)>> \o [i \in 1..Cardinality(B) |-> i - 1]
  BY DEF BlockPlan
<1> HIDE DEF S, B
<1>10. [i \in 1..Cardinality(B) |-> i - 1] \in Seq(Nat)
  BY <1>4
<1>11. BlockPlan(S, k) \in Seq(Nat) /\ BlockPlan(S, k) # <<>>
  BY <1>8, <1>9, <1>10
<1> QED
  BY <1>11 DEF S

\* The tail of a sequence of several elements.
LEMMA TailIsLeft ==
  ASSUME NEW T, NEW s \in Seq(T), Len(s) > 1
  PROVE  Tail(s) \in Seq(T) /\ Tail(s) # <<>>
<1> DEFINE t == Tail(s)
<1>1. t \in Seq(T) /\ DOMAIN t = 1..(Len(s) - 1) /\ Len(s) \in Nat
  OBVIOUS
<1> HIDE DEF t
<1>2. 1 \in DOMAIN t
  BY <1>1
<1>3. t # <<>>
  BY <1>2
<1> QED
  BY <1>1, <1>3 DEF t

\* Going on with the first of the tables that are left keeps the promise.
LEMMA ReadOnFits ==
  ASSUME NEW k \in Keys, NEW max \in 0..MaxSeq, NEW tables \in Seq(Built),
         \A t \in Range(tables) : Searchable(t, k),
         NEW expect \in Outcome, expect = Answer(TablesSay(tables, k, max))
  PROVE  LET r == ReadOn(k, max, tables, expect)
         IN  GetFits(r) /\ Tables(r) \subseteq Range(tables) /\ r.at \in {"read", "done"}
<1> DEFINE r == ReadOn(k, max, tables, expect)
<1> SUFFICES GetFits(r) /\ Tables(r) \subseteq Range(tables) /\ r.at \in {"read", "done"}
  OBVIOUS
<1>1. CASE tables = <<>>
  <2>1. expect = NoValue
    BY <1>1, NoTablesSay DEF Answer
  <2>2. r = Done(expect, expect)
    BY <1>1, <2>1 DEF ReadOn
  <2>3. r.at = "done" /\ r.answer = expect
    BY <2>2 DEF Done
  <2> HIDE DEF r
  <2> QED
    BY <2>2, <2>3 DEF GetFits, Tables
<1>2. CASE tables # <<>>
  <2> DEFINE t == Head(tables)
             blocks == BlockPlan(t.recs, k)
             found  == BlocksSay(t.recs, blocks, k, max)
  <2>1. t \in Built /\ t \in Range(tables)
    <3>1. t = tables[1] /\ 1 \in DOMAIN tables
      BY <1>2
    <3> QED
      BY <1>2, <3>1 DEF Range
  <2>2. blocks \in Seq(Nat) /\ blocks # <<>>
    BY <2>1, PlanType DEF Searchable
  <2>3. r = [at |-> "read", key |-> k, max |-> max, tables |-> tables, blocks |-> blocks, expect |-> expect]
    BY <1>2 DEF ReadOn
  <2>4. SsTableGet(t, k, max) = found
    <3>1. TableMayContain(t, k)
      BY <2>1 DEF Searchable
    <3> DEFINE hits == {i \in DOMAIN blocks : Visible(Block(t.recs, blocks[i]), k, max) # {}}
    <3>2. SsTableGet(t, k, max) = IF hits # {} THEN Visible(Block(t.recs, blocks[Min(hits)]), k, max) ELSE {}
      BY <3>1 DEF SsTableGet
    <3> DEFINE s     == BlockHits(t.recs, blocks, k, max)
               those == {i \in DOMAIN s : s[i] # {}}
    <3>3. those = hits /\ \A i \in DOMAIN blocks : s[i] = Visible(Block(t.recs, blocks[i]), k, max)
      BY DEF BlockHits
    <3>4. found = IF hits = {} THEN {} ELSE s[Min(hits)]
      BY <3>3 DEF BlocksSay, FirstOf
    <3>5. hits # {} => Min(hits) \in hits
      <4>1. hits \in SUBSET Nat
        BY <2>2
      <4> QED
        BY <4>1, MinOfNats
    <3>7. CASE hits = {}
      BY <3>2, <3>4, <3>7
    <3>8. CASE hits # {}
      <4>1. Min(hits) \in DOMAIN blocks
        BY <3>5, <3>8
      <4>2. s[Min(hits)] = Visible(Block(t.recs, blocks[Min(hits)]), k, max)
        BY <3>3, <4>1
      <4> HIDE DEF hits, s, blocks, found
      <4> QED
        BY <3>2, <3>4, <3>8, <4>2
    <3> QED
      BY <3>7, <3>8
  <2>5. (found = {} <=> TableGet(t, k, max) = {}) /\ Answer(found) = Answer(TableGet(t, k, max))
    BY <2>1, <2>4, TableFindsNewest DEF Searchable, FindsNewest
  <2> HIDE DEF blocks, found
  <2>6. expect = IF found # {} THEN Answer(found) ELSE Answer(TablesSay(Tail(tables), k, max))
    BY <1>2, <2>5, TablesSayStep
  <2> HIDE DEF r, t
  <2>7. /\ r.tables = tables /\ r.blocks = blocks /\ r.key = k /\ r.max = max /\ r.expect = expect
        /\ r.at = "read"
    BY <2>3
  <2>8. OnCourse(r)
    BY <2>6, <2>7 DEF OnCourse, found, t
  <2>9. r \in Reading
    BY <2>2, <2>3 DEF Reading
  <2> QED
    BY <1>2, <2>2, <2>7, <2>8, <2>9 DEF GetFits, InProgress, Tables
<1> QED
  BY <1>1, <1>2

\* So does going on after a block, once it has been read as it should be.
LEMMA ContinueFits ==
  ASSUME NEW r, InProgress(r)
  PROVE  LET q == Continue(r, Block(Head(r.tables).recs, Head(r.blocks)))
         IN  GetFits(q) /\ Tables(q) \subseteq Tables(r) /\ q.at \in {"read", "done"}
<1> DEFINE t     == Head(r.tables)
           found == Visible(Block(t.recs, Head(r.blocks)), r.key, r.max)
           q     == Continue(r, Block(t.recs, Head(r.blocks)))
           said  == BlocksSay(t.recs, r.blocks, r.key, r.max)
           later == TablesSay(Tail(r.tables), r.key, r.max)
<1> SUFFICES GetFits(q) /\ Tables(q) \subseteq Tables(r) /\ q.at \in {"read", "done"}
  OBVIOUS
<1>1. /\ r.at = "read" /\ r.key \in Keys /\ r.max \in 0..MaxSeq /\ r.expect \in Outcome
      /\ r.tables \in Seq(Built) /\ r.tables # <<>> /\ r.blocks \in Seq(Nat) /\ r.blocks # <<>>
      /\ \A u \in Range(r.tables) : Searchable(u, r.key)
      /\ r.expect = IF said # {} THEN Answer(said) ELSE Answer(later)
  BY DEF InProgress, Reading, OnCourse
<1>2. Tables(r) = Range(r.tables)
  BY <1>1 DEF Tables
<1>3. /\ found # {} => said = found
      /\ found = {} => said = BlocksSay(t.recs, Tail(r.blocks), r.key, r.max)
  <2> DEFINE b == r.blocks
             S == t.recs
             k == r.key
             m == r.max
  <2>1. ToGo(b)
    BY <1>1 DEF ToGo
  <2> HIDE DEF b, S, k, m
  <2>2. /\ Visible(Block(S, Head(b)), k, m) # {} => BlocksSay(S, b, k, m) = Visible(Block(S, Head(b)), k, m)
        /\ Visible(Block(S, Head(b)), k, m) = {} => BlocksSay(S, b, k, m) = BlocksSay(S, Tail(b), k, m)
    BY <2>1, BlocksSayStep
  <2> QED
    BY <2>2 DEF b, S, k, m
<1>4. q = IF found # {} THEN Done(Answer(found), r.expect)
          ELSE IF Len(r.blocks) > 1 THEN [r EXCEPT !.blocks = Tail(@)]
          ELSE ReadOn(r.key, r.max, Tail(r.tables), r.expect)
  BY DEF Continue
<1> HIDE DEF found, q, said
<1>5. CASE found # {}
  <2>1. q = Done(r.expect, r.expect)
    BY <1>1, <1>3, <1>4, <1>5
  <2>2. q.at = "done" /\ q.answer = r.expect
    BY <2>1 DEF Done
  <2> QED
    BY <2>1, <2>2 DEF GetFits, Tables
<1>6. CASE found = {} /\ Len(r.blocks) > 1
  <2>1. q = [r EXCEPT !.blocks = Tail(@)]
    BY <1>4, <1>6
  <2>2. Tail(r.blocks) \in Seq(Nat) /\ Tail(r.blocks) # <<>>
    BY <1>1, <1>6, TailIsLeft
  <2>3. q \in Reading
    BY <2>1, <2>2 DEF InProgress, Reading
  <2>4. /\ q.at = "read" /\ q.key = r.key /\ q.max = r.max /\ q.tables = r.tables
        /\ q.blocks = Tail(r.blocks) /\ q.expect = r.expect
    BY <2>1 DEF InProgress, Reading
  <2>5. OnCourse(q)
    BY <1>1, <1>3, <1>6, <2>4 DEF OnCourse
  <2> QED
    BY <1>1, <1>2, <2>2, <2>3, <2>4, <2>5 DEF GetFits, InProgress, Tables
<1>7. CASE found = {} /\ ~(Len(r.blocks) > 1)
  <2> DEFINE rest == Tail(r.tables)
  <2>1. q = ReadOn(r.key, r.max, rest, r.expect)
    BY <1>4, <1>7
  <2>2. Tail(r.blocks) = <<>>
    BY <1>1, <1>7
  <2>3. r.expect = Answer(TablesSay(rest, r.key, r.max))
    BY <1>1, <1>3, <1>7, <2>2, NoBlocksSay
  <2>4. rest \in Seq(Built) /\ Range(rest) \subseteq Range(r.tables)
    <3>1. /\ DOMAIN rest = 1..(Len(r.tables) - 1) /\ DOMAIN r.tables = 1..Len(r.tables)
          /\ Len(r.tables) \in Nat /\ \A i \in DOMAIN rest : rest[i] = r.tables[i + 1]
      BY <1>1
    <3>2. rest \in Seq(Built)
      BY <1>1
    <3> HIDE DEF rest
    <3>3. \A i \in DOMAIN rest : i + 1 \in DOMAIN r.tables
      BY <3>1
    <3> QED
      BY <3>1, <3>2, <3>3 DEF Range
  <2>5. \A u \in Range(rest) : Searchable(u, r.key)
    BY <1>1, <2>4
  <2> HIDE DEF rest
  <2> QED
    BY <1>1, <1>2, <2>1, <2>3, <2>4, <2>5, ReadOnFits
<1> QED
  BY <1>5, <1>6, <1>7

-----------------------------------------------------------------------------
(* The tables a get begins with.                                           *)

\* The tables of the version, level by level.
LEMMA LiveIs ==
  ASSUME NEW lv
  PROVE  \A t : t \in Live(lv) <=> \E l \in Level : t \in lv[l]
BY DEF Live

\* The tables of the version are finitely many, were built by a flush or a
\* compaction, and their records are told apart by their numbers.
LEMMA LiveTables ==
  ASSUME OrderInv
  PROVE  /\ IsFiniteSet(Live(levels))
         /\ \A t \in Live(levels) : t \in Built /\ OncePerSeq(t.recs) /\ t.num \in Nat /\ t.num < nextFile
         /\ \A t, u \in Live(levels) : t.num = u.num => t = u
         /\ \A t \in Live(levels) : t.recs \subseteq Everything
<1>1. \A l \in Level : IsFiniteSet(levels[l]) /\ levels[l] \subseteq Built
  BY DEF OrderInv, TypeInv, Sound
<1>2. IsFiniteSet(Live(levels))
  <2> DEFINE F == {levels[l] : l \in Level}
             f == [l \in Level |-> levels[l]]
  <2>1. IsFiniteSet(Level)
    BY FS_Interval, LsmAssumption DEF Level, LsmAssumption
  <2>2. f \in [Level -> F] /\ \A x \in F : \E l \in Level : f[l] = x
    OBVIOUS
  <2>3. \A x \in F : IsFiniteSet(x)
    BY <1>1
  <2>4. Live(levels) = UNION F
    BY DEF Live
  <2> HIDE DEF F, f
  <2>5. IsFiniteSet(F)
    BY <2>1, <2>2, FiniteImage, ZenonT(30)
  <2> QED
    BY <2>3, <2>4, <2>5, FS_UNION
<1>3. ASSUME NEW t \in Live(levels)
      PROVE  t \in Built /\ OncePerSeq(t.recs) /\ t.num \in Nat /\ t.num < nextFile /\ t.recs \subseteq Everything
  <2>1. PICK l \in Level : t \in levels[l]
    BY LiveIs
  <2>2. t.recs \subseteq Everything
    BY <2>1, AllRecsAre DEF Everything
  <2>3. OncePerSeq(t.recs)
    BY <2>2 DEF OrderInv, OncePerSeq
  <2>4. t \in Built /\ t.num \in Nat
    BY <1>1, <2>1 DEF Built, Table
  <2>5. t.num < nextFile
    BY <2>1 DEF OrderInv, Numbered
  <2> QED
    BY <2>2, <2>3, <2>4, <2>5
<1>4. \A t, u \in Live(levels) : t.num = u.num => t = u
  BY LiveIs DEF OrderInv, Numbered
<1> QED
  BY <1>2, <1>3, <1>4

\* Of two tables of the version, the one in the lower level or with the
\* greater number is looked into sooner.
LEMMA SoonerLinear ==
  ASSUME OrderInv, NEW C \in SUBSET Live(levels)
  PROVE  Linear({p \in C \X C : Sooner(p[1], p[2])}, C)
<1> DEFINE R == {p \in C \X C : Sooner(p[1], p[2])}
<1>1. \A t, u \in C : <<t, u>> \in R <=> Sooner(t, u)
  OBVIOUS
<1>2. \A l \in Level : l \in Nat
  BY LsmAssumption DEF Level, LsmAssumption
<1>3. \A t \in C : t.num \in Nat
  BY LiveTables
<1>4. \A l, m \in Level : \A t \in levels[l], u \in levels[m] : t.num = u.num => l = m /\ t = u
  BY DEF OrderInv, Numbered
<1>5. ASSUME NEW t \in C, NEW u \in C PROVE t = u \/ Sooner(t, u) \/ Sooner(u, t)
  <2>1. PICK l \in Level, m \in Level : t \in levels[l] /\ u \in levels[m]
    BY LiveIs
  <2>2. t.num \in Nat /\ u.num \in Nat /\ l \in Nat /\ m \in Nat /\ (t.num = u.num => t = u)
    BY <1>2, <1>3, <1>4, <2>1
  <2>3. CASE l < m
    BY <2>1, <2>3 DEF Sooner
  <2>4. CASE m < l
    BY <2>1, <2>4 DEF Sooner
  <2>5. CASE l = m
    <3>1. t.num > u.num => Sooner(t, u)
      BY <2>1, <2>5 DEF Sooner
    <3>2. u.num > t.num => Sooner(u, t)
      BY <2>1, <2>5 DEF Sooner
    <3> QED
      BY <2>2, <3>1, <3>2
  <2> QED
    BY <2>2, <2>3, <2>4, <2>5
<1>6. ASSUME NEW t \in C, NEW u \in C, NEW v \in C, Sooner(t, u), Sooner(u, v) PROVE Sooner(t, v)
  <2>1. PICK l \in Level, m \in Level :
          t \in levels[l] /\ u \in levels[m] /\ (l < m \/ (l = m /\ t.num > u.num))
    BY <1>6 DEF Sooner
  <2>2. PICK n \in Level, o \in Level :
          u \in levels[n] /\ v \in levels[o] /\ (n < o \/ (n = o /\ u.num > v.num))
    BY <1>6 DEF Sooner
  <2>3. m = n
    BY <1>4, <2>1, <2>2
  <2>4. t.num \in Nat /\ u.num \in Nat /\ v.num \in Nat /\ l \in Nat /\ m \in Nat /\ o \in Nat
    BY <1>2, <1>3
  <2>5. l < o \/ (l = o /\ t.num > v.num)
    BY <2>1, <2>2, <2>3, <2>4
  <2> QED
    BY <2>1, <2>2, <2>5 DEF Sooner
<1> HIDE DEF R
<1> QED
  BY <1>1, <1>5, <1>6 DEF Linear, R

\* The list of a get holds the candidates and no other table, in the order in
\* which they are to be looked into.
LEMMA TablesForSorts ==
  ASSUME OrderInv, NEW k \in Keys
  PROVE  /\ TablesFor(k) \in Seq(Built)
         /\ Range(TablesFor(k)) = Candidates(k)
         /\ \A i, j \in DOMAIN TablesFor(k) : i < j => Sooner(TablesFor(k)[i], TablesFor(k)[j])
         /\ Candidates(k) \subseteq Live(levels)
         /\ \A t \in Candidates(k) : Searchable(t, k)
<1> DEFINE C == Candidates(k)
           R == {p \in C \X C : Sooner(p[1], p[2])}
           s == TablesFor(k)
           n == Cardinality(C)
<1>1. C \subseteq Live(levels)
  <2>1. 0 \in Level
    BY LsmAssumption DEF Level, LsmAssumption
  <2>2. \A l \in Level : FindInLevel(levels[l], k) \subseteq levels[l]
    BY DEF FindInLevel
  <2> QED
    BY <2>1, <2>2, LiveIs DEF Candidates
<1>2. \A t \in C : t \in Built /\ Searchable(t, k)
  <2>1. \A t \in C : TableMayContain(t, k)
    BY DEF Candidates
  <2> QED
    BY <1>1, <2>1, LiveTables DEF Searchable
<1>3. IsFiniteSet(C) /\ n \in Nat
  BY <1>1, LiveTables, FS_Subset, FS_CardinalityType
<1> HIDE DEF C
<1>4. \E z \in Bijection(1..n, C) : \A i, j \in DOMAIN z : i < j => Sooner(z[i], z[j])
  <2>1. Linear(R, C)
    BY <1>1, SoonerLinear
  <2>2. \A p \in R : Sooner(p[1], p[2])
    OBVIOUS
  <2> HIDE DEF R
  <2>3. PICK z \in Bijection(1..n, C) : \A i, j \in DOMAIN z : i < j => <<z[i], z[j]>> \in R
    BY <1>3, <2>1, SortedExists
  <2>4. \A i, j \in DOMAIN z : i < j => Sooner(z[i], z[j])
    BY <2>2, <2>3
  <2> QED
    BY <2>4
<1>5. s = CHOOSE z \in Bijection(1..n, C) : \A i, j \in DOMAIN z : i < j => Sooner(z[i], z[j])
  BY DEF TablesFor, C
<1> HIDE DEF s, n
<1>6. s \in Bijection(1..n, C) /\ \A i, j \in DOMAIN s : i < j => Sooner(s[i], s[j])
  BY <1>4, <1>5
<1>7. s \in [1..n -> C] /\ \A t \in C : \E i \in 1..n : s[i] = t
  BY <1>6 DEF Bijection, Surjection
<1>8. s \in Seq(Built)
  <2>1. s \in [1..n -> Built]
    BY <1>2, <1>7
  <2> QED
    BY <1>3, <2>1
<1>9. Range(s) = C
  BY <1>7 DEF Range
<1> QED
  BY <1>1, <1>2, <1>6, <1>8, <1>9 DEF s, C

\* A get that no memtable answers is answered by the tables of its list as
\* the lookup answers it at once.
LEMMA TablesForAnswer ==
  ASSUME OrderInv, NEW k \in Keys, NEW max \in 0..MaxSeq,
         Visible(mem \cup UNION Range(imms), k, max) = {}
  PROVE  Answer(TablesSay(TablesFor(k), k, max)) = Get(k, max) /\ Get(k, max) \in Outcome
<1> DEFINE G    == Visible(Everything, k, max)
           s    == TablesFor(k)
           F    == TablesSay(s, k, max)
           hits == {i \in DOMAIN s : TableGet(s[i], k, max) # {}}
<1>1. max \in Nat
  BY LsmAssumption DEF LsmAssumption
<1>2. Everything \subseteq Record
  BY AllRecsType DEF OrderInv, TypeInv, Everything
<1>3. G \in SUBSET Record /\ OncePerSeq(G)
  BY <1>2 DEF OrderInv, OncePerSeq, Visible
<1>4. Get(k, max) = Answer(G)
  BY <1>1, GetIsScan DEF Scan, Everything
<1>5. Answer(G) \in Outcome
  <2>1. CASE G = {}
    BY <2>1 DEF Answer, Outcome
  <2>2. CASE G # {}
    <3>1. Newest(G) \in Record
      BY <1>3, <2>2, NewestExists
    <3>2. Newest(G).val \in Vals \cup {Tomb}
      BY <3>1 DEF Record
    <3> QED
      BY <3>2 DEF Answer, Outcome
  <2> QED
    BY <2>1, <2>2
<1>6. /\ s \in Seq(Built) /\ Range(s) = Candidates(k) /\ Candidates(k) \subseteq Live(levels)
      /\ \A i, j \in DOMAIN s : i < j => Sooner(s[i], s[j])
      /\ \A i \in DOMAIN s : s[i] \in Live(levels) /\ s[i] \in Built
  <2>1. /\ s \in Seq(Built) /\ Range(s) = Candidates(k) /\ Candidates(k) \subseteq Live(levels)
        /\ \A i, j \in DOMAIN s : i < j => Sooner(s[i], s[j])
    BY TablesForSorts
  <2>2. \A i \in DOMAIN s : s[i] \in Range(s)
    BY DEF Range
  <2> QED
    BY <2>1, <2>2, LiveTables
<1>7. \A t \in Live(levels) : TableGet(t, k, max) = Visible(t.recs, k, max)
  BY <1>1, LiveTables, TableGetIsVisible
<1>8. F = IF hits = {} THEN {} ELSE TableGet(s[Min(hits)], k, max)
  <2> DEFINE h     == TableHits(s, k, max)
             those == {i \in DOMAIN h : h[i] # {}}
  <2>1. those = hits /\ \A i \in DOMAIN s : h[i] = TableGet(s[i], k, max)
    BY DEF TableHits
  <2>2. F = IF those = {} THEN {} ELSE h[Min(those)]
    BY DEF TablesSay, FirstOf
  <2>3. hits # {} => Min(hits) \in hits
    <3>1. hits \in SUBSET Nat
      BY <1>6
    <3> QED
      BY <3>1, MinOfNats
  <2>4. hits \subseteq DOMAIN s
    OBVIOUS
  <2> HIDE DEF those, h, hits, F
  <2> QED
    BY <2>1, <2>2, <2>3, <2>4
<1>9. hits # {} => Min(hits) \in hits /\ \A i \in hits : Min(hits) <= i
  <2>1. hits \in SUBSET Nat
    BY <1>6
  <2> QED
    BY <2>1, MinOfNats
\* Whatever is visible is in a table of the list.
<1>10. ASSUME NEW q \in G
       PROVE  \E j \in hits : q \in Visible(s[j].recs, k, max)
  <2>1. q \in Everything /\ q.key = k /\ q.seq <= max
    BY DEF Visible
  <2>2. PICK l \in Level : \E x \in levels[l] : q \in x.recs
    <3>1. q \notin mem /\ \A i \in DOMAIN imms : q \notin imms[i]
      <4>1. q \notin mem \cup UNION Range(imms)
        BY <2>1 DEF Visible
      <4> QED
        BY <4>1 DEF Range
    <3> QED
      BY <2>1, <3>1, AllRecsAre DEF Everything
  <2>3. PICK t \in levels[l] : q \in t.recs
    BY <2>2
  <2>4. t \in Live(levels) /\ t \in Built
    BY LiveIs, LiveTables
  <2>5. Covers(t, k)
    BY <2>1, <2>3, <2>4, BuiltRange DEF Covers
  <2>6. TableMayContain(t, k)
    BY <2>1, <2>3, <2>5, FilterKeepsKeys DEF NoFalseNegative, TableMayContain
  <2>7. t \in Candidates(k)
    <3>1. CASE l = 0
      BY <2>3, <2>6, <3>1 DEF Candidates
    <3>2. CASE l # 0
      <4>1. ASSUME NEW u \in levels[l], Covers(u, k) PROVE u = t
        <5>1. u = t \/ u.hi < t.lo \/ t.hi < u.lo
          BY <3>2, <2>3 DEF OrderInv, Disjoint, Apart
        <5>2. u \in Built
          BY <4>1, LiveIs, LiveTables
        <5>3. u.lo \in Nat /\ u.hi \in Nat /\ t.lo \in Nat /\ t.hi \in Nat /\ k \in Nat
          BY <2>4, <5>2, BuiltRange, LsmAssumption DEF LsmAssumption
        <5> QED
          BY <2>5, <4>1, <5>1, <5>3 DEF Covers
      <4>2. Precedes(t, t)
        <5>1. t.num \in Nat
          BY <2>4, LiveTables
        <5> QED
          BY <5>1 DEF Precedes
      <4>3. t \in FindInLevel(levels[l], k)
        BY <2>3, <2>5, <4>1, <4>2 DEF FindInLevel
      <4> QED
        BY <2>6, <3>2, <4>3 DEF Candidates
    <3> QED
      BY <3>1, <3>2
  <2>8. PICK j \in DOMAIN s : s[j] = t
    BY <1>6, <2>7 DEF Range
  <2>9. q \in Visible(t.recs, k, max)
    BY <2>1, <2>3 DEF Visible
  <2> QED
    BY <1>7, <2>4, <2>8, <2>9
<1> HIDE DEF F, G, s, hits
<1>11. ASSUME hits = {} PROVE Answer(F) = Answer(G)
  BY <1>8, <1>10, <1>11
<1>12. ASSUME hits # {} PROVE Answer(F) = Answer(G)
  <2> DEFINE i == Min(hits)
             t == s[i]
  <2>1. i \in DOMAIN s /\ i \in hits /\ t \in Live(levels) /\ F = Visible(t.recs, k, max) /\ F # {}
    BY <1>6, <1>7, <1>8, <1>9, <1>12 DEF hits
  <2>2. F \in SUBSET G
    BY <2>1, LiveTables DEF Visible, G
  <2>3. ASSUME NEW r \in F, NEW q \in G \ F PROVE r.seq > q.seq
    <3>1. PICK j \in hits : q \in Visible(s[j].recs, k, max)
      BY <1>10
    <3>2. j \in DOMAIN s /\ s[j] \in Live(levels)
      BY <1>6 DEF hits
    <3>3. i < j
      <4>1. i # j
        BY <2>1, <3>1
      <4>2. i <= j
        BY <1>9, <1>12
      <4>3. i \in Nat /\ j \in Nat
        BY <1>6, <2>1, <3>2
      <4> QED
        BY <4>1, <4>2, <4>3
    <3> DEFINE u == s[j]
    <3>4. Sooner(t, u)
      BY <1>6, <2>1, <3>2, <3>3
    <3>5. PICK l \in Level, m \in Level :
            t \in levels[l] /\ u \in levels[m] /\ (l < m \/ (l = m /\ t.num > u.num))
      BY <3>4 DEF Sooner
    <3>6. r \in t.recs /\ q \in u.recs /\ r.key = k /\ q.key = k
      BY <2>1, <3>1 DEF Visible
    <3> HIDE DEF t, u
    <3>7. CASE l < m
      <4>1. Newer({}, Recs(levels[l]), Recs(levels[m]))
        BY <3>7 DEF OrderInv, Layered
      <4>2. r \in Recs(levels[l]) /\ q \in Recs(levels[m])
        BY <3>5, <3>6 DEF Recs
      <4> QED
        BY <3>6, <4>1, <4>2 DEF Newer
    <3>8. CASE l = m /\ l = 0
      <4>1. t.num > u.num
        BY <3>5, <3>8
      <4>2. Newer({}, t.recs, u.recs)
        BY <3>5, <3>8, <4>1 DEF OrderInv, Layered
      <4> QED
        BY <3>6, <4>2 DEF Newer
    <3>9. CASE l = m /\ l # 0
      <4>1. t.num > u.num
        BY <3>5, <3>9, LsmAssumption DEF Level, LsmAssumption
      <4>2. t \in Built /\ u \in Built /\ t.num \in Nat
        BY <2>1, <3>2, LiveTables DEF t, u
      <4>3. t = u \/ t.hi < u.lo \/ u.hi < t.lo
        BY <3>5, <3>9 DEF OrderInv, Disjoint, Apart
      <4>4. t.lo \in Nat /\ t.hi \in Nat /\ u.lo \in Nat /\ u.hi \in Nat /\ k \in Nat
            /\ t.lo <= k /\ k <= t.hi /\ u.lo <= k /\ k <= u.hi
        BY <3>6, <4>2, BuiltRange
      <4>5. t = u
        BY <4>3, <4>4
      <4> QED
        BY <4>1, <4>2, <4>5
    <3> QED
      BY <3>5, <3>7, <3>8, <3>9
  <2> HIDE DEF i, t
  <2> QED
    BY <1>3, <2>1, <2>2, <2>3, AnswerAgrees
<1>13. Answer(F) = Answer(G)
  BY <1>11, <1>12
<1> QED
  BY <1>4, <1>5, <1>13 DEF F, s

-----------------------------------------------------------------------------
(* The numbers of new tables.                                              *)

\* Every table of lw is one of lv or has a number from nf on.
Fresh(lv, lw, nf) == \A t \in Live(lw) : t \in Live(lv) \/ t.num >= nf

\* A flush gives its tables new numbers.
LEMMA FlushFresh ==
  ASSUME NEW im \in Seq(Batch), NEW lv, Sound(lv), NEW nf \in Nat \ {0}, NEW n \in 0..Len(im)
  PROVE  LET f == FlushImms(im, lv, nf, n)
         IN  Fresh(lv, f.levels, nf) /\ f.nextFile \in Nat /\ f.nextFile >= nf
<1> DEFINE f   == FlushImms(im, lv, nf, n)
           new == {MkTable(nf + i - 1, im[i]) : i \in 1..n}
<1> SUFFICES Fresh(lv, f.levels, nf) /\ f.nextFile \in Nat /\ f.nextFile >= nf
  OBVIOUS
<1>1. Len(im) \in Nat /\ n \in Nat
  OBVIOUS
<1>2. f.nextFile = nf + n + (IF n < Len(im) THEN 1 ELSE 0) /\ f.levels = [lv EXCEPT ![0] = @ \cup new]
  BY DEF FlushImms
<1>3. \A t \in new : t.num \in Nat /\ t.num >= nf
  <2>1. \A i \in 1..n : nf + i - 1 \in Nat /\ nf + i - 1 >= nf
    BY <1>1
  <2>2. \A m, S : MkTable(m, S).num = m
    BY DEF MkTable
  <2> QED
    BY <2>1, <2>2
<1>4. DOMAIN lv = Level
  BY DEF Sound
<1> HIDE DEF f, new
<1>5. ASSUME NEW t \in Live(f.levels) PROVE t \in Live(lv) \/ t.num >= nf
  <2>1. PICK l \in Level : t \in f.levels[l]
    BY LiveIs
  <2>2. t \in lv[l] \/ t \in new
    BY <1>2, <1>4, <2>1
  <2> QED
    BY <1>3, <2>2, LiveIs
<1>6. f.nextFile \in Nat /\ f.nextFile >= nf
  BY <1>1, <1>2
<1> QED
  BY <1>5, <1>6 DEF Fresh

\* So does a compaction, complete or failed.
LEMMA OutcomeFresh ==
  ASSUME NEW lv, Sound(lv), NEW nf \in Nat \ {0}, Numbered(lv, nf), NEW c \in Outcomes(lv, nf)
  PROVE  Fresh(lv, c.levels, nf) /\ c.nextFile \in Nat /\ c.nextFile >= nf
<1> DEFINE d == MaybeCompact(lv, nf, Watermark)
<1>1. c = d \/ c \in [levels : {lv}, nextFile : {nf, d.nextFile}]
  BY Zenon DEF Outcomes, CompactOutcomes
<1>2. d.nextFile \in Nat /\ d.nextFile >= nf
  BY CompactKeepsNumbers
<1>3. Fresh(lv, lv, nf)
  BY DEF Fresh
<1>4. Fresh(lv, d.levels, nf)
  <2>1. CASE Overfull(lv) = {}
    BY <1>3, <2>1 DEF MaybeCompact
  <2>2. CASE Overfull(lv) # {}
    <3> DEFINE l    == JobLevel(lv)
               outs == Outputs(Survivors(Merged(lv), l + 1, Watermark), nf)
    <3>1. /\ l \in Level /\ l + 1 \in Level
          /\ d.levels[l] = lv[l] \ Upper(lv, l)
          /\ d.levels[l + 1] = (lv[l + 1] \ Lower(lv, l)) \cup outs
          /\ \A x \in Level \ {l, l + 1} : d.levels[x] = lv[x]
          /\ Survivors(Merged(lv), l + 1, Watermark) \in SUBSET Record
          /\ IsFiniteSet(Survivors(Merged(lv), l + 1, Watermark))
      BY <2>2, CompactParts
    <3>2. \A t \in outs : t.num >= nf
      BY <3>1, OutputsBuilt
    <3> HIDE DEF d, outs, l
    <3>3. ASSUME NEW t \in Live(d.levels) PROVE t \in Live(lv) \/ t.num >= nf
      <4>1. PICK x \in Level : t \in d.levels[x]
        BY LiveIs
      <4>2. t \in lv[x] \/ t \in outs
        BY <3>1, <4>1
      <4> QED
        BY <3>2, <4>2, LiveIs
    <3> QED
      BY <3>3 DEF Fresh
  <2> QED
    BY <2>1, <2>2
<1> HIDE DEF d
<1>5. CASE c = d
  BY <1>2, <1>4, <1>5
<1>6. CASE c \in [levels : {lv}, nextFile : {nf, d.nextFile}]
  BY <1>2, <1>3, <1>6
<1> QED
  BY <1>1, <1>5, <1>6

\* No step of the engine gives a number out again.
LEMMA StepFresh ==
  ASSUME OrderInv, Next
  PROVE  Fresh(levels, levels', nextFile) /\ nextFile \in Nat /\ nextFile' \in Nat /\ nextFile' >= nextFile
<1>1. /\ imms \in Seq(Batch) /\ Sound(levels) /\ nextFile \in Nat \ {0} /\ Numbered(levels, nextFile)
      /\ Layered({}, mem, imms, levels) /\ Disjoint(levels) /\ mem \in SUBSET Record
  BY DEF OrderInv, TypeInv
<1>2. Fresh(levels, levels, nextFile)
  BY DEF Fresh
<1>3. ASSUME NEW k \in Keys, NEW v \in Vals \cup {Tomb}, Write(k, v)
      PROVE  Fresh(levels, levels', nextFile) /\ nextFile' \in Nat /\ nextFile' >= nextFile
  BY <1>1, <1>2, <1>3 DEF Write
<1>4. ASSUME NEW n, Flush(n)
      PROVE  Fresh(levels, levels', nextFile) /\ nextFile' \in Nat /\ nextFile' >= nextFile
  <2> DEFINE f == FlushImms(Frozen, levels, nextFile, n)
  <2>1. n \in 0..Len(Frozen) /\ levels' = f.levels /\ nextFile' = f.nextFile
    BY <1>4 DEF Flush
  <2>2. Frozen \in Seq(Batch)
    BY FrozenType DEF OrderInv
  <2>3. Fresh(levels, f.levels, nextFile) /\ f.nextFile \in Nat /\ f.nextFile >= nextFile
    BY <1>1, <2>1, <2>2, FlushFresh
  <2> HIDE DEF f
  <2> QED
    BY <2>1, <2>3
<1>5. ASSUME Compact
      PROVE  Fresh(levels, levels', nextFile) /\ nextFile' \in Nat /\ nextFile' >= nextFile
  <2>1. PICK c \in Outcomes(levels, nextFile) : levels' = c.levels /\ nextFile' = c.nextFile
    BY <1>5 DEF Compact
  <2>2. Fresh(levels, c.levels, nextFile) /\ c.nextFile \in Nat /\ c.nextFile >= nextFile
    BY <1>1, OutcomeFresh
  <2> QED
    BY <2>1, <2>2
<1>6. ASSUME NEW n, BgWork(n)
      PROVE  Fresh(levels, levels', nextFile) /\ nextFile' \in Nat /\ nextFile' >= nextFile
  <2> DEFINE f == FlushImms(imms, levels, nextFile, n)
  <2>1. PICK c \in Outcomes(f.levels, f.nextFile) : levels' = c.levels /\ nextFile' = c.nextFile
    BY <1>6 DEF BgWork
  <2>2. n \in 0..Len(imms)
    BY <1>6 DEF BgWork
  <2>3. Fresh(levels, f.levels, nextFile) /\ f.nextFile \in Nat /\ f.nextFile >= nextFile
    BY <1>1, <2>2, FlushFresh
  <2>4. Sound(f.levels) /\ f.nextFile \in Nat \ {0}
    BY <1>1, <2>2, FlushResult
  <2>5. Numbered(f.levels, f.nextFile)
    BY <1>1, <2>2, FlushKeepsOrder
  <2> HIDE DEF f
  <2>6. Fresh(f.levels, c.levels, f.nextFile) /\ c.nextFile \in Nat /\ c.nextFile >= f.nextFile
    BY <2>4, <2>5, OutcomeFresh
  <2>7. Sound(c.levels)
    BY <2>4, OutcomeResult
  <2>8. \A t \in Live(c.levels) : t.num \in Nat
    BY <2>7, LiveIs DEF Sound, Built, Table
  <2>9. Fresh(levels, c.levels, nextFile)
    BY <1>1, <2>3, <2>6, <2>8 DEF Fresh
  <2> QED
    BY <1>1, <2>1, <2>3, <2>6, <2>9
<1>7. ASSUME OtherStep
      PROVE  Fresh(levels, levels', nextFile) /\ nextFile' \in Nat /\ nextFile' >= nextFile
  <2>1. levels' = levels /\ nextFile' = nextFile
    BY <1>7 DEF OtherStep, WriteFails, TakeSnapshot, DropSnapshot,
         CloseStart, CloseFinish, CloseFails, BgCheck
  <2> QED
    BY <1>1, <1>2, <2>1
<1> QED
  BY <1>1, <1>3, <1>4, <1>5, <1>6, <1>7, NextCases

-----------------------------------------------------------------------------
(* The invariant.                                                          *)

\* The files have numbers that were given out, and those of the tables of the
\* version are there and stay.
FilesFit ==
  /\ \A n \in DOMAIN files : n \in Nat /\ n < nextFile /\ files[n] \subseteq Record
  /\ doomed \subseteq DOMAIN files
  /\ FilesPresent

\* The cache has blocks of files whose numbers were given out, the right ones
\* of every table that may still be read.
CacheFits(c) ==
  /\ \A e \in DOMAIN c : /\ c[e] \subseteq Record
                         /\ \E n, b \in Nat : e = <<n, b>> /\ n < nextFile
  /\ \A t \in Readable : \A b \in Nat :
       <<t.num, b>> \in DOMAIN c => c[<<t.num, b>>] = Block(t.recs, b)

\* What may still be read is what was written under its number.
ReadableFits ==
  /\ \A t \in Readable :
       /\ t \in Built /\ t.num < nextFile
       /\ t.num \in DOMAIN files => files[t.num] = t.recs
  /\ \A t, u \in Readable : t.num = u.num => t.recs = u.recs

\* A table that failed a get is no longer in the version, and never will be.
Gone(t) == t.num < nextFile /\ t \notin Live(levels)

GetsFit ==
  /\ DOMAIN gets = Gets
  /\ \A g \in Gets : /\ GetFits(gets[g])
                     /\ gets[g].at = "failed" => Gone(gets[g].table)

ReadersInv == OrderInv /\ FilesFit /\ CacheFits(cache) /\ ReadableFits /\ GetsFit

\* What the state of a get says about it.
LEMMA FitsCases ==
  ASSUME NEW r, GetFits(r)
  PROVE  /\ r.at \in {"idle", "read", "insert", "done", "failed"}
         /\ r.at = "read" => InProgress(r)
         /\ r.at = "insert" => Inserting(r)
         /\ r.at = "done" => r.answer = r.expect
         /\ r.at = "failed" => r.table \in Built
<1>1. CASE r = Idle
  BY <1>1 DEF Idle
<1>2. CASE InProgress(r)
  <2>1. r.at = "read"
    BY <1>2 DEF InProgress, Reading
  <2> QED
    BY <1>2, <2>1
<1>3. CASE Inserting(r)
  <2>1. r.at = "insert"
    BY <1>3 DEF Inserting
  <2> QED
    BY <1>3, <2>1
<1>4. CASE r = Done(r.answer, r.answer)
  <2>1. r.at = "done" /\ r.expect = r.answer
    BY <1>4 DEF Done
  <2> QED
    BY <2>1
<1>5. CASE r = Failed(r.table) /\ r.table \in Built
  <2>1. r.at = "failed"
    BY <1>5 DEF Failed
  <2> QED
    BY <1>5, <2>1
<1> QED
  BY <1>1, <1>2, <1>3, <1>4, <1>5 DEF GetFits

\* Who may still read a table.
LEMMA ReadableIs ==
  \A t : t \in Readable <=> t \in Live(levels) \/ \E g \in Gets : t \in Tables(gets[g])
BY DEF Readable

\* A new database with no readers is in order.
LEMMA ReadersInitHolds == ReadersInit => ReadersInv
<1> SUFFICES ASSUME ReadersInit PROVE ReadersInv
  OBVIOUS
<1>1. OrderInv
  BY OrderInit DEF ReadersInit
<1>2. DOMAIN files = {} /\ DOMAIN cache = {} /\ doomed = {} /\ gets = [g \in Gets |-> Idle]
  BY DEF ReadersInit
<1>3. \A t : t \notin Live(levels)
  BY LiveIs DEF ReadersInit, Init
<1>4. \A g \in Gets : gets[g] = Idle
  BY <1>2
<1>5. Idle.at = "idle"
  BY DEF Idle
<1>6. \A t : t \notin Readable
  BY <1>3, <1>4, <1>5, ReadableIs DEF Tables
<1>7. GetsFit
  BY <1>2, <1>4, <1>5 DEF GetsFit, GetFits
<1>8. FilesFit
  BY <1>2, <1>3 DEF FilesFit, FilesPresent
<1> QED
  BY <1>1, <1>2, <1>6, <1>7, <1>8 DEF ReadersInv, CacheFits, ReadableFits

\* A step that leaves engine, files and cache alone, and one get too.
LEMMA GetMoves ==
  ASSUME ReadersInv, UNCHANGED <<vars, files, doomed>>, CacheFits(cache'),
         NEW g \in Gets, NEW r, gets' = [gets EXCEPT ![g] = r],
         GetFits(r), Tables(r) \subseteq Readable,
         r.at = "failed" => Gone(r.table)
  PROVE  ReadersInv'
<1>1. OrderInv'
  BY OrderNext DEF ReadersInv
<1>2. levels' = levels /\ nextFile' = nextFile /\ files' = files /\ doomed' = doomed
  BY DEF vars
<1>3. Live(levels)' = Live(levels)
  BY <1>2
<1>4. DOMAIN gets = Gets
  BY DEF ReadersInv, GetsFit
<1>5. DOMAIN gets' = Gets /\ \A h \in Gets : gets'[h] = IF h = g THEN r ELSE gets[h]
  BY <1>4
<1>6. Readable' \subseteq Readable
  <2>1. ASSUME NEW t \in Readable' PROVE t \in Readable
    <3>1. t \in Live(levels) \/ \E h \in Gets : t \in Tables(gets'[h])
      BY <1>2 DEF Readable
    <3> QED
      BY <1>5, <3>1, ReadableIs
  <2> QED
    BY <2>1
<1>7. FilesFit'
  BY <1>2, <1>3 DEF ReadersInv, FilesFit, FilesPresent
<1>8. CacheFits(cache)'
  BY <1>2, <1>6 DEF CacheFits
<1>9. ReadableFits'
  BY <1>2, <1>6 DEF ReadersInv, ReadableFits
<1>10. GetsFit'
  <2>1. \A t : Gone(t)' <=> Gone(t)
    BY <1>2 DEF Gone
  <2>2. \A h \in Gets : GetFits(gets'[h]) /\ (gets'[h].at = "failed" => Gone(gets'[h].table))
    BY <1>5 DEF ReadersInv, GetsFit
  <2> QED
    BY <1>2, <1>3, <1>5, <2>2 DEF GetsFit, Gone
<1> QED
  BY <1>1, <1>7, <1>8, <1>9, <1>10 DEF ReadersInv

\* Putting the right block of a table in keeps the cache right, whatever
\* other entry has to go for it.
LEMMA InsertFits ==
  ASSUME ReadersInv, NEW t \in Readable, NEW b \in Nat,
         NEW c \in Inserted(cache, Name(t, b), Block(t.recs, b))
  PROVE  CacheFits(c)
<1> DEFINE name == <<t.num, b>>
           block == Block(t.recs, b)
<1>1. PICK d : /\ DOMAIN d \subseteq DOMAIN cache /\ \A e \in DOMAIN d : d[e] = cache[e]
               /\ c = [e \in DOMAIN d \cup {name} |-> IF e = name THEN block ELSE d[e]]
  <2> DEFINE kept == IF Cardinality(DOMAIN cache) >= CacheCapacity /\ DOMAIN cache # {}
                     THEN {Restrict(cache, DOMAIN cache \ {e}) : e \in DOMAIN cache} ELSE {cache}
  <2>1. PICK d \in kept : c = [e \in DOMAIN d \cup {name} |-> IF e = name THEN block ELSE d[e]]
    BY DEF Inserted, Name
  <2>2. d = cache \/ \E e \in DOMAIN cache : d = Restrict(cache, DOMAIN cache \ {e})
    BY Zenon
  <2>3. DOMAIN d \subseteq DOMAIN cache /\ \A e \in DOMAIN d : d[e] = cache[e]
    BY <2>2 DEF Restrict
  <2> QED
    BY <2>1, <2>3
<1>2. /\ DOMAIN c = DOMAIN d \cup {name} /\ c[name] = block
      /\ \A e \in DOMAIN d : e # name => c[e] = cache[e]
  BY <1>1
<1>3. t \in Built /\ t.num \in Nat /\ t.num < nextFile /\ block \subseteq Record
  BY DEF ReadersInv, ReadableFits, Built, Table, Block
<1>4. CacheFits(cache)
  BY DEF ReadersInv
<1>5. ASSUME NEW e \in DOMAIN c
      PROVE  c[e] \subseteq Record /\ \E n, i \in Nat : e = <<n, i>> /\ n < nextFile
  <2>1. CASE e = name
    BY <1>2, <1>3, <2>1
  <2>2. CASE e # name
    <3>1. e \in DOMAIN cache /\ c[e] = cache[e]
      BY <1>1, <1>2, <2>2
    <3> HIDE DEF name
    <3> QED
      BY <1>4, <3>1 DEF CacheFits
  <2> QED
    BY <2>1, <2>2
<1>6. ASSUME NEW u \in Readable, NEW i \in Nat, <<u.num, i>> \in DOMAIN c
      PROVE  c[<<u.num, i>>] = Block(u.recs, i)
  <2>1. CASE <<u.num, i>> = name
    <3>1. u.num = t.num /\ i = b
      BY <2>1
    <3>2. u.recs = t.recs
      BY <3>1 DEF ReadersInv, ReadableFits
    <3> QED
      BY <1>2, <2>1, <3>1, <3>2
  <2>2. CASE <<u.num, i>> # name
    <3> DEFINE e == <<u.num, i>>
    <3>1. e \in DOMAIN d /\ e \in DOMAIN cache /\ c[e] = cache[e]
      BY <1>1, <1>2, <1>6, <2>2
    <3>2. cache[e] = Block(u.recs, i)
      BY <1>4, <3>1 DEF CacheFits
    <3> QED
      BY <3>1, <3>2
  <2> QED
    BY <2>1, <2>2
<1> QED
  BY <1>5, <1>6 DEF CacheFits

\* The head of the list of a get, and the block it wants of it.
LEMMA HeadReadable ==
  ASSUME ReadersInv, NEW g \in Gets, NEW r, InProgress(r), Tables(gets[g]) = Range(r.tables)
  PROVE  /\ Head(r.tables) \in Readable /\ Head(r.blocks) \in Nat
         /\ Wanted(r) = <<Head(r.tables).num, Head(r.blocks)>>
         /\ Tables(r) = Range(r.tables)
<1>1. /\ r.tables \in Seq(Built) /\ r.tables # <<>> /\ r.blocks \in Seq(Nat) /\ r.blocks # <<>>
      /\ r.at = "read"
  BY DEF InProgress, Reading
<1>2. Head(r.tables) = r.tables[1] /\ 1 \in DOMAIN r.tables
  BY <1>1
<1>3. Head(r.tables) \in Range(r.tables)
  BY <1>2 DEF Range
<1>4. Head(r.blocks) \in Nat
  BY <1>1
<1>5. Wanted(r) = <<Head(r.tables).num, Head(r.blocks)>>
  BY DEF Wanted, Name
<1> QED
  BY <1>1, <1>3, <1>4, <1>5, ReadableIs DEF Tables

\* A get lets go of the mutex.
LEMMA GetStartStep ==
  ASSUME ReadersInv, NEW g \in Gets, NEW k \in Keys, NEW max \in 1..MaxSeq, GetStart(g, k, max)
  PROVE  ReadersInv'
<1> DEFINE s == TablesFor(k)
           r == ReadOn(k, max, s, Get(k, max))
<1>1. OrderInv /\ CacheFits(cache) /\ cache' = cache /\ gets' = [gets EXCEPT ![g] = r]
      /\ UNCHANGED <<vars, files, doomed>> /\ Visible(mem \cup UNION Range(imms), k, max) = {}
  BY DEF ReadersInv, GetStart
<1>2. max \in 0..MaxSeq
  BY LsmAssumption DEF LsmAssumption
<1>3. s \in Seq(Built) /\ Range(s) \subseteq Live(levels) /\ \A t \in Range(s) : Searchable(t, k)
  BY <1>1, TablesForSorts
<1>4. Answer(TablesSay(s, k, max)) = Get(k, max) /\ Get(k, max) \in Outcome
  BY <1>1, <1>2, TablesForAnswer
<1> HIDE DEF s
<1>5. GetFits(r) /\ Tables(r) \subseteq Range(s) /\ r.at \in {"read", "done"}
  BY <1>2, <1>3, <1>4, ReadOnFits
<1> HIDE DEF r
<1>6. Tables(r) \subseteq Readable
  BY <1>3, <1>5 DEF Readable
<1>7. r.at # "failed"
  BY <1>5
<1>8. CacheFits(cache')
  BY <1>1
<1> QED
  BY <1>1, <1>5, <1>6, <1>7, <1>8, GetMoves

\* A block comes from the cache.
LEMMA ReadHitStep == ASSUME ReadersInv, NEW g \in Gets, ReadHit(g) PROVE ReadersInv'
<1> DEFINE r     == gets[g]
           t     == Head(r.tables)
           b     == Head(r.blocks)
           q     == Continue(r, Block(t.recs, b))
<1>1. CacheFits(cache) /\ cache' = cache /\ UNCHANGED <<vars, files, doomed>> /\ r.at = "read"
      /\ Wanted(r) \in DOMAIN cache /\ gets' = [gets EXCEPT ![g] = Continue(@, cache[Wanted(r)])]
      /\ DOMAIN gets = Gets
  BY DEF ReadersInv, ReadHit, GetsFit
<1>2. InProgress(r)
  BY <1>1, FitsCases DEF ReadersInv, GetsFit
<1>3. Tables(r) = Range(r.tables)
  BY <1>1 DEF Tables
<1>4. t \in Readable /\ b \in Nat /\ Wanted(r) = <<t.num, b>>
  BY <1>2, <1>3, HeadReadable
<1>5. cache[Wanted(r)] = Block(t.recs, b)
  BY <1>1, <1>4 DEF CacheFits
<1>6. gets' = [gets EXCEPT ![g] = q]
  BY <1>1, <1>5
<1>7. GetFits(q) /\ Tables(q) \subseteq Tables(r) /\ q.at \in {"read", "done"}
  BY <1>2, ContinueFits
<1> HIDE DEF q
<1>8. Tables(q) \subseteq Readable
  BY <1>7, ReadableIs
<1>9. q.at # "failed"
  BY <1>7
<1>10. CacheFits(cache')
  BY <1>1
<1> QED
  BY <1>1, <1>6, <1>7, <1>8, <1>9, <1>10, GetMoves

\* A block comes from the file, or the file is gone: then the table is no
\* longer in the version.
LEMMA ReadMissStep == ASSUME ReadersInv, NEW g \in Gets, ReadMiss(g) PROVE ReadersInv'
<1> DEFINE r == gets[g]
           t == Head(r.tables)
           b == Head(r.blocks)
           q == IF t.num \in DOMAIN files
                THEN [get |-> r, at |-> "insert", block |-> Block(files[t.num], b)] ELSE Failed(t)
<1>1. CacheFits(cache) /\ cache' = cache /\ UNCHANGED <<vars, files, doomed>> /\ r.at = "read"
      /\ DOMAIN gets = Gets
  BY DEF ReadersInv, ReadMiss, GetsFit
<1>2. gets' = [gets EXCEPT ![g] = q]
  BY <1>1 DEF ReadMiss
<1>3. InProgress(r)
  BY <1>1, FitsCases DEF ReadersInv, GetsFit
<1>4. Tables(r) = Range(r.tables)
  BY <1>1 DEF Tables
<1>5. t \in Readable /\ b \in Nat
  BY <1>3, <1>4, HeadReadable
<1>6. t \in Built /\ t.num < nextFile /\ (t.num \in DOMAIN files => files[t.num] = t.recs)
  BY <1>5 DEF ReadersInv, ReadableFits
<1>7. Tables(r) \subseteq Readable
  BY ReadableIs
<1> HIDE DEF r
<1>8. GetFits(q) /\ Tables(q) \subseteq Readable /\ (q.at = "failed" => Gone(q.table))
  <2>1. CASE t.num \in DOMAIN files
    <3>1. q = [get |-> r, at |-> "insert", block |-> Block(t.recs, b)]
      BY <1>6, <2>1
    <3> HIDE DEF q
    <3>2. q.get = r /\ q.at = "insert" /\ q.block = Block(t.recs, b)
      BY <3>1
    <3>3. Inserting(q)
      BY <1>3, <3>1, <3>2 DEF Inserting
    <3>4. Tables(q) = Range(r.tables)
      BY <3>2 DEF Tables
    <3> QED
      BY <1>4, <1>7, <3>2, <3>3, <3>4 DEF GetFits
  <2>2. CASE t.num \notin DOMAIN files
    <3>1. q = Failed(t)
      BY <2>2
    <3> HIDE DEF q, t
    <3>2. q.at = "failed" /\ q.table = t
      BY <3>1 DEF Failed
    <3>3. t \notin Live(levels)
      BY <2>2 DEF ReadersInv, FilesFit, FilesPresent
    <3>4. GetFits(q)
      BY <1>6, <3>1, <3>2 DEF GetFits
    <3>5. Tables(q) = {}
      BY <3>2 DEF Tables
    <3> QED
      BY <1>6, <3>2, <3>3, <3>4, <3>5 DEF Gone
  <2> QED
    BY <2>1, <2>2
<1> HIDE DEF q
<1>9. CacheFits(cache')
  BY <1>1
<1> QED
  BY <1>1, <1>2, <1>8, <1>9, GetMoves

\* A block goes into the cache, and the get goes on.
LEMMA InsertStep == ASSUME ReadersInv, NEW g \in Gets, Insert(g) PROVE ReadersInv'
<1> DEFINE r == gets[g].get
           t == Head(r.tables)
           b == Head(r.blocks)
           q == Continue(r, Block(t.recs, b))
<1>1. /\ UNCHANGED <<vars, files, doomed>> /\ gets[g].at = "insert" /\ DOMAIN gets = Gets
      /\ cache' \in Inserted(cache, Wanted(r), gets[g].block)
      /\ gets' = [gets EXCEPT ![g] = Continue(@.get, @.block)]
  BY DEF ReadersInv, Insert, GetsFit
<1>2. Inserting(gets[g])
  BY <1>1, FitsCases DEF ReadersInv, GetsFit
<1>3. InProgress(r) /\ gets[g].block = Block(t.recs, b)
  BY <1>2 DEF Inserting
<1>4. Tables(gets[g]) = Range(r.tables)
  BY <1>1 DEF Tables
<1>5. t \in Readable /\ b \in Nat /\ Wanted(r) = Name(t, b) /\ Tables(r) = Range(r.tables)
  BY <1>3, <1>4, HeadReadable DEF Name
<1>6. gets' = [gets EXCEPT ![g] = q]
  BY <1>1, <1>3
<1>7. CacheFits(cache')
  <2>1. cache' \in Inserted(cache, Name(t, b), Block(t.recs, b))
    BY <1>1, <1>3, <1>5
  <2> QED
    BY <1>5, <2>1, InsertFits
<1>8. GetFits(q) /\ Tables(q) \subseteq Tables(r) /\ q.at \in {"read", "done"}
  BY <1>3, ContinueFits
<1> HIDE DEF q
<1>9. Tables(q) \subseteq Readable
  BY <1>4, <1>5, <1>8, ReadableIs
<1>10. q.at # "failed"
  BY <1>8
<1> QED
  BY <1>1, <1>6, <1>7, <1>8, <1>9, <1>10, GetMoves

\* A get returns.
LEMMA ReturnStep == ASSUME ReadersInv, NEW g \in Gets, Return(g) PROVE ReadersInv'
<1>1. CacheFits(cache) /\ cache' = cache /\ UNCHANGED <<vars, files, doomed>> /\ gets' = [gets EXCEPT ![g] = Idle]
  BY DEF ReadersInv, Return
<1>2. GetFits(Idle) /\ Tables(Idle) = {} /\ Idle.at # "failed"
  BY DEF GetFits, Tables, Idle
<1>3. CacheFits(cache')
  BY <1>1
<1> QED
  BY <1>1, <1>2, <1>3, GetMoves

\* A scan or a compaction reads through the cache.
LEMMA LockedReadStep ==
  ASSUME ReadersInv, NEW t \in Live(levels), NEW b \in BlockNos(t.recs), LockedRead(t, b)
  PROVE  ReadersInv'
<1>1. /\ UNCHANGED <<vars, files, doomed, gets>> /\ t.num \in DOMAIN files
      /\ cache' \in Inserted(cache, Name(t, b), Block(files[t.num], b))
  BY DEF LockedRead
<1>2. t \in Readable
  BY ReadableIs
<1>3. files[t.num] = t.recs /\ t \in Built
  BY <1>1, <1>2 DEF ReadersInv, ReadableFits
<1>4. b \in Nat
  <2>1. OncePerSeq(t.recs) /\ t.recs \in SUBSET Record /\ IsFiniteSet(t.recs)
    BY <1>3, LiveTables DEF ReadersInv, Built, Batch
  <2>2. \A r \in t.recs : BlockNo(t.recs, r) \in Nat
    BY <2>1, PlacesOrdered
  <2> QED
    BY <2>2 DEF BlockNos
<1>5. CacheFits(cache')
  BY <1>1, <1>2, <1>3, <1>4, InsertFits
<1>6. OrderInv'
  BY <1>1, OrderNext DEF ReadersInv
<1>7. levels' = levels /\ nextFile' = nextFile /\ Live(levels)' = Live(levels)
  BY <1>1 DEF vars
<1>8. Readable' = Readable
  BY <1>1, <1>7 DEF Readable
<1>9. FilesFit' /\ GetsFit'
  BY <1>1, <1>7 DEF ReadersInv, FilesFit, FilesPresent, GetsFit, Gone
<1>10. ReadableFits' /\ CacheFits(cache)'
  BY <1>1, <1>5, <1>7, <1>8 DEF ReadersInv, ReadableFits, CacheFits
<1> QED
  BY <1>6, <1>9, <1>10 DEF ReadersInv

\* A file of a table that left the version is unlinked.
LEMMA UnlinkStep == ASSUME ReadersInv, NEW n \in doomed, Unlink(n) PROVE ReadersInv'
<1>1. /\ UNCHANGED <<vars, cache, gets>> /\ doomed' = doomed \ {n}
      /\ files' = Restrict(files, DOMAIN files \ {n})
  BY DEF Unlink
<1>2. DOMAIN files' = DOMAIN files \ {n} /\ \A m \in DOMAIN files' : files'[m] = files[m]
  BY <1>1 DEF Restrict
<1>3. OrderInv'
  BY <1>1, OrderNext DEF ReadersInv
<1>4. levels' = levels /\ nextFile' = nextFile /\ Live(levels)' = Live(levels)
  BY <1>1 DEF vars
<1>5. Readable' = Readable
  BY <1>1, <1>4 DEF Readable
<1>6. FilesFit'
  <2>1. \A t \in Live(levels) : t.num \in DOMAIN files \ doomed /\ files[t.num] = t.recs
    BY DEF ReadersInv, FilesFit, FilesPresent
  <2>2. \A t \in Live(levels) : t.num \in DOMAIN files' \ doomed' /\ files'[t.num] = t.recs
    BY <1>1, <1>2, <2>1
  <2>3. FilesPresent'
    BY <1>4, <2>2 DEF FilesPresent
  <2> QED
    BY <1>1, <1>2, <1>4, <2>3 DEF ReadersInv, FilesFit
<1>7. GetsFit'
  BY <1>1, <1>4 DEF ReadersInv, GetsFit, Gone
<1>8. ReadableFits' /\ CacheFits(cache)'
  BY <1>1, <1>2, <1>4, <1>5 DEF ReadersInv, ReadableFits, CacheFits
<1> QED
  BY <1>3, <1>6, <1>7, <1>8 DEF ReadersInv

\* A step that does not take the mutex, or none.
LEMMA UnlockedStep ==
  ASSUME ReadersInv, [Next]_vars, UNCHANGED <<levels, nextFile, files, doomed, cache, gets>>
  PROVE  ReadersInv'
<1>1. OrderInv'
  BY OrderNext DEF ReadersInv
<1>2. Live(levels)' = Live(levels)
  OBVIOUS
<1>3. Readable' = Readable
  BY <1>2 DEF Readable
<1>4. FilesFit' /\ GetsFit'
  BY <1>2 DEF ReadersInv, FilesFit, FilesPresent, GetsFit, Gone
<1>5. ReadableFits' /\ CacheFits(cache)'
  BY <1>3 DEF ReadersInv, ReadableFits, CacheFits
<1> QED
  BY <1>1, <1>4, <1>5 DEF ReadersInv

\* What is known of the tables of the version, so that it can be said of the
\* next state as well.
LiveFacts ==
  /\ \A t \in Live(levels) : t \in Built /\ t.num \in Nat /\ t.num < nextFile
  /\ \A t, u \in Live(levels) : t.num = u.num => t = u

\* They hold wherever the engine's invariant does,
LEMMA LiveFactsHold == OrderInv => LiveFacts
BY LiveTables DEF LiveFacts

\* and so in the next state.
LEMMA LiveFactsNext == OrderInv' => LiveFacts'
BY LiveFactsHold, PTL

\* A critical section: new tables get their files, and the files of those that
\* go are to be unlinked.
LEMMA LockedStep == ASSUME ReadersInv, Locked PROVE ReadersInv'
<1> DEFINE new == Live(levels') \ Live(levels)
           N   == NumsOf(new)
<1>1. /\ doomed = {} /\ Next /\ UNCHANGED <<cache, gets>>
      /\ doomed' = NumsOf(Live(levels)) \ NumsOf(Live(levels'))
      /\ files' = [n \in DOMAIN files \cup N |->
                     IF n \in N THEN (CHOOSE t \in new : t.num = n).recs ELSE files[n]]
  BY DEF Locked, Unlinked
<1>2. OrderInv /\ OrderInv'
  BY <1>1, OrderNext DEF ReadersInv
<1>3. /\ Fresh(levels, levels', nextFile)
      /\ nextFile \in Nat /\ nextFile' \in Nat /\ nextFile' >= nextFile
  BY <1>1, <1>2, StepFresh
<1>4. LiveFacts /\ LiveFacts'
  BY <1>2, LiveFactsHold, LiveFactsNext
<1>5. \A t \in Live(levels') : t \in Built /\ t.num \in Nat /\ t.num < nextFile'
  BY <1>4 DEF LiveFacts
<1>6. \A t, u \in Live(levels') : t.num = u.num => t = u
  BY <1>4 DEF LiveFacts
<1>7. \A t \in new : t.num >= nextFile
  BY <1>3 DEF Fresh
<1>8. \A n : n \in N <=> \E t \in new : t.num = n
  BY DEF NumsOf
<1>9. /\ \A n \in DOMAIN files : n \in Nat /\ n < nextFile /\ files[n] \subseteq Record
      /\ \A t \in Live(levels) : t.num \in DOMAIN files /\ files[t.num] = t.recs
  BY DEF ReadersInv, FilesFit, FilesPresent
<1>10. \A n \in DOMAIN files : n \notin N
  <2> SUFFICES ASSUME NEW n \in DOMAIN files, n \in N PROVE FALSE
    OBVIOUS
  <2>1. PICK t \in new : t.num = n
    BY <1>8
  <2>2. t.num >= nextFile /\ n < nextFile /\ n \in Nat
    BY <1>7, <1>9
  <2> HIDE DEF new, N
  <2> QED
    BY <1>3, <2>1, <2>2
<1>11. ASSUME NEW t \in new PROVE t.num \in DOMAIN files' /\ files'[t.num] = t.recs
  <2>1. t.num \in N
    BY <1>8
  <2>2. (CHOOSE u \in new : u.num = t.num) = t
    BY <1>6
  <2> HIDE DEF new, N
  <2> QED
    BY <1>1, <2>1, <2>2
<1>12. /\ DOMAIN files' = DOMAIN files \cup N
       /\ \A n \in DOMAIN files : files'[n] = files[n]
  BY <1>1, <1>10
<1>13. \A n \in DOMAIN files' : n \in Nat /\ n < nextFile' /\ files'[n] \subseteq Record
  <2> SUFFICES ASSUME NEW n \in DOMAIN files'
               PROVE  n \in Nat /\ n < nextFile' /\ files'[n] \subseteq Record
    OBVIOUS
  <2>1. CASE n \in DOMAIN files
    BY <1>3, <1>9, <1>12, <2>1
  <2>2. CASE n \in N
    <3>1. PICK t \in new : t.num = n
      BY <1>8, <2>2
    <3>2. t \in Built /\ t.num \in Nat /\ t.num < nextFile'
      BY <1>5
    <3>3. t.recs \subseteq Record
      BY <3>2 DEF Built, Table
    <3> QED
      BY <1>11, <3>1, <3>2, <3>3
  <2> QED
    BY <1>12, <2>1, <2>2
<1>14. ASSUME NEW t \in Live(levels')
       PROVE  t.num \in DOMAIN files' /\ t.num \notin doomed' /\ files'[t.num] = t.recs
  <2>1. t.num \notin doomed'
    BY <1>1 DEF NumsOf
  <2>2. CASE t \in Live(levels)
    BY <1>9, <1>12, <2>1, <2>2
  <2>3. CASE t \notin Live(levels)
    BY <1>11, <2>1, <2>3
  <2> QED
    BY <2>2, <2>3
<1>15. doomed' \subseteq DOMAIN files'
  BY <1>1, <1>9, <1>12 DEF NumsOf
<1> HIDE DEF N
<1>16. FilesFit'
  BY <1>13, <1>14, <1>15 DEF FilesFit, FilesPresent
\* What may still be read is what could be read before, or new.
<1>17. \A t \in Readable' : t \in Readable \/ t \in new
  <2> SUFFICES ASSUME NEW t \in Readable' PROVE t \in Readable \/ t \in new
    OBVIOUS
  <2>1. t \in Live(levels') \/ \E g \in Gets : t \in Tables(gets[g])
    BY <1>1 DEF Readable
  <2> QED
    BY <2>1, ReadableIs
<1>18. \A t \in new : t \in Live(levels')
  OBVIOUS
<1> HIDE DEF new
<1>19. /\ \A t \in Readable : t \in Built /\ t.num < nextFile /\ t.num \in Nat
                             /\ (t.num \in DOMAIN files => files[t.num] = t.recs)
       /\ \A t, u \in Readable : t.num = u.num => t.recs = u.recs
  BY DEF ReadersInv, ReadableFits, Built, Table
<1>20. \A t \in Readable, u \in new : t.num # u.num
  BY <1>3, <1>5, <1>7, <1>18, <1>19
<1>21. ReadableFits'
  <2>1. ASSUME NEW t \in Readable'
        PROVE  t \in Built /\ t.num < nextFile' /\ (t.num \in DOMAIN files' => files'[t.num] = t.recs)
    <3>1. CASE t \in Readable
      <4>1. t.num \notin N
        BY <1>8, <1>20, <3>1
      <4>2. t.num < nextFile'
        BY <1>3, <1>19, <3>1
      <4> QED
        BY <1>12, <1>19, <3>1, <4>1, <4>2
    <3>2. CASE t \in new
      BY <1>5, <1>11, <1>18, <3>2
    <3> QED
      BY <1>17, <3>1, <3>2
  <2>2. ASSUME NEW t \in Readable', NEW u \in Readable', t.num = u.num PROVE t.recs = u.recs
    BY <1>6, <1>17, <1>18, <1>19, <1>20, <2>2
  <2> QED
    BY <2>1, <2>2 DEF ReadableFits
<1>22. CacheFits(cache)'
  <2>1. \A e \in DOMAIN cache : cache[e] \subseteq Record /\ \E n, b \in Nat : e = <<n, b>> /\ n < nextFile
    BY DEF ReadersInv, CacheFits
  <2>2. \A e \in DOMAIN cache : \E n, b \in Nat : e = <<n, b>> /\ n < nextFile'
    <3> SUFFICES ASSUME NEW e \in DOMAIN cache PROVE \E n, b \in Nat : e = <<n, b>> /\ n < nextFile'
      OBVIOUS
    <3>1. PICK n \in Nat, b \in Nat : e = <<n, b>> /\ n < nextFile
      BY <2>1
    <3>2. n < nextFile'
      BY <1>3, <3>1
    <3> QED
      BY <3>1, <3>2
  <2>3. ASSUME NEW t \in Readable', NEW b \in Nat, <<t.num, b>> \in DOMAIN cache
        PROVE  cache[<<t.num, b>>] = Block(t.recs, b)
    <3>1. CASE t \in Readable
      BY <2>3, <3>1 DEF ReadersInv, CacheFits
    <3>2. CASE t \in new
      <4>1. PICK n \in Nat, c \in Nat : <<t.num, b>> = <<n, c>> /\ n < nextFile
        BY <2>1, <2>3
      <4>2. t.num = n
        BY <4>1
      <4> QED
        BY <1>3, <1>7, <3>2, <4>1, <4>2
    <3> QED
      BY <1>17, <3>1, <3>2
  <2> QED
    BY <1>1, <2>1, <2>2, <2>3 DEF CacheFits
<1>23. GetsFit'
  <2>1. ASSUME NEW t, Gone(t), t \in Built PROVE t.num < nextFile' /\ t \notin Live(levels')
    <3>1. t.num < nextFile /\ t \notin Live(levels) /\ t.num \in Nat
      BY <2>1 DEF Gone, Built, Table
    <3>2. t.num < nextFile'
      BY <1>3, <3>1
    <3>3. t \notin Live(levels')
      <4>1. ASSUME t \in Live(levels') PROVE FALSE
        BY <1>3, <3>1, <4>1 DEF Fresh
      <4> QED
        BY <4>1
    <3> QED
      BY <3>2, <3>3
  <2>2. ASSUME NEW g \in Gets
        PROVE  /\ GetFits(gets[g])
               /\ gets[g].at = "failed" => /\ gets[g].table.num < nextFile'
                                           /\ gets[g].table \notin Live(levels')
    <3>1. GetFits(gets[g]) /\ (gets[g].at = "failed" => Gone(gets[g].table))
      BY DEF ReadersInv, GetsFit
    <3>2. gets[g].at = "failed" => gets[g].table \in Built
      BY <3>1, FitsCases
    <3> QED
      BY <2>1, <3>1, <3>2
  <2>3. DOMAIN gets = Gets
    BY DEF ReadersInv, GetsFit
  <2> QED
    BY <1>1, <2>2, <2>3 DEF GetsFit, Gone
<1> QED
  BY <1>2, <1>16, <1>21, <1>22, <1>23 DEF ReadersInv

\* Every step keeps the invariant.
LEMMA ReadersNextHolds == ReadersInv /\ [ReadersNext]_readersVars => ReadersInv'
<1> SUFFICES ASSUME ReadersInv, [ReadersNext]_readersVars PROVE ReadersInv'
  OBVIOUS
<1>1. CASE Unlocked
  <2>1. Next /\ UNCHANGED <<levels, nextFile>>
    BY <1>1 DEF Unlocked, Next, Client, Background, BgCheck, CloseStart, DropSnapshot
  <2>2. UNCHANGED <<files, doomed, cache, gets>>
    BY <1>1 DEF Unlocked
  <2> QED
    BY <2>1, <2>2, UnlockedStep
<1>2. CASE Locked
  BY <1>2, LockedStep
<1>3. ASSUME NEW n \in doomed, Unlink(n) PROVE ReadersInv'
  BY <1>3, UnlinkStep
<1>4. ASSUME NEW t \in Live(levels), NEW b \in BlockNos(t.recs), LockedRead(t, b) PROVE ReadersInv'
  BY <1>4, LockedReadStep
<1>5. ASSUME NEW g \in Gets, NEW k \in Keys, NEW max \in 1..MaxSeq, GetStart(g, k, max) PROVE ReadersInv'
  BY <1>5, GetStartStep
<1>6. ASSUME NEW g \in Gets, ReadHit(g) \/ ReadMiss(g) \/ Insert(g) \/ Return(g) PROVE ReadersInv'
  BY <1>6, ReadHitStep, ReadMissStep, InsertStep, ReturnStep
<1>7. CASE UNCHANGED readersVars
  <2>1. UNCHANGED vars /\ UNCHANGED <<levels, nextFile, files, doomed, cache, gets>>
    BY <1>7 DEF readersVars, vars
  <2> QED
    BY <2>1, UnlockedStep
<1> QED
  BY <1>1, <1>2, <1>3, <1>4, <1>5, <1>6, <1>7 DEF ReadersNext

\* The inductive invariant, of every reachable state.
LEMMA ReadersInvAlways == ReadersSpec => []ReadersInv
BY ReadersInitHolds, ReadersNextHolds, PTL DEF ReadersSpec

-----------------------------------------------------------------------------
(* What it is good for.                                                    *)

\* The readers' state has its types (db.rs, sstable/reader.rs).
THEOREM ReadersTypeCorrect == ReadersSpec => []ReadersTypeOK
<1>1. ASSUME ReadersInv PROVE ReadersTypeOK
  <2>1. TypeOK
    BY <1>1, TypeInvImpliesTypeOK DEF ReadersInv, OrderInv
  <2>2. DOMAIN files \subseteq Nat /\ Range(files) \subseteq SUBSET Record /\ doomed \subseteq DOMAIN files
    BY <1>1 DEF ReadersInv, FilesFit, Range
  <2>3. DOMAIN cache \subseteq Nat \X Nat /\ Range(cache) \subseteq SUBSET Record
    BY <1>1 DEF ReadersInv, CacheFits, Range
  <2>4. \A g \in Gets : gets[g].at \in {"idle", "read", "insert", "done", "failed"}
    BY <1>1, FitsCases DEF ReadersInv, GetsFit
  <2> QED
    BY <2>1, <2>2, <2>3, <2>4 DEF ReadersTypeOK
<1> QED
  BY <1>1, ReadersInvAlways, PTL

\* A get that answers gives the answer of the moment it let go of the mutex,
\* however many writes, flushes, compactions and unlinks came since
\* (db.rs, get_with_seq, which reads its tables after unlocking).
THEOREM GetsAreAtomic == ReadersSpec => []GetIsAtomic
<1>1. ReadersInv => GetIsAtomic
  BY FitsCases DEF ReadersInv, GetsFit, GetIsAtomic
<1> QED
  BY <1>1, ReadersInvAlways, PTL

\* A get fails on the missing file of a table only after a compaction took
\* the table out of the version (db.rs, maybe_compact, which removes files).
THEOREM FailedGetsWereReplaced == ReadersSpec => []FailsOnlyIfReplaced
<1>1. ReadersInv => FailsOnlyIfReplaced
  BY DEF ReadersInv, GetsFit, FailsOnlyIfReplaced, Gone
<1> QED
  BY <1>1, ReadersInvAlways, PTL

\* Unlinking never takes the file of a table of the version, even though the
\* numbers of a failed compaction are given out again (db.rs, maybe_compact).
THEOREM FilesStayPresent == ReadersSpec => []FilesPresent
<1>1. ReadersInv => FilesPresent
  BY DEF ReadersInv, FilesFit
<1> QED
  BY <1>1, ReadersInvAlways, PTL

\* The cache, which keeps blocks of removed files, never has a wrong block of
\* a table that may still be read (BlockCache, whose
\* keys are file number and block).
THEOREM CacheStaysCurrent == ReadersSpec => []CacheCurrent
<1>1. ASSUME ReadersInv PROVE CacheCurrent
  <2>1. ASSUME NEW t \in Readable, NEW b \in BlockNos(t.recs), Name(t, b) \in DOMAIN cache
        PROVE  cache[Name(t, b)] = Block(t.recs, b)
    <3>1. PICK n \in Nat, c \in Nat : <<t.num, b>> = <<n, c>>
      BY <1>1, <2>1 DEF ReadersInv, CacheFits, Name
    <3>2. b \in Nat
      BY <3>1
    <3> QED
      BY <1>1, <2>1, <3>2 DEF ReadersInv, CacheFits, Name
  <2> QED
    BY <2>1 DEF CacheCurrent
<1> QED
  BY <1>1, ReadersInvAlways, PTL

=============================================================================
