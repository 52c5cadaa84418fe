------------------------------ MODULE DbProofs ------------------------------
(***************************************************************************)
(* Theorems about the engine, for any keys, options and bounds: the types  *)
(* of its state, the bound the write stall enforces, and what its readers  *)
(* see: newer versions stay above older ones, levels below the first stay  *)
(* disjoint, file numbers stay unique, and therefore get, scan and         *)
(* snapshots read what the abstract map holds.                             *)
(***************************************************************************)
EXTENDS Db, LsmProofs

\* What TypeOK leaves out and its proof needs: sets of records and levels are
\* finite, no frozen memtable is empty, and a table's range is that of its
\* records, or the builder would have no smallest and largest key to write.
TypeInv ==
  /\ mem \in SUBSET Record /\ IsFiniteSet(mem)
  /\ imms \in Seq(Batch)
  /\ Sound(levels)
  /\ nextSeq \in 0..MaxSeq
  /\ nextFile \in Nat \ {0}
  /\ snaps \in [Snapshots -> Nat \cup {NoSnapshot}]
  /\ stop \in BOOLEAN
  /\ bg \in {"check", "failed", "work", "done", "joined"}
  /\ closed \in BOOLEAN

\* The inductive invariant has the types in it.
LEMMA TypeInvImpliesTypeOK == TypeInv => TypeOK
<1> SUFFICES ASSUME TypeInv PROVE TypeOK
  OBVIOUS
<1>1. imms \in Seq(SUBSET Record)
  <2>1. Batch \subseteq SUBSET Record
    BY DEF Batch
  <2> QED
    BY <2>1 DEF TypeInv
<1>2. levels \in Levels
  <2>1. Built \subseteq Table
    BY DEF Built
  <2> QED
    BY <2>1 DEF TypeInv, Sound, Levels
<1> QED
  BY <1>1, <1>2 DEF TypeInv, TypeOK

\* A new database has its types.
LEMMA TypeInit == Init => TypeInv
<1> SUFFICES ASSUME Init PROVE TypeInv
  OBVIOUS
<1>1. IsFiniteSet({})
  BY FS_EmptySet
<1>2. Sound(levels)
  BY <1>1 DEF Init, Sound
<1>3. nextSeq \in 0..MaxSeq
  BY LsmAssumption DEF Init, LsmAssumption
<1>4. imms \in Seq(Batch)
  BY DEF Init
<1>5. snaps \in [Snapshots -> Nat \cup {NoSnapshot}]
  BY DEF Init
<1>6. mem \in SUBSET Record /\ IsFiniteSet(mem)
  BY <1>1 DEF Init
<1>7. nextFile \in Nat \ {0} /\ bg \in {"check", "failed", "work", "done", "joined"}
  BY DEF Init
<1>8. stop \in BOOLEAN /\ closed \in BOOLEAN
  BY Zenon DEF Init
<1> QED
  BY <1>2, <1>3, <1>4, <1>5, <1>6, <1>7, <1>8 DEF TypeInv

\* The batch a freeze makes of the memtable.
LEMMA FrozenType ==
  ASSUME TypeInv
  PROVE  /\ Frozen \in Seq(Batch)
         /\ Len(Frozen) = Len(imms) + IF mem = {} THEN 0 ELSE 1
<1>1. imms \in Seq(Batch) /\ (mem # {} => mem \in Batch)
  BY DEF TypeInv, Batch
<1> QED
  BY <1>1 DEF Frozen

-----------------------------------------------------------------------------
(* One step lemma per action that touches memtables or tables, with what   *)
(* it does to their numbers.                                               *)

\* A write keeps the types, and the stall leaves room for the memtable that it may freeze.
LEMMA WriteStep ==
  ASSUME TypeInv, NEW k \in Keys, NEW v \in Vals \cup {Tomb}, Write(k, v)
  PROVE  /\ TypeInv'
         /\ Len(imms) < 2 /\ Cardinality(levels[0]) < L0Trigger * 2
         /\ levels' = levels
         /\ \/ imms' = imms
            \/ Len(imms') = Len(imms) + 1 /\ mem' = {}
<1> DEFINE r == [key |-> k, seq |-> nextSeq + 1, val |-> v]
           m == mem \cup {r}
<1>1. nextSeq \in Nat /\ MaxSeq \in Nat /\ nextSeq < MaxSeq
  BY LsmAssumption DEF TypeInv, Write, LsmAssumption
<1>2. m \in Batch
  <2>1. r \in Record
    BY <1>1 DEF Record
  <2>2. IsFiniteSet(m)
    BY FS_AddElement DEF TypeInv
  <2> QED
    BY <2>1, <2>2 DEF TypeInv, Batch
<1>3. \/ mem' = {} /\ imms' = Append(imms, m)
      \/ mem' = m /\ imms' = imms
  BY DEF Write
<1>4. imms \in Seq(Batch)
  BY DEF TypeInv
<1> HIDE DEF m
<1>5. /\ mem' \in SUBSET Record /\ IsFiniteSet(mem') /\ imms' \in Seq(Batch)
      /\ \/ imms' = imms
         \/ Len(imms') = Len(imms) + 1 /\ mem' = {}
  <2>1. CASE mem' = {} /\ imms' = Append(imms, m)
    <3>1. imms' \in Seq(Batch) /\ Len(imms') = Len(imms) + 1
      BY <1>2, <1>4, <2>1
    <3> QED
      BY <2>1, <3>1, FS_EmptySet
  <2>2. CASE mem' = m /\ imms' = imms
    BY <1>2, <1>4, <2>2 DEF Batch
  <2> QED
    BY <1>3, <2>1, <2>2
<1>6. Sound(levels)' /\ levels' = levels
  BY DEF TypeInv, Write, Sound
<1>7. nextSeq' \in 0..MaxSeq
  BY <1>1 DEF Write
<1>8. TypeInv'
  BY <1>5, <1>6, <1>7 DEF TypeInv, Write
<1>9. Len(imms) < 2 /\ Cardinality(levels[0]) < L0Trigger * 2
  <2>1. Len(imms) \in Nat
    BY <1>4
  <2>2. Cardinality(levels[0]) \in Nat /\ L0Trigger * 2 \in Nat
    BY FS_CardinalityType, LsmAssumption DEF TypeInv, Sound, Level, LsmAssumption
  <2> QED
    BY <2>1, <2>2 DEF Write, Stalled
<1> QED
  BY <1>5, <1>6, <1>8, <1>9

\* A flush keeps the types and moves memtables to level 0 one for one.
LEMMA FlushStep ==
  ASSUME TypeInv, NEW n, Flush(n)
  PROVE  /\ TypeInv'
         /\ mem' = {}
         /\ n \in 0..Len(Frozen) /\ Len(imms') = Len(Frozen) - n
         /\ Cardinality(levels'[0]) <= Cardinality(levels[0]) + n
<1> DEFINE f == FlushImms(Frozen, levels, nextFile, n)
<1>1. n \in 0..Len(Frozen) /\ imms' = f.imms /\ levels' = f.levels /\ nextFile' = f.nextFile
  BY DEF Flush
<1>2. Frozen \in Seq(Batch)
  BY FrozenType
<1>3. /\ f.imms \in Seq(Batch) /\ Len(f.imms) = Len(Frozen) - n
      /\ Sound(f.levels)
      /\ Cardinality(f.levels[0]) <= Cardinality(levels[0]) + n
      /\ f.nextFile \in Nat \ {0}
  BY <1>1, <1>2, FlushResult DEF TypeInv
<1> HIDE DEF f
<1>4. mem' = {} /\ IsFiniteSet(mem')
  BY FS_EmptySet DEF Flush
<1>5. Sound(levels)' /\ imms' \in Seq(Batch) /\ nextFile' \in Nat \ {0}
  BY <1>1, <1>3 DEF Sound
<1>6. TypeInv'
  BY <1>4, <1>5 DEF TypeInv, Flush
<1> QED
  BY <1>1, <1>3, <1>4, <1>6

\* Whatever becomes of a compaction, its level 0 is no larger.
LEMMA OutcomeResult ==
  ASSUME NEW lv, Sound(lv), NEW nf \in Nat \ {0}, NEW c \in Outcomes(lv, nf)
  PROVE  /\ Sound(c.levels)
         /\ Cardinality(c.levels[0]) <= Cardinality(lv[0])
         /\ c.nextFile \in Nat \ {0}
<1> DEFINE d == MaybeCompact(lv, nf, Watermark)
<1>1. /\ Sound(d.levels)
      /\ Cardinality(d.levels[0]) <= Cardinality(lv[0])
      /\ d.nextFile \in Nat \ {0}
  BY CompactResult
<1>2. c = d \/ c \in [levels : {lv}, nextFile : {nf, d.nextFile}]
  BY Zenon DEF Outcomes, CompactOutcomes
<1> HIDE DEF d
<1>3. Cardinality(lv[0]) \in Nat
  BY FS_CardinalityType, LsmAssumption DEF Sound, Level, LsmAssumption
<1>4. CASE c \in [levels : {lv}, nextFile : {nf, d.nextFile}]
  <2>1. c.levels = lv /\ c.nextFile \in Nat \ {0}
    BY <1>1, <1>4
  <2> QED
    BY <1>3, <2>1
<1> QED
  BY <1>1, <1>2, <1>4

\* A compaction keeps the types and adds nothing to level 0.
LEMMA CompactStep ==
  ASSUME TypeInv, Compact
  PROVE  /\ TypeInv'
         /\ mem' = mem /\ imms' = imms
         /\ Cardinality(levels'[0]) <= Cardinality(levels[0])
<1>1. PICK c \in Outcomes(levels, nextFile) : levels' = c.levels /\ nextFile' = c.nextFile
  BY DEF Compact
<1>2. /\ Sound(c.levels)
      /\ Cardinality(c.levels[0]) <= Cardinality(levels[0])
      /\ c.nextFile \in Nat \ {0}
  BY OutcomeResult DEF TypeInv
<1>3. Sound(levels)' /\ nextFile' \in Nat \ {0}
  BY <1>1, <1>2 DEF Sound
<1>4. TypeInv'
  BY <1>3 DEF TypeInv, Compact
<1> QED
  BY <1>1, <1>2, <1>4 DEF Compact

\* A turn of the background thread is a flush of what is frozen, then a compaction.
LEMMA BgWorkStep ==
  ASSUME TypeInv, NEW n, BgWork(n)
  PROVE  /\ TypeInv'
         /\ mem' = mem
         /\ n \in 0..Len(imms) /\ Len(imms') = Len(imms) - n
         /\ Cardinality(levels'[0]) <= Cardinality(levels[0]) + n
<1> DEFINE f == FlushImms(imms, levels, nextFile, n)
<1>1. PICK c \in Outcomes(f.levels, f.nextFile) :
        /\ imms' = f.imms /\ levels' = c.levels /\ nextFile' = c.nextFile
        /\ bg' \in {"check", "failed"}
  BY DEF BgWork
<1>2. n \in 0..Len(imms)
  BY DEF BgWork
<1>3. /\ f.imms \in Seq(Batch) /\ Len(f.imms) = Len(imms) - n
      /\ Sound(f.levels)
      /\ Cardinality(f.levels[0]) <= Cardinality(levels[0]) + n
      /\ f.nextFile \in Nat \ {0}
  BY <1>2, FlushResult DEF TypeInv
<1> HIDE DEF f
<1>4. /\ Sound(c.levels)
      /\ Cardinality(c.levels[0]) <= Cardinality(f.levels[0])
      /\ c.nextFile \in Nat \ {0}
  BY <1>3, OutcomeResult
<1>5. /\ Cardinality(levels[0]) \in Nat /\ Cardinality(f.levels[0]) \in Nat
      /\ Cardinality(c.levels[0]) \in Nat
  <2>1. 0 \in Level
    BY LsmAssumption DEF Level, LsmAssumption
  <2> QED
    BY <1>3, <1>4, <2>1, FS_CardinalityType DEF TypeInv, Sound
<1>6. Cardinality(levels'[0]) <= Cardinality(levels[0]) + n
  BY <1>1, <1>2, <1>3, <1>4, <1>5
<1>7. Sound(levels)' /\ imms' \in Seq(Batch) /\ nextFile' \in Nat \ {0}
  BY <1>1, <1>3, <1>4 DEF Sound
<1>8. TypeInv'
  BY <1>1, <1>7 DEF TypeInv, BgWork
<1> QED
  BY <1>1, <1>2, <1>3, <1>6, <1>8 DEF BgWork

\* The other actions leave memtables, tables and file numbers alone.
OtherStep ==
  \/ WriteFails
  \/ \E s \in Snapshots : TakeSnapshot(s) \/ DropSnapshot(s)
  \/ CloseStart
  \/ CloseFinish
  \/ CloseFails
  \/ BgCheck

\* Snapshots, close and failed writes keep the types and what waits.
LEMMA OtherSteps ==
  ASSUME TypeInv, OtherStep
  PROVE  TypeInv' /\ UNCHANGED <<mem, imms, levels>>
<1>1. UNCHANGED <<mem, imms, levels, nextFile>>
  BY DEF OtherStep, WriteFails, TakeSnapshot, DropSnapshot,
       CloseStart, CloseFinish, CloseFails, BgCheck
<1>2. Sound(levels)'
  BY <1>1 DEF TypeInv, Sound
<1>3. nextSeq' \in 0..MaxSeq
  BY LsmAssumption DEF OtherStep, WriteFails, TakeSnapshot, DropSnapshot, CloseStart,
       CloseFinish, CloseFails, BgCheck, TypeInv, LsmAssumption
<1>4. snaps' \in [Snapshots -> Nat \cup {NoSnapshot}]
  <2>1. nextSeq \in Nat
    BY DEF TypeInv
  <2> QED
    BY <2>1 DEF OtherStep, WriteFails, TakeSnapshot, DropSnapshot, CloseStart,
         CloseFinish, CloseFails, BgCheck, TypeInv
<1>5. stop' \in BOOLEAN /\ closed' \in BOOLEAN /\ bg' \in {"check", "failed", "work", "done", "joined"}
  BY DEF OtherStep, WriteFails, TakeSnapshot, DropSnapshot, CloseStart, CloseFinish, CloseFails,
       BgCheck, TypeInv
<1> QED
  BY <1>1, <1>2, <1>3, <1>4, <1>5 DEF TypeInv

\* The case split every step proof uses.
LEMMA NextCases ==
  ASSUME Next
  PROVE  \/ \E k \in Keys, v \in Vals \cup {Tomb} : Write(k, v)
         \/ \E n : Flush(n)
         \/ Compact
         \/ \E n : BgWork(n)
         \/ OtherStep
BY DEF Next, Client, Background, OtherStep

\* Every step keeps the types.
LEMMA TypeNext == TypeInv /\ [Next]_vars => TypeInv'
<1> SUFFICES ASSUME TypeInv, [Next]_vars PROVE TypeInv'
  OBVIOUS
<1>1. CASE UNCHANGED vars
  BY <1>1 DEF vars, TypeInv, Sound
<1>2. CASE Next
  BY <1>2, NextCases, WriteStep, FlushStep, CompactStep, BgWorkStep, OtherSteps
<1> QED
  BY <1>1, <1>2

\* The engine's state keeps its types, whatever is written, however often a
\* flush fails, and however the threads interleave (db.rs, all of Inner).
THEOREM TypeCorrect == Spec => []TypeOK
<1>1. Spec => []TypeInv
  BY TypeInit, TypeNext, PTL DEF Spec
<1> QED
  BY <1>1, TypeInvImpliesTypeOK, PTL

-----------------------------------------------------------------------------
(* Backpressure.                                                           *)

\* In a new database nothing waits.
LEMMA BackpressureInit == Init => Backpressure
<1> SUFFICES ASSUME Init PROVE Backpressure
  OBVIOUS
<1>1. Cardinality(levels[0]) = 0
  BY FS_EmptySet, LsmAssumption DEF Init, Level, LsmAssumption
<1>2. Len(imms) = 0 /\ mem = {}
  BY DEF Init
<1> QED
  BY <1>1, <1>2, LsmAssumption DEF Backpressure, Waiting, LsmAssumption

\* The numbers the bound speaks of are naturals.
LEMMA BackpressureNumbers ==
  ASSUME TypeInv
  PROVE  Len(imms) \in Nat /\ Cardinality(levels[0]) \in Nat /\ L0Trigger \in Nat \ {0}
BY FS_CardinalityType, LsmAssumption DEF TypeInv, Sound, Level, LsmAssumption

\* Every step keeps the bound.
LEMMA BackpressureNext == TypeInv /\ Backpressure /\ [Next]_vars => Backpressure'
<1> SUFFICES ASSUME TypeInv, Backpressure, [Next]_vars PROVE Backpressure'
  OBVIOUS
<1> USE DEF Backpressure, Waiting
<1>1. Len(imms) \in Nat /\ Cardinality(levels[0]) \in Nat /\ L0Trigger \in Nat \ {0}
  BY BackpressureNumbers
<1>2. Len(imms)' \in Nat /\ Cardinality(levels[0])' \in Nat
  BY TypeNext, FS_CardinalityType, LsmAssumption DEF TypeInv, Sound, Level, LsmAssumption
<1>3. ASSUME NEW k \in Keys, NEW v \in Vals \cup {Tomb}, Write(k, v) PROVE Backpressure'
  BY <1>1, <1>2, <1>3, WriteStep
<1>4. ASSUME NEW n, Flush(n) PROVE Backpressure'
  <2>1. Len(Frozen) = Waiting
    BY FrozenType
  <2>2. /\ mem' = {} /\ n \in 0..Waiting /\ Len(imms') = Waiting - n
        /\ Cardinality(levels'[0]) <= Cardinality(levels[0]) + n
    BY <1>4, <2>1, FlushStep
  <2>3. Waiting \in Nat
    BY <1>1
  <2>4. Waiting' = Waiting - n
    BY <1>1, <2>2, <2>3
  <2> HIDE DEF Waiting
  <2> QED
    BY <1>1, <1>2, <2>2, <2>3, <2>4
<1>5. ASSUME Compact PROVE Backpressure'
  BY <1>1, <1>2, <1>5, CompactStep
<1>6. ASSUME NEW n, BgWork(n) PROVE Backpressure'
  BY <1>1, <1>2, <1>6, BgWorkStep, SMTT(30)
<1>7. CASE OtherStep
  BY <1>7, OtherSteps
<1>8. CASE UNCHANGED vars
  BY <1>8 DEF vars
<1> QED
  BY <1>3, <1>4, <1>5, <1>6, <1>7, <1>8, NextCases

\* The write stall bounds the work that waits (db.rs:149-157): at most two
\* memtables' worth above the tables, and level 0 at most one table over the
\* stall point, though flush() never looks at the stall condition.
THEOREM BackpressureHolds == Spec => []Backpressure
<1>1. Init => TypeInv /\ Backpressure
  BY TypeInit, BackpressureInit
<1>2. (TypeInv /\ Backpressure) /\ [Next]_vars => (TypeInv /\ Backpressure)'
  BY TypeNext, BackpressureNext
<1> QED
  BY <1>1, <1>2, PTL DEF Spec

-----------------------------------------------------------------------------
(* What readers see.                                                       *)


\* Versions are layered, numbers of files and of writes are given out once,
\* and no record and no snapshot is above the last write.
OrderInv ==
  /\ TypeInv
  /\ Layered({}, mem, imms, levels)
  /\ Disjoint(levels)
  /\ Numbered(levels, nextFile)
  /\ OncePerSeq(Everything)
  /\ \A r \in Everything : r.seq <= nextSeq
  /\ \A s \in OpenSnaps : snaps[s] <= nextSeq

\* A new database is in order.
LEMMA OrderInit == Init => OrderInv
<1> SUFFICES ASSUME Init PROVE OrderInv
  OBVIOUS
<1>1. TypeInv
  BY TypeInit
<1>2. \A l \in Level : levels[l] = {} /\ Recs(levels[l]) = {}
  BY DEF Init, Recs
<1>3. 0 \in Level
  BY LsmAssumption DEF Level, LsmAssumption
<1>4. mem = {} /\ imms = <<>> /\ DOMAIN imms = {}
  BY DEF Init
<1>5. Layered({}, mem, imms, levels)
  BY <1>2, <1>3, <1>4 DEF Layered, Newer
<1>6. Disjoint(levels) /\ Numbered(levels, nextFile)
  BY <1>2 DEF Disjoint, Numbered
<1>7. Everything = {}
  <2>1. ASSUME NEW q \in Everything PROVE FALSE
    BY <1>2, <1>4, AllRecsAre DEF Everything
  <2> QED
    BY <2>1
<1>8. OpenSnaps = {}
  BY DEF Init, OpenSnaps
<1> QED
  BY <1>1, <1>5, <1>6, <1>7, <1>8 DEF OrderInv, OncePerSeq

-----------------------------------------------------------------------------
(* Writes.                                                                 *)

\* A write adds one record, newer than all there are.
LEMMA WriteAdds ==
  ASSUME OrderInv, NEW k \in Keys, NEW v \in Vals \cup {Tomb}, Write(k, v)
  PROVE  LET r == [key |-> k, seq |-> nextSeq + 1, val |-> v]
         IN  /\ r \in Record /\ r \notin Everything
             /\ Everything' = Everything \cup {r}
             /\ nextSeq' = nextSeq + 1 /\ nextSeq \in Nat
             /\ Layered({}, mem', imms', levels')
<1> DEFINE r == [key |-> k, seq |-> nextSeq + 1, val |-> v]
           m == mem \cup {r}
<1>1. nextSeq \in Nat /\ MaxSeq \in Nat /\ nextSeq < MaxSeq /\ nextSeq' = nextSeq + 1 /\ levels' = levels
  BY LsmAssumption DEF OrderInv, TypeInv, Write, LsmAssumption
<1>2. r \in Record
  BY <1>1 DEF Record
<1>3. /\ imms \in Seq(Batch) /\ mem \subseteq Record /\ Sound(levels)
      /\ Everything \subseteq Record /\ \A q \in Everything : q.seq <= nextSeq
  BY AllRecsType DEF OrderInv, TypeInv, Everything
<1>4. \A q \in Everything : r.seq > q.seq
  BY <1>1, <1>3 DEF Record
<1>5. r \notin Everything
  BY <1>1, <1>4
<1>6. /\ \A i \in DOMAIN imms : imms[i] \subseteq Everything
      /\ \A l \in Level : Recs(levels[l]) \subseteq Everything
  BY AllRecsAre DEF Everything, Recs
<1>7. \/ mem' = {} /\ imms' = Append(imms, m)
      \/ mem' = m /\ imms' = imms
  BY DEF Write
<1>8. Layered({}, m, imms, levels)
  <2>1. Layered({}, mem, imms, levels)
    BY DEF OrderInv
  <2>2. \A x \in m : x \in mem \/ x = r
    OBVIOUS
  <2> HIDE DEF m, r
  <2>3. \A i \in DOMAIN imms : Newer({}, m, imms[i])
    BY <1>4, <1>6, <2>1, <2>2 DEF Layered, Newer
  <2>4. \A l \in Level : Newer({}, m, Recs(levels[l]))
    BY <1>4, <1>6, <2>1, <2>2 DEF Layered, Newer
  <2> QED
    BY <2>1, <2>3, <2>4 DEF Layered
<1>9. Layered({}, {}, Append(imms, m), levels)
      /\ AllRecs({}, Append(imms, m), levels) = AllRecs(m, imms, levels)
  BY <1>3, <1>8, FreezeKeepsOrder
<1>10. AllRecs(m, imms, levels) = Everything \cup {r}
  <2>1. ASSUME NEW q PROVE q \in AllRecs(m, imms, levels) <=> q \in Everything \cup {r}
    BY AllRecsAre DEF Everything
  <2> QED
    BY <2>1
<1> HIDE DEF m
<1>11. Layered({}, mem', imms', levels') /\ Everything' = Everything \cup {r}
  <2>1. CASE mem' = {} /\ imms' = Append(imms, m)
    BY <1>1, <1>9, <1>10, <2>1 DEF Everything
  <2>2. CASE mem' = m /\ imms' = imms
    BY <1>1, <1>8, <1>10, <2>2 DEF Everything
  <2> QED
    BY <1>7, <2>1, <2>2
<1> QED
  BY <1>1, <1>2, <1>5, <1>11

-----------------------------------------------------------------------------
(* Flushes and compactions.                                                *)

\* What a step that writes nothing may do: it leaves order and numbers, adds
\* no record, answers as before for every key that has none above max, and
\* discards only what another record lets go.
Hidden ==
  /\ Layered({}, mem', imms', levels')
  /\ Disjoint(levels')
  /\ Numbered(levels', nextFile')
  /\ Everything' \subseteq Everything
  /\ \A k \in Keys, max \in Nat :
       (\A r \in Everything : r.key = k => r.seq <= max)
         => Answer(Visible(Everything', k, max)) = Answer(Visible(Everything, k, max))
  /\ \A r \in Everything \ Everything' : \E d : LetsGo(r, d, Everything, Everything', Watermark)

\* A compaction, complete or failed, keeps the order and the answers at the present.
LEMMA OutcomeOrder ==
  ASSUME NEW m \in SUBSET Record, NEW im \in Seq(Batch), NEW lv, Sound(lv), NEW nf \in Nat \ {0},
         Layered({}, m, im, lv), Disjoint(lv), Numbered(lv, nf), OncePerSeq(AllRecs(m, im, lv)),
         NEW c \in Outcomes(lv, nf)
  PROVE  /\ Layered({}, m, im, c.levels) /\ Disjoint(c.levels) /\ Numbered(c.levels, c.nextFile)
         /\ AllRecs(m, im, c.levels) \subseteq AllRecs(m, im, lv)
         /\ \A k \in Keys, max \in Nat :
              (\A r \in AllRecs(m, im, lv) : r.key = k => r.seq <= max)
                => Answer(Visible(AllRecs(m, im, c.levels), k, max))
                     = Answer(Visible(AllRecs(m, im, lv), k, max))
         /\ \A r \in AllRecs(m, im, lv) \ AllRecs(m, im, c.levels) :
              \E q : LetsGo(r, q, AllRecs(m, im, lv), AllRecs(m, im, c.levels), Watermark)
<1> DEFINE d == MaybeCompact(lv, nf, Watermark)
<1>1. c = d \/ c \in [levels : {lv}, nextFile : {nf, d.nextFile}]
  BY Zenon DEF Outcomes, CompactOutcomes
<1>2. /\ Layered({}, m, im, d.levels) /\ Disjoint(d.levels)
      /\ AllRecs(m, im, d.levels) \subseteq AllRecs(m, im, lv)
  BY CompactKeepsOrder, CompactKeepsDisjoint
<1>3. Numbered(d.levels, d.nextFile) /\ d.nextFile \in Nat /\ d.nextFile >= nf
  BY CompactKeepsNumbers
<1>4. ASSUME NEW k \in Keys, NEW max \in Nat, \A r \in AllRecs(m, im, lv) : r.key = k => r.seq <= max
      PROVE  Answer(Visible(AllRecs(m, im, d.levels), k, max)) = Answer(Visible(AllRecs(m, im, lv), k, max))
  BY <1>4, CompactKeepsAnswers
<1>5. ASSUME NEW r \in AllRecs(m, im, lv), r \notin AllRecs(m, im, d.levels)
      PROVE  \E q : LetsGo(r, q, AllRecs(m, im, lv), AllRecs(m, im, d.levels), Watermark)
  BY <1>5, CompactDiscardsDead
<1> HIDE DEF d
<1>6. CASE c = d
  BY <1>2, <1>3, <1>4, <1>6, <1>5
<1>7. CASE c \in [levels : {lv}, nextFile : {nf, d.nextFile}]
  <2>1. c.levels = lv /\ c.nextFile \in Nat /\ c.nextFile >= nf
    BY <1>3, <1>7
  <2>2. \A l \in Level : \A t \in lv[l] : t.num \in Nat
    BY DEF Sound, Built, Table
  <2>3. Numbered(lv, c.nextFile)
    BY <2>1, <2>2 DEF Numbered
  <2> QED
    BY <2>1, <2>3
<1> QED
  BY <1>1, <1>6, <1>7

\* A flush changes no answer.
LEMMA FlushHidden == ASSUME OrderInv, NEW n, Flush(n) PROVE Hidden
<1> DEFINE f == FlushImms(Frozen, levels, nextFile, n)
<1>1. /\ n \in 0..Len(Frozen)
      /\ mem' = {} /\ imms' = f.imms /\ levels' = f.levels /\ nextFile' = f.nextFile
  BY DEF Flush
<1>2. Frozen \in Seq(Batch) /\ Sound(levels) /\ nextFile \in Nat \ {0} /\ imms \in Seq(Batch)
  BY FrozenType DEF OrderInv, TypeInv
<1>3. Layered({}, {}, Frozen, levels) /\ AllRecs({}, Frozen, levels) = Everything
  BY <1>2, FreezeKeepsOrder DEF Frozen, OrderInv, Everything
<1>4. /\ Layered({}, {}, f.imms, f.levels) /\ Disjoint(f.levels) /\ Numbered(f.levels, f.nextFile)
      /\ AllRecs({}, f.imms, f.levels) = AllRecs({}, Frozen, levels)
  BY <1>1, <1>2, <1>3, FlushKeepsOrder DEF OrderInv
<1> HIDE DEF f
<1>5. Everything' = Everything
  BY <1>1, <1>3, <1>4 DEF Everything
<1> QED
  BY <1>1, <1>4, <1>5 DEF Hidden

\* A compaction changes no answer at the present.
LEMMA CompactHidden == ASSUME OrderInv, Compact PROVE Hidden
<1>1. PICK c \in Outcomes(levels, nextFile) : levels' = c.levels /\ nextFile' = c.nextFile
  BY DEF Compact
<1>2. mem' = mem /\ imms' = imms
  BY DEF Compact
<1>3. /\ mem \in SUBSET Record /\ imms \in Seq(Batch) /\ Sound(levels) /\ nextFile \in Nat \ {0}
      /\ Layered({}, mem, imms, levels) /\ Disjoint(levels) /\ Numbered(levels, nextFile)
      /\ OncePerSeq(AllRecs(mem, imms, levels))
  BY DEF OrderInv, TypeInv, Everything
<1>4. /\ Layered({}, mem, imms, c.levels) /\ Disjoint(c.levels) /\ Numbered(c.levels, c.nextFile)
      /\ AllRecs(mem, imms, c.levels) \subseteq AllRecs(mem, imms, levels)
      /\ \A k \in Keys, max \in Nat :
           (\A r \in AllRecs(mem, imms, levels) : r.key = k => r.seq <= max)
             => Answer(Visible(AllRecs(mem, imms, c.levels), k, max))
                  = Answer(Visible(AllRecs(mem, imms, levels), k, max))
      /\ \A r \in AllRecs(mem, imms, levels) \ AllRecs(mem, imms, c.levels) :
           \E q : LetsGo(r, q, AllRecs(mem, imms, levels), AllRecs(mem, imms, c.levels), Watermark)
  BY <1>1, <1>3, OutcomeOrder, ZenonT(30)
<1>5. Everything = AllRecs(mem, imms, levels) /\ Everything' = AllRecs(mem, imms, c.levels)
  BY <1>1, <1>2 DEF Everything
<1> QED
  BY <1>1, <1>2, <1>4, <1>5 DEF Hidden

\* A turn of the background thread changes no answer at the present.
LEMMA BgWorkHidden == ASSUME OrderInv, NEW n, BgWork(n) PROVE Hidden
<1> DEFINE f == FlushImms(imms, levels, nextFile, n)
<1>1. PICK c \in Outcomes(f.levels, f.nextFile) :
        imms' = f.imms /\ levels' = c.levels /\ nextFile' = c.nextFile
  BY DEF BgWork
<1>2. n \in 0..Len(imms) /\ mem' = mem
  BY DEF BgWork
<1>3. mem \in SUBSET Record /\ imms \in Seq(Batch) /\ Sound(levels) /\ nextFile \in Nat \ {0}
  BY DEF OrderInv, TypeInv
<1>4. f.imms \in Seq(Batch) /\ Sound(f.levels) /\ f.nextFile \in Nat \ {0}
  BY <1>2, <1>3, FlushResult
<1>5. /\ Layered({}, mem, f.imms, f.levels) /\ Disjoint(f.levels) /\ Numbered(f.levels, f.nextFile)
      /\ AllRecs(mem, f.imms, f.levels) = Everything
  BY <1>2, <1>3, FlushKeepsOrder DEF OrderInv, Everything
<1> HIDE DEF f
<1>6. OncePerSeq(AllRecs(mem, f.imms, f.levels))
  BY <1>5 DEF OrderInv
<1>7. /\ Layered({}, mem, f.imms, c.levels) /\ Disjoint(c.levels) /\ Numbered(c.levels, c.nextFile)
      /\ AllRecs(mem, f.imms, c.levels) \subseteq AllRecs(mem, f.imms, f.levels)
      /\ \A k \in Keys, max \in Nat :
           (\A r \in AllRecs(mem, f.imms, f.levels) : r.key = k => r.seq <= max)
             => Answer(Visible(AllRecs(mem, f.imms, c.levels), k, max))
                  = Answer(Visible(AllRecs(mem, f.imms, f.levels), k, max))
      /\ \A r \in AllRecs(mem, f.imms, f.levels) \ AllRecs(mem, f.imms, c.levels) :
           \E q : LetsGo(r, q, AllRecs(mem, f.imms, f.levels), AllRecs(mem, f.imms, c.levels), Watermark)
  BY <1>3, <1>4, <1>5, <1>6, OutcomeOrder
<1>8. Everything' = AllRecs(mem, f.imms, c.levels)
  BY <1>1, <1>2 DEF Everything
<1> QED
  BY <1>1, <1>2, <1>5, <1>7, <1>8 DEF Hidden

-----------------------------------------------------------------------------
(* The invariant.                                                          *)

\* What every step is: a write, a step no reader can tell, or one of those
\* that leave memtables, tables and file numbers alone.
LEMMA StepCases ==
  ASSUME OrderInv, Next
  PROVE  \/ \E k \in Keys, v \in Vals \cup {Tomb} : Write(k, v)
         \/ Hidden /\ UNCHANGED <<nextSeq, snaps>>
         \/ OtherStep /\ UNCHANGED <<mem, imms, levels, nextFile>>
<1>1. OtherStep => UNCHANGED <<mem, imms, levels, nextFile>>
  BY DEF OtherStep, WriteFails, TakeSnapshot, DropSnapshot,
       CloseStart, CloseFinish, CloseFails, BgCheck
<1>2. ASSUME NEW n, Flush(n) PROVE Hidden /\ UNCHANGED <<nextSeq, snaps>>
  BY <1>2, FlushHidden DEF Flush
<1>3. ASSUME NEW n, BgWork(n) PROVE Hidden /\ UNCHANGED <<nextSeq, snaps>>
  BY <1>3, BgWorkHidden DEF BgWork
<1>4. ASSUME Compact PROVE Hidden /\ UNCHANGED <<nextSeq, snaps>>
  BY <1>4, CompactHidden DEF Compact
<1> QED
  BY <1>1, <1>2, <1>3, <1>4, NextCases

\* Every step keeps the order.
LEMMA OrderNext == OrderInv /\ [Next]_vars => OrderInv'
<1> SUFFICES ASSUME OrderInv, [Next]_vars PROVE OrderInv'
  OBVIOUS
<1>1. TypeInv /\ TypeInv' /\ nextSeq \in Nat /\ nextSeq' \in Nat
  BY TypeNext DEF OrderInv, TypeInv
<1>2. Everything \subseteq Record
  BY AllRecsType DEF OrderInv, TypeInv, Everything
<1>3. \A s \in Snapshots : snaps[s] \in Nat \cup {NoSnapshot}
  BY <1>1 DEF TypeInv
<1>4. ASSUME NEW k \in Keys, NEW v \in Vals \cup {Tomb}, Write(k, v) PROVE OrderInv'
  <2> DEFINE r == [key |-> k, seq |-> nextSeq + 1, val |-> v]
  <2>1. /\ Everything' = Everything \cup {r} /\ nextSeq' = nextSeq + 1
        /\ Layered({}, mem', imms', levels')
    BY <1>4, WriteAdds
  <2>2. levels' = levels /\ nextFile' = nextFile /\ snaps' = snaps
    BY <1>4 DEF Write
  <2>3. \A q \in Everything : q.seq <= nextSeq /\ q.seq \in Nat
    BY <1>2 DEF OrderInv, Record
  <2>4. \A q \in Everything' : q = r \/ q \in Everything
    BY <2>1
  <2>5. OncePerSeq(Everything')
    BY <1>1, <2>3, <2>4 DEF OrderInv, OncePerSeq
  <2>6. \A q \in Everything' : q.seq <= nextSeq'
    BY <1>1, <2>1, <2>3, <2>4
  <2>7. \A s \in OpenSnaps' : snaps'[s] <= nextSeq'
    <3>1. OpenSnaps' = OpenSnaps
      BY <2>2 DEF OpenSnaps
    <3>2. \A s \in OpenSnaps : snaps[s] <= nextSeq /\ snaps[s] \in Nat
      BY <1>3 DEF OrderInv, OpenSnaps
    <3> QED
      BY <1>1, <2>1, <2>2, <3>1, <3>2
  <2> QED
    BY <1>1, <2>1, <2>2, <2>5, <2>6, <2>7 DEF OrderInv
<1>5. CASE Hidden /\ UNCHANGED <<nextSeq, snaps>>
  <2>1. OpenSnaps' = OpenSnaps
    BY <1>5 DEF OpenSnaps
  <2> QED
    BY <1>1, <1>5, <2>1 DEF OrderInv, Hidden, OncePerSeq
<1>6. CASE OtherStep /\ UNCHANGED <<mem, imms, levels, nextFile>>
  <2>1. Everything' = Everything
    BY <1>6 DEF Everything
  <2>2. nextSeq' >= nextSeq
    BY <1>1, <1>6 DEF OtherStep, WriteFails, TakeSnapshot, DropSnapshot,
         CloseStart, CloseFinish, CloseFails, BgCheck
  <2>3. \A s \in OpenSnaps' : snaps'[s] = nextSeq \/ (s \in OpenSnaps /\ snaps'[s] = snaps[s])
    BY <1>1, <1>6 DEF OtherStep, WriteFails, TakeSnapshot, DropSnapshot,
         CloseStart, CloseFinish, CloseFails,
         BgCheck, OpenSnaps, TypeInv
  <2>4. \A s \in OpenSnaps' : snaps'[s] <= nextSeq'
    <3>1. \A s \in OpenSnaps : snaps[s] <= nextSeq /\ snaps[s] \in Nat
      BY <1>3 DEF OrderInv, OpenSnaps
    <3> QED
      BY <1>1, <2>2, <2>3, <3>1
  <2>5. \A q \in Everything : q.seq <= nextSeq'
    BY <1>1, <1>2, <2>2 DEF OrderInv, Record
  <2> QED
    BY <1>1, <1>6, <2>1, <2>4, <2>5 DEF OrderInv
<1>7. CASE UNCHANGED vars
  <2>1. Everything' = Everything /\ OpenSnaps' = OpenSnaps
    BY <1>7 DEF vars, Everything, OpenSnaps
  <2> QED
    BY <1>1, <1>7, <2>1 DEF vars, OrderInv
<1> QED
  BY <1>4, <1>5, <1>6, <1>7, StepCases

\* The inductive invariant, of every reachable state.
LEMMA OrderAlways == Spec => []OrderInv
BY OrderInit, OrderNext, PTL DEF Spec

-----------------------------------------------------------------------------
(* What it is good for.                                                    *)

\* No file number is given out while a table of the Version has it: not by a
\* flush that failed, nor by a compaction whose numbers are taken anew after
\* an I/O error (db.rs, next_file_num).
THEOREM FileNumbersUnique == Spec => []FileNumbers
<1>1. OrderInv => FileNumbers
  BY DEF OrderInv, Numbered, FileNumbers
<1> QED
  BY <1>1, OrderAlways, PTL

\* Below level 0 a key is in the range of one table at most, whatever was
\* compacted into the level (compact.rs picks every table that overlaps).
THEOREM DisjointAlways == Spec => []LevelsDisjoint
<1>1. OrderInv => LevelsDisjoint
  BY DEF OrderInv, Disjoint, Apart, LevelsDisjoint
<1> QED
  BY <1>1, OrderAlways, PTL

\* Every place a lookup visits is newer, key by key, than the places after it
\* (db.rs get_with_seq, version.rs get_sstables_for_key).
THEOREM NewestFirstAlways == Spec => []NewestFirst
<1>1. OrderInv => NewestFirst
  <2> SUFFICES ASSUME OrderInv PROVE NewestFirst
    OBVIOUS
  <2>1. Layered({}, mem, imms, levels)
    BY DEF OrderInv
  <2>2. \A S, T : Newer({}, S, T) => Above(S, T)
    BY DEF Newer, Above
  <2>3. \A i \in DOMAIN imms : Above(mem, imms[i])
    BY <2>1, <2>2 DEF Layered
  <2>4. \A i, j \in DOMAIN imms : i < j => Above(imms[j], imms[i])
    BY <2>1, <2>2 DEF Layered
  <2>5. \A l \in Level : /\ Above(mem, Recs(levels[l]))
                         /\ \A i \in DOMAIN imms : Above(imms[i], Recs(levels[l]))
    BY <2>1, <2>2 DEF Layered
  <2>6. \A t, u \in levels[0] : t.num > u.num => Above(t.recs, u.recs)
    BY <2>1, <2>2 DEF Layered
  <2>7. \A l, m \in Level : l < m => Above(Recs(levels[l]), Recs(levels[m]))
    BY <2>1, <2>2 DEF Layered
  <2> QED
    BY <2>3, <2>4, <2>5, <2>6, <2>7 DEF NewestFirst
<1> QED
  BY <1>1, OrderAlways, PTL

\* A lookup that stops at the first hit has the newest visible record of all.
LEMMA GetIsScan ==
  ASSUME OrderInv, NEW k \in Keys, NEW max \in Nat
  PROVE  Get(k, max) = Scan(k, max)
<1>1. /\ mem \in SUBSET Record /\ imms \in Seq(Batch) /\ Sound(levels) /\ nextFile \in Nat
      /\ Layered({}, mem, imms, levels) /\ Disjoint(levels) /\ Numbered(levels, nextFile)
      /\ OncePerSeq(AllRecs(mem, imms, levels))
  BY DEF OrderInv, TypeInv, Everything
<1> QED
  BY <1>1, LookupFindsNewest DEF Get, Scan

\* A lookup that ends at its first hit and a scan that merges everything give
\* the same answer, at every sequence number.
THEOREM GetAgreesWithScan == Spec => []GetMatchesScan
<1>1. OrderInv => GetMatchesScan
  <2>1. \A max \in 0..MaxSeq : max \in Nat
    BY LsmAssumption DEF LsmAssumption
  <2> QED
    BY <2>1, GetIsScan DEF GetMatchesScan
<1> QED
  BY <1>1, OrderAlways, PTL

\* The sequence number of an open snapshot.
LEMMA SnapshotNumber ==
  ASSUME OrderInv, NEW s \in OpenSnaps
  PROVE  snaps[s] \in Nat /\ snaps[s] <= nextSeq /\ s \in Snapshots
BY DEF OrderInv, TypeInv, OpenSnaps

-----------------------------------------------------------------------------
(* Steps, as a reader sees them.                                           *)

\* Both sides of a step, read as scans.
LEMMA GetsAreScans ==
  ASSUME OrderInv, OrderInv', NEW k \in Keys, NEW max \in Nat
  PROVE  /\ Answer(Lookup(mem, imms, levels, k, max)) = Answer(Visible(Everything, k, max))
         /\ Answer(Lookup(mem', imms', levels', k, max)) = Answer(Visible(Everything', k, max))
<1>1. /\ mem \in SUBSET Record /\ imms \in Seq(Batch) /\ Sound(levels) /\ nextFile \in Nat
      /\ Layered({}, mem, imms, levels) /\ Disjoint(levels) /\ Numbered(levels, nextFile)
      /\ OncePerSeq(AllRecs(mem, imms, levels))
  BY DEF OrderInv, TypeInv, Everything
<1>2. /\ mem' \in SUBSET Record /\ imms' \in Seq(Batch) /\ Sound(levels') /\ nextFile' \in Nat
      /\ Layered({}, mem', imms', levels') /\ Disjoint(levels') /\ Numbered(levels', nextFile')
      /\ OncePerSeq(AllRecs(mem', imms', levels'))
  BY DEF OrderInv, TypeInv, Everything, Sound
<1>3. Answer(Lookup(mem, imms, levels, k, max)) = Answer(Visible(AllRecs(mem, imms, levels), k, max))
  BY <1>1, LookupFindsNewest
<1>4. Answer(Lookup(mem', imms', levels', k, max)) = Answer(Visible(AllRecs(mem', imms', levels'), k, max))
  BY <1>2, LookupFindsNewest
<1> QED
  BY <1>3, <1>4 DEF Everything

\* For a key that has no record above max, only a write of it changes what is
\* read at max.
LEMMA QuietStep ==
  ASSUME OrderInv, [Next]_vars, NEW k \in Keys, NEW max \in Nat,
         \A r \in Everything : r.key = k => r.seq <= max,
         \A v \in Vals \cup {Tomb} : Write(k, v) => max <= nextSeq
  PROVE  Answer(Lookup(mem', imms', levels', k, max)) = Answer(Lookup(mem, imms, levels, k, max))
<1>1. OrderInv'
  BY OrderNext
<1>2. Answer(Visible(Everything', k, max)) = Answer(Visible(Everything, k, max))
  <2>1. ASSUME NEW j \in Keys, NEW v \in Vals \cup {Tomb}, Write(j, v)
        PROVE  Visible(Everything', k, max) = Visible(Everything, k, max)
    <3> DEFINE r == [key |-> j, seq |-> nextSeq + 1, val |-> v]
    <3>1. Everything' = Everything \cup {r} /\ nextSeq \in Nat
      BY <2>1, WriteAdds
    <3>2. r.key = k => ~(r.seq <= max)
      BY <2>1, <3>1
    <3> QED
      BY <3>1, <3>2 DEF Visible
  <2>2. CASE Hidden
    BY <2>2 DEF Hidden
  <2>3. CASE UNCHANGED <<mem, imms, levels, nextFile>>
    BY <2>3 DEF Everything
  <2>4. CASE UNCHANGED vars
    BY <2>4 DEF Everything, vars
  <2> QED
    BY <2>1, <2>2, <2>3, <2>4, StepCases
<1>3. /\ Answer(Lookup(mem, imms, levels, k, max)) = Answer(Visible(Everything, k, max))
      /\ Answer(Lookup(mem', imms', levels', k, max)) = Answer(Visible(Everything', k, max))
  BY <1>1, GetsAreScans
<1> QED
  BY <1>2, <1>3

\* A step that loses no record changes nothing that is read below the last
\* sequence number.
LEMMA LosslessStep ==
  ASSUME OrderInv, [Next]_vars, Everything \subseteq Everything',
         NEW k \in Keys, NEW max \in Nat, max <= nextSeq
  PROVE  Answer(Lookup(mem', imms', levels', k, max)) = Answer(Lookup(mem, imms, levels, k, max))
<1>1. OrderInv'
  BY OrderNext
<1>2. Visible(Everything', k, max) = Visible(Everything, k, max)
  <2>1. ASSUME NEW j \in Keys, NEW v \in Vals \cup {Tomb}, Write(j, v)
        PROVE  Visible(Everything', k, max) = Visible(Everything, k, max)
    <3> DEFINE r == [key |-> j, seq |-> nextSeq + 1, val |-> v]
    <3>1. Everything' = Everything \cup {r} /\ nextSeq \in Nat
      BY <2>1, WriteAdds
    <3>2. ~(r.seq <= max)
      BY <3>1
    <3> QED
      BY <3>1, <3>2 DEF Visible
  <2>2. CASE Hidden
    BY <2>2 DEF Hidden
  <2>3. CASE UNCHANGED <<mem, imms, levels, nextFile>>
    BY <2>3 DEF Everything
  <2>4. CASE UNCHANGED vars
    BY <2>4 DEF Everything, vars
  <2> QED
    BY <2>1, <2>2, <2>3, <2>4, StepCases
<1>3. /\ Answer(Lookup(mem, imms, levels, k, max)) = Answer(Visible(Everything, k, max))
      /\ Answer(Lookup(mem', imms', levels', k, max)) = Answer(Visible(Everything', k, max))
  BY <1>1, GetsAreScans
<1> QED
  BY <1>2, <1>3

-----------------------------------------------------------------------------
(* Snapshots.                                                              *)

\* No open snapshot is older than the watermark.
LEMMA WatermarkIsOldest ==
  ASSUME OrderInv, NEW s \in OpenSnaps
  PROVE  Watermark <= snaps[s] /\ Watermark \in Nat
<1> DEFINE N == {snaps[x] : x \in OpenSnaps}
<1>1. N \in SUBSET Nat /\ snaps[s] \in N
  BY SnapshotNumber
<1> HIDE DEF N
<1>2. Min(N) \in N /\ \A n \in N : Min(N) <= n
  BY <1>1, MinOfNats
<1> QED
  BY <1>1, <1>2 DEF Watermark, N

\* A record is discarded only under a newer one of its key that stays, or with
\* its key, whose tombstone no open snapshot is older than and nothing is left
\* under (compact.rs, the tombstone rule against watermark and level).
THEOREM DiscardsAlwaysDead == Spec => DiscardsAreDead
<1> DEFINE A == \A r \in Everything \ Everything' : \E d \in Everything :
                  /\ d.key = r.key /\ d.seq >= r.seq
                  /\ \/ d \in Everything' /\ d # r
                     \/ /\ d.val = Tomb /\ \A s \in OpenSnaps : d.seq <= snaps[s]
                        /\ \A q \in Everything' : q.key = d.key => q.seq > d.seq
<1>1. OrderInv /\ [Next]_vars => A
  <2> SUFFICES ASSUME OrderInv, [Next]_vars, NEW r \in Everything, r \notin Everything'
               PROVE  \E d \in Everything :
                        /\ d.key = r.key /\ d.seq >= r.seq
                        /\ \/ d \in Everything' /\ d # r
                           \/ /\ d.val = Tomb /\ \A s \in OpenSnaps : d.seq <= snaps[s]
                              /\ \A q \in Everything' : q.key = d.key => q.seq > d.seq
    OBVIOUS
  <2>1. Hidden
    <3>1. ASSUME NEW j \in Keys, NEW v \in Vals \cup {Tomb}, Write(j, v) PROVE FALSE
      BY <3>1, WriteAdds
    <3>2. ~UNCHANGED <<mem, imms, levels, nextFile>> /\ ~UNCHANGED vars
      BY DEF Everything, vars
    <3> QED
      BY <3>1, <3>2, StepCases
  <2>2. PICK d : LetsGo(r, d, Everything, Everything', Watermark)
    BY <2>1 DEF Hidden
  <2>3. d \in Everything /\ d \in Record
    BY <2>2, AllRecsType DEF LetsGo, OrderInv, TypeInv, Everything
  <2>4. d.seq <= Watermark => \A s \in OpenSnaps : d.seq <= snaps[s]
    <3> SUFFICES ASSUME d.seq <= Watermark, NEW s \in OpenSnaps PROVE d.seq <= snaps[s]
      OBVIOUS
    <3>1. Watermark <= snaps[s] /\ Watermark \in Nat /\ snaps[s] \in Nat /\ d.seq \in Nat
      BY <2>3, WatermarkIsOldest, SnapshotNumber DEF Record
    <3> QED
      BY <3>1
  <2> QED
    BY <2>2, <2>3, <2>4 DEF LetsGo
<1>2. OrderInv /\ [Next]_vars => [A]_vars
  BY <1>1
<1> HIDE DEF A
<1>3. Spec => [][A]_vars
  BY <1>2, OrderAlways, PTL DEF Spec
<1> QED
  BY <1>3 DEF A, DiscardsAreDead

\* A snapshot just taken reads of every key what get reads: no record, in any
\* memtable or table, has a number above the last one given out (db.rs, snapshot).
THEOREM SnapshotsAreThePresent == Spec => SnapshotIsPresent
<1> DEFINE A == \A s \in Snapshots : snaps[s] = NoSnapshot /\ snaps'[s] # NoSnapshot =>
                  \A k \in Keys : Get(k, snaps[s])' = Get(k, MaxSeq)
<1>1. OrderInv /\ [Next]_vars => A
  <2> SUFFICES ASSUME OrderInv, [Next]_vars,
                      NEW s \in Snapshots, snaps[s] = NoSnapshot, snaps'[s] # NoSnapshot, NEW k \in Keys
               PROVE  Get(k, snaps[s])' = Get(k, MaxSeq)
    OBVIOUS
  <2>1. snaps'[s] = nextSeq /\ UNCHANGED <<mem, imms, levels>>
    <3>1. snaps' # snaps
      OBVIOUS
    <3>2. OtherStep
      BY <3>1, StepCases DEF Write, vars
    <3> QED
      BY <3>1, <3>2 DEF OtherStep, WriteFails, TakeSnapshot, DropSnapshot,
           CloseStart, CloseFinish, CloseFails, BgCheck, OrderInv, TypeInv
  <2>2. nextSeq \in Nat /\ MaxSeq \in Nat
    BY LsmAssumption DEF OrderInv, TypeInv, LsmAssumption
  <2>3. \A r \in Everything : r.seq <= nextSeq /\ r.seq <= MaxSeq
    BY AllRecsType, LsmAssumption DEF OrderInv, TypeInv, Everything, Record, LsmAssumption
  <2>4. Visible(Everything, k, nextSeq) = Visible(Everything, k, MaxSeq)
    BY <2>3 DEF Visible
  <2>5. Get(k, nextSeq) = Scan(k, nextSeq) /\ Get(k, MaxSeq) = Scan(k, MaxSeq)
    BY <2>2, GetIsScan
  <2>6. Get(k, nextSeq) = Get(k, MaxSeq)
    BY <2>4, <2>5 DEF Scan, Everything
  <2> QED
    BY <2>1, <2>6 DEF Get
<1>2. OrderInv /\ [Next]_vars => [A]_vars
  BY <1>1
<1> HIDE DEF A
<1>3. Spec => [][A]_vars
  BY <1>2, OrderAlways, PTL DEF Spec
<1> QED
  BY <1>3 DEF A, SnapshotIsPresent

\* No step changes what an open snapshot reads of a key that has not been
\* written since it was taken (compact.rs drops tombstones, db.rs the rest).
THEOREM SnapshotsKeepUnwritten == Spec => SnapshotKeepsUnwritten
<1> DEFINE A == \A s \in OpenSnaps : snaps'[s] = snaps[s] =>
                  \A k \in Unwritten(s) : Get(k, snaps[s])' = Get(k, snaps[s])
<1>1. OrderInv /\ [Next]_vars => A
  <2> SUFFICES ASSUME OrderInv, [Next]_vars,
                      NEW s \in OpenSnaps, snaps'[s] = snaps[s], NEW k \in Unwritten(s)
               PROVE  Get(k, snaps[s])' = Get(k, snaps[s])
    OBVIOUS
  <2>1. snaps[s] \in Nat /\ snaps[s] <= nextSeq /\ k \in Keys
    BY SnapshotNumber DEF Unwritten
  <2>2. \A r \in Everything : r.key = k => r.seq <= snaps[s]
    BY DEF Unwritten
  <2>3. Answer(Lookup(mem', imms', levels', k, snaps[s])) = Answer(Lookup(mem, imms, levels, k, snaps[s]))
    BY <2>1, <2>2, QuietStep
  <2> QED
    BY <2>3 DEF Get
<1>2. OrderInv /\ [Next]_vars => [A]_vars
  BY <1>1
<1> HIDE DEF A
<1>3. Spec => [][A]_vars
  BY <1>2, OrderAlways, PTL DEF Spec
<1> QED
  BY <1>3 DEF A, SnapshotKeepsUnwritten

\* Only a compaction that discards a version can change what a snapshot reads.
THEOREM SnapshotsStableWhileNothingLost == Spec => SnapshotStableWhileNothingLost
<1> DEFINE A == Everything \subseteq Everything' =>
                  \A s \in OpenSnaps : snaps'[s] = snaps[s] =>
                    \A k \in Keys : Get(k, snaps[s])' = Get(k, snaps[s])
<1>1. OrderInv /\ [Next]_vars => A
  <2> SUFFICES ASSUME OrderInv, [Next]_vars, Everything \subseteq Everything',
                      NEW s \in OpenSnaps, snaps'[s] = snaps[s], NEW k \in Keys
               PROVE  Get(k, snaps[s])' = Get(k, snaps[s])
    OBVIOUS
  <2>1. snaps[s] \in Nat /\ snaps[s] <= nextSeq
    BY SnapshotNumber
  <2>2. Answer(Lookup(mem', imms', levels', k, snaps[s])) = Answer(Lookup(mem, imms, levels, k, snaps[s]))
    BY <2>1, LosslessStep
  <2> QED
    BY <2>2 DEF Get
<1>2. OrderInv /\ [Next]_vars => [A]_vars
  BY <1>1
<1> HIDE DEF A
<1>3. Spec => [][A]_vars
  BY <1>2, OrderAlways, PTL DEF Spec
<1> QED
  BY <1>3 DEF A, SnapshotStableWhileNothingLost

-----------------------------------------------------------------------------
(* Refinement: the engine implements KVStore.                              *)

\* At the present a write sets its key and no other.
LEMMA WriteReads ==
  ASSUME OrderInv, NEW k \in Keys, NEW v \in Vals \cup {Tomb}, Write(k, v), NEW j \in Keys
  PROVE  Answer(Lookup(mem', imms', levels', j, MaxSeq))
           = IF j # k THEN Answer(Lookup(mem, imms, levels, j, MaxSeq))
             ELSE IF v = Tomb THEN NoValue ELSE v
<1> DEFINE r == [key |-> k, seq |-> nextSeq + 1, val |-> v]
           G == Visible(Everything', j, MaxSeq)
<1>1. OrderInv'
  <2>1. [Next]_vars
    BY DEF Next, Client
  <2> QED
    BY <2>1, OrderNext
<1>2. Everything' = Everything \cup {r} /\ r \in Record /\ nextSeq \in Nat /\ MaxSeq \in Nat
  BY WriteAdds, LsmAssumption DEF LsmAssumption
<1>3. Everything \subseteq Record
  BY AllRecsType DEF OrderInv, TypeInv, Everything
<1>4. /\ Answer(Lookup(mem, imms, levels, j, MaxSeq)) = Answer(Visible(Everything, j, MaxSeq))
      /\ Answer(Lookup(mem', imms', levels', j, MaxSeq)) = Answer(G)
  BY <1>1, <1>2, GetsAreScans
<1>5. CASE j # k
  <2>1. G = Visible(Everything, j, MaxSeq)
    BY <1>2, <1>5 DEF Visible
  <2> QED
    BY <1>4, <1>5, <2>1
<1>6. CASE j = k
  <2>1. r \in G /\ r.seq = nextSeq + 1 /\ r.val = v
    BY <1>2, <1>6 DEF Visible, Record
  <2>2. G \in SUBSET Record /\ OncePerSeq(G)
    BY <1>1, <1>2, <1>3 DEF Visible, OrderInv, OncePerSeq
  <2>3. \A q \in G : q.seq <= r.seq
    <3>1. \A q \in Everything' : q.seq <= nextSeq'
      BY <1>1 DEF OrderInv
    <3>2. nextSeq' = nextSeq + 1
      BY DEF Write
    <3> QED
      BY <2>1, <3>1, <3>2 DEF Visible
  <2> HIDE DEF G, r
  <2>4. Newest(G) = r
    BY <2>1, <2>2, <2>3, NewestIs
  <2>5. Answer(G) = IF v = Tomb THEN NoValue ELSE v
    BY <2>1, <2>4 DEF Answer
  <2> QED
    BY <1>4, <1>6, <2>5
<1> QED
  BY <1>5, <1>6

\* A new database is an empty store.
LEMMA RefinesInit == Init => KV!Init
<1> SUFFICES ASSUME Init PROVE KV!Init
  OBVIOUS
<1>1. OrderInv
  BY OrderInit
<1>2. Everything = {} /\ nextSeq = 0
  <2>1. \A r \in Everything : r.seq <= 0
    BY <1>1 DEF OrderInv, Init
  <2>2. Everything \subseteq Record
    BY <1>1, AllRecsType DEF OrderInv, TypeInv, Everything
  <2>3. \A r \in Record : ~(r.seq <= 0)
    BY DEF Record
  <2> QED
    BY <2>1, <2>2, <2>3 DEF Init
<1>3. ASSUME NEW k \in Keys PROVE Get(k, MaxSeq) = NoValue
  <2>1. Get(k, MaxSeq) = Scan(k, MaxSeq)
    BY <1>1, GetIsScan, LsmAssumption DEF LsmAssumption
  <2>2. Visible(AllRecs(mem, imms, levels), k, MaxSeq) = {}
    BY <1>2 DEF Visible, Everything
  <2> QED
    BY <2>1, <2>2 DEF Scan, Answer
<1> QED
  BY <1>2, <1>3 DEF KV!Init

\* Every step is a step of the store or leaves it as it is.
LEMMA RefinesNext ==
  OrderInv /\ [Next]_vars => [KV!Next]_<<[k \in Keys |-> Get(k, MaxSeq)], nextSeq>>
<1> SUFFICES ASSUME OrderInv, [Next]_vars
             PROVE  [KV!Next]_<<[k \in Keys |-> Get(k, MaxSeq)], nextSeq>>
  OBVIOUS
<1> DEFINE now  == [k \in Keys |-> Answer(Lookup(mem, imms, levels, k, MaxSeq))]
           next == [k \in Keys |-> Answer(Lookup(mem', imms', levels', k, MaxSeq))]
<1>1. /\ [k \in Keys |-> Get(k, MaxSeq)] = now
      /\ [k \in Keys |-> Get(k, MaxSeq)]' = next
  BY DEF Get
<1>2. MaxSeq \in Nat /\ nextSeq \in Nat /\ \A r \in Everything : r.seq <= MaxSeq
  <2>1. Everything \subseteq Record
    BY AllRecsType DEF OrderInv, TypeInv, Everything
  <2> QED
    BY <2>1, LsmAssumption DEF Record, LsmAssumption, OrderInv, TypeInv
<1>3. ASSUME NEW k \in Keys, NEW v \in Vals \cup {Tomb}, Write(k, v)
      PROVE  KV!Next
  <2>1. nextSeq' = nextSeq + 1
    BY <1>3 DEF Write
  <2>2. next = [now EXCEPT ![k] = IF v = Tomb THEN NoValue ELSE v]
    <3>1. \A j \in Keys : next[j] = IF j # k THEN now[j] ELSE IF v = Tomb THEN NoValue ELSE v
      BY <1>3, WriteReads
    <3> HIDE DEF next
    <3>2. next = [j \in Keys |-> next[j]]
      BY DEF next
    <3> QED
      BY <3>1, <3>2
  <2> HIDE DEF now, next
  <2>3. CASE v = Tomb
    <3>1. KV!Delete(k)
      BY <1>1, <2>1, <2>2, <2>3 DEF KV!Delete
    <3> QED
      BY <3>1 DEF KV!Next
  <2>4. CASE v # Tomb
    <3>1. v \in Vals /\ KV!Put(k, v)
      BY <1>1, <2>1, <2>2, <2>4 DEF KV!Put
    <3> QED
      BY <3>1 DEF KV!Next
  <2> QED
    BY <2>3, <2>4
<1>4. ASSUME \A k \in Keys, v \in Vals \cup {Tomb} : ~Write(k, v)
      PROVE  next = now
  <2>1. ASSUME NEW k \in Keys
        PROVE  Answer(Lookup(mem', imms', levels', k, MaxSeq)) = Answer(Lookup(mem, imms, levels, k, MaxSeq))
    BY <1>2, <1>4, QuietStep
  <2> QED
    BY <2>1
<1> HIDE DEF now, next
<1>5. CASE WriteFails
  <2>1. nextSeq' = nextSeq + 1
    BY <1>5 DEF WriteFails
  <2>2. next = now
    <3>1. mem' = mem /\ imms' = imms /\ levels' = levels
      BY <1>5 DEF WriteFails
    <3> QED
      BY <3>1 DEF now, next
  <2>3. KV!Failed
    BY <1>1, <2>1, <2>2 DEF KV!Failed
  <2> QED
    BY <2>3 DEF KV!Next
<1>6. CASE (\A k \in Keys, v \in Vals \cup {Tomb} : ~Write(k, v)) /\ ~WriteFails
  <2>1. nextSeq' = nextSeq
    BY <1>6 DEF Next, Client, Background, Flush, Compact, TakeSnapshot, DropSnapshot, CloseStart,
         CloseFinish, CloseFails, BgCheck, BgWork, vars
  <2>2. next = now
    BY <1>4, <1>6
  <2> QED
    BY <1>1, <2>1, <2>2
<1> QED
  BY <1>3, <1>5, <1>6

\* The engine implements the abstract map, for any keys, options and bounds:
\* freezes, flushes, compactions, their failures, snapshots and close are
\* invisible to get, and a write changes its own key only.
THEOREM EngineImplementsKVStore == Spec => ImplementsKVStore
BY RefinesInit, RefinesNext, OrderAlways, PTL DEF Spec, ImplementsKVStore, KV!Spec

-----------------------------------------------------------------------------
(* Progress: the variant of maintenance.                                   *)

\* What DownTo collects.
LEMMA DownToAre ==
  ASSUME NEW m, NEW im, NEW lv, NEW p, NEW q
  PROVE  q \in DownTo(m, im, lv, p) <=> \/ q \in m
                                        \/ p # 0 /\ \E i \in DOMAIN im : q \in im[i]
                                        \/ \E l \in Level : l + 2 <= p /\ \E t \in lv[l] : q \in t.recs
<1>1. q \in (IF p = 0 THEN {} ELSE UNION {im[i] : i \in DOMAIN im})
        <=> p # 0 /\ \E i \in DOMAIN im : q \in im[i]
  OBVIOUS
<1>2. q \in UNION {Recs(lv[l]) : l \in {x \in Level : x + 2 <= p}}
        <=> \E l \in Level : l + 2 <= p /\ \E t \in lv[l] : q \in t.recs
  BY DEF Recs
<1> QED
  BY <1>1, <1>2 DEF DownTo

\* What stands at a place or above it is part of everything.
LEMMA DownToInAll ==
  ASSUME NEW m, NEW im, NEW lv, NEW p
  PROVE  DownTo(m, im, lv, p) \subseteq AllRecs(m, im, lv)
BY DownToAre, AllRecsAre

\* The work left shrank.
Shrinks(m, im, lv, m2, im2, lv2) ==
  /\ Work(m2, im2, lv2) \subseteq Work(m, im, lv)
  /\ Work(m2, im2, lv2) # Work(m, im, lv)

\* It does when no record rises and one of them sinks below some place.
LEMMA ShrinksIf ==
  ASSUME NEW m, NEW im, NEW lv, NEW m2, NEW im2, NEW lv2,
         \A p \in 0..(MaxLevels + 1) : DownTo(m2, im2, lv2, p) \subseteq DownTo(m, im, lv, p),
         NEW p \in 0..(MaxLevels + 1), NEW q \in DownTo(m, im, lv, p), q \notin DownTo(m2, im2, lv2, p)
  PROVE  Shrinks(m, im, lv, m2, im2, lv2)
<1>1. \A w \in Work(m2, im2, lv2) : w \in Work(m, im, lv)
  BY DownToInAll DEF Work
<1>2. <<q, p>> \in Work(m, im, lv)
  BY DownToInAll DEF Work
<1>3. <<q, p>> \notin Work(m2, im2, lv2)
  BY DEF Work
<1> QED
  BY <1>1, <1>2, <1>3 DEF Shrinks

\* Two steps of which neither adds work and one takes some away.
LEMMA ShrinksChain ==
  ASSUME NEW A, NEW B, NEW C, B \subseteq A, C \subseteq B, B # A \/ C # B
  PROVE  C \subseteq A /\ C # A
OBVIOUS

\* A record is not held twice by places of which one is newer.
LEMMA NewerApart ==
  ASSUME NEW S, NEW T, Newer({}, S, T), NEW q \in S, q.seq \in Nat
  PROVE  q \notin T
BY DEF Newer

\* Freezing a memtable that holds something moves it down a place.
LEMMA FreezeShrinks ==
  ASSUME NEW m \in SUBSET Record, NEW im \in Seq(Batch), NEW lv, m # {}
  PROVE  Shrinks(m, im, lv, {}, Append(im, m), lv)
<1> DEFINE an == Append(im, m)
<1>1. /\ DOMAIN an = 1..(Len(im) + 1) /\ DOMAIN im = 1..Len(im) /\ Len(im) \in Nat
      /\ \A i \in DOMAIN im : an[i] = im[i]
      /\ an[Len(im) + 1] = m
  OBVIOUS
<1> HIDE DEF an
<1>2. \A i \in DOMAIN an : i \in DOMAIN im \/ an[i] = m
  BY <1>1
<1>3. ASSUME NEW p \in 0..(MaxLevels + 1), NEW q \in DownTo({}, an, lv, p)
      PROVE  q \in DownTo(m, im, lv, p)
  BY <1>1, <1>2, DownToAre
<1>4. PICK q \in m : TRUE
  OBVIOUS
<1>5. q \in DownTo(m, im, lv, 0)
  BY DownToAre
<1>6. q \notin DownTo({}, an, lv, 0)
  <2>1. \A l \in Level : ~(l + 2 <= 0)
    BY LsmAssumption DEF Level, LsmAssumption
  <2> QED
    BY <2>1, DownToAre
<1>7. 0 \in 0..(MaxLevels + 1)
  BY LsmAssumption DEF LsmAssumption
<1> QED
  BY <1>3, <1>5, <1>6, <1>7, ShrinksIf DEF an

\* Turning frozen memtables into tables moves them down a place.
LEMMA FlushShrinks ==
  ASSUME NEW m \in SUBSET Record, NEW im \in Seq(Batch), NEW lv, Sound(lv), NEW nf \in Nat \ {0},
         NEW n \in 0..Len(im), Layered({}, m, im, lv), n # 0
  PROVE  LET f == FlushImms(im, lv, nf, n)
         IN  Shrinks(m, im, lv, m, f.imms, f.levels)
<1> DEFINE f  == FlushImms(im, lv, nf, n)
           ts == {MkTable(nf + i - 1, im[i]) : i \in 1..n}
<1>0. 0 \in Level /\ Level \subseteq Nat /\ MaxLevels \in Nat
  BY LsmAssumption DEF Level, LsmAssumption
<1>1. f.imms = SubSeq(im, n + 1, Len(im)) /\ f.levels = [lv EXCEPT ![0] = @ \cup ts]
  BY DEF FlushImms
<1>2. f.levels[0] = lv[0] \cup ts /\ \A l \in Level \ {0} : f.levels[l] = lv[l]
  BY <1>0, <1>1 DEF Sound
<1>3. /\ DOMAIN im = 1..Len(im)
      /\ \A j \in DOMAIN f.imms : f.imms[j] = im[n + j] /\ n + j \in DOMAIN im /\ 1 < n + j
  BY <1>1
<1>4. \A t \in ts : \E i \in DOMAIN im : t.recs = im[i]
  <2>1. \A i \in 1..n : im[i] \in Batch /\ nf + i - 1 \in Nat
    OBVIOUS
  <2> QED
    BY <2>1, MkTableBuilt
<1> HIDE DEF f, ts
<1>5. ASSUME NEW p \in 0..(MaxLevels + 1), NEW q \in DownTo(m, f.imms, f.levels, p)
      PROVE  q \in DownTo(m, im, lv, p)
  <2>1. CASE p # 0 /\ \E j \in DOMAIN f.imms : q \in f.imms[j]
    BY <1>3, <2>1, DownToAre
  <2>2. ASSUME NEW l \in Level, l + 2 <= p, NEW t \in f.levels[l], q \in t.recs
        PROVE  q \in DownTo(m, im, lv, p)
    <3>1. p # 0 /\ (t \in lv[l] \/ t \in ts)
      BY <1>0, <1>2, <2>2
    <3> QED
      BY <1>4, <2>2, <3>1, DownToAre
  <2> QED
    BY <2>1, <2>2, DownToAre
<1>6. 1 \in DOMAIN im /\ im[1] \in Batch
  BY <1>3
<1>7. PICK q \in im[1] : q \in Record
  BY <1>6 DEF Batch
<1>8. q \in DownTo(m, im, lv, 1)
  BY <1>6, <1>7, DownToAre
<1>9. q \notin DownTo(m, f.imms, f.levels, 1)
  <2>1. q.seq \in Nat
    BY <1>7 DEF Record
  <2>2. q \notin m
    <3>1. Newer({}, m, im[1])
      BY <1>6 DEF Layered
    <3> QED
      BY <1>7, <2>1, <3>1 DEF Newer
  <2>3. ASSUME NEW j \in DOMAIN f.imms PROVE q \notin f.imms[j]
    <3>1. Newer({}, im[n + j], im[1]) /\ f.imms[j] = im[n + j]
      BY <1>3, <1>6 DEF Layered
    <3> QED
      BY <1>7, <2>1, <3>1 DEF Newer
  <2>4. \A l \in Level : ~(l + 2 <= 1)
    BY <1>0
  <2> QED
    BY <2>2, <2>3, <2>4, DownToAre
<1>10. 1 \in 0..(MaxLevels + 1)
  BY <1>0
<1> QED
  BY <1>5, <1>8, <1>9, <1>10, ShrinksIf DEF f

\* A compaction moves what it takes out of the upper level down, and brings
\* nothing up from the lower one.
LEMMA CompactShrinks ==
  ASSUME NEW m \in SUBSET Record, NEW im \in Seq(Batch), NEW lv, Sound(lv), Disjoint(lv),
         Layered({}, m, im, lv), NEW nf \in Nat \ {0}, NEW wm, Overfull(lv) # {}
  PROVE  Shrinks(m, im, lv, m, im, MaybeCompact(lv, nf, wm).levels)
<1> DEFINE l    == JobLevel(lv)
           up   == Upper(lv, l)
           low  == Lower(lv, l)
           c    == MaybeCompact(lv, nf, wm)
           surv == Survivors(Merged(lv), l + 1, wm)
           outs == Outputs(surv, nf)
<1>1. /\ l \in Level /\ l + 1 \in Level /\ l \in Nat
      /\ up \subseteq lv[l] /\ low \subseteq lv[l + 1]
      /\ Recs(outs) = surv
      /\ c.levels[l] = lv[l] \ up
      /\ c.levels[l + 1] = (lv[l + 1] \ low) \cup outs
      /\ \A x \in Level \ {l, l + 1} : c.levels[x] = lv[x]
  BY CompactParts
<1>2. up # {} /\ (l = 0 => up = lv[0])
  BY JobInputs, SoundLevels DEF Upper
<1>3. l # 0 => \E t : up = {t}
  BY DEF Upper
<1>4. surv \subseteq Merged(lv) /\ Merged(lv) = Recs(up \cup low)
  BY SurvivorsAre DEF Merged
<1> HIDE DEF l, up, low, c, surv, outs
<1>5. MaxLevels \in Nat /\ l + 2 \in 0..(MaxLevels + 1)
  BY <1>1, LsmAssumption DEF Level, LsmAssumption
<1>6. ASSUME NEW p \in 0..(MaxLevels + 1), NEW q \in DownTo(m, im, c.levels, p)
      PROVE  q \in DownTo(m, im, lv, p)
  <2>1. ASSUME NEW x \in Level, x + 2 <= p, NEW t \in c.levels[x], q \in t.recs
        PROVE  \E y \in Level : y + 2 <= p /\ \E u \in lv[y] : q \in u.recs
    <3>1. CASE t \in lv[x]
      BY <2>1, <3>1
    <3>2. CASE x = l + 1 /\ t \in outs
      <4>1. q \in Merged(lv)
        BY <1>1, <1>4, <2>1, <3>2 DEF Recs
      <4>2. PICK u \in up \cup low : q \in u.recs
        BY <1>4, <4>1 DEF Recs
      <4>3. l + 2 <= p /\ l + 1 + 2 <= p
        BY <1>1, <2>1, <3>2
      <4> QED
        BY <1>1, <4>2, <4>3
    <3> QED
      BY <1>1, <3>1, <3>2
  <2> QED
    BY <2>1, DownToAre
<1>7. PICK t \in up : TRUE
  BY <1>2
<1>8. t \in lv[l] /\ t \in Built
  BY <1>1, <1>7 DEF Sound
<1>9. PICK q \in t.recs : q \in Record
  BY <1>8 DEF Built, Batch
<1>10. q \in DownTo(m, im, lv, l + 2)
  <2>1. l + 2 <= l + 2
    BY <1>1
  <2> QED
    BY <1>1, <1>8, <1>9, <2>1, DownToAre
<1>11. q \notin DownTo(m, im, c.levels, l + 2)
  <2>1. q.seq \in Nat /\ q \in Recs(lv[l]) /\ Newer({}, m, Recs(lv[l]))
    BY <1>1, <1>8, <1>9 DEF Record, Recs, Layered
  <2>2. q \notin m
    BY <2>1 DEF Newer
  <2>3. ASSUME NEW i \in DOMAIN im PROVE q \notin im[i]
    <3>1. Newer({}, im[i], Recs(lv[l]))
      BY <1>1 DEF Layered
    <3> QED
      BY <2>1, <3>1 DEF Newer
  <2>4. ASSUME NEW x \in Level, x + 2 <= l + 2, NEW u \in c.levels[x] PROVE q \notin u.recs
    <3>1. CASE x = l
      <4>1. u \in lv[l] /\ u \notin up /\ l # 0
        BY <1>1, <1>2, <2>4, <3>1
      <4>2. Apart(t, u)
        BY <1>1, <1>7, <1>8, <4>1 DEF Disjoint
      <4>3. u \in Built
        BY <1>1, <4>1 DEF Sound
      <4>4. \A r \in u.recs : u.lo <= r.key /\ r.key <= u.hi /\ r.key \in Nat
        BY <4>3, BuiltRange
      <4>5. t.lo <= q.key /\ q.key <= t.hi
        BY <1>8, <1>9, BuiltRange
      <4>6. t.lo \in Nat /\ t.hi \in Nat /\ u.lo \in Nat /\ u.hi \in Nat
        BY <1>8, <4>3, BuiltRange
      <4> QED
        BY <4>2, <4>4, <4>5, <4>6 DEF Apart
    <3>2. CASE x # l
      <4>1. x < l /\ x # l + 1
        BY <1>1, <2>4, <3>2, LsmAssumption DEF Level, LsmAssumption
      <4>2. Newer({}, Recs(lv[x]), Recs(lv[l])) /\ u \in lv[x]
        BY <1>1, <2>4, <3>2, <4>1 DEF Layered
      <4>3. u.recs \subseteq Recs(lv[x])
        BY <4>2 DEF Recs
      <4> QED
        BY <2>1, <4>2, <4>3 DEF Newer
    <3> QED
      BY <3>1, <3>2
  <2> QED
    BY <2>2, <2>3, <2>4, DownToAre
<1> QED
  BY <1>5, <1>6, <1>10, <1>11, ShrinksIf DEF c

\* A flush that turns nothing into a table leaves memtables and levels.
LEMMA EmptyFlush ==
  ASSUME NEW im \in Seq(Batch), NEW lv, Sound(lv), NEW nf
  PROVE  FlushImms(im, lv, nf, 0).imms = im /\ FlushImms(im, lv, nf, 0).levels = lv
<1>1. FlushImms(im, lv, nf, 0).imms = SubSeq(im, 1, Len(im))
  BY DEF FlushImms
<1>2. SubSeq(im, 1, Len(im)) = im
  OBVIOUS
<1>3. FlushImms(im, lv, nf, 0).levels
        = [lv EXCEPT ![0] = @ \cup {MkTable(nf + i - 1, im[i]) : i \in 1..0}]
  BY DEF FlushImms
<1>4. {MkTable(nf + i - 1, im[i]) : i \in 1..0} = {}
  <2>1. 1..0 = {}
    OBVIOUS
  <2> QED
    BY <2>1, Zenon
<1>5. [lv EXCEPT ![0] = @ \cup {}] = lv
  BY DEF Sound
<1> QED
  BY <1>1, <1>2, <1>3, <1>4, <1>5

\* Whatever becomes of a compaction, it leaves the levels or less to do; and
\* one that met no error, with a level overfull, leaves less to do.
LEMMA OutcomeShrinks ==
  ASSUME NEW m \in SUBSET Record, NEW im \in Seq(Batch), NEW lv, Sound(lv), Disjoint(lv),
         Layered({}, m, im, lv), NEW nf \in Nat \ {0}, NEW c \in Outcomes(lv, nf)
  PROVE  /\ c.levels = lv \/ Shrinks(m, im, lv, m, im, c.levels)
         /\ CompactionDone(lv, c.levels) /\ Overfull(lv) # {} => Shrinks(m, im, lv, m, im, c.levels)
<1> DEFINE d == MaybeCompact(lv, nf, Watermark)
<1>1. c = d \/ c \in [levels : {lv}, nextFile : {nf, d.nextFile}]
  BY Zenon DEF Outcomes, CompactOutcomes
<1>2. Overfull(lv) = {} => d.levels = lv
  BY DEF MaybeCompact
<1>3. Overfull(lv) # {} => Shrinks(m, im, lv, m, im, d.levels)
  BY CompactShrinks
<1> HIDE DEF d
<1>4. c.levels = d.levels \/ c.levels = lv
  BY <1>1
<1> QED
  BY <1>2, <1>3, <1>4 DEF CompactionDone

\* A flush by a caller that moves anything leaves less to do.
LEMMA FlushStepShrinks ==
  ASSUME OrderInv, NEW n, Flush(n), <<mem, imms, levels>>' # <<mem, imms, levels>>
  PROVE  WorkShrinks
<1> DEFINE f == FlushImms(Frozen, levels, nextFile, n)
<1>1. /\ n \in 0..Len(Frozen)
      /\ mem' = {} /\ imms' = f.imms /\ levels' = f.levels
  BY DEF Flush
<1>2. /\ Frozen \in Seq(Batch) /\ Sound(levels) /\ nextFile \in Nat \ {0} /\ imms \in Seq(Batch)
      /\ mem \in SUBSET Record
  BY FrozenType DEF OrderInv, TypeInv
<1>3. Layered({}, {}, Frozen, levels)
  BY <1>2, FreezeKeepsOrder DEF Frozen, OrderInv
<1>4. IF mem = {} THEN Frozen = imms ELSE Shrinks(mem, imms, levels, {}, Frozen, levels)
  BY <1>2, FreezeShrinks DEF Frozen
<1>5. n # 0 => Shrinks({}, Frozen, levels, {}, f.imms, f.levels)
  BY <1>1, <1>2, <1>3, FlushShrinks
<1>6. n = 0 => f.imms = Frozen /\ f.levels = levels
  BY <1>2, EmptyFlush
<1>7. mem # {} \/ n # 0
  BY <1>1, <1>4, <1>6
<1> HIDE DEF f
<1>8. Work({}, f.imms, f.levels) \subseteq Work(mem, imms, levels)
      /\ Work({}, f.imms, f.levels) # Work(mem, imms, levels)
  BY <1>4, <1>5, <1>6, <1>7, ShrinksChain DEF Shrinks
<1> QED
  BY <1>1, <1>8 DEF WorkShrinks

\* So does a turn of compact() that moves anything.
LEMMA CompactStepShrinks ==
  ASSUME OrderInv, Compact, <<mem, imms, levels>>' # <<mem, imms, levels>>
  PROVE  WorkShrinks
<1>1. PICK c \in Outcomes(levels, nextFile) : levels' = c.levels
  BY DEF Compact
<1>2. mem' = mem /\ imms' = imms
  BY DEF Compact
<1>3. c.levels = levels \/ Shrinks(mem, imms, levels, mem, imms, c.levels)
  BY OutcomeShrinks DEF OrderInv, TypeInv
<1> QED
  BY <1>1, <1>2, <1>3 DEF Shrinks, WorkShrinks

\* And a turn of the background thread; one without an I/O error moves
\* something if there is anything to move.
LEMMA BgWorkShrinks ==
  ASSUME OrderInv, NEW n, BgWork(n),
         \/ <<mem, imms, levels>>' # <<mem, imms, levels>>
         \/ bg' = "check" /\ (imms # <<>> \/ Overfull(levels) # {})
  PROVE  WorkShrinks
<1> DEFINE f == FlushImms(imms, levels, nextFile, n)
<1>1. PICK c \in Outcomes(f.levels, f.nextFile) :
        /\ imms' = f.imms /\ levels' = c.levels
        /\ bg' = IF n = Len(imms) /\ CompactionDone(f.levels, c.levels) THEN "check" ELSE "failed"
  BY DEF BgWork
<1>2. n \in 0..Len(imms) /\ mem' = mem
  BY DEF BgWork
<1>3. mem \in SUBSET Record /\ imms \in Seq(Batch) /\ Sound(levels) /\ nextFile \in Nat \ {0}
  BY DEF OrderInv, TypeInv
<1>4. f.imms \in Seq(Batch) /\ Sound(f.levels) /\ f.nextFile \in Nat \ {0}
  BY <1>2, <1>3, FlushResult
<1>5. Layered({}, mem, f.imms, f.levels) /\ Disjoint(f.levels)
  BY <1>2, <1>3, FlushKeepsOrder DEF OrderInv
<1>6. n # 0 => Shrinks(mem, imms, levels, mem, f.imms, f.levels)
  BY <1>2, <1>3, FlushShrinks DEF OrderInv
<1>7. n = 0 => f.imms = imms /\ f.levels = levels
  BY <1>3, EmptyFlush
<1> HIDE DEF f
<1>8. /\ c.levels = f.levels \/ Shrinks(mem, f.imms, f.levels, mem, f.imms, c.levels)
      /\ CompactionDone(f.levels, c.levels) /\ Overfull(f.levels) # {}
           => Shrinks(mem, f.imms, f.levels, mem, f.imms, c.levels)
  BY <1>3, <1>4, <1>5, OutcomeShrinks
<1>9. n # 0 \/ Shrinks(mem, f.imms, f.levels, mem, f.imms, c.levels)
  <2>1. CASE <<mem, imms, levels>>' # <<mem, imms, levels>>
    BY <1>1, <1>2, <1>7, <1>8, <2>1
  <2>2. CASE bg' = "check" /\ (imms # <<>> \/ Overfull(levels) # {})
    <3>1. n = Len(imms) /\ CompactionDone(f.levels, c.levels)
      BY <1>1, <2>2
    <3>2. Len(imms) = 0 => imms = <<>>
      BY <1>3
    <3> QED
      BY <1>7, <1>8, <2>2, <3>1, <3>2
  <2> QED
    BY <2>1, <2>2
<1>10. Work(mem, f.imms, c.levels) \subseteq Work(mem, imms, levels)
       /\ Work(mem, f.imms, c.levels) # Work(mem, imms, levels)
  BY <1>6, <1>7, <1>8, <1>9, ShrinksChain DEF Shrinks
<1> QED
  BY <1>1, <1>2, <1>10 DEF WorkShrinks

\* Memtables and tables are finite, and so is the work left.
LEMMA WorkFinite ==
  ASSUME NEW m \in SUBSET Record, IsFiniteSet(m), NEW im \in Seq(Batch), NEW lv, Sound(lv)
  PROVE  IsFiniteSet(Work(m, im, lv))
<1> DEFINE D == {im[i] : i \in DOMAIN im}
           f == [i \in DOMAIN im |-> im[i]]
           R == {Recs(lv[l]) : l \in Level}
           g == [l \in Level |-> Recs(lv[l])]
<1>1. IsFiniteSet(UNION D)
  <2>1. IsFiniteSet(DOMAIN im)
    <3>1. DOMAIN im = 1..Len(im)
      OBVIOUS
    <3> QED
      BY <3>1, FS_Interval
  <2>2. f \in [DOMAIN im -> D] /\ \A y \in D : \E i \in DOMAIN im : f[i] = y
    OBVIOUS
  <2>3. \A y \in D : IsFiniteSet(y)
    BY DEF Batch
  <2> HIDE DEF f, D
  <2>4. IsFiniteSet(D)
    BY <2>1, <2>2, FiniteImage, ZenonT(30)
  <2> QED
    BY <2>3, <2>4, FS_UNION
<1>2. IsFiniteSet(UNION R)
  <2>1. IsFiniteSet(Level)
    BY FS_Interval, LsmAssumption DEF Level, LsmAssumption
  <2>2. g \in [Level -> R] /\ \A y \in R : \E l \in Level : g[l] = y
    OBVIOUS
  <2>3. ASSUME NEW l \in Level PROVE IsFiniteSet(Recs(lv[l]))
    <3>1. IsFiniteSet(lv[l]) /\ \A t \in lv[l] : t.recs \in Batch
      BY DEF Sound, Built
    <3> QED
      BY <3>1, RecsFinite
  <2>4. \A y \in R : IsFiniteSet(y)
    BY <2>3
  <2> HIDE DEF g, R
  <2>5. IsFiniteSet(R)
    BY <2>1, <2>2, FiniteImage, ZenonT(30)
  <2> QED
    BY <2>4, <2>5, FS_UNION
<1>3. AllRecs(m, im, lv) = m \cup (UNION D) \cup (UNION R)
  BY DEF AllRecs
<1> HIDE DEF D, R
<1>4. IsFiniteSet(AllRecs(m, im, lv))
  <2>1. IsFiniteSet(m \cup (UNION D))
    BY <1>1, FS_Union
  <2>2. IsFiniteSet((m \cup (UNION D)) \cup (UNION R))
    BY <1>2, <2>1, FS_Union
  <2> QED
    BY <1>3, <2>2
<1>5. IsFiniteSet(0..(MaxLevels + 1))
  BY FS_Interval, LsmAssumption DEF LsmAssumption
<1>6. IsFiniteSet(AllRecs(m, im, lv) \X (0..(MaxLevels + 1)))
  BY <1>4, <1>5, FS_Product
<1>7. Work(m, im, lv) \subseteq AllRecs(m, im, lv) \X (0..(MaxLevels + 1))
  BY DEF Work
<1> QED
  BY <1>6, <1>7, FS_Subset

\* Maintenance comes to an end (db.rs:364-461, compact.rs): the work
\* left is finite, only a write adds to it, and every other step that moves a
\* record takes some of it away.
THEOREM MaintenanceAlwaysSinks ==
  Spec => MaintenanceSinks /\ []IsFiniteSet(Work(mem, imms, levels))
<1> DEFINE A == nextSeq' = nextSeq /\ <<mem, imms, levels>>' # <<mem, imms, levels>> => WorkShrinks
<1>1. OrderInv /\ [Next]_vars => A
  <2> SUFFICES ASSUME OrderInv, [Next]_vars, nextSeq' = nextSeq,
                      <<mem, imms, levels>>' # <<mem, imms, levels>>
               PROVE  WorkShrinks
    OBVIOUS
  <2>1. ASSUME NEW k \in Keys, NEW v \in Vals \cup {Tomb}, Write(k, v) PROVE FALSE
    <3>1. nextSeq' = nextSeq + 1 /\ nextSeq \in Nat
      BY <2>1, WriteAdds
    <3> QED
      BY <3>1
  <2>2. ~OtherStep
    BY DEF OtherStep, WriteFails, TakeSnapshot, DropSnapshot,
         CloseStart, CloseFinish, CloseFails, BgCheck
  <2>3. Next
    BY DEF vars
  <2> QED
    BY <2>1, <2>2, <2>3, NextCases, FlushStepShrinks, CompactStepShrinks, BgWorkShrinks
<1>2. OrderInv /\ [Next]_vars => [A]_vars
  BY <1>1
<1> HIDE DEF A
<1>3. Spec => [][A]_vars
  BY <1>2, OrderAlways, PTL DEF Spec
<1>4. OrderInv => IsFiniteSet(Work(mem, imms, levels))
  BY WorkFinite DEF OrderInv, TypeInv
<1>5. Spec => []IsFiniteSet(Work(mem, imms, levels))
  BY <1>4, OrderAlways, PTL
<1> QED
  BY <1>3, <1>5 DEF A, MaintenanceSinks

\* A writer is stalled only while there is something to flush or to compact.
LEMMA StallMeansWork ==
  ASSUME TypeInv, Stalled(imms, levels)
  PROVE  imms # <<>> \/ Overfull(levels) # {}
<1>1. CASE Len(imms) >= 2
  BY <1>1
<1>2. CASE Cardinality(levels[0]) >= L0Trigger * 2
  <2>1. Cardinality(levels[0]) >= L0Trigger
    BY <1>2, BackpressureNumbers
  <2>2. 0 \in Overfull(levels)
    BY <2>1, LsmAssumption DEF Overfull, LsmAssumption
  <2> QED
    BY <2>2
<1> QED
  BY <1>1, <1>2 DEF Stalled

\* A turn of the background thread that meets no I/O error leaves less to do
\* whenever there is anything to do, and there is in every stall
\* (db.rs:346-362): the loop cannot spin beside a stalled writer.
THEOREM TurnsAlwaysDoWork == Spec => TurnsDoWork
<1> DEFINE A == FullTurn /\ (imms # <<>> \/ Overfull(levels) # {} \/ Stalled(imms, levels))
                  => WorkShrinks
<1>1. OrderInv /\ [Next]_vars => A
  <2> SUFFICES ASSUME OrderInv, [Next]_vars, FullTurn,
                      imms # <<>> \/ Overfull(levels) # {} \/ Stalled(imms, levels)
               PROVE  WorkShrinks
    OBVIOUS
  <2>1. imms # <<>> \/ Overfull(levels) # {}
    BY StallMeansWork DEF OrderInv
  <2>2. PICK n : BgWork(n)
    <3>1. bg' # bg /\ bg = "work"
      BY DEF FullTurn
    <3>2. Next
      BY <3>1 DEF vars
    <3> QED
      BY <3>1, <3>2 DEF Next, Client, Background, Write, WriteFails, Flush, Compact,
           TakeSnapshot, DropSnapshot, CloseStart, CloseFinish, CloseFails, BgCheck
  <2> QED
    BY <2>1, <2>2, BgWorkShrinks DEF FullTurn
<1>2. OrderInv /\ [Next]_vars => [A]_vars
  BY <1>1
<1> HIDE DEF A
<1>3. Spec => [][A]_vars
  BY <1>2, OrderAlways, PTL DEF Spec
<1> QED
  BY <1>3 DEF A, TurnsDoWork

=============================================================================
