---------------------------- MODULE MergeProofs ----------------------------
(***************************************************************************)
(* Theorems about the merge loops, for any keys, options and number of     *)
(* streams: turn by turn they compute what Lsm states as sets, and the     *)
(* tables they build answer for their records.                             *)
(***************************************************************************)
EXTENDS Merge, TableProofs

-----------------------------------------------------------------------------
(* What goes into the streams.                                             *)

\* All that is merged, and of it the newest record of each key.
Input == UNION {Stream(job, i, sources[i]) : i \in 1..Sources}
Firsts == {r \in Input : \A q \in Input : q.key = r.key => q.seq <= r.seq}

\* The sources hold records, each written once.
SourcesFit ==
  /\ sources \in [1..Sources -> SUBSET Record]
  /\ OncePerSeq(All)
  /\ job \in Jobs

\* Sequence numbers have room in the tag, so a record is read as it was added.
LEMMA DecodedIs == \A r \in Record : Decoded(r) = r
<1> SUFFICES ASSUME NEW r \in Record PROVE Decoded(r) = r
  OBVIOUS
<1>1. r.seq \in Nat /\ r.seq < SeqSpan /\ SeqSpan \in Nat
  BY LsmAssumption, TableAssumption DEF Record, LsmAssumption, TableAssumption
<1>2. r.seq % SeqSpan = r.seq
  BY <1>1
<1>3. r = [key |-> r.key, seq |-> r.seq, val |-> r.val]
  BY DEF Record
<1> QED
  BY <1>2, <1>3 DEF Decoded

\* A set of records that are told apart by their numbers is finite.
LEMMA OncePerSeqFinite ==
  ASSUME NEW S \in SUBSET Record, OncePerSeq(S)
  PROVE  IsFiniteSet(S)
<1> DEFINE f == [r \in S |-> r.seq]
<1>1. f \in [S -> 1..MaxSeq]
  BY DEF Record
<1>2. \A r, q \in S : f[r] = f[q] => r = q
  BY DEF OncePerSeq
<1> HIDE DEF f
<1>3. f \in Injection(S, 1..MaxSeq)
  BY <1>1, <1>2 DEF Injection, IsInjective
<1>4. IsFiniteSet(1..MaxSeq)
  BY FS_Interval, LsmAssumption DEF LsmAssumption
<1> QED
  BY <1>3, <1>4, FS_Injection

\* A stream has records of its source: of a memtable in a scan the newest
\* visible ones, of a table all that are visible, else all.
LEMMA StreamIs ==
  ASSUME SourcesFit, NEW i \in 1..Sources
  PROVE  /\ Stream(job, i, sources[i]) \subseteq sources[i]
         /\ job.kind = "compact" => Stream(job, i, sources[i]) = sources[i]
         /\ job.kind = "flush" => Stream(job, i, sources[i]) = IF i = 1 THEN sources[i] ELSE {}
         /\ job.kind = "scan" =>
              Stream(job, i, sources[i]) =
                IF i <= job.mems THEN MemStream(sources[i], job.start, job.max)
                ELSE {r \in sources[i] : r.seq <= job.max /\ InRange(r.key, job.start)}
<1> DEFINE S == sources[i]
<1>1. S \in SUBSET Record
  BY DEF SourcesFit
<1>2. job.kind \in {"compact", "scan", "flush"}
  BY DEF SourcesFit, Jobs
<1> HIDE DEF S
<1>3. {Decoded(q) : q \in S} = S
  BY <1>1, DecodedIs
<1>4. TableStream(S, job.start, job.max) = {r \in S : r.seq <= job.max /\ InRange(r.key, job.start)}
  BY <1>3 DEF TableStream
<1>5. MemStream(S, job.start, job.max) \subseteq S
  BY DEF MemStream
<1>6. /\ job.kind = "compact" => Stream(job, i, S) = S
      /\ job.kind = "flush" => Stream(job, i, S) = IF i = 1 THEN S ELSE {}
      /\ job.kind = "scan" => Stream(job, i, S) =
           IF i <= job.mems THEN MemStream(S, job.start, job.max) ELSE TableStream(S, job.start, job.max)
  BY <1>3 DEF Stream
<1>7. Stream(job, i, S) \subseteq S
  BY <1>2, <1>4, <1>5, <1>6
<1> QED
  BY <1>4, <1>6, <1>7 DEF S

\* Everything merged is a record of a source, and in the order of a merge.
LEMMA InputIs ==
  ASSUME SourcesFit
  PROVE  /\ All \in SUBSET Record /\ IsFiniteSet(All) /\ OncePerSeq(All)
         /\ Input \subseteq All /\ Input \in SUBSET Record /\ OncePerSeq(Input)
         /\ \A r \in Input : r.key \in Keys /\ r.key \in Nat /\ r.seq \in Nat
         /\ \A r, q \in Input : r = q \/ Before(r, q) \/ Before(q, r)
         /\ \A r \in Input : ~Before(r, r)
         /\ \A r, q, x \in Input : Before(r, q) /\ Before(q, x) => Before(r, x)
         /\ \A r, q \in Input : Before(r, q) => r.key <= q.key
<1>1. All \in SUBSET Record /\ OncePerSeq(All)
  BY DEF SourcesFit, All, Range
<1>2. Input \subseteq All
  <2>1. \A i \in 1..Sources : sources[i] \subseteq All
    BY DEF SourcesFit, All, Range
  <2>2. \A i \in 1..Sources : Stream(job, i, sources[i]) \subseteq sources[i]
    BY StreamIs
  <2> QED
    BY <2>1, <2>2 DEF Input
<1>3. Input \in SUBSET Record /\ OncePerSeq(Input)
  BY <1>1, <1>2 DEF OncePerSeq
<1>4. IsFiniteSet(All)
  BY <1>1, OncePerSeqFinite
<1>5. \A r \in Input : r.key \in Keys
  BY <1>3 DEF Record
<1>6. /\ \A r \in Input : r.key \in Nat /\ r.seq \in Nat
      /\ \A r, q \in Input : r = q \/ Before(r, q) \/ Before(q, r)
      /\ \A r \in Input : ~Before(r, r)
      /\ \A r, q, x \in Input : Before(r, q) /\ Before(q, x) => Before(r, x)
  BY <1>3, RecordsOrdered
<1>7. \A r, q \in Input : Before(r, q) => r.key <= q.key
  BY <1>6 DEF Before
<1> QED
  BY <1>1, <1>2, <1>3, <1>4, <1>5, <1>6, <1>7

\* A sorted stream: all of its records, in order.
LEMMA SortedIs ==
  ASSUME NEW S \in SUBSET Record, OncePerSeq(S)
  PROVE  /\ Sorted(S) \in Seq(Record)
         /\ Range(Sorted(S)) = S
         /\ \A i, j \in DOMAIN Sorted(S) : i < j => Before(Sorted(S)[i], Sorted(S)[j])
<1> DEFINE R == {p \in S \X S : Before(p[1], p[2])}
           n == Cardinality(S)
           s == Sorted(S)
<1>1. IsFiniteSet(S) /\ n \in Nat
  BY OncePerSeqFinite, FS_CardinalityType
<1>2. \E z \in Bijection(1..n, S) : \A i, j \in DOMAIN z : i < j => Before(z[i], z[j])
  <2>1. Linear(R, S)
    <3>1. /\ \A r, q \in S : r = q \/ Before(r, q) \/ Before(q, r)
          /\ \A r, q, x \in S : Before(r, q) /\ Before(q, x) => Before(r, x)
      BY RecordsOrdered
    <3> QED
      BY <3>1 DEF Linear
  <2>2. \A p \in R : Before(p[1], p[2])
    OBVIOUS
  <2> HIDE DEF R
  <2>3. PICK z \in Bijection(1..n, S) : \A i, j \in DOMAIN z : i < j => <<z[i], z[j]>> \in R
    BY <1>1, <2>1, SortedExists
  <2>4. \A i, j \in DOMAIN z : i < j => Before(z[i], z[j])
    BY <2>2, <2>3
  <2> QED
    BY <2>4
<1>3. s = CHOOSE z \in Bijection(1..n, S) : \A i, j \in DOMAIN z : i < j => Before(z[i], z[j])
  BY DEF Sorted
<1> HIDE DEF s, n
<1>4. s \in Bijection(1..n, S) /\ \A i, j \in DOMAIN s : i < j => Before(s[i], s[j])
  BY <1>2, <1>3
<1>5. s \in [1..n -> S] /\ \A r \in S : \E i \in 1..n : s[i] = r
  BY <1>4 DEF Bijection, Surjection
<1>6. s \in Seq(Record)
  <2>1. s \in [1..n -> Record]
    BY <1>5
  <2> QED
    BY <1>1, <2>1
<1>7. Range(s) = S
  BY <1>5 DEF Range
<1> QED
  BY <1>4, <1>6, <1>7 DEF s

-----------------------------------------------------------------------------
(* Heap and streams.                                                       *)

\* The heap has the head of every stream that has not ended, and each stream
\* goes on in order.
StreamsFit ==
  /\ rest \in [1..Sources -> Seq(Record)]
  /\ heap \subseteq [rec : Record, source : 1..Sources]
  /\ \A x, y \in heap : x.source = y.source => x = y
  /\ \A i \in 1..Sources : rest[i] # <<>> => \E x \in heap : x.source = i
  /\ \A i \in 1..Sources : \A a, b \in DOMAIN rest[i] : a < b => Before(rest[i][a], rest[i][b])
  /\ \A x \in heap : \A j \in DOMAIN rest[x.source] : Before(x.rec, rest[x.source][j])
  /\ Ahead \subseteq Input

\* Head and tail of a stream.
LEMMA SplitIs ==
  ASSUME NEW s \in Seq(Record), s # <<>>, \A i, j \in DOMAIN s : i < j => Before(s[i], s[j])
  PROVE  /\ Head(s) \in Record /\ Tail(s) \in Seq(Record)
         /\ Range(s) = {Head(s)} \cup Range(Tail(s))
         /\ \A j \in DOMAIN Tail(s) : Before(Head(s), Tail(s)[j])
         /\ \A a, b \in DOMAIN Tail(s) : a < b => Before(Tail(s)[a], Tail(s)[b])
<1> DEFINE t == Tail(s)
<1>1. /\ Head(s) = s[1] /\ DOMAIN s = 1..Len(s) /\ Len(s) \in Nat /\ Len(s) >= 1
      /\ t \in Seq(Record) /\ Len(t) = Len(s) - 1 /\ DOMAIN t = 1..(Len(s) - 1)
      /\ \A j \in DOMAIN t : t[j] = s[j + 1]
      /\ Head(s) \in Record
  OBVIOUS
<1> HIDE DEF t
<1>2. \A j \in DOMAIN t : Before(s[1], t[j])
  <2>1. \A j \in DOMAIN t : 1 \in DOMAIN s /\ j + 1 \in DOMAIN s /\ 1 < j + 1
    BY <1>1
  <2> QED
    BY <1>1, <2>1
<1>3. \A a, b \in DOMAIN t : a < b => Before(t[a], t[b])
  <2>1. \A a, b \in DOMAIN t : a < b => a + 1 \in DOMAIN s /\ b + 1 \in DOMAIN s /\ a + 1 < b + 1
    BY <1>1
  <2> QED
    BY <1>1, <2>1
<1>4. \A r : r \in Range(s) <=> r = s[1] \/ r \in Range(t)
  <2>1. \A r \in Range(s) : r = s[1] \/ r \in Range(t)
    <3>1. \A i \in DOMAIN s : i = 1 \/ (i - 1 \in DOMAIN t /\ s[i] = t[i - 1])
      BY <1>1
    <3> QED
      BY <3>1 DEF Range
  <2>2. s[1] \in Range(s)
    BY <1>1 DEF Range
  <2>3. \A r \in Range(t) : r \in Range(s)
    <3>1. \A i \in DOMAIN t : i + 1 \in DOMAIN s /\ t[i] = s[i + 1]
      BY <1>1
    <3> QED
      BY <3>1 DEF Range
  <2> QED
    BY <2>1, <2>2, <2>3
<1> QED
  BY <1>1, <1>2, <1>3, <1>4 DEF t

\* What is ahead, one by one.
LEMMA AheadIs ==
  \A r : r \in Ahead <=> \/ \E x \in heap : x.rec = r
                         \/ \E i \in 1..Sources : r \in Range(rest[i])
BY DEF Ahead

\* At the end of all streams nothing is ahead.
LEMMA NothingAhead ==
  ASSUME StreamsFit, heap = {}
  PROVE  Ahead = {}
<1>1. \A i \in 1..Sources : rest[i] = <<>>
  BY DEF StreamsFit
<1>2. \A i \in 1..Sources : Range(rest[i]) = {}
  BY <1>1 DEF Range
<1> QED
  BY <1>2, AheadIs

\* The heap is finite: it has one head of a stream at most.
LEMMA HeapFinite == ASSUME StreamsFit PROVE IsFiniteSet(heap)
<1> DEFINE f == [x \in heap |-> x.source]
<1>1. f \in [heap -> 1..Sources]
  BY DEF StreamsFit
<1>2. \A x, y \in heap : f[x] = f[y] => x = y
  BY DEF StreamsFit
<1> HIDE DEF f
<1>3. f \in Injection(heap, 1..Sources)
  BY <1>1, <1>2 DEF Injection, IsInjective
<1>4. IsFiniteSet(1..Sources)
  BY FS_Interval, MergeAssumption DEF MergeAssumption
<1> QED
  BY <1>3, <1>4, FS_Injection

\* The head that is taken comes before everything else that is ahead.
LEMMA LeastIs ==
  ASSUME SourcesFit, StreamsFit, heap # {}
  PROVE  /\ Least(heap) \in heap /\ Least(heap).rec \in Ahead
         /\ \A r \in Ahead : r = Least(heap).rec \/ Before(Least(heap).rec, r)
<1> DEFINE Le(x, y) == Before(x.rec, y.rec) \/ (~Before(y.rec, x.rec) /\ x.source <= y.source)
           R == {p \in heap \X heap : Le(p[2], p[1])}
<1>1. \A x \in heap : x.rec \in Input /\ x.rec \in Ahead /\ x.source \in Nat
  <2>1. \A x \in heap : x.rec \in Ahead
    BY AheadIs
  <2>2. \A x \in heap : x.source \in 1..Sources
    BY DEF StreamsFit
  <2>3. 1..Sources \subseteq Nat
    BY MergeAssumption DEF MergeAssumption
  <2> QED
    BY <2>1, <2>2, <2>3 DEF StreamsFit
<1>2. \E m \in heap : \A x \in heap : Le(m, x)
  <2>1. \A x, y \in heap : Le(x, y) \/ Le(y, x)
    BY <1>1, InputIs
  <2>2. \A x, y, z \in heap : Le(x, y) /\ Le(y, z) => Le(x, z)
    <3> TAKE x, y, z \in heap
    <3>1. \/ x.rec = y.rec \/ Before(x.rec, y.rec) \/ Before(y.rec, x.rec)
      BY <1>1, InputIs
    <3>2. \/ y.rec = z.rec \/ Before(y.rec, z.rec) \/ Before(z.rec, y.rec)
      BY <1>1, InputIs
    <3>3. x.source <= y.source /\ y.source <= z.source => x.source <= z.source
      BY <1>1
    <3> QED
      BY <1>1, <3>1, <3>2, <3>3, InputIs
  <2> HIDE DEF Le
  <2>3. Linear(R, heap)
    BY <2>1, <2>2 DEF Linear
  <2>4. \A p \in R : Le(p[2], p[1])
    OBVIOUS
  <2> HIDE DEF R
  <2>5. PICK m \in heap : \A x \in heap : x = m \/ <<x, m>> \in R
    BY <2>3, HeapFinite, LastExists
  <2>6. \A x \in heap : Le(m, x)
    BY <2>1, <2>4, <2>5
  <2> QED
    BY <2>6
<1>3. Least(heap) = CHOOSE x \in heap : \A y \in heap : Le(x, y)
  BY DEF Least
<1> DEFINE m == Least(heap)
<1> HIDE DEF m
<1>4. m \in heap /\ \A y \in heap : Le(m, y)
  <2> HIDE DEF Le
  <2> QED
    BY <1>2, <1>3 DEF m
<1>5. \A y \in heap : y.rec = m.rec \/ Before(m.rec, y.rec)
  BY <1>1, <1>4, InputIs
<1>6. \A r \in Ahead : r = m.rec \/ Before(m.rec, r)
  <2> SUFFICES ASSUME NEW r \in Ahead PROVE r = m.rec \/ Before(m.rec, r)
    OBVIOUS
  <2>1. r \in Input
    BY DEF StreamsFit
  <2>2. CASE \E x \in heap : x.rec = r
    BY <1>5, <2>2
  <2>3. CASE \E i \in 1..Sources : r \in Range(rest[i])
    <3>1. PICK i \in 1..Sources : r \in Range(rest[i])
      BY <2>3
    <3>2. PICK j \in DOMAIN rest[i] : rest[i][j] = r
      BY <3>1 DEF Range
    <3>3. rest[i] # <<>>
      BY <3>2
    <3>4. PICK x \in heap : x.source = i
      BY <3>3 DEF StreamsFit
    <3>5. Before(x.rec, r)
      BY <3>2, <3>4 DEF StreamsFit
    <3> QED
      BY <1>1, <1>4, <1>5, <2>1, <3>5, InputIs
  <2> QED
    BY <2>2, <2>3, AheadIs
<1> QED
  BY <1>1, <1>4, <1>6 DEF m

\* Taking a head and refilling the heap leaves streams as they should be, and
\* ahead what was ahead but for, perhaps, the record taken.
LEMMA PopIs ==
  ASSUME SourcesFit, StreamsFit, NEW x \in heap, Pop(x), UNCHANGED <<sources, job>>
  PROVE  StreamsFit' /\ Input' = Input /\ Ahead = Ahead' \cup {x.rec}
<1> DEFINE i == x.source
           s == rest[i]
           h == [rec |-> Head(s), source |-> i]
<1>1. Input' = Input
  BY DEF Input
<1>2. x \in [rec : Record, source : 1..Sources] /\ i \in 1..Sources /\ s \in Seq(Record)
  BY DEF StreamsFit
<1>3. x.rec \in Ahead
  BY AheadIs
<1>4. CASE s = <<>>
  <2>1. heap' = heap \ {x} /\ rest' = rest
    BY <1>4 DEF Pop
  <2>2. \A j \in 1..Sources : rest[j] # <<>> => \E y \in heap \ {x} : y.source = j
    BY <1>4 DEF StreamsFit
  <2>3. /\ \A y, z \in heap \ {x} : y.source = z.source => y = z
        /\ \A y \in heap \ {x} : \A j \in DOMAIN rest[y.source] : Before(y.rec, rest[y.source][j])
    BY DEF StreamsFit
  <2>4. Ahead = Ahead' \cup {x.rec}
    <3>1. \A r : r \in Ahead' <=> \/ \E y \in heap \ {x} : y.rec = r
                                  \/ \E j \in 1..Sources : r \in Range(rest[j])
      BY <2>1 DEF Ahead
    <3> QED
      BY <1>3, <3>1, AheadIs
  <2>5. Ahead' \subseteq Input'
    BY <1>1, <2>4 DEF StreamsFit
  <2> QED
    BY <1>1, <2>1, <2>2, <2>3, <2>4, <2>5 DEF StreamsFit
<1>5. CASE s # <<>>
  <2>1. heap' = (heap \ {x}) \cup {h} /\ rest' = [rest EXCEPT ![i] = Tail(s)]
    BY <1>5 DEF Pop
  <2>2. /\ Head(s) \in Record /\ Tail(s) \in Seq(Record)
        /\ Range(s) = {Head(s)} \cup Range(Tail(s))
        /\ \A j \in DOMAIN Tail(s) : Before(Head(s), Tail(s)[j])
        /\ \A a, b \in DOMAIN Tail(s) : a < b => Before(Tail(s)[a], Tail(s)[b])
    <3>1. \A a, b \in DOMAIN s : a < b => Before(s[a], s[b])
      BY <1>2 DEF StreamsFit
    <3> HIDE DEF s
    <3> QED
      BY <1>2, <1>5, <3>1, SplitIs
  <2> DEFINE t == Tail(s)
             d == Head(s)
  <2>3. h.rec = d /\ h.source = i
    OBVIOUS
  <2>4. /\ rest' \in [1..Sources -> Seq(Record)] /\ rest'[i] = t
        /\ \A j \in 1..Sources \ {i} : rest'[j] = rest[j]
    BY <1>2, <2>1, <2>2 DEF StreamsFit
  <2>5. h \in [rec : Record, source : 1..Sources]
    BY <1>2, <2>2
  <2>6. \A y \in heap \ {x} : y.source \in 1..Sources \ {i}
    BY DEF StreamsFit
  <2> HIDE DEF h, t, d
  <2>7. \A y, z \in heap' : y.source = z.source => y = z
    BY <2>1, <2>3, <2>6 DEF StreamsFit
  <2>8. \A j \in 1..Sources : rest'[j] # <<>> => \E y \in heap' : y.source = j
    <3> SUFFICES ASSUME NEW j \in 1..Sources, rest'[j] # <<>> PROVE \E y \in heap' : y.source = j
      OBVIOUS
    <3>1. CASE j = i
      BY <2>1, <2>3, <3>1
    <3>2. CASE j # i
      <4>1. PICK y \in heap : y.source = j
        BY <2>4, <3>2 DEF StreamsFit
      <4> QED
        BY <2>1, <3>2, <4>1
    <3> QED
      BY <3>1, <3>2
  <2>9. \A j \in 1..Sources : \A a, b \in DOMAIN rest'[j] : a < b => Before(rest'[j][a], rest'[j][b])
    <3> SUFFICES ASSUME NEW j \in 1..Sources
                 PROVE  \A a, b \in DOMAIN rest'[j] : a < b => Before(rest'[j][a], rest'[j][b])
      OBVIOUS
    <3>1. CASE j = i
      BY <2>2, <2>4, <3>1 DEF t
    <3>2. CASE j # i
      BY <2>4, <3>2 DEF StreamsFit
    <3> QED
      BY <3>1, <3>2
  <2>10. \A y \in heap' : \A j \in DOMAIN rest'[y.source] : Before(y.rec, rest'[y.source][j])
    <3> SUFFICES ASSUME NEW y \in heap'
                 PROVE  \A j \in DOMAIN rest'[y.source] : Before(y.rec, rest'[y.source][j])
      OBVIOUS
    <3>1. CASE y = h
      BY <2>2, <2>3, <2>4, <3>1 DEF t, d
    <3>2. CASE y \in heap \ {x}
      BY <2>4, <2>6, <3>2 DEF StreamsFit
    <3> QED
      BY <2>1, <3>1, <3>2
  <2>11. \A r : r \in Ahead' <=> \/ \E y \in heap \ {x} : y.rec = r
                                 \/ r = d
                                 \/ \E j \in 1..Sources \ {i} : r \in Range(rest[j])
                                 \/ r \in Range(t)
    <3>1. \A r : r \in Ahead' <=> \/ \E y \in heap' : y.rec = r
                                  \/ \E j \in 1..Sources : r \in Range(rest'[j])
      BY DEF Ahead
    <3>2. \A r : (\E j \in 1..Sources : r \in Range(rest'[j]))
                   <=> (\E j \in 1..Sources \ {i} : r \in Range(rest[j])) \/ r \in Range(t)
      BY <1>2, <2>4
    <3>3. \A r : (\E y \in heap' : y.rec = r) <=> (\E y \in heap \ {x} : y.rec = r) \/ r = d
      BY <2>1, <2>3
    <3> QED
      BY <3>1, <3>2, <3>3
  <2>12. \A r : r \in Range(s) <=> r = d \/ r \in Range(t)
    BY <2>2 DEF t, d
  <2>13. Ahead = Ahead' \cup {x.rec}
    <3> HIDE DEF s
    <3>1. \A r : (\E j \in 1..Sources : r \in Range(rest[j]))
                   <=> (\E j \in 1..Sources \ {i} : r \in Range(rest[j])) \/ r \in Range(s)
      BY <1>2 DEF s
    <3> HIDE DEF i
    <3> QED
      BY <1>3, <2>11, <2>12, <3>1, AheadIs
  <2>14. Ahead' \subseteq Input'
    BY <1>1, <2>13 DEF StreamsFit
  <2>15. heap' \subseteq [rec : Record, source : 1..Sources]
    BY <2>1, <2>5 DEF StreamsFit
  <2> QED
    BY <1>1, <2>4, <2>7, <2>8, <2>9, <2>10, <2>13, <2>14, <2>15 DEF StreamsFit
<1> QED
  BY <1>4, <1>5

\* At the start everything is ahead.
LEMMA InitStreams ==
  ASSUME Init
  PROVE  SourcesFit /\ StreamsFit /\ Ahead = Input
<1>1. SourcesFit
  <2>1. PICK S \in Pools : sources \in [1..Sources -> SUBSET S] /\ UNION Range(sources) = S
    BY DEF Init
  <2>2. S \in SUBSET Record /\ OncePerSeq(S)
    BY DEF Pools, OncePerSeq
  <2>3. sources \in [1..Sources -> SUBSET Record]
    BY <2>1, <2>2
  <2>4. job \in Jobs
    BY DEF Init
  <2> QED
    BY <2>1, <2>2, <2>3, <2>4 DEF SourcesFit, All
<1> DEFINE s == [i \in 1..Sources |-> Sorted(Stream(job, i, sources[i]))]
<1>2. /\ rest = [i \in 1..Sources |-> IF s[i] = <<>> THEN <<>> ELSE Tail(s[i])]
      /\ heap = {[rec |-> Head(s[i]), source |-> i] : i \in {n \in 1..Sources : s[n] # <<>>}}
  BY DEF Init
<1>3. \A i \in 1..Sources :
        /\ s[i] \in Seq(Record)
        /\ Range(s[i]) = Stream(job, i, sources[i])
        /\ \A a, b \in DOMAIN s[i] : a < b => Before(s[i][a], s[i][b])
  <2> TAKE i \in 1..Sources
  <2> DEFINE S == Stream(job, i, sources[i])
  <2>1. S \subseteq Input
    BY DEF Input
  <2>2. S \in SUBSET Record /\ OncePerSeq(S)
    BY <1>1, <2>1, InputIs DEF OncePerSeq
  <2>3. s[i] = Sorted(S)
    OBVIOUS
  <2> HIDE DEF S, s
  <2>4. /\ s[i] \in Seq(Record) /\ Range(s[i]) = S
        /\ \A a, b \in DOMAIN s[i] : a < b => Before(s[i][a], s[i][b])
    BY <2>2, <2>3, SortedIs
  <2> QED
    BY <2>4 DEF S
<1> HIDE DEF s
<1>4. \A i \in 1..Sources : s[i] # <<>> =>
        /\ Head(s[i]) \in Record /\ Tail(s[i]) \in Seq(Record)
        /\ Range(s[i]) = {Head(s[i])} \cup Range(Tail(s[i]))
        /\ \A j \in DOMAIN Tail(s[i]) : Before(Head(s[i]), Tail(s[i])[j])
        /\ \A a, b \in DOMAIN Tail(s[i]) : a < b => Before(Tail(s[i])[a], Tail(s[i])[b])
  <2> SUFFICES ASSUME NEW i \in 1..Sources, s[i] # <<>>
               PROVE  /\ Head(s[i]) \in Record /\ Tail(s[i]) \in Seq(Record)
                      /\ Range(s[i]) = {Head(s[i])} \cup Range(Tail(s[i]))
                      /\ \A j \in DOMAIN Tail(s[i]) : Before(Head(s[i]), Tail(s[i])[j])
                      /\ \A a, b \in DOMAIN Tail(s[i]) : a < b => Before(Tail(s[i])[a], Tail(s[i])[b])
    OBVIOUS
  <2>1. s[i] \in Seq(Record) /\ \A a, b \in DOMAIN s[i] : a < b => Before(s[i][a], s[i][b])
    BY <1>3
  <2> QED
    BY <2>1, SplitIs
<1>5. \A i \in 1..Sources : rest[i] = IF s[i] = <<>> THEN <<>> ELSE Tail(s[i])
  BY <1>2
<1>6. rest \in [1..Sources -> Seq(Record)]
  <2>1. <<>> \in Seq(Record)
    OBVIOUS
  <2>2. \A i \in 1..Sources : (IF s[i] = <<>> THEN <<>> ELSE Tail(s[i])) \in Seq(Record)
    BY <1>4, <2>1
  <2> QED
    BY <1>2, <2>2
<1>7. \A x \in heap : /\ x.source \in 1..Sources /\ s[x.source] # <<>> /\ x.rec = Head(s[x.source])
                      /\ x = [rec |-> x.rec, source |-> x.source]
  BY <1>2
<1>8. \A i \in 1..Sources : s[i] # <<>> => \E x \in heap : x.source = i /\ x.rec = Head(s[i])
  <2> SUFFICES ASSUME NEW i \in 1..Sources, s[i] # <<>>
               PROVE  \E x \in heap : x.source = i /\ x.rec = Head(s[i])
    OBVIOUS
  <2>1. [rec |-> Head(s[i]), source |-> i] \in heap
    BY <1>2
  <2> QED
    BY <2>1
<1>9. heap \subseteq [rec : Record, source : 1..Sources]
  <2>1. \A x \in heap : x.rec \in Record
    BY <1>4, <1>7
  <2> QED
    BY <1>7, <2>1
<1>10. \A r : r \in Ahead <=> r \in Input
  <2>1. \A r : r \in Ahead <=> \E i \in 1..Sources : r \in Range(s[i])
    <3> TAKE r
    <3>1. Range(<<>>) = {}
      BY DEF Range
    <3>2. \A i \in 1..Sources : s[i] = <<>> => r \notin Range(s[i]) /\ r \notin Range(rest[i])
      BY <1>5, <3>1
    <3>3. \A i \in 1..Sources : s[i] # <<>> =>
            (r \in Range(s[i]) <=> r = Head(s[i]) \/ r \in Range(rest[i]))
      BY <1>4, <1>5
    <3>4. (\E x \in heap : x.rec = r) <=> \E i \in 1..Sources : s[i] # <<>> /\ r = Head(s[i])
      BY <1>7, <1>8
    <3> QED
      BY <3>2, <3>3, <3>4, AheadIs
  <2> QED
    BY <1>3, <2>1 DEF Input
<1>11. \A i \in 1..Sources : rest[i] # <<>> => s[i] # <<>>
  BY <1>5
<1>12. \A i \in 1..Sources : \A a, b \in DOMAIN rest[i] : a < b => Before(rest[i][a], rest[i][b])
  <2> TAKE i \in 1..Sources
  <2>1. CASE s[i] = <<>>
    BY <1>5, <2>1
  <2>2. CASE s[i] # <<>>
    BY <1>4, <1>5, <2>2
  <2> QED
    BY <2>1, <2>2
<1>13. \A x \in heap : \A j \in DOMAIN rest[x.source] : Before(x.rec, rest[x.source][j])
  BY <1>4, <1>5, <1>7
<1>14. \A x, y \in heap : x.source = y.source => x = y
  BY <1>7
<1> QED
  BY <1>1, <1>6, <1>8, <1>9, <1>10, <1>11, <1>12, <1>13, <1>14 DEF StreamsFit

-----------------------------------------------------------------------------
(* The order in which records are taken.                                   *)

\* The keys up to the last one taken.
Taken(k) == lastUser # NoKey /\ k <= lastUser

\* Nothing that is ahead has a key that was passed, and everything that was
\* passed has a key that was taken.
OrderFits ==
  /\ lastUser \in Keys \cup {NoKey}
  /\ lastUser # NoKey => \A r \in Ahead : lastUser <= r.key
  /\ \A r \in Input \ Ahead : Taken(r.key)

\* The newest records of the keys that were taken.
Chosen == {r \in Firsts : Taken(r.key)}

\* The newest record of a key is one.
LEMMA FirstsApart ==
  ASSUME SourcesFit
  PROVE  /\ Firsts \subseteq Input
         /\ \A r, q \in Firsts : r.key = q.key => r = q
<1>1. Firsts \subseteq Input
  BY DEF Firsts
<1>2. ASSUME NEW r \in Firsts, NEW q \in Firsts, r.key = q.key
      PROVE  r = q
  <2>1. r \in Input /\ q \in Input /\ r.seq <= q.seq /\ q.seq <= r.seq
    BY <1>2 DEF Firsts
  <2>2. r.seq = q.seq
    BY <2>1, InputIs
  <2> QED
    BY <2>1, <2>2, InputIs DEF OncePerSeq
<1> QED
  BY <1>1, <1>2

\* A turn takes either one more record of a key that was taken, or the newest
\* record of the next key.
LEMMA TurnIs ==
  ASSUME SourcesFit, StreamsFit, OrderFits, heap # {},
         Pop(Least(heap)), lastUser' = Least(heap).rec.key, UNCHANGED <<sources, job>>
  PROVE  LET r == Least(heap).rec
         IN  /\ SourcesFit' /\ StreamsFit' /\ OrderFits'
             /\ r \in Input /\ r.key \in Nat
             /\ lastUser = r.key => Chosen' = Chosen
             /\ lastUser # r.key =>
                  /\ r \in Firsts \ Chosen
                  /\ Chosen' = Chosen \cup {r}
                  /\ \A q \in Chosen : q.key < r.key
                  /\ \A q \in Firsts \ Chosen : q = r \/ r.key < q.key
<1> DEFINE r == Least(heap).rec
<1>1. /\ Least(heap) \in heap /\ r \in Ahead
      /\ \A q \in Ahead : q = r \/ Before(r, q)
  BY LeastIs
<1>2. StreamsFit' /\ Input' = Input /\ Ahead = Ahead' \cup {r}
  BY <1>1, PopIs
<1>3. SourcesFit'
  BY DEF SourcesFit, All, Range
<1> HIDE DEF r
<1>4. r \in Input /\ r.key \in Nat /\ r.key \in Keys
  BY <1>1, InputIs DEF StreamsFit
<1>5. lastUser' = r.key /\ lastUser' # NoKey
  BY <1>4, MergeAssumption DEF MergeAssumption, r
<1>6. \A q \in Ahead : q \in Input /\ q.key \in Nat /\ r.key <= q.key
  BY <1>1, <1>4, InputIs DEF StreamsFit
<1>7. lastUser = NoKey \/ (lastUser \in Nat /\ lastUser <= r.key)
  BY <1>1, LsmAssumption DEF OrderFits, LsmAssumption
<1>8. OrderFits'
  <2>1. \A q \in Ahead' : lastUser' <= q.key
    BY <1>2, <1>5, <1>6
  <2>2. ASSUME NEW q \in Input, q \notin Ahead' PROVE q.key <= lastUser'
    <3>1. q.key \in Nat
      BY InputIs
    <3>2. CASE q = r
      BY <1>4, <1>5, <3>2
    <3>3. CASE q \notin Ahead
      BY <1>4, <1>5, <1>7, <3>1, <3>3 DEF OrderFits, Taken
    <3> QED
      BY <1>2, <2>2, <3>2, <3>3
  <2>3. \A q \in (Input \ Ahead)' : Taken(q.key)'
    BY <1>2, <1>5, <2>2 DEF Taken
  <2> QED
    BY <1>4, <1>5, <2>1, <2>3 DEF OrderFits
<1>9. Chosen' = {q \in Firsts : q.key <= r.key}
  BY <1>2, <1>5 DEF Chosen, Firsts, Taken
<1>10. ASSUME lastUser = r.key PROVE Chosen' = Chosen
  <2>1. lastUser # NoKey
    BY <1>10, <1>5
  <2> QED
    BY <1>9, <1>10, <2>1 DEF Chosen, Taken
<1>11. ASSUME lastUser # r.key
       PROVE  /\ r \in Firsts \ Chosen
              /\ Chosen' = Chosen \cup {r}
              /\ \A q \in Chosen : q.key < r.key
              /\ \A q \in Firsts \ Chosen : q = r \/ r.key < q.key
  <2>1. lastUser = NoKey \/ (lastUser \in Nat /\ lastUser < r.key)
    BY <1>4, <1>7, <1>11
  <2>2. ~Taken(r.key)
    BY <1>4, <2>1 DEF Taken
  <2>3. \A q \in Input : ~Taken(q.key) => q \in Ahead
    BY DEF OrderFits
  <2>4. r \in Firsts
    <3>1. \A q \in Input : q.key = r.key => q = r \/ Before(r, q)
      BY <1>1, <2>2, <2>3
    <3>2. \A q \in Input : q.seq \in Nat
      BY InputIs
    <3>3. \A q \in Input : q.key = r.key => q.seq <= r.seq
      BY <1>4, <3>1, <3>2 DEF Before
    <3> QED
      BY <1>4, <3>3 DEF Firsts
  <2>5. \A q \in Firsts : ~Taken(q.key) => q = r \/ r.key < q.key
    <3> SUFFICES ASSUME NEW q \in Firsts, ~Taken(q.key) PROVE q = r \/ r.key < q.key
      OBVIOUS
    <3>1. q \in Input /\ q \in Ahead
      BY <2>3, FirstsApart
    <3>2. q.key \in Nat /\ r.key <= q.key
      BY <1>6, <3>1
    <3>3. q.key = r.key => q = r
      BY <2>4, FirstsApart
    <3> QED
      BY <1>4, <3>2, <3>3
  <2>6. \A q \in Chosen : q \in Firsts /\ q.key \in Nat /\ q.key < r.key
    <3>1. \A q \in Chosen : q \in Firsts /\ q.key \in Nat /\ Taken(q.key)
      BY FirstsApart, InputIs DEF Chosen
    <3> QED
      BY <1>4, <2>1, <3>1 DEF Taken
  <2>7. r \notin Chosen
    BY <2>2 DEF Chosen
  <2>8. \A q \in Firsts \ Chosen : q = r \/ r.key < q.key
    BY <2>5 DEF Chosen
  <2>9. Chosen' = Chosen \cup {r}
    <3>1. \A q \in Firsts : q.key \in Nat
      BY FirstsApart, InputIs
    <3>2. \A q \in Firsts : q.key <= r.key <=> q \in Chosen \cup {r}
      BY <1>4, <2>6, <2>8, <3>1
    <3>3. Chosen \cup {r} \subseteq Firsts
      BY <2>4, <2>6
    <3> QED
      BY <1>9, <3>2, <3>3
  <2> QED
    BY <2>4, <2>6, <2>7, <2>8, <2>9
<1> QED
  BY <1>2, <1>3, <1>4, <1>8, <1>10, <1>11 DEF r

\* When the streams have ended, the newest record of every key was taken.
LEMMA AllChosen ==
  ASSUME StreamsFit, OrderFits, heap = {}
  PROVE  Chosen = Firsts
BY NothingAhead DEF Chosen, Firsts, OrderFits

-----------------------------------------------------------------------------
(* A scan.                                                                 *)

\* The rows are those of the newest records taken, in the order of the keys.
ScanFits ==
  /\ out \in Seq([key : Keys, val : Vals])
  /\ \A i, j \in DOMAIN out : i < j => out[i].key < out[j].key
  /\ Range(out) = {[key |-> r.key, val |-> r.val] : r \in {q \in Chosen : q.val # Tomb}}
  /\ builder = {} /\ size = 0

\* What the streams of a scan have of a key that is in range is led by the
\* newest record that is visible, wherever it is.
LEMMA ScanFirsts ==
  ASSUME SourcesFit, job.kind = "scan"
  PROVE  /\ \A r \in Firsts : /\ InRange(r.key, job.start) /\ r \in Visible(All, r.key, job.max)
                              /\ Newest(Visible(All, r.key, job.max)) = r
         /\ \A k \in Keys : InRange(k, job.start) /\ Visible(All, k, job.max) # {} =>
              Newest(Visible(All, k, job.max)) \in Firsts
<1> DEFINE max == job.max
           V(k) == Visible(All, k, max)
<1>1. All \in SUBSET Record /\ OncePerSeq(All) /\ \A r \in All : r.seq \in Nat
  BY InputIs, LsmAssumption DEF Record, LsmAssumption
<1>2. max \in Nat
  BY LsmAssumption DEF SourcesFit, Jobs, LsmAssumption
<1>3. \A i \in 1..Sources : \A r \in Stream(job, i, sources[i]) :
        r \in All /\ InRange(r.key, job.start) /\ r.seq <= max
  <2> TAKE i \in 1..Sources
  <2>1. sources[i] \subseteq All
    BY DEF SourcesFit, All, Range
  <2> QED
    BY <2>1, StreamIs DEF MemStream
<1>4. \A r \in Input : r \in All /\ InRange(r.key, job.start) /\ r.seq <= max
  BY <1>3 DEF Input
<1>5. ASSUME NEW r \in All, InRange(r.key, job.start), r.seq <= max
      PROVE  \E q \in Input : q.key = r.key /\ q.seq >= r.seq
  <2>1. PICK i \in 1..Sources : r \in sources[i]
    BY DEF All, Range, SourcesFit
  <2> DEFINE S == sources[i]
             W == Visible(S, r.key, max)
  <2>2. Stream(job, i, S) \subseteq Input
    BY DEF Input
  <2>3. CASE i <= job.mems
    <3>1. Stream(job, i, S) = MemStream(S, job.start, max)
      BY <2>3, StreamIs
    <3>2. W \in SUBSET Record /\ r \in W
      BY <1>5, <2>1 DEF Visible, SourcesFit
    <3>3. Newest(W) \in W /\ r.seq <= Newest(W).seq
      BY <3>2, NewestExists
    <3>4. Newest(W) \in S /\ Newest(W).key = r.key /\ Newest(W).seq <= max
      BY <3>3 DEF Visible
    <3>5. Newest(W) \in MemStream(S, job.start, max)
      BY <1>5, <3>4 DEF MemStream
    <3>6. Newest(W) \in Input /\ Newest(W).seq \in Nat
      BY <2>2, <3>1, <3>5, InputIs
    <3>7. Newest(W).seq >= r.seq
      BY <1>1, <3>3, <3>6
    <3> QED
      BY <3>4, <3>6, <3>7
  <2>4. CASE ~(i <= job.mems)
    <3>1. r \in Stream(job, i, S)
      BY <1>5, <2>1, <2>4, StreamIs
    <3> QED
      BY <1>1, <2>2, <3>1
  <2> QED
    BY <2>3, <2>4
<1>6. ASSUME NEW k \in Keys, InRange(k, job.start), V(k) # {}
      PROVE  Newest(V(k)) \in Firsts /\ Newest(V(k)).key = k
  <2> DEFINE n == Newest(V(k))
  <2>1. V(k) \in SUBSET Record
    BY <1>1 DEF Visible
  <2>2. n \in V(k) /\ \A q \in V(k) : q.seq <= n.seq
    BY <1>6, <2>1, NewestExists
  <2> HIDE DEF n
  <2>3. n \in All /\ n.key = k /\ n.seq <= max
    BY <2>2 DEF Visible
  <2>4. PICK q \in Input : q.key = k /\ q.seq >= n.seq
    BY <1>5, <1>6, <2>3
  <2>5. \A p \in Input : p.key = k => p \in V(k)
    BY <1>4 DEF Visible
  <2>6. q.seq <= n.seq /\ q \in All
    BY <1>4, <2>2, <2>4, <2>5
  <2>7. q = n
    BY <1>1, <2>3, <2>4, <2>6 DEF OncePerSeq
  <2>8. n \in Firsts
    BY <2>2, <2>3, <2>4, <2>5, <2>7 DEF Firsts
  <2> QED
    BY <2>3, <2>8 DEF n
<1>7. ASSUME NEW r \in Firsts
      PROVE  InRange(r.key, job.start) /\ r \in V(r.key) /\ Newest(V(r.key)) = r
  <2>1. r \in Input /\ r.key \in Keys
    BY FirstsApart, InputIs
  <2>2. InRange(r.key, job.start) /\ r \in V(r.key)
    BY <1>4, <2>1 DEF Visible
  <2>3. Newest(V(r.key)) \in Firsts /\ Newest(V(r.key)).key = r.key
    BY <1>6, <2>1, <2>2
  <2> QED
    BY <2>2, <2>3, FirstsApart
<1> QED
  BY <1>6, <1>7

\* A turn of a scan keeps the rows right.
LEMMA ScanTurnFits ==
  ASSUME SourcesFit, StreamsFit, OrderFits, ScanFits, ScanTurn
  PROVE  SourcesFit' /\ StreamsFit' /\ OrderFits' /\ ScanFits'
<1> DEFINE r == Least(heap).rec
           row == [key |-> r.key, val |-> r.val]
<1>1. /\ heap # {} /\ Pop(Least(heap)) /\ lastUser' = r.key
      /\ out' = IF lastUser = r.key THEN out ELSE out \o Row(r)
      /\ UNCHANGED <<sources, job, builder, size, done>>
  BY DEF ScanTurn
<1>2. /\ SourcesFit' /\ StreamsFit' /\ OrderFits'
      /\ r \in Input /\ r.key \in Nat
      /\ lastUser = r.key => Chosen' = Chosen
      /\ lastUser # r.key =>
           /\ r \in Firsts \ Chosen
           /\ Chosen' = Chosen \cup {r}
           /\ \A q \in Chosen : q.key < r.key
  BY <1>1, TurnIs
<1> HIDE DEF r
<1>3. r \in Record /\ r.key \in Keys
  BY <1>2, InputIs
<1>4. CASE lastUser = r.key
  <2>1. out' = out /\ Chosen' = Chosen /\ builder' = builder /\ size' = size
    BY <1>1, <1>2, <1>4
  <2> QED
    BY <1>2, <2>1 DEF ScanFits
<1>5. CASE lastUser # r.key /\ r.val = Tomb
  <2>1. Row(r) = <<>> /\ out \in Seq([key : Keys, val : Vals])
    BY <1>5 DEF Row, ScanFits
  <2>2. out' = out
    BY <1>1, <1>5, <2>1
  <2>3. {q \in Chosen' : q.val # Tomb} = {q \in Chosen : q.val # Tomb}
    BY <1>2, <1>5
  <2> QED
    BY <1>1, <1>2, <2>2, <2>3 DEF ScanFits
<1>6. CASE lastUser # r.key /\ r.val # Tomb
  <2>1. row \in [key : Keys, val : Vals] /\ Row(r) = <<row>>
    BY <1>3, <1>6 DEF Row, Record
  <2>2. out \in Seq([key : Keys, val : Vals])
    BY DEF ScanFits
  <2>3. row.key = r.key
    OBVIOUS
  <2> HIDE DEF row
  <2>4. out' = Append(out, row)
    <3>1. out' = out \o <<row>>
      BY <1>1, <1>6, <2>1
    <3> QED
      BY <2>1, <2>2, <3>1
  <2>5. /\ out' \in Seq([key : Keys, val : Vals])
        /\ DOMAIN out' = DOMAIN out \cup {Len(out) + 1} /\ DOMAIN out = 1..Len(out) /\ Len(out) \in Nat
        /\ out'[Len(out) + 1] = row /\ \A i \in DOMAIN out : out'[i] = out[i]
    BY <2>1, <2>2, <2>4
  <2>6. \A i \in DOMAIN out : out[i].key < r.key
    <3>1. \A i \in DOMAIN out : \E q \in Chosen : out[i] = [key |-> q.key, val |-> q.val]
      BY DEF ScanFits, Range
    <3>2. \A i \in DOMAIN out : \E q \in Chosen : out[i].key = q.key
      BY <3>1
    <3> QED
      BY <1>2, <1>6, <3>2
  <2>7. \A i, j \in DOMAIN out' : i < j => out'[i].key < out'[j].key
    <3> SUFFICES ASSUME NEW i \in DOMAIN out', NEW j \in DOMAIN out', i < j
                 PROVE  out'[i].key < out'[j].key
      OBVIOUS
    <3>1. i \in DOMAIN out
      BY <2>5
    <3>2. CASE j \in DOMAIN out
      BY <2>5, <3>1, <3>2 DEF ScanFits
    <3>3. CASE j = Len(out) + 1
      BY <2>3, <2>5, <2>6, <3>1, <3>3
    <3> QED
      BY <2>5, <3>2, <3>3
  <2>8. Range(out') = Range(out) \cup {row}
    BY <2>5 DEF Range
  <2>9. {q \in Chosen' : q.val # Tomb} = {q \in Chosen : q.val # Tomb} \cup {r}
    BY <1>2, <1>6
  <2>10. Range(out') = {[key |-> q.key, val |-> q.val] : q \in {p \in Chosen' : p.val # Tomb}}
    <3>1. Range(out) = {[key |-> q.key, val |-> q.val] : q \in {p \in Chosen : p.val # Tomb}}
      BY DEF ScanFits
    <3> DEFINE A == {p \in Chosen : p.val # Tomb}
               B == {p \in Chosen' : p.val # Tomb}
    <3>2. B = A \cup {r}
      BY <2>9
    <3> HIDE DEF A, B
    <3>3. {[key |-> q.key, val |-> q.val] : q \in B} = {[key |-> q.key, val |-> q.val] : q \in A} \cup {row}
      BY <3>2 DEF row
    <3> QED
      BY <2>8, <3>1, <3>3 DEF A, B
  <2> QED
    BY <1>1, <1>2, <2>5, <2>7, <2>10 DEF ScanFits
<1> QED
  BY <1>4, <1>5, <1>6

\* At its end a scan has what lookups answer.
LEMMA ScanEnds ==
  ASSUME SourcesFit, StreamsFit, OrderFits, ScanFits, heap = {}, job.kind = "scan"
  PROVE  ScanIsLookup
<1> DEFINE V(k) == Visible(All, k, job.max)
           found == {k \in Keys : InRange(k, job.start) /\ Answer(V(k)) # NoValue}
           rows == {[key |-> r.key, val |-> r.val] : r \in {q \in Firsts : q.val # Tomb}}
<1>1. Range(out) = rows
  BY AllChosen DEF ScanFits
<1>2. ASSUME NEW r \in Firsts, r.val # Tomb
      PROVE  r.key \in found /\ Answer(V(r.key)) = r.val
  <2>1. r \in Input /\ r \in Record /\ r.key \in Keys
    BY FirstsApart, InputIs
  <2>2. InRange(r.key, job.start) /\ r \in V(r.key) /\ Newest(V(r.key)) = r
    BY ScanFirsts
  <2>3. Answer(V(r.key)) = r.val
    BY <1>2, <2>2 DEF Answer
  <2>4. r.val \in Vals
    BY <1>2, <2>1 DEF Record
  <2> QED
    BY <2>1, <2>2, <2>3, <2>4, MergeAssumption DEF MergeAssumption
<1>3. ASSUME NEW k \in found
      PROVE  \E r \in Firsts : r.val # Tomb /\ r.key = k
  <2>1. V(k) # {} /\ Newest(V(k)).val # Tomb
    BY <1>3 DEF Answer
  <2>2. Newest(V(k)) \in Firsts
    BY <1>3, <2>1, ScanFirsts
  <2>3. Newest(V(k)) \in V(k)
    BY <2>2, ScanFirsts, <2>1, NewestExists, InputIs DEF Visible
  <2>4. Newest(V(k)).key = k
    BY <2>3 DEF Visible
  <2> QED
    BY <2>1, <2>2, <2>4
<1>4. rows = {[key |-> k, val |-> Answer(V(k))] : k \in found}
  <2>1. \A r \in Firsts : r.val # Tomb =>
          \E k \in found : [key |-> r.key, val |-> r.val] = [key |-> k, val |-> Answer(V(k))]
    BY <1>2
  <2>2. \A k \in found : \E r \in Firsts : r.val # Tomb /\
          [key |-> k, val |-> Answer(V(k))] = [key |-> r.key, val |-> r.val]
    BY <1>2, <1>3
  <2> DEFINE wanted == {[key |-> k, val |-> Answer(V(k))] : k \in found}
  <2> HIDE DEF found, V
  <2>3. \A z \in rows : z \in wanted
    BY <2>1
  <2>4. \A z \in wanted : z \in rows
    <3> SUFFICES ASSUME NEW k \in found PROVE [key |-> k, val |-> Answer(V(k))] \in rows
      OBVIOUS
    <3>1. PICK r \in Firsts : r.val # Tomb /\ [key |-> k, val |-> Answer(V(k))] = [key |-> r.key, val |-> r.val]
      BY <2>2
    <3>2. [key |-> r.key, val |-> r.val] \in rows
      BY <3>1
    <3> QED
      BY <3>1, <3>2
  <2> HIDE DEF wanted, rows
  <2>5. rows = wanted
    BY <2>3, <2>4
  <2> QED
    BY <2>5 DEF wanted
<1>5. \A i, j \in DOMAIN out : i < j => out[i].key < out[j].key
  BY DEF ScanFits
<1> QED
  BY <1>1, <1>4, <1>5 DEF ScanIsLookup

-----------------------------------------------------------------------------
(* A compaction.                                                           *)

\* The records that are to be written, and those that were.
Surv == Survivors(All, job.level, job.watermark)
Kept == {r \in Surv : Taken(r.key)}

\* The tables finished are the first chunks of what is to be written, and the
\* builder has the rest of what was taken, which does not fill a table.
CutFits ==
  /\ out \in Seq(SUBSET Record)
  /\ \A i \in DOMAIN out : out[i] # {} /\ out[i] = {r \in Kept : Chunk(Surv, r) = i - 1}
  /\ builder = {r \in Kept : Chunk(Surv, r) = Len(out)}
  /\ \A r \in Kept : Chunk(Surv, r) <= Len(out)
  /\ Cardinality(Kept) = Len(out) * TargetFileSize + Cardinality(builder)
  /\ Cardinality(builder) < TargetFileSize
  /\ size \in 0..TargetFileSize
  /\ builder # {} => size = Cardinality(builder)

\* The survivors are the newest records of the keys, but for tombstones that
\* may go.
LEMMA SurvIs ==
  ASSUME SourcesFit, job.kind = "compact"
  PROVE  /\ Input = All
         /\ Surv = {r \in Firsts : ~Droppable(r, job.level, job.watermark)}
         /\ Surv \in SUBSET Record /\ IsFiniteSet(Surv)
         /\ \A r \in Surv : r.key \in Nat
<1>1. Input = All
  <2>1. \A i \in 1..Sources : Stream(job, i, sources[i]) = sources[i]
    BY StreamIs
  <2>2. All = UNION {sources[i] : i \in 1..Sources}
    BY DEF All, Range, SourcesFit
  <2> QED
    BY <2>1, <2>2 DEF Input
<1>2. ASSUME NEW r \in All
      PROVE  r \in Firsts <=> r = Newest(Visible(All, r.key, MaxSeq))
  <2> DEFINE W == Visible(All, r.key, MaxSeq)
  <2>1. W = {q \in All : q.key = r.key}
    <3>1. \A q \in All : q.seq <= MaxSeq
      BY InputIs, LsmAssumption DEF Record, LsmAssumption
    <3> QED
      BY <3>1 DEF Visible
  <2> HIDE DEF W
  <2>2. W \in SUBSET Record /\ OncePerSeq(W) /\ r \in W
    BY <2>1, InputIs DEF OncePerSeq
  <2>3. Newest(W) \in W /\ \A q \in W : q.seq <= Newest(W).seq
    BY <2>2, NewestExists
  <2>4. r \in Firsts => r = Newest(W)
    <3>1. r \in Firsts => \A q \in W : q.seq <= r.seq
      BY <1>1, <2>1 DEF Firsts
    <3> QED
      BY <2>2, <3>1, NewestIs
  <2>5. r = Newest(W) => r \in Firsts
    BY <1>1, <2>1, <2>3 DEF Firsts
  <2> QED
    BY <2>4, <2>5 DEF W
<1>3. Firsts \subseteq All
  BY <1>1 DEF Firsts
<1>4. Surv = {r \in Firsts : ~Droppable(r, job.level, job.watermark)}
  BY <1>2, <1>3 DEF Surv, Survivors
<1>5. Surv \subseteq All
  BY <1>3, <1>4
<1>6. Surv \in SUBSET Record /\ IsFiniteSet(Surv)
  BY <1>5, InputIs, FS_Subset
<1>7. \A r \in Surv : r.key \in Nat
  BY <1>1, <1>5, InputIs
<1> QED
  BY <1>1, <1>4, <1>6, <1>7

\* Division with rest.
LEMMA DivWithRest ==
  ASSUME NEW a \in Nat, NEW n \in Nat \ {0}, NEW b \in Nat, b < n
  PROVE  (a * n + b) \div n = a
<1> DEFINE p == a * n + b
           q == p \div n
<1>1. p \in Nat /\ a * n <= p /\ p < a * n + n
  BY SMT
<1>2. a <= q
  <2>1. (a * n) \div n = a /\ a * n \in Nat
    BY DivOfMultiple
  <2> HIDE DEF p
  <2> QED
    BY <1>1, <2>1, DivKeepsOrder
<1>3. ASSUME a + 1 <= q PROVE FALSE
  <2> HIDE DEF p
  <2>1. (a + 1) * n <= p
    BY <1>1, <1>3, DivOfMultiple
  <2>2. (a + 1) * n = a * n + n
    BY SMT
  <2> QED
    BY <1>1, <2>1, <2>2
<1>4. q \in Nat
  BY <1>1
<1> QED
  BY <1>2, <1>3, <1>4

\* One more record, in its turn, goes into the chunk it belongs to.
LEMMA AddFits ==
  ASSUME SourcesFit, job.kind = "compact", CutFits,
         NEW r \in Surv \ Kept, Kept' = Kept \cup {r}, Surv' = Surv,
         \A q \in Kept : q.key < r.key,
         \A q \in Surv \ Kept : q = r \/ r.key < q.key,
         AddToBuilder(r)
  PROVE  CutFits'
<1> DEFINE T == TargetFileSize
           L == Len(out)
           b == Cardinality(builder)
           C(q) == Chunk(Surv, q)
<1>1. /\ Surv \in SUBSET Record /\ IsFiniteSet(Surv) /\ \A q \in Surv : q.key \in Nat
      /\ Kept \subseteq Surv /\ IsFiniteSet(Kept) /\ builder \subseteq Kept /\ IsFiniteSet(builder)
  <2>1. Kept \subseteq Surv /\ builder \subseteq Kept
    BY DEF Kept, CutFits
  <2> QED
    BY <2>1, SurvIs, FS_Subset
<1>2. T \in Nat \ {0} /\ L \in Nat /\ b \in Nat /\ b < T
  BY <1>1, FS_CardinalityType, LsmAssumption DEF LsmAssumption, CutFits
<1>3. Rank(Surv, r) = L * T + b
  <2>1. {q \in Surv : q.key < r.key} = Kept
    BY <1>1
  <2> QED
    BY <2>1 DEF Rank, CutFits
<1>4. C(r) = L
  BY <1>2, <1>3, DivWithRest DEF Chunk
<1>5. r \notin builder /\ r \in Record
  BY <1>1
<1> DEFINE full == builder \cup {r}
<1>6. Cardinality(full) = b + 1 /\ IsFiniteSet(full) /\ full \in SUBSET Record
  BY <1>1, <1>5, FS_AddElement
<1>7. Cardinality(Kept') = Cardinality(Kept) + 1
  BY <1>1, FS_AddElement
<1>8. full = {q \in Kept' : C(q) = L} /\ full # {}
  BY <1>4 DEF CutFits
<1>9. \A q \in Kept' : C(q) <= L
  BY <1>2, <1>4 DEF CutFits
<1>10. \A i \in DOMAIN out : out[i] # {} /\ out[i] = {q \in Kept' : C(q) = i - 1}
  <2>1. \A i \in DOMAIN out : i - 1 # L
    BY <1>2 DEF CutFits
  <2>2. \A i \in DOMAIN out : C(r) # i - 1
    BY <1>4, <2>1
  <2> HIDE DEF C
  <2> QED
    BY <2>2 DEF CutFits, C
<1>11. out \in Seq(SUBSET Record) /\ DOMAIN out = 1..L
  BY DEF CutFits
<1> DEFINE current == IF builder = {} THEN 1 ELSE size + 1
<1>12. current = b + 1
  <2>1. builder = {} => b = 0
    BY FS_EmptySet
  <2> QED
    BY <1>2, <2>1 DEF CutFits
<1>13. /\ size' = current
       /\ IF current >= T THEN out' = Append(out, full) /\ builder' = {}
                          ELSE out' = out /\ builder' = full
  BY DEF AddToBuilder
<1> HIDE DEF current, full, C
<1>14. Cardinality(Kept') = L * T + b + 1
  <2>1. Cardinality(Kept) = L * T + b
    BY DEF CutFits
  <2> QED
    BY <1>7, <2>1
<1>15. CASE b + 1 >= T
  <2>1. b + 1 = T
    BY <1>2, <1>15
  <2>2. out' = Append(out, full) /\ builder' = {} /\ size' = T
    BY <1>12, <1>13, <2>1
  <2>3. /\ out' \in Seq(SUBSET Record) /\ Len(out') = L + 1
        /\ DOMAIN out' = 1..(L + 1) /\ out'[L + 1] = full
        /\ \A i \in DOMAIN out : out'[i] = out[i]
    BY <1>2, <1>6, <1>11, <2>2
  <2>4. \A i \in DOMAIN out' : out'[i] # {} /\ out'[i] = {q \in Kept' : C(q) = i - 1}
    <3> SUFFICES ASSUME NEW i \in DOMAIN out'
                 PROVE  out'[i] # {} /\ out'[i] = {q \in Kept' : C(q) = i - 1}
      OBVIOUS
    <3>1. CASE i \in DOMAIN out
      BY <1>10, <2>3, <3>1
    <3>2. CASE i = L + 1
      <4>1. i - 1 = L
        BY <1>2, <3>2
      <4> QED
        BY <1>8, <2>3, <3>2, <4>1
    <3> QED
      BY <1>2, <1>11, <2>3, <3>1, <3>2
  <2>5. \A q \in Kept' : C(q) # L + 1 /\ C(q) <= L + 1
    <3>1. \A q \in Kept' : C(q) \in Nat
      BY <1>1, ChunkType DEF C
    <3> QED
      BY <1>2, <1>9, <3>1
  <2>6. builder' = {q \in Kept' : C(q) = L + 1}
    BY <2>2, <2>5
  <2>7. Cardinality(Kept') = (L + 1) * T + Cardinality(builder')
    <3>1. Cardinality(builder') = 0
      BY <2>2, FS_EmptySet
    <3>2. (L + 1) * T = L * T + T
      BY <1>2
    <3>3. L * T \in Nat
      BY <1>2
    <3> QED
      BY <1>2, <1>14, <2>1, <3>1, <3>2, <3>3
  <2>8. Cardinality(builder') < T /\ size' \in 0..T /\ builder' = {}
    BY <1>2, <2>2, FS_EmptySet
  <2> QED
    BY <2>3, <2>4, <2>5, <2>6, <2>7, <2>8 DEF CutFits, C
<1>16. CASE ~(b + 1 >= T)
  <2>1. out' = out /\ builder' = full /\ size' = b + 1
    BY <1>12, <1>13, <1>16
  <2>2. Cardinality(Kept') = Len(out') * T + Cardinality(builder')
    <3>1. L * T \in Nat
      BY <1>2
    <3> QED
      BY <1>2, <1>6, <1>14, <2>1, <3>1
  <2>3. Cardinality(builder') < T /\ size' \in 0..T /\ size' = Cardinality(builder')
    BY <1>2, <1>6, <1>16, <2>1
  <2> QED
    BY <1>8, <1>9, <1>10, <1>11, <2>1, <2>2, <2>3 DEF CutFits, C
<1> QED
  BY <1>15, <1>16

\* A turn of a compaction keeps the cut right.
LEMMA CompactTurnFits ==
  ASSUME SourcesFit, StreamsFit, OrderFits, CutFits, CompactTurn
  PROVE  SourcesFit' /\ StreamsFit' /\ OrderFits' /\ CutFits'
<1> DEFINE r == Least(heap).rec
           D(q) == Droppable(q, job.level, job.watermark)
<1>1. /\ job.kind = "compact"
      /\ heap # {} /\ Pop(Least(heap)) /\ lastUser' = r.key
      /\ IF lastUser = r.key \/ D(r) THEN UNCHANGED <<builder, size, out>> ELSE AddToBuilder(r)
      /\ UNCHANGED <<sources, job, done>>
  BY DEF CompactTurn
<1>2. /\ SourcesFit' /\ StreamsFit' /\ OrderFits'
      /\ lastUser = r.key => Chosen' = Chosen
      /\ lastUser # r.key =>
           /\ r \in Firsts \ Chosen
           /\ Chosen' = Chosen \cup {r}
           /\ \A q \in Chosen : q.key < r.key
           /\ \A q \in Firsts \ Chosen : q = r \/ r.key < q.key
  BY <1>1, TurnIs
<1>3. Surv' = Surv
  BY <1>1 DEF Surv, All
<1>4. Kept = {q \in Chosen : ~D(q)} /\ Surv = {q \in Firsts : ~D(q)}
  BY <1>1, SurvIs DEF Kept, Chosen
<1>5. Kept' = {q \in Chosen' : ~D(q)}
  <2>1. SourcesFit' /\ job' = job
    BY <1>1, <1>2
  <2>2. Input' = Input
    BY <1>1 DEF Input
  <2>3. Firsts' = Firsts
    BY <2>2 DEF Firsts
  <2>4. Kept' = {q \in Surv : Taken(q.key)'} /\ Chosen' = {q \in Firsts : Taken(q.key)'}
    BY <1>3, <2>3 DEF Kept, Chosen
  <2> HIDE DEF D
  <2> QED
    BY <1>4, <2>4
<1> HIDE DEF r, D
<1>6. CASE lastUser = r.key \/ D(r)
  <2>1. Kept' = Kept
    BY <1>2, <1>4, <1>5, <1>6
  <2>2. builder' = builder /\ size' = size /\ out' = out
    BY <1>1, <1>6
  <2> QED
    BY <1>2, <1>3, <2>1, <2>2 DEF CutFits
<1>7. CASE lastUser # r.key /\ ~D(r)
  <2>1. AddToBuilder(r)
    BY <1>1, <1>7
  <2>2. r \in Surv \ Kept /\ Kept' = Kept \cup {r}
    BY <1>2, <1>4, <1>5, <1>7
  <2>3. \A q \in Kept : q.key < r.key
    BY <1>2, <1>4, <1>7
  <2>4. \A q \in Surv \ Kept : q = r \/ r.key < q.key
    BY <1>2, <1>4, <1>7
  <2>5. CutFits'
    BY <1>1, <1>3, <2>1, <2>2, <2>3, <2>4, AddFits
  <2> QED
    BY <1>2, <2>5
<1> QED
  BY <1>6, <1>7

\* The tables a flush or a compaction has finished.
WrittenFits ==
  /\ out \in Seq(SUBSET Record)
  /\ \A i \in DOMAIN out : out[i] # {} /\ out[i] \subseteq All

\* What the last turn leaves in the builder is the last table.
LEMMA CompactEnds ==
  ASSUME SourcesFit, StreamsFit, OrderFits, CutFits, Finish, job.kind = "compact"
  PROVE  WrittenFits' /\ CompactionIsSurvivors'
<1> DEFINE L == Len(out)
           C(q) == Chunk(Surv, q)
           tables == {MkTable(i, out'[i]) : i \in DOMAIN out'}
<1>1. /\ heap = {} /\ out' = IF builder = {} THEN out ELSE Append(out, builder)
      /\ UNCHANGED <<sources, job>>
  BY DEF Finish
<1>2. Surv \in SUBSET Record /\ IsFiniteSet(Surv) /\ Surv \subseteq All
  BY SurvIs DEF Surv, Survivors
<1>3. Kept = Surv
  <2>1. Chosen = Firsts
    BY <1>1, AllChosen
  <2>2. \A q \in Firsts : Taken(q.key)
    BY <2>1 DEF Chosen
  <2> QED
    BY <2>2, SurvIs DEF Kept
<1>4. \A q \in Surv : C(q) \in Nat
  BY <1>2, ChunkType
<1> HIDE DEF C
<1>5. /\ out \in Seq(SUBSET Record) /\ L \in Nat /\ DOMAIN out = 1..L
      /\ \A i \in DOMAIN out : out[i] # {} /\ out[i] = {q \in Surv : C(q) = i - 1}
      /\ builder = {q \in Surv : C(q) = L}
      /\ \A q \in Surv : C(q) <= L
  BY <1>3 DEF CutFits, C
<1>6. /\ out' \in Seq(SUBSET Record)
      /\ \A i \in DOMAIN out' : out'[i] # {} /\ out'[i] = {q \in Surv : C(q) = i - 1} /\ i \in Nat
      /\ \A q \in Surv : C(q) + 1 \in DOMAIN out'
  <2>1. CASE builder = {}
    <3>1. out' = out
      BY <1>1, <2>1
    <3>2. \A q \in Surv : C(q) # L
      BY <1>5, <2>1
    <3>3. \A q \in Surv : C(q) + 1 \in 1..L
      BY <1>4, <1>5, <3>2
    <3> QED
      BY <1>5, <3>1, <3>3
  <2>2. CASE builder # {}
    <3>1. builder \in SUBSET Record
      BY <1>2, <1>5
    <3>2. /\ out' \in Seq(SUBSET Record) /\ DOMAIN out' = 1..(L + 1) /\ out'[L + 1] = builder
          /\ \A i \in DOMAIN out : out'[i] = out[i]
      <4>1. out' = Append(out, builder)
        BY <1>1, <2>2
      <4> QED
        BY <1>5, <3>1, <4>1
    <3>3. \A q \in Surv : C(q) + 1 \in 1..(L + 1)
      BY <1>4, <1>5
    <3>4. \A i \in DOMAIN out' : out'[i] # {} /\ out'[i] = {q \in Surv : C(q) = i - 1}
      <4> SUFFICES ASSUME NEW i \in DOMAIN out'
                   PROVE  out'[i] # {} /\ out'[i] = {q \in Surv : C(q) = i - 1}
        OBVIOUS
      <4>1. CASE i \in DOMAIN out
        BY <1>5, <3>2, <4>1
      <4>2. CASE i = L + 1
        <5>1. i - 1 = L
          BY <1>5, <4>2
        <5> QED
          BY <1>5, <2>2, <3>2, <4>2, <5>1
      <4> QED
        BY <1>5, <3>2, <4>1, <4>2
    <3> QED
      BY <1>5, <3>2, <3>3, <3>4
  <2> QED
    BY <2>1, <2>2
<1>7. All' = All
  BY <1>1 DEF All
<1>8. WrittenFits'
  <2>1. \A i \in DOMAIN out' : out'[i] \subseteq All
    BY <1>2, <1>6
  <2> QED
    BY <1>6, <1>7, <2>1 DEF WrittenFits
<1>9. tables = Outputs(Surv, 1)
  <2> DEFINE outs == {MkTable(1 + c, {q \in Surv : C(q) = c}) : c \in {C(q) : q \in Surv}}
  <2>1. Outputs(Surv, 1) = outs
    BY DEF Outputs, C
  <2>2. ASSUME NEW i \in DOMAIN out' PROVE MkTable(i, out'[i]) \in outs
    <3>1. PICK q \in Surv : C(q) = i - 1
      BY <1>6
    <3>2. 1 + C(q) = i /\ out'[i] = {p \in Surv : C(p) = C(q)}
      BY <1>4, <1>6, <3>1
    <3> QED
      BY <3>2
  <2>3. ASSUME NEW q \in Surv PROVE MkTable(1 + C(q), {p \in Surv : C(p) = C(q)}) \in tables
    <3>1. 1 + C(q) \in DOMAIN out' /\ (1 + C(q)) - 1 = C(q)
      BY <1>4, <1>6
    <3>2. out'[1 + C(q)] = {p \in Surv : C(p) = C(q)}
      BY <1>6, <3>1
    <3> QED
      BY <3>1, <3>2
  <2>4. \A t \in tables : t \in outs
    BY <2>2
  <2>5. ASSUME NEW t \in outs PROVE t \in tables
    <3>1. PICK c \in {C(q) : q \in Surv} : t = MkTable(1 + c, {p \in Surv : C(p) = c})
      OBVIOUS
    <3>2. PICK q \in Surv : c = C(q)
      OBVIOUS
    <3> QED
      BY <2>3, <3>1, <3>2
  <2> HIDE DEF tables, outs
  <2>6. tables = outs
    BY <2>4, <2>5
  <2> QED
    BY <2>1, <2>6
<1>10. CompactionIsSurvivors'
  <2>1. Outputs(Survivors(All, job.level, job.watermark), 1)' = Outputs(Surv, 1)
    BY <1>1, <1>7 DEF Surv
  <2> QED
    BY <1>9, <2>1 DEF CompactionIsSurvivors
<1> QED
  BY <1>8, <1>10

-----------------------------------------------------------------------------
(* A flush.                                                                *)

\* Every record is in the table or still to come.
FlushFits ==
  /\ lastUser = NoKey /\ size = 0 /\ out = <<>>
  /\ builder \cup Ahead = Input

\* A flush has the records of its memtable.
LEMMA FlushInput ==
  ASSUME SourcesFit, job.kind = "flush"
  PROVE  Input = sources[1] /\ sources[1] \subseteq All
<1>1. 1 \in 1..Sources
  BY MergeAssumption DEF MergeAssumption
<1>2. \A i \in 1..Sources : Stream(job, i, sources[i]) = IF i = 1 THEN sources[i] ELSE {}
  BY StreamIs
<1>3. sources[1] \subseteq All
  BY <1>1 DEF All, Range, SourcesFit
<1> QED
  BY <1>1, <1>2, <1>3 DEF Input

\* Its turn moves one record into the table,
LEMMA FlushTurnFits ==
  ASSUME SourcesFit, StreamsFit, FlushFits, FlushTurn
  PROVE  SourcesFit' /\ StreamsFit' /\ FlushFits'
<1> DEFINE x == Least(heap)
<1>1. /\ heap # {} /\ Pop(x) /\ builder' = builder \cup {x.rec}
      /\ UNCHANGED <<sources, job, lastUser, size, out, done>>
  BY DEF FlushTurn
<1>2. x \in heap
  BY <1>1, LeastIs
<1>3. StreamsFit' /\ Input' = Input /\ Ahead = Ahead' \cup {x.rec}
  BY <1>1, <1>2, PopIs
<1>4. SourcesFit'
  BY <1>1 DEF SourcesFit, All
<1>5. builder' \cup Ahead' = Input'
  BY <1>1, <1>3 DEF FlushFits
<1> QED
  BY <1>1, <1>3, <1>4, <1>5 DEF FlushFits

\* and at the end it has them all.
LEMMA FlushEnds ==
  ASSUME SourcesFit, StreamsFit, FlushFits, Finish, job.kind = "flush"
  PROVE  WrittenFits' /\ (UNION Range(out) = sources[1])'
<1>1. /\ heap = {} /\ out' = IF builder = {} THEN out ELSE Append(out, builder)
      /\ UNCHANGED <<sources, job>>
  BY DEF Finish
<1>2. builder = sources[1] /\ builder \in SUBSET Record /\ builder \subseteq All
  BY <1>1, NothingAhead, FlushInput, InputIs DEF FlushFits
<1>3. out' = IF builder = {} THEN <<>> ELSE <<builder>>
  BY <1>1 DEF FlushFits
<1>4. All' = All /\ sources' = sources
  BY <1>1 DEF All
<1>5. CASE builder = {}
  <2>1. Range(out') = {}
    BY <1>3, <1>5 DEF Range
  <2> QED
    BY <1>2, <1>3, <1>4, <1>5, <2>1 DEF WrittenFits
<1>6. CASE builder # {}
  <2>1. /\ out' \in Seq(SUBSET Record) /\ DOMAIN out' = {1} /\ out'[1] = builder
    <3>1. out' = <<builder>>
      BY <1>3, <1>6
    <3>2. <<builder>> \in Seq(SUBSET Record)
      BY <1>2
    <3>3. DOMAIN <<builder>> = {1} /\ <<builder>>[1] = builder
      OBVIOUS
    <3> QED
      BY <3>1, <3>2, <3>3
  <2>2. Range(out') = {builder}
    BY <2>1 DEF Range
  <2> QED
    BY <1>2, <1>4, <1>6, <2>1, <2>2 DEF WrittenFits
<1> QED
  BY <1>5, <1>6

-----------------------------------------------------------------------------
(* The invariant.                                                          *)

\* Each loop is where it should be, and at its end what it should have made
\* is there.
MergeInv ==
  /\ SourcesFit /\ StreamsFit
  /\ lastUser \in Keys \cup {NoKey} /\ builder \subseteq Record /\ size \in 0..TargetFileSize
  /\ done \in BOOLEAN /\ (done => heap = {})
  /\ job.kind = "scan" => OrderFits /\ ScanFits
  /\ job.kind = "compact" /\ ~done => OrderFits /\ CutFits
  /\ job.kind = "flush" /\ ~done => FlushFits
  /\ job.kind # "scan" /\ done => WrittenFits
  /\ job.kind = "flush" /\ done => UNION Range(out) = sources[1]
  /\ CompactionIsSurvivors

\* Before the first turn nothing was taken, and all loops are in order.
LEMMA MergeInit == Init => MergeInv
<1> SUFFICES ASSUME Init PROVE MergeInv
  OBVIOUS
<1>1. SourcesFit /\ StreamsFit /\ Ahead = Input
  BY InitStreams
<1>2. lastUser = NoKey /\ builder = {} /\ size = 0 /\ out = <<>> /\ done = FALSE
  BY DEF Init
<1>3. OrderFits
  BY <1>1, <1>2 DEF OrderFits
<1>4. Chosen = {} /\ Kept = {}
  BY <1>2 DEF Chosen, Kept, Taken
<1>5. Range(out) = {} /\ DOMAIN out = {} /\ Len(out) = 0
  BY <1>2 DEF Range
<1>6. ScanFits
  BY <1>2, <1>4, <1>5 DEF ScanFits
<1>7. TargetFileSize \in Nat \ {0}
  BY LsmAssumption DEF LsmAssumption
<1>8. CutFits
  <2>1. Cardinality(Kept) = 0 /\ Cardinality(builder) = 0
    BY <1>2, <1>4, FS_EmptySet
  <2>2. 0 = 0 * TargetFileSize + 0
    BY <1>7
  <2>3. out \in Seq(SUBSET Record)
    BY <1>2
  <2> QED
    BY <1>2, <1>4, <1>5, <1>7, <2>1, <2>2, <2>3 DEF CutFits
<1>9. FlushFits
  BY <1>1, <1>2 DEF FlushFits
<1>10. CompactionIsSurvivors
  BY <1>2 DEF CompactionIsSurvivors
<1>11. lastUser \in Keys \cup {NoKey} /\ builder \subseteq Record /\ size \in 0..TargetFileSize
  BY <1>2, <1>7
<1>12. ~done /\ done \in BOOLEAN
  BY <1>2
<1> QED
  BY <1>1, <1>3, <1>6, <1>8, <1>9, <1>10, <1>11, <1>12 DEF MergeInv

\* A turn of a scan.
LEMMA ScanTurnStep == ASSUME MergeInv, ScanTurn PROVE MergeInv'
<1>1. job.kind = "scan" /\ heap # {} /\ UNCHANGED <<sources, job, builder, size, done>>
  BY DEF ScanTurn
<1>2. ~done /\ done' = done
  BY <1>1 DEF MergeInv
<1>3. SourcesFit' /\ StreamsFit' /\ OrderFits' /\ ScanFits'
  BY <1>1, ScanTurnFits DEF MergeInv
<1>4. lastUser' \in Keys \cup {NoKey}
  BY <1>3 DEF OrderFits
<1>5. CompactionIsSurvivors'
  BY <1>1, <1>2 DEF CompactionIsSurvivors
<1> QED
  BY <1>1, <1>2, <1>3, <1>4, <1>5 DEF MergeInv

\* A turn of a compaction.
LEMMA CompactTurnStep == ASSUME MergeInv, CompactTurn PROVE MergeInv'
<1>1. job.kind = "compact" /\ heap # {} /\ UNCHANGED <<sources, job, done>>
  BY DEF CompactTurn
<1>2. ~done /\ done' = done
  BY <1>1 DEF MergeInv
<1>3. SourcesFit' /\ StreamsFit' /\ OrderFits' /\ CutFits'
  BY <1>1, <1>2, CompactTurnFits DEF MergeInv
<1>4. lastUser' \in Keys \cup {NoKey} /\ size' \in 0..TargetFileSize
  BY <1>3 DEF OrderFits, CutFits
<1>5. builder' \subseteq Record
  <2>1. Surv' \in SUBSET Record
    BY <1>3, InputIs DEF SourcesFit, Surv, Survivors, All, Range
  <2> QED
    BY <1>3, <2>1 DEF CutFits, Kept
<1>6. CompactionIsSurvivors'
  BY <1>1, <1>2 DEF CompactionIsSurvivors
<1> QED
  BY <1>1, <1>2, <1>3, <1>4, <1>5, <1>6 DEF MergeInv

\* A turn of a flush.
LEMMA FlushTurnStep == ASSUME MergeInv, FlushTurn PROVE MergeInv'
<1>1. /\ job.kind = "flush" /\ heap # {}
      /\ UNCHANGED <<sources, job, lastUser, size, out, done>>
      /\ builder' = builder \cup {Least(heap).rec}
  BY DEF FlushTurn
<1>2. ~done /\ done' = done
  BY <1>1 DEF MergeInv
<1>3. SourcesFit' /\ StreamsFit' /\ FlushFits'
  BY <1>1, <1>2, FlushTurnFits DEF MergeInv
<1>4. Least(heap).rec \in Record
  BY <1>1, LeastIs, InputIs DEF MergeInv, StreamsFit
<1>5. CompactionIsSurvivors'
  BY <1>1, <1>2 DEF CompactionIsSurvivors
<1> QED
  BY <1>1, <1>2, <1>3, <1>4, <1>5 DEF MergeInv

\* The end of each loop.
LEMMA FinishStep == ASSUME MergeInv, Finish PROVE MergeInv'
<1>1. /\ heap = {} /\ ~done /\ done' = TRUE /\ builder' = {}
      /\ out' = IF builder = {} THEN out ELSE Append(out, builder)
      /\ UNCHANGED <<sources, job, rest, heap, lastUser, size>>
  BY DEF Finish
<1>2. SourcesFit'
  BY <1>1 DEF MergeInv, SourcesFit, All
<1>3. Input' = Input /\ Ahead' = Ahead
  BY <1>1 DEF Input, Ahead
<1>4. StreamsFit'
  BY <1>1, <1>3 DEF MergeInv, StreamsFit
<1>5. job.kind \in {"compact", "scan", "flush"}
  BY DEF MergeInv, SourcesFit, Jobs
<1>6. /\ lastUser' \in Keys \cup {NoKey} /\ builder' \subseteq Record /\ size' \in 0..TargetFileSize
      /\ done' \in BOOLEAN /\ heap' = {}
  BY <1>1 DEF MergeInv
<1>7. CASE job.kind = "scan"
  <2>1. OrderFits /\ ScanFits
    BY <1>7 DEF MergeInv
  <2>2. OrderFits'
    BY <1>1, <1>3, <2>1 DEF OrderFits, Taken
  <2>3. Chosen' = Chosen
    BY <1>1, <1>3 DEF Chosen, Firsts, Taken
  <2>4. out' = out
    BY <1>1, <2>1 DEF ScanFits
  <2>5. ScanFits'
    BY <1>1, <2>1, <2>3, <2>4 DEF ScanFits
  <2>6. job'.kind = "scan"
    BY <1>1, <1>7
  <2>7. CompactionIsSurvivors'
    BY <2>6 DEF CompactionIsSurvivors
  <2> QED
    BY <1>2, <1>4, <1>6, <2>2, <2>5, <2>6, <2>7 DEF MergeInv
<1>8. CASE job.kind = "compact"
  <2>1. WrittenFits' /\ CompactionIsSurvivors'
    BY <1>1, <1>8, CompactEnds DEF MergeInv
  <2>2. job'.kind = "compact"
    BY <1>1, <1>8
  <2> QED
    BY <1>1, <1>2, <1>4, <1>6, <2>1, <2>2 DEF MergeInv
<1>9. CASE job.kind = "flush"
  <2>1. WrittenFits' /\ (UNION Range(out) = sources[1])'
    BY <1>1, <1>9, FlushEnds DEF MergeInv
  <2>2. job'.kind = "flush"
    BY <1>1, <1>9
  <2>3. CompactionIsSurvivors'
    BY <2>2 DEF CompactionIsSurvivors
  <2> QED
    BY <1>1, <1>2, <1>4, <1>6, <2>1, <2>2, <2>3 DEF MergeInv
<1> QED
  BY <1>5, <1>7, <1>8, <1>9

\* Every turn keeps the invariant.
LEMMA MergeNext == MergeInv /\ [Next]_vars => MergeInv'
<1> SUFFICES ASSUME MergeInv, [Next]_vars PROVE MergeInv'
  OBVIOUS
<1>1. CASE UNCHANGED vars
  <2>1. UNCHANGED <<sources, job, rest, heap, lastUser, builder, size, out, done>>
    BY <1>1 DEF vars
  <2>2. /\ Input' = Input /\ Ahead' = Ahead /\ All' = All
    BY <2>1 DEF Input, Ahead, All
  <2>3. Chosen' = Chosen /\ Kept' = Kept /\ Surv' = Surv
    BY <2>1, <2>2 DEF Chosen, Kept, Surv, Firsts, Taken
  <2>4. SourcesFit' /\ StreamsFit'
    BY <2>1, <2>2 DEF MergeInv, SourcesFit, StreamsFit
  <2>5. (OrderFits => OrderFits') /\ (ScanFits => ScanFits') /\ (FlushFits => FlushFits')
    BY <2>1, <2>2, <2>3 DEF OrderFits, ScanFits, FlushFits, Taken
  <2>6. CutFits => CutFits'
    BY <2>1, <2>3 DEF CutFits
  <2>7. (WrittenFits => WrittenFits') /\ (CompactionIsSurvivors => CompactionIsSurvivors')
    BY <2>1, <2>2 DEF WrittenFits, CompactionIsSurvivors
  <2> QED
    BY <2>1, <2>4, <2>5, <2>6, <2>7 DEF MergeInv
<1> QED
  BY <1>1, ScanTurnStep, CompactTurnStep, FlushTurnStep, FinishStep DEF Next

\* It holds in every state of every job.
LEMMA MergeAlways == Spec => []MergeInv
BY MergeInit, MergeNext, PTL DEF Spec

-----------------------------------------------------------------------------
(* The theorems.                                                           *)

\* Streams, heap and what is built have their types (iter.rs, compact.rs).
THEOREM MergeTypeCorrect == Spec => []TypeOK
<1>1. ASSUME MergeInv PROVE TypeOK
  <2>1. /\ sources \in [1..Sources -> SUBSET Record] /\ job \in Jobs
        /\ rest \in [1..Sources -> Seq(Record)]
        /\ heap \subseteq [rec : Record, source : 1..Sources]
    BY <1>1 DEF MergeInv, SourcesFit, StreamsFit
  <2>2. job.kind \in {"compact", "scan", "flush"}
    BY <2>1 DEF Jobs
  <2>3. job.kind = "scan" => out \in Seq([key : Keys, val : Vals])
    BY <1>1 DEF MergeInv, ScanFits
  <2>4. job.kind # "scan" => out \in Seq(SUBSET Record)
    <3>1. CASE done
      BY <1>1, <3>1 DEF MergeInv, WrittenFits
    <3>2. CASE ~done
      <4>1. <<>> \in Seq(SUBSET Record)
        OBVIOUS
      <4> QED
        BY <1>1, <2>2, <3>2, <4>1 DEF MergeInv, CutFits, FlushFits
    <3> QED
      BY <3>1, <3>2
  <2> QED
    BY <1>1, <2>1, <2>3, <2>4 DEF MergeInv, TypeOK
<1> QED
  BY <1>1, MergeAlways, PTL

\* Whatever the streams hold, every turn takes the first record, in the order of
\* the internal keys, of all that is ahead in any of them, and nothing else is
\* lost (iter.rs and compact.rs, HeapItem::cmp and the refill).
THEOREM MergeInOrder == Spec => MergeOrder
<1> DEFINE A == heap # {} =>
                  \E r \in Ahead : /\ \A q \in Ahead : q = r \/ Before(r, q)
                                   /\ Ahead' \cup {r} = Ahead
                                   /\ job.kind # "flush" => lastUser' = r.key
<1>1. MergeInv /\ [Next]_vars => [A]_vars
  <2> SUFFICES ASSUME MergeInv, Next, heap # {}
               PROVE  \E r \in Ahead : /\ \A q \in Ahead : q = r \/ Before(r, q)
                                       /\ Ahead' \cup {r} = Ahead
                                       /\ job.kind # "flush" => lastUser' = r.key
    OBVIOUS
  <2> DEFINE x == Least(heap)
  <2>1. x \in heap /\ x.rec \in Ahead /\ \A q \in Ahead : q = x.rec \/ Before(x.rec, q)
    BY LeastIs DEF MergeInv
  <2>2. /\ Pop(x) /\ UNCHANGED <<sources, job>>
        /\ job.kind # "flush" => lastUser' = x.rec.key
    BY DEF Next, ScanTurn, CompactTurn, FlushTurn, Finish
  <2> HIDE DEF x
  <2>3. Ahead' \cup {x.rec} = Ahead
    BY <2>1, <2>2, PopIs DEF MergeInv
  <2> QED
    BY <2>1, <2>2, <2>3
<1> HIDE DEF A
<1>2. Spec => [][A]_vars
  BY <1>1, MergeAlways, PTL DEF Spec
<1> QED
  BY <1>2 DEF A, MergeOrder

\* run_compaction writes the tables that Lsm's Outputs of Survivors are, on
\* which what is proved of the engine rests.
THEOREM CompactionWritesSurvivors == Spec => []CompactionIsSurvivors
<1>1. MergeInv => CompactionIsSurvivors
  BY DEF MergeInv
<1> QED
  BY <1>1, MergeAlways, PTL

\* scan_with_seq lists what get_with_seq at its sequence number answers, key
\* by key, whichever memtables and tables hold the versions.
THEOREM ScanAnswersAsLookup == Spec => []ScanIsLookup
<1>1. ASSUME MergeInv PROVE ScanIsLookup
  <2>1. CASE done /\ job.kind = "scan"
    BY <1>1, <2>1, ScanEnds DEF MergeInv
  <2>2. CASE ~(done /\ job.kind = "scan")
    BY <2>2 DEF ScanIsLookup
  <2> QED
    BY <2>1, <2>2
<1> QED
  BY <1>1, MergeAlways, PTL

\* Every table that flush_imms or run_compaction finishes answers through
\* filter, index and blocks (SsTable::get) for the records put into it.
THEOREM BuiltTablesFind == Spec => []BuiltTablesAnswer
<1>1. ASSUME MergeInv, done, job.kind # "scan", NEW i \in DOMAIN out
      PROVE  NoFalseNegative(out[i]) /\ FindsNewest(MkTable(i, out[i]))
  <2> DEFINE S == out[i]
  <2>1. S # {} /\ S \subseteq All /\ i \in Nat
    BY <1>1 DEF MergeInv, WrittenFits
  <2> HIDE DEF S
  <2>2. S \in SUBSET Record /\ IsFiniteSet(S) /\ OncePerSeq(S)
    <3>1. All \in SUBSET Record /\ IsFiniteSet(All) /\ OncePerSeq(All)
      BY <1>1, InputIs DEF MergeInv
    <3> QED
      BY <2>1, <3>1, FS_Subset DEF OncePerSeq
  <2>3. S \in Batch
    BY <2>1, <2>2 DEF Batch
  <2>4. MkTable(i, S) \in Built /\ MkTable(i, S).recs = S
    BY <2>1, <2>3, MkTableBuilt
  <2>5. FindsNewest(MkTable(i, S))
    BY <2>2, <2>4, TableFindsNewest
  <2>6. NoFalseNegative(S)
    BY FilterKeepsKeys
  <2> QED
    BY <2>5, <2>6 DEF S
<1>2. ASSUME MergeInv PROVE BuiltTablesAnswer
  <2>1. CASE done /\ job.kind # "scan"
    <3>1. job.kind = "flush" => UNION Range(out) = sources[1]
      BY <1>2, <2>1 DEF MergeInv
    <3> QED
      BY <1>1, <1>2, <2>1, <3>1 DEF BuiltTablesAnswer
  <2>2. CASE ~(done /\ job.kind # "scan")
    BY <2>2 DEF BuiltTablesAnswer
  <2> QED
    BY <2>1, <2>2
<1> QED
  BY <1>2, MergeAlways, PTL

=============================================================================
