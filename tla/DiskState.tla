----------------------------- MODULE DiskState -----------------------------
(***************************************************************************)
(* Theorems about the engine on its disk, for any keys, options, faults    *)
(* and bounds: what the logs record, the types of the state, the shape of  *)
(* the plan that the holder of the mutex carries out, and what a memory,   *)
(* or what recovery makes of the disk, serves.                             *)
(***************************************************************************)
EXTENDS DbDisk, LsmProofs

-----------------------------------------------------------------------------
(* Sequences.                                                              *)

\* A sequence with one element put in front: its head, tail, length and elements.
LEMMA FirstAndRest ==
  ASSUME NEW S, NEW x \in S, NEW s \in Seq(S)
  PROVE  /\ <<x>> \o s \in Seq(S) /\ <<x>> \o s # <<>>
         /\ Head(<<x>> \o s) = x /\ Tail(<<x>> \o s) = s
         /\ Len(<<x>> \o s) = Len(s) + 1 /\ DOMAIN (<<x>> \o s) = 1..(Len(s) + 1)
         /\ (<<x>> \o s)[1] = x /\ \A i \in 1..Len(s) : (<<x>> \o s)[i + 1] = s[i]
<1> DEFINE c == <<x>> \o s
<1>1. c \in Seq(S) /\ Len(c) = Len(s) + 1 /\ c[1] = x /\ \A i \in 1..Len(s) : c[i + 1] = s[i]
  OBVIOUS
<1> HIDE DEF c
<1>2. Tail(c) \in Seq(S) /\ Len(Tail(c)) = Len(s) /\ \A i \in 1..Len(s) : Tail(c)[i] = s[i]
  BY <1>1
<1>3. Tail(c) = s
  BY <1>2
<1> QED
  BY <1>1, <1>3 DEF c

\* Two sequences one after the other: length and elements.
LEMMA Concat ==
  ASSUME NEW S, NEW s \in Seq(S), NEW t \in Seq(S)
  PROVE  /\ s \o t \in Seq(S) /\ Len(s \o t) = Len(s) + Len(t)
         /\ \A i \in 1..Len(s) : (s \o t)[i] = s[i]
         /\ \A i \in 1..Len(t) : (s \o t)[Len(s) + i] = t[i]
         /\ \A i \in 1..Len(s \o t) : i \in 1..Len(s) \/ (i - Len(s) \in 1..Len(t) /\ (s \o t)[i] = t[i - Len(s)])
OBVIOUS

\* Concatenation is associative.
LEMMA ConcatAssoc ==
  ASSUME NEW S, NEW s \in Seq(S), NEW t \in Seq(S), NEW u \in Seq(S)
  PROVE  (s \o t) \o u = s \o (t \o u)
<1> DEFINE a == (s \o t) \o u
           b == s \o (t \o u)
<1>1. a \in Seq(S) /\ b \in Seq(S) /\ Len(a) = Len(b) /\ Len(a) = Len(s) + Len(t) + Len(u)
  OBVIOUS
<1>2. ASSUME NEW i \in 1..Len(a) PROVE a[i] = b[i]
  OBVIOUS
<1> HIDE DEF a, b
<1> QED
  BY <1>1, <1>2

\* A sequence over a set is one over any larger set.
LEMMA Widen ==
  ASSUME NEW S, NEW T, S \subseteq T, NEW s \in Seq(S)
  PROVE  s \in Seq(T)
OBVIOUS

\* The entries of a sequence over a set are in it.
LEMMA EntriesOf == \A S : \A s \in Seq(S) : \A i \in DOMAIN s : s[i] \in S
OBVIOUS

\* The empty sequence is neutral.
LEMMA ConcatEmpty ==
  ASSUME NEW S, NEW s \in Seq(S)
  PROVE  s \o <<>> = s /\ <<>> \o s = s
OBVIOUS

\* Finitely many tables can be put in the order of their numbers.
LEMMA ByNumSorts ==
  ASSUME NEW T \in SUBSET Table, IsFiniteSet(T)
  PROVE  /\ ByNum(T) \in Seq(T) /\ DOMAIN ByNum(T) = 1..Cardinality(T)
         /\ \A t \in T : \E i \in DOMAIN ByNum(T) : ByNum(T)[i] = t
<1> DEFINE R == {p \in T \X T : p[1].num <= p[2].num}
<1>1. Linear(R, T)
  <2>1. \A t \in T : t.num \in Nat
    BY DEF Table
  <2> QED
    BY <2>1 DEF Linear
<1>2. \E s \in Bijection(1..Cardinality(T), T) : \A i, j \in DOMAIN s : i < j => s[i].num <= s[j].num
  <2>1. PICK s \in Bijection(1..Cardinality(T), T) : \A i, j \in DOMAIN s : i < j => <<s[i], s[j]>> \in R
    <3> HIDE DEF R
    <3> QED
      BY <1>1, SortedExists
  <2> QED
    BY <2>1
<1>3. ByNum(T) \in Bijection(1..Cardinality(T), T)
  BY <1>2 DEF ByNum
<1>4. /\ ByNum(T) \in [1..Cardinality(T) -> T] /\ Cardinality(T) \in Nat
      /\ \A t \in T : \E i \in 1..Cardinality(T) : ByNum(T)[i] = t
  BY <1>3, FS_CardinalityType DEF Bijection, Surjection
<1> QED
  BY <1>4

\* And in the order in which a level has them.
LEMMA InLevelSorts ==
  ASSUME NEW T \in SUBSET Table, NEW l \in Level, IsFiniteSet(T)
  PROVE  /\ InLevel(T, l) \in Seq(T) /\ DOMAIN InLevel(T, l) = 1..Cardinality(T)
         /\ \A t \in T : \E i \in DOMAIN InLevel(T, l) : InLevel(T, l)[i] = t
<1> DEFINE R == {p \in T \X T : Precedes(p[1], p[2])}
<1>1. Linear(R, T)
  <2>1. \A t \in T : t.num \in Nat /\ t.lo \in Nat
    BY LsmAssumption DEF Table, LsmAssumption
  <2> QED
    BY <2>1 DEF Linear, Precedes
<1>2. \E s \in Bijection(1..Cardinality(T), T) : \A i, j \in DOMAIN s : i < j => Precedes(s[i], s[j])
  <2>1. PICK s \in Bijection(1..Cardinality(T), T) : \A i, j \in DOMAIN s : i < j => <<s[i], s[j]>> \in R
    <3> HIDE DEF R
    <3> QED
      BY <1>1, SortedExists
  <2> QED
    BY <2>1
<1>3. ByKey(T) \in Bijection(1..Cardinality(T), T)
  BY <1>2 DEF ByKey
<1>4. /\ ByKey(T) \in [1..Cardinality(T) -> T] /\ Cardinality(T) \in Nat
      /\ \A t \in T : \E i \in 1..Cardinality(T) : ByKey(T)[i] = t
  BY <1>3, FS_CardinalityType DEF Bijection, Surjection
<1>5. /\ ByKey(T) \in Seq(T) /\ DOMAIN ByKey(T) = 1..Cardinality(T)
      /\ \A t \in T : \E i \in DOMAIN ByKey(T) : ByKey(T)[i] = t
  BY <1>4
<1> QED
  BY <1>5, ByNumSorts DEF InLevel

-----------------------------------------------------------------------------
(* The MANIFEST.                                                           *)

Metas == [num : Nat, lo : Keys, hi : Keys]

Edit == [op : {"AddFile"}, level : Level, meta : Metas]
          \cup [op : {"DeleteFile"}, level : Level, num : Nat]
          \cup [op : {"SetNextFileNum"}, n : Nat \ {0}]
          \cup [op : {"SetLastSeq"}, s : 0..MaxSeq]

\* A stump is neither a record nor an edit.
LEMMA TornIsNeither == Torn \notin Record /\ Torn \notin Edit
<1>1. DOMAIN Torn = {"key"}
  BY DEF Torn
<1>2. \A r \in Record : DOMAIN r = {"key", "seq", "val"}
  BY DEF Record
<1>3. \A e \in Edit : "op" \in DOMAIN e
  BY DEF Edit
<1> QED
  BY <1>1, <1>2, <1>3

\* What the fields of an edit hold.
LEMMA EditFields ==
  ASSUME NEW e \in Edit
  PROVE  /\ e.op = "AddFile" => e.level \in Level /\ e.meta \in Metas
         /\ e.op = "DeleteFile" => e.level \in Level /\ e.num \in Nat
         /\ e.op = "SetNextFileNum" => e.n \in Nat \ {0}
         /\ e.op = "SetLastSeq" => e.s \in 0..MaxSeq
BY DEF Edit

\* Recovery reads whole records only.
LEMMA StumpBound ==
  ASSUME NEW S, NEW log \in Seq(S)
  PROVE  /\ BeforeStump(log) \subseteq 1..Len(log) /\ IsFiniteSet(BeforeStump(log))
         /\ \A i \in BeforeStump(log) : log[i] # Torn /\ log[i] \in S
<1> DEFINE B == {i \in DOMAIN log : log[i] = Torn} \cup {Len(log) + 1}
<1>1. B \in SUBSET Nat /\ B # {} /\ Len(log) \in Nat /\ DOMAIN log = 1..Len(log)
  OBVIOUS
<1>2. Min(B) \in B /\ \A x \in B : Min(B) <= x
  BY <1>1, MinOfNats
<1>3. BeforeStump(log) = 1..(Min(B) - 1) /\ Len(log) + 1 \in B
  BY DEF BeforeStump
<1>4. \A i \in 1..Len(log) : log[i] = Torn => i \in B
  BY <1>1
<1> HIDE DEF B
<1>5. Min(B) \in Nat /\ Min(B) <= Len(log) + 1
  BY <1>1, <1>2, <1>3
<1>6. BeforeStump(log) \subseteq 1..Len(log)
  BY <1>1, <1>3, <1>5
<1>7. \A i \in BeforeStump(log) : log[i] # Torn
  BY <1>2, <1>3, <1>4, <1>5, <1>6
<1>8. IsFiniteSet(BeforeStump(log))
  BY <1>3, <1>5, FS_Interval
<1> QED
  BY <1>6, <1>7, <1>8

\* All of a log without a stump is read.
LEMMA NoStump ==
  ASSUME NEW S, Torn \notin S, NEW log \in Seq(S)
  PROVE  BeforeStump(log) = 1..Len(log)
<1> DEFINE n == Len(log) + 1
<1>1. {i \in DOMAIN log : log[i] = Torn} \cup {n} = {n}
  OBVIOUS
<1>2. n \in Nat /\ Len(log) = n - 1
  OBVIOUS
<1> HIDE DEF n
<1>3. Min({n}) = n
  <2>1. {n} \in SUBSET Nat /\ {n} # {}
    BY <1>2
  <2>2. Min({n}) \in {n}
    BY <2>1, MinOfNats
  <2> QED
    BY <2>2
<1>4. {i \in DOMAIN log : log[i] = Torn} \cup {Len(log) + 1} = {n}
  BY <1>1 DEF n
<1> QED
  BY <1>2, <1>3, <1>4 DEF BeforeStump

\* The edits that a recovery reads.
LEMMA OpsAre ==
  ASSUME NEW edits \in Seq(Edit \cup {Torn}), NEW op
  PROVE  /\ Ops(edits, op) \subseteq 1..Len(edits) /\ Ops(edits, op) \in SUBSET Nat
         /\ IsFiniteSet(Ops(edits, op))
         /\ \A i \in Ops(edits, op) : edits[i] \in Edit /\ edits[i].op = op
<1>1. /\ BeforeStump(edits) \subseteq 1..Len(edits) /\ IsFiniteSet(BeforeStump(edits))
      /\ \A i \in BeforeStump(edits) : edits[i] \in Edit
  BY StumpBound
<1>2. Ops(edits, op) \subseteq BeforeStump(edits)
  BY DEF Ops
<1>3. IsFiniteSet(Ops(edits, op))
  BY <1>1, <1>2, FS_Subset
<1> QED
  BY <1>1, <1>2, <1>3 DEF Ops

\* The numbers that recovery reads from a manifest are numbers to go on from.
LEMMA ManifestNumbers ==
  ASSUME NEW edits \in Seq(Edit \cup {Torn})
  PROVE  LastNextFileNum(edits) \in Nat \ {0} /\ LastSeq(edits) \in 0..MaxSeq
<1>1. LastNextFileNum(edits) \in Nat \ {0}
  <2> DEFINE I == Ops(edits, "SetNextFileNum")
  <2>1. I # {} => Max(I) \in I
    BY OpsAre, MaxOfFinite
  <2>2. I # {} => edits[Max(I)].n \in Nat \ {0}
    BY <2>1, OpsAre, EditFields
  <2>3. LastNextFileNum(edits) = IF I = {} THEN 1 ELSE edits[Max(I)].n
    BY DEF LastNextFileNum
  <2> HIDE DEF I
  <2> QED
    BY <2>2, <2>3
<1>2. LastSeq(edits) \in 0..MaxSeq
  <2> DEFINE I == Ops(edits, "SetLastSeq")
  <2>1. I # {} => Max(I) \in I
    BY OpsAre, MaxOfFinite
  <2>2. I # {} => edits[Max(I)].s \in 0..MaxSeq
    BY <2>1, OpsAre, EditFields
  <2>3. LastSeq(edits) = IF I = {} THEN 0 ELSE edits[Max(I)].s
    BY DEF LastSeq
  <2> HIDE DEF I
  <2> QED
    BY <2>2, <2>3, LsmAssumption DEF LsmAssumption
<1> QED
  BY <1>1, <1>2

\* What a manifest lists is a finite set of file descriptions.
LEMMA LiveType ==
  ASSUME NEW edits \in Seq(Edit \cup {Torn}), NEW l
  PROVE  Live(edits, l) \in SUBSET Metas /\ IsFiniteSet(Live(edits, l))
<1> DEFINE A == Ops(edits, "AddFile")
           J == {j \in A : /\ edits[j].level = l
                           /\ \A d \in Ops(edits, "DeleteFile") :
                                d > j => edits[d].level # l \/ edits[d].num # edits[j].meta.num}
           f == [j \in J |-> edits[j].meta]
           L == Live(edits, l)
<1>1. L = {edits[j].meta : j \in J}
  BY DEF Live
<1>2. J \subseteq A /\ IsFiniteSet(A) /\ \A j \in A : edits[j].meta \in Metas
  BY OpsAre, EditFields
<1> HIDE DEF J, A, L
<1>3. IsFiniteSet(J)
  BY <1>2, FS_Subset
<1>4. f \in [J -> L] /\ \A m \in L : \E j \in J : f[j] = m
  BY <1>1
<1> HIDE DEF f
<1>5. IsFiniteSet(L)
  BY <1>3, <1>4, FiniteImage, ZenonT(30)
<1> QED
  BY <1>1, <1>2, <1>5 DEF L

-----------------------------------------------------------------------------
(* Tables.                                                                 *)

\* A table whose file could be any that holds records: after a fault a range
\* may be that of another file of the same number.
Stock == {t \in Table : t.recs \in Batch}
Stored(lv) == lv \in [Level -> SUBSET Stock] /\ \A l \in Level : IsFiniteSet(lv[l])
Files(f) == DOMAIN f \subseteq Nat /\ \A n \in DOMAIN f : f[n] \in Batch

\* A table of the bounded model is a table, and its description gives it back.
LEMMA BuiltIsStock ==
  ASSUME NEW t \in Built
  PROVE  t \in Stock /\ t.num \in Nat /\ t.recs \in Batch /\ Meta(t) \in Metas
         /\ Meta(t).num = t.num /\ t = MkTable(t.num, t.recs)
BY DEF Built, Stock, Table, Meta, Metas

\* Levels of tables are levels.
LEMMA StoredLevels ==
  ASSUME NEW lv, Stored(lv)
  PROVE  lv \in Levels
BY DEF Stored, Levels, Stock

\* from_metas opens a table for each file that is there.
LEMMA OpenedType ==
  ASSUME NEW M \in SUBSET Metas, IsFiniteSet(M), NEW f, Files(f)
  PROVE  Opened(M, f) \in SUBSET Stock /\ IsFiniteSet(Opened(M, f))
<1> DEFINE N == {x \in M : x.num \in DOMAIN f}
           T == Opened(M, f)
           g == [m \in N |-> [num |-> m.num, lo |-> m.lo, hi |-> m.hi, recs |-> f[m.num]]]
<1>1. T = {[num |-> m.num, lo |-> m.lo, hi |-> m.hi, recs |-> f[m.num]] : m \in N}
  BY DEF Opened
<1>2. IsFiniteSet(N)
  BY FS_Subset
<1>3. \A m \in N : f[m.num] \in Batch /\ m \in Metas
  BY DEF Files
<1>4. T \in SUBSET Stock
  BY <1>1, <1>3 DEF Metas, Stock, Table, Batch
<1> HIDE DEF N, T
<1>5. g \in [N -> T] /\ \A t \in T : \E m \in N : g[m] = t
  BY <1>1
<1> HIDE DEF g
<1>6. IsFiniteSet(T)
  BY <1>2, <1>5, FiniteImage, ZenonT(30)
<1> QED
  BY <1>4, <1>6 DEF T

\* The levels that recovery opens have their type, whatever the manifest lists.
LEMMA VersionType ==
  ASSUME NEW edits \in Seq(Edit \cup {Torn}), NEW f, Files(f)
  PROVE  Stored(Version(edits, f))
<1>1. ASSUME NEW l \in Level
      PROVE  Opened(Live(edits, l), f) \in SUBSET Stock /\ IsFiniteSet(Opened(Live(edits, l), f))
  BY LiveType, OpenedType
<1> QED
  BY <1>1 DEF Stored, Version

\* The memtable that recovery replays from a log has its type.
LEMMA ReplayedType ==
  ASSUME NEW log \in Seq(Record \cup {Torn})
  PROVE  Replayed(log) \in SUBSET Record /\ IsFiniteSet(Replayed(log))
<1> DEFINE B == BeforeStump(log)
           R == Replayed(log)
           f == [i \in B |-> log[i]]
<1>1. IsFiniteSet(B) /\ \A i \in B : log[i] \in Record
  BY StumpBound
<1>2. R = {log[i] : i \in B}
  BY DEF Replayed
<1> HIDE DEF B, R
<1>3. f \in [B -> R] /\ \A r \in R : \E i \in B : f[i] = r
  BY <1>2
<1> HIDE DEF f
<1>4. IsFiniteSet(R)
  BY <1>1, <1>3, FiniteImage, ZenonT(30)
<1> QED
  BY <1>1, <1>2, <1>4 DEF R

\* A stump at the end of a log is not read.
LEMMA StumpIgnored ==
  ASSUME NEW S, Torn \notin S, NEW log \in Seq(S), NEW s \in {<<>>, <<Torn>>}
  PROVE  /\ log \o s \in Seq(S \cup {Torn}) /\ BeforeStump(log \o s) = 1..Len(log)
         /\ \A i \in 1..Len(log) : (log \o s)[i] = log[i]
<1> DEFINE x == log \o <<Torn>>
           n == Len(log) + 1
<1>1. BeforeStump(log) = 1..Len(log)
  BY NoStump
<1>2. /\ log \in Seq(S \cup {Torn}) /\ log \o <<>> = log /\ Torn \in S \cup {Torn}
      /\ \A i \in 1..Len(log) : log[i] # Torn
  OBVIOUS
<1>3. /\ x \in Seq(S \cup {Torn}) /\ Len(x) = n /\ x[n] = Torn
      /\ \A i \in 1..Len(log) : x[i] = log[i]
  <2> HIDE DEF Torn
  <2> QED
    BY <1>2
<1>4. n \in Nat /\ Len(log) = n - 1 /\ Len(log) \in Nat
  OBVIOUS
<1> HIDE DEF x, n
<1>5. {i \in DOMAIN x : x[i] = Torn} \cup {Len(x) + 1} = {n, n + 1}
  <2>1. DOMAIN x = 1..n
    BY <1>3
  <2>2. \A i \in 1..n : x[i] = Torn <=> i = n
    BY <1>2, <1>3, <1>4
  <2> QED
    BY <1>3, <1>4, <2>1, <2>2
<1>6. Min({n, n + 1}) = n
  <2>1. {n, n + 1} \in SUBSET Nat /\ {n, n + 1} # {}
    BY <1>4
  <2>2. Min({n, n + 1}) \in {n, n + 1} /\ Min({n, n + 1}) <= n
    BY <2>1, MinOfNats
  <2> QED
    BY <1>4, <2>2
<1>7. BeforeStump(x) = 1..Len(log)
  BY <1>4, <1>5, <1>6 DEF BeforeStump
<1>8. CASE s = <<>>
  BY <1>1, <1>2, <1>8
<1>9. CASE s = <<Torn>>
  BY <1>3, <1>7, <1>9 DEF x
<1> QED
  BY <1>8, <1>9

\* A replay ends before the stump.
LEMMA StumpNotReplayed ==
  ASSUME NEW log \in Seq(Record), NEW s \in {<<>>, <<Torn>>}
  PROVE  log \o s \in Seq(Record \cup {Torn}) /\ Replayed(log \o s) = {log[i] : i \in 1..Len(log)}
<1> DEFINE x == log \o s
<1>1. /\ x \in Seq(Record \cup {Torn}) /\ BeforeStump(x) = 1..Len(log)
      /\ \A i \in 1..Len(log) : x[i] = log[i]
  BY StumpIgnored, TornIsNeither
<1> HIDE DEF x
<1>2. Replayed(x) = {log[i] : i \in 1..Len(log)}
  BY <1>1 DEF Replayed
<1> QED
  BY <1>1, <1>2 DEF x

\* A stump changes nothing of what the MANIFEST says.
LEMMA StumpNotListed ==
  ASSUME NEW edits \in Seq(Edit), NEW t \in {<<>>, <<Torn>>}
  PROVE  /\ edits \o t \in Seq(Edit \cup {Torn})
         /\ \A l : Live(edits \o t, l) = Live(edits, l)
         /\ \A files : Version(edits \o t, files) = Version(edits, files)
         /\ LastNextFileNum(edits \o t) = LastNextFileNum(edits)
         /\ LastSeq(edits \o t) = LastSeq(edits)
<1> DEFINE x == edits \o t
<1>1. /\ x \in Seq(Edit \cup {Torn}) /\ BeforeStump(x) = 1..Len(edits)
      /\ \A i \in 1..Len(edits) : x[i] = edits[i]
  BY StumpIgnored, TornIsNeither
<1> HIDE DEF x
<1>2. BeforeStump(edits) = 1..Len(edits)
  BY NoStump, TornIsNeither
<1>3. \A op : Ops(x, op) = Ops(edits, op)
  BY <1>1, <1>2 DEF Ops
<1>4. \A op : \A i \in Ops(edits, op) : x[i] = edits[i]
  BY <1>1, <1>2 DEF Ops
<1>5. ASSUME NEW l PROVE Live(x, l) = Live(edits, l)
  <2> DEFINE P == Ops(edits, "AddFile")
             Q == Ops(edits, "DeleteFile")
             G(e, j) == /\ e[j].level = l
                        /\ \A d \in Q : d > j => e[d].level # l \/ e[d].num # e[j].meta.num
  <2>1. \A j \in P : x[j] = edits[j]
    BY <1>4
  <2>2. \A d \in Q : x[d] = edits[d]
    BY <1>4
  <2>3. /\ Live(x, l) = {x[i].meta : i \in {j \in P : G(x, j)}}
        /\ Live(edits, l) = {edits[i].meta : i \in {j \in P : G(edits, j)}}
    BY <1>3 DEF Live
  <2> HIDE DEF P, Q
  <2>4. \A j \in P : G(x, j) <=> G(edits, j)
    BY <2>1, <2>2
  <2> HIDE DEF G
  <2>5. {j \in P : G(x, j)} = {j \in P : G(edits, j)}
    BY <2>4
  <2> QED
    BY <2>1, <2>3, <2>5
<1>6. \A files : Version(x, files) = Version(edits, files)
  BY <1>5 DEF Version
<1>7. ASSUME NEW op, Ops(edits, op) # {}
      PROVE  x[Max(Ops(edits, op))] = edits[Max(Ops(edits, op))]
  <2>1. edits \in Seq(Edit \cup {Torn})
    BY Widen
  <2>2. Max(Ops(edits, op)) \in Ops(edits, op)
    BY <1>7, <2>1, OpsAre, MaxOfFinite
  <2> QED
    BY <1>4, <2>2
<1>8. LastNextFileNum(x) = LastNextFileNum(edits)
  BY <1>3, <1>7 DEF LastNextFileNum
<1>9. LastSeq(x) = LastSeq(edits)
  BY <1>3, <1>7 DEF LastSeq
<1> QED
  BY <1>1, <1>5, <1>6, <1>8, <1>9 DEF x

\* The last sequence number that open() finds: above all it has replayed.
LEMMA RecoveredSeqIs ==
  ASSUME NEW log \in Seq(Record \cup {Torn}), NEW edits \in Seq(Edit \cup {Torn})
  PROVE  /\ RecoveredSeq(log, edits) \in 0..MaxSeq
         /\ LastSeq(edits) <= RecoveredSeq(log, edits)
         /\ \A r \in Replayed(log) : r.seq <= RecoveredSeq(log, edits)
<1> DEFINE N == {LastSeq(edits)} \cup {r.seq : r \in Replayed(log)}
<1>1. N \subseteq 0..MaxSeq /\ LastSeq(edits) \in N /\ \A r \in Replayed(log) : r.seq \in N
  BY ReplayedType, ManifestNumbers DEF Record
<1>2. IsFiniteSet(0..MaxSeq) /\ 0..MaxSeq \subseteq Nat
  BY FS_Interval, LsmAssumption DEF LsmAssumption
<1>3. RecoveredSeq(log, edits) = Max(N)
  BY DEF RecoveredSeq
<1> HIDE DEF N
<1>4. IsFiniteSet(N)
  BY <1>1, <1>2, FS_Subset
<1>5. Max(N) \in N /\ \A x \in N : x <= Max(N)
  BY <1>1, <1>2, <1>4, MaxOfFinite
<1> QED
  BY <1>1, <1>3, <1>5

-----------------------------------------------------------------------------
(* The compaction that the levels call for.                                *)

JobUpper == Upper(levels, JobLevel(levels))
JobLower == Lower(levels, JobLevel(levels))
JobOuts  == Outputs(Survivors(Recs(JobUpper \cup JobLower), JobLevel(levels) + 1, MaxSeq), nextFile)
JobEdits == CompactEdits(JobLevel(levels), JobUpper, JobLower, JobOuts)
JobFiles == {t.num : t \in JobUpper \cup JobLower}

\* The edits that add or delete a finite set of tables.
LEMMA EditsOfTables ==
  ASSUME NEW T \in SUBSET Stock, IsFiniteSet(T), NEW l \in Level
  PROVE  /\ Additions(T, l) \in Seq([op : {"AddFile"}, level : {l}, meta : Metas])
         /\ {Additions(T, l)[i] : i \in DOMAIN Additions(T, l)} = {AddFile(l, t) : t \in T}
         /\ Deletions(T, l) \in Seq([op : {"DeleteFile"}, level : {l}, num : Nat])
         /\ {Deletions(T, l)[i] : i \in DOMAIN Deletions(T, l)} = {DeleteFile(l, t.num) : t \in T}
<1> DEFINE n == Cardinality(T)
           a == Additions(T, l)
           d == Deletions(T, l)
<1>1. \A t \in T : /\ AddFile(l, t) \in [op : {"AddFile"}, level : {l}, meta : Metas]
                   /\ DeleteFile(l, t.num) \in [op : {"DeleteFile"}, level : {l}, num : Nat]
  BY DEF AddFile, DeleteFile, Meta, Metas, Stock, Table
<1>2. n \in Nat
  BY FS_CardinalityType
<1>3. T \in SUBSET Table
  BY DEF Stock
<1>4. /\ a \in Seq([op : {"AddFile"}, level : {l}, meta : Metas])
      /\ {a[i] : i \in DOMAIN a} = {AddFile(l, t) : t \in T}
  <2> DEFINE s == ByNum(T)
  <2>1. s \in Seq(T) /\ DOMAIN s = 1..n /\ \A t \in T : \E i \in 1..n : s[i] = t
    BY <1>3, ByNumSorts
  <2>2. a = [i \in 1..n |-> AddFile(l, s[i])]
    BY <2>1 DEF Additions
  <2> HIDE DEF n, s, a
  <2>3. \A i \in 1..n : s[i] \in T
    BY <2>1, EntriesOf
  <2>4. DOMAIN a = 1..n /\ \A i \in 1..n : a[i] = AddFile(l, s[i])
    BY <2>2
  <2>5. a \in Seq([op : {"AddFile"}, level : {l}, meta : Metas])
    BY <1>1, <1>2, <2>2, <2>3
  <2> QED
    BY <2>1, <2>3, <2>4, <2>5
<1>5. /\ d \in Seq([op : {"DeleteFile"}, level : {l}, num : Nat])
      /\ {d[i] : i \in DOMAIN d} = {DeleteFile(l, t.num) : t \in T}
  <2> DEFINE s == InLevel(T, l)
  <2>1. s \in Seq(T) /\ DOMAIN s = 1..n /\ \A t \in T : \E i \in 1..n : s[i] = t
    <3>1. InLevel(T, l) \in Seq(T)
      BY <1>3, InLevelSorts
    <3>2. DOMAIN InLevel(T, l) = 1..Cardinality(T)
      BY <1>3, InLevelSorts
    <3>3. \A t \in T : \E i \in DOMAIN InLevel(T, l) : InLevel(T, l)[i] = t
      BY <1>3, InLevelSorts
    <3> QED
      BY <3>1, <3>2, <3>3
  <2>2. d = [i \in 1..n |-> DeleteFile(l, s[i].num)]
    BY <2>1 DEF Deletions
  <2> HIDE DEF n, s, d
  <2>3. \A i \in 1..n : s[i] \in T
    BY <2>1, EntriesOf
  <2>4. DOMAIN d = 1..n /\ \A i \in 1..n : d[i] = DeleteFile(l, s[i].num)
    BY <2>2
  <2>5. d \in Seq([op : {"DeleteFile"}, level : {l}, num : Nat])
    BY <1>1, <1>2, <2>2, <2>3
  <2> QED
    BY <2>1, <2>3, <2>4, <2>5
<1> QED
  BY <1>4, <1>5

\* The inputs, outputs and edits of the next compaction have their types.
LEMMA JobTypes ==
  ASSUME Stored(levels), nextFile \in Nat \ {0}, Overfull(levels) # {}
  PROVE  /\ JobLevel(levels) \in Level /\ JobLevel(levels) + 1 \in Level /\ JobLevel(levels) \in Nat
         /\ JobUpper \subseteq levels[JobLevel(levels)] /\ JobLower \subseteq levels[JobLevel(levels) + 1]
         /\ JobUpper \in SUBSET Stock /\ JobLower \in SUBSET Stock
         /\ IsFiniteSet(JobUpper) /\ IsFiniteSet(JobLower)
         /\ JobOuts \in SUBSET Built /\ JobOuts \in SUBSET Stock /\ IsFiniteSet(JobOuts)
         /\ JobEdits \in Seq(Edit) /\ JobFiles \in SUBSET Nat
<1> DEFINE l    == JobLevel(levels)
           surv == Survivors(Recs(JobUpper \cup JobLower), l + 1, MaxSeq)
<1>1. l \in Level /\ l + 1 \in Level /\ l \in Nat
  BY JobLevelProps
<1>2. JobUpper \subseteq levels[l] /\ JobLower \subseteq levels[l + 1]
  BY JobInputs, StoredLevels DEF JobUpper, JobLower
<1>3. /\ levels[l] \subseteq Stock /\ levels[l + 1] \subseteq Stock
      /\ IsFiniteSet(levels[l]) /\ IsFiniteSet(levels[l + 1])
  BY <1>1 DEF Stored
<1> HIDE DEF l
<1>4. IsFiniteSet(JobUpper) /\ IsFiniteSet(JobLower) /\ JobUpper \in SUBSET Stock /\ JobLower \in SUBSET Stock
  BY <1>2, <1>3, FS_Subset
<1>5. surv \in SUBSET Record /\ IsFiniteSet(surv)
  <2>1. IsFiniteSet(JobUpper \cup JobLower)
    BY <1>4, FS_Union
  <2>2. \A t \in JobUpper \cup JobLower : t.recs \in Batch
    BY <1>4 DEF Stock
  <2>3. Recs(JobUpper \cup JobLower) \in SUBSET Record /\ IsFiniteSet(Recs(JobUpper \cup JobLower))
    BY <2>1, <2>2, RecsFinite
  <2> QED
    BY <2>3, SurvivorsAre, FS_Subset
<1>6. JobOuts = Outputs(surv, nextFile)
  BY DEF JobOuts, l
<1> HIDE DEF surv
<1>7. JobOuts \in SUBSET Built /\ IsFiniteSet(JobOuts)
  BY <1>5, <1>6, OutputsBuilt
<1>8. JobOuts \in SUBSET Stock
  BY <1>7, BuiltIsStock
<1>9. AfterLast(JobOuts, nextFile) \in Nat \ {0}
  BY <1>7, AfterLastType
<1>10. JobEdits \in Seq(Edit)
  <2> DEFINE a == Additions(JobOuts, l + 1)
             b == Deletions(JobUpper, l)
             c == Deletions(JobLower, l + 1)
             d == <<SetNextFileNum(AfterLast(JobOuts, nextFile))>>
  <2>1. /\ a \in Seq([op : {"AddFile"}, level : {l + 1}, meta : Metas])
        /\ b \in Seq([op : {"DeleteFile"}, level : {l}, num : Nat])
        /\ c \in Seq([op : {"DeleteFile"}, level : {l + 1}, num : Nat])
    BY <1>1, <1>4, <1>7, <1>8, EditsOfTables
  <2>2. /\ [op : {"AddFile"}, level : {l + 1}, meta : Metas] \subseteq Edit
        /\ [op : {"DeleteFile"}, level : {l}, num : Nat] \subseteq Edit
        /\ [op : {"DeleteFile"}, level : {l + 1}, num : Nat] \subseteq Edit
    BY <1>1 DEF Edit
  <2>3. d \in Seq(Edit)
    BY <1>9 DEF SetNextFileNum, Edit
  <2>4. JobEdits = a \o b \o c \o d
    BY DEF JobEdits, CompactEdits, l
  <2> HIDE DEF a, b, c, d
  <2>5. a \in Seq(Edit) /\ b \in Seq(Edit) /\ c \in Seq(Edit)
    BY <2>1, <2>2, Widen
  <2>6. (a \o b) \o c \in Seq(Edit)
    BY <2>5
  <2> QED
    BY <2>3, <2>4, <2>6
<1>11. JobFiles \in SUBSET Nat
  BY <1>4 DEF JobFiles, Stock, Table
<1> QED
  BY <1>1, <1>2, <1>4, <1>7, <1>8, <1>10, <1>11 DEF l

\* The edits of a flush.
LEMMA FlushEditsType ==
  ASSUME nextSeq \in 0..MaxSeq, NEW t \in Built
  PROVE  FlushEdits(t) \in Seq(Edit)
<1>1. 0 \in Level /\ t.num + 1 \in Nat \ {0}
  BY BuiltIsStock, LsmAssumption DEF Level, LsmAssumption
<1>2. AddFile(0, t) \in Edit
  BY <1>1, BuiltIsStock DEF AddFile, Edit
<1>3. SetNextFileNum(t.num + 1) \in Edit
  BY <1>1 DEF SetNextFileNum, Edit
<1>4. SetLastSeq(nextSeq) \in Edit
  BY DEF SetLastSeq, Edit
<1> QED
  BY <1>2, <1>3, <1>4 DEF FlushEdits

-----------------------------------------------------------------------------
(* The plans that the holder of the mutex may still have to carry out.     *)

Op == [op : {"flush", "compact", "syncdir", "syncman", "flushed", "unlink", "create"}]
        \cup [op : {"sst"}, num : Nat, recs : Batch]
        \cup [op : {"log"}, edits : Seq(Edit)]
        \cup [op : {"install"}, edits : Seq(Edit)]
        \cup [op : {"remove"}, nums : SUBSET Nat]

Then(op, plans) == {s \in Seq(Op) : s # <<>> /\ Head(s) = op /\ Tail(s) \in plans}

\* Between operations, or with the decision to flush or to compact ahead.
Loop   == {<<Step("flush")>>, <<Step("flush"), Step("compact")>>}
Idling == {<<>>, <<Step("compact")>>} \cup Loop

\* A flush of table t with edits e, from its last step back to its first; r
\* says whether the log is recreated.
CreatePlans       == Then(Step("create"), Loop)
UnlinkPlans       == Then(Step("unlink"), CreatePlans)
FlushInstall(r)   == Then(Step("flushed"), IF r THEN UnlinkPlans ELSE Loop)
FlushSync(r)      == Then(Step("syncman"), FlushInstall(r))
Unlogged(e)       == IF "midlog" \in Faults THEN Seq(Edit) ELSE {e}
FlushLog(e, r)    == UNION {Then(LogEdits(x), FlushSync(r)) : x \in Unlogged(e)}
FlushDir(e, r)    == Then(Step("syncdir"), FlushLog(e, r))
FlushTable(t, e, r) == Then(WriteSst(t), FlushDir(e, r))

\* A compaction to the tables of T with edits e and the input files N.
CompactInstall(e, N) == Then(Install(e), {<<RemoveSst(N)>>})
CompactSync(e, N)    == Then(Step("syncman"), CompactInstall(e, N))
CompactLog(e, N)     == UNION {Then(LogEdits(x), CompactSync(e, N)) : x \in Unlogged(e)}
CompactDir(e, N)     == Then(Step("syncdir"), CompactLog(e, N))
CompactTables(T, e, N) ==
  {s \in Seq(Op) : \E ws \in Seq({WriteSst(t) : t \in T}), z \in CompactDir(e, N) : s = ws \o z}
RemovePlans == {<<RemoveSst(N)>> : N \in SUBSET Nat}

\* The table that the flush in progress makes, its edits, and whether it is
\* the last thing the log is needed for.
NewTable == MkTable(nextFile - 1, Head(imms))
NewEdits == FlushEdits(NewTable)
LastOne  == Len(imms) = 1 /\ mem = {}

PlanInv ==
  \/ todo \in Idling
  \/ todo \in CreatePlans \cup UnlinkPlans /\ mem = {} /\ imms = <<>>
  \/ /\ imms # <<>> /\ nextFile > 1
     /\ \/ todo \in FlushTable(NewTable, NewEdits, LastOne)
        \/ todo \in FlushDir(NewEdits, LastOne)
        \/ todo \in FlushLog(NewEdits, LastOne)
        \/ todo \in FlushSync(LastOne)
        \/ todo \in FlushInstall(LastOne)
  \/ /\ Overfull(levels) # {}
     /\ \/ todo \in CompactTables(JobOuts, JobEdits, JobFiles)
        \/ todo \in CompactLog(JobEdits, JobFiles)
        \/ todo \in CompactSync(JobEdits, JobFiles)
        \/ todo \in CompactInstall(JobEdits, JobFiles)
  \/ todo \in RemovePlans

DiskType ==
  /\ wal \in Seq(Record \cup {Torn}) /\ walSynced \in 0..Len(wal) /\ walEntry \in BOOLEAN
  /\ man \in Seq(Edit \cup {Torn}) /\ manSynced \in 0..Len(man)
  /\ stumps \subseteq {"wal", "man"} /\ Files(sst)
MemoryType ==
  /\ up \in BOOLEAN /\ linked \in BOOLEAN /\ pending \in Nat
  /\ mem \in SUBSET Record /\ IsFiniteSet(mem)
  /\ imms \in Seq(Batch)
  /\ Stored(levels)
  /\ nextSeq \in 0..MaxSeq /\ nextFile \in Nat \ {0}
HistoryType ==
  /\ acked \in SUBSET Record /\ IsFiniteSet(acked)
  /\ safe \in SUBSET Record /\ doubt \in SUBSET Record
  /\ mishaps \in 0..MaxMishaps /\ struck \subseteq AllFaults \cup {"crash", "behind"}
TypeInv == DiskType /\ MemoryType /\ HistoryType /\ PlanInv

-----------------------------------------------------------------------------
(* What a plan begins with, and what is left of it after that.             *)

\* A plan whose first step is x.
LEMMA ThenIs ==
  ASSUME NEW x, NEW S, NEW s \in Then(x, S)
  PROVE  s \in Seq(Op) /\ s # <<>> /\ Head(s) = x /\ Tail(s) \in S
BY DEF Then

\* Concatenation of plans is associative.
LEMMA PlansAssoc ==
  ASSUME NEW s \in Seq(Op), NEW t \in Seq(Op), NEW u \in Seq(Op)
  PROVE  (s \o t) \o u = s \o (t \o u) /\ s \o t \in Seq(Op)
BY ConcatAssoc, Concat

\* A plan that goes on after its last step still has the same first step.
LEMMA ThenConcat ==
  ASSUME NEW x, NEW s \in Seq(Op), s # <<>>, Head(s) = x, NEW t \in Seq(Op), NEW S, Tail(s) \o t \in S
  PROVE  s \o t \in Then(x, S)
<1>1. s = <<x>> \o Tail(s) /\ x \in Op /\ Tail(s) \in Seq(Op)
  OBVIOUS
<1>2. <<x>> \in Seq(Op)
  BY <1>1
<1>3. s \o t = <<x>> \o (Tail(s) \o t) /\ Tail(s) \o t \in Seq(Op)
  BY <1>1, <1>2, PlansAssoc
<1> DEFINE z == Tail(s) \o t
           y == s \o t
<1> HIDE DEF z, y
<1>4. x \in Op /\ z \in Seq(Op) /\ y = <<x>> \o z
  BY <1>1, <1>3 DEF z, y
<1>5. y \in Seq(Op) /\ y # <<>> /\ Head(y) = x /\ Tail(y) = z
  BY <1>4, FirstAndRest
<1> QED
  BY <1>5 DEF Then, y, z

\* Two steps one after the other are a plan of two.
LEMMA PlanOfTwo ==
  ASSUME NEW x \in Op, NEW y \in Op
  PROVE  <<x>> \o <<y>> = <<x, y>>
<1> SUFFICES ASSUME NEW s, s = <<x, y>> PROVE <<x>> \o <<y>> = s
  OBVIOUS
<1>1. s \in Seq(Op) /\ s # <<>> /\ Head(s) = x /\ Tail(s) = <<y>>
  OBVIOUS
<1>2. \A z \in Seq(Op) : z # <<>> => z = <<Head(z)>> \o Tail(z)
  OBVIOUS
<1> QED
  BY <1>1, <1>2

\* Putting a step in front of a plan.
LEMMA ThenFirst ==
  ASSUME NEW x \in Op, NEW s \in Seq(Op), NEW S, s \in S
  PROVE  <<x>> \o s \in Then(x, S)
<1> DEFINE c == <<x>> \o s
<1>1. c \in Seq(Op) /\ c # <<>> /\ Head(c) = x /\ Tail(c) = s
  BY FirstAndRest
<1> HIDE DEF c
<1>2. c \in Then(x, S)
  BY <1>1 DEF Then
<1> QED
  BY <1>2 DEF c

\* Every step that the code plans has its type.
LEMMA OpsTyped ==
  /\ \A op \in {"flush", "compact", "syncdir", "syncman", "flushed", "unlink", "create"} :
       Step(op) \in Op /\ Step(op).op = op
  /\ \A t : t.num \in Nat /\ t.recs \in Batch => WriteSst(t) \in Op /\ WriteSst(t).op = "sst"
  /\ \A e \in Seq(Edit) : LogEdits(e) \in Op /\ LogEdits(e).op = "log" /\ LogEdits(e).edits = e
  /\ \A e \in Seq(Edit) : Install(e) \in Op /\ Install(e).op = "install" /\ Install(e).edits = e
  /\ \A N \in SUBSET Nat : RemoveSst(N) \in Op /\ RemoveSst(N).op = "remove" /\ RemoveSst(N).nums = N
<1>1. \A op \in {"flush", "compact", "syncdir", "syncman", "flushed", "unlink", "create"} :
        Step(op) \in Op /\ Step(op).op = op
  BY DEF Step, Op
<1>2. \A t : t.num \in Nat /\ t.recs \in Batch => WriteSst(t) \in Op /\ WriteSst(t).op = "sst"
  BY DEF WriteSst, Op
<1>3. \A e \in Seq(Edit) : LogEdits(e) \in Op /\ LogEdits(e).op = "log" /\ LogEdits(e).edits = e
  BY DEF LogEdits, Op
<1>4. \A e \in Seq(Edit) : Install(e) \in Op /\ Install(e).op = "install" /\ Install(e).edits = e
  BY DEF Install, Op
<1>5. \A N \in SUBSET Nat : RemoveSst(N) \in Op /\ RemoveSst(N).op = "remove" /\ RemoveSst(N).nums = N
  BY DEF RemoveSst, Op
<1> QED
  BY <1>1, <1>2, <1>3, <1>4, <1>5

\* The plans of an engine at rest: nothing, or another round of the background thread.
LEMMA IdlingPlans ==
  /\ Idling \subseteq Seq(Op) /\ Loop \subseteq Idling
  /\ \A s \in Idling : \/ s = <<>>
                       \/ s # <<>> /\ Head(s).op = "compact" /\ Tail(s) = <<>>
                       \/ s # <<>> /\ s \in Loop /\ Head(s).op = "flush" /\ Tail(s) \in {<<>>, <<Step("compact")>>}
<1>1. Step("flush") \in Op /\ Step("compact") \in Op
  BY OpsTyped
<1>2. Step("flush").op = "flush" /\ Step("compact").op = "compact"
  BY OpsTyped
<1> QED
  BY <1>1, <1>2 DEF Idling, Loop

\* The plan of a compaction: its table files, then the rest.
Joined(s, ws, z) == s = ws \o z

\* The table files of a compaction come first.
LEMMA TablesFirst ==
  ASSUME NEW W, NEW ws \in Seq(W), NEW z \in Seq(Op), NEW s \in Seq(Op), Joined(s, ws, z)
  PROVE  \/ ws = <<>> /\ s = z
         \/ /\ s # <<>> /\ ws # <<>> /\ Head(s) \in W /\ Head(s) = Head(ws)
            /\ Tail(ws) \in Seq(W) /\ Joined(Tail(s), Tail(ws), z) /\ Tail(s) \in Seq(Op)
<1> USE DEF Joined
<1> DEFINE S == W \cup Op
<1>2. ws \in Seq(S) /\ z \in Seq(S)
  BY Widen
<1>3. CASE ws = <<>>
  BY <1>2, <1>3, ConcatEmpty
<1>4. CASE ws # <<>>
  <2> DEFINE x == Head(ws)
             y == Tail(ws)
  <2>1. x \in W /\ y \in Seq(W) /\ ws = <<x>> \o y
    BY <1>2, <1>4
  <2>2. x \in S /\ y \in Seq(S) /\ <<x>> \in Seq(S)
    BY <2>1, Widen
  <2> HIDE DEF x, y
  <2>3. s = <<x>> \o (y \o z)
    BY <1>2, <2>1, <2>2, ConcatAssoc
  <2>4. y \o z \in Seq(S)
    BY <1>2, <2>2, Concat
  <2>5. s # <<>> /\ Head(s) = x /\ Tail(s) = y \o z
    BY <2>2, <2>3, <2>4, FirstAndRest
  <2>6. Tail(s) \in Seq(Op)
    BY <2>5
  <2> QED
    BY <1>4, <2>1, <2>5, <2>6 DEF x, y
<1> QED
  BY <1>3, <1>4

\* The order of the steps of a flush, one stage at a time.
LEMMA FlushPlans ==
  /\ \A s \in CreatePlans : s \in Seq(Op) /\ s # <<>> /\ Head(s).op = "create" /\ Tail(s) \in Loop
  /\ \A s \in UnlinkPlans : s \in Seq(Op) /\ s # <<>> /\ Head(s).op = "unlink" /\ Tail(s) \in CreatePlans
  /\ \A r : \A s \in FlushInstall(r) : /\ s \in Seq(Op) /\ s # <<>> /\ Head(s).op = "flushed"
                                       /\ Tail(s) \in IF r THEN UnlinkPlans ELSE Loop
  /\ \A r : \A s \in FlushSync(r) : /\ s \in Seq(Op) /\ s # <<>> /\ Head(s).op = "syncman"
                                    /\ Tail(s) \in FlushInstall(r)
  /\ \A e, r : \A s \in FlushLog(e, r) : /\ s \in Seq(Op) /\ s # <<>> /\ Head(s).op = "log"
                                         /\ Head(s).edits \in Unlogged(e) /\ Tail(s) \in FlushSync(r)
  /\ \A e, r : \A s \in FlushDir(e, r) : /\ s \in Seq(Op) /\ s # <<>> /\ Head(s).op = "syncdir"
                                         /\ Tail(s) \in FlushLog(e, r)
  /\ \A t, e, r : \A s \in FlushTable(t, e, r) :
       /\ s \in Seq(Op) /\ s # <<>> /\ Head(s) = WriteSst(t) /\ Head(s).op = "sst"
       /\ Tail(s) \in FlushDir(e, r)
<1>1. \A op : Step(op).op = op
  BY DEF Step
<1>2. \A e : LogEdits(e).op = "log" /\ LogEdits(e).edits = e
  BY DEF LogEdits
<1>3. \A t : WriteSst(t).op = "sst"
  BY DEF WriteSst
<1>4. \A s \in CreatePlans : s \in Seq(Op) /\ s # <<>> /\ Head(s).op = "create" /\ Tail(s) \in Loop
  BY <1>1, ThenIs DEF CreatePlans
<1>5. \A s \in UnlinkPlans : s \in Seq(Op) /\ s # <<>> /\ Head(s).op = "unlink" /\ Tail(s) \in CreatePlans
  BY <1>1, ThenIs DEF UnlinkPlans
<1>6. \A r : \A s \in FlushInstall(r) : /\ s \in Seq(Op) /\ s # <<>> /\ Head(s).op = "flushed"
                                        /\ Tail(s) \in IF r THEN UnlinkPlans ELSE Loop
  BY <1>1, ThenIs DEF FlushInstall
<1>7. \A r : \A s \in FlushSync(r) : /\ s \in Seq(Op) /\ s # <<>> /\ Head(s).op = "syncman"
                                     /\ Tail(s) \in FlushInstall(r)
  BY <1>1, ThenIs DEF FlushSync
<1>8. ASSUME NEW e, NEW r, NEW s \in FlushLog(e, r)
      PROVE  /\ s \in Seq(Op) /\ s # <<>> /\ Head(s).op = "log"
             /\ Head(s).edits \in Unlogged(e) /\ Tail(s) \in FlushSync(r)
  <2>1. PICK x \in Unlogged(e) : s \in Then(LogEdits(x), FlushSync(r))
    BY DEF FlushLog
  <2> QED
    BY <1>2, <2>1, ThenIs
<1>9. \A e, r : \A s \in FlushDir(e, r) : /\ s \in Seq(Op) /\ s # <<>> /\ Head(s).op = "syncdir"
                                          /\ Tail(s) \in FlushLog(e, r)
  BY <1>1, ThenIs DEF FlushDir
<1>10. \A t, e, r : \A s \in FlushTable(t, e, r) :
         /\ s \in Seq(Op) /\ s # <<>> /\ Head(s) = WriteSst(t) /\ Head(s).op = "sst"
         /\ Tail(s) \in FlushDir(e, r)
  BY <1>3, ThenIs DEF FlushTable
<1> QED
  BY <1>4, <1>5, <1>6, <1>7, <1>8, <1>9, <1>10

\* The order of the steps of a compaction, one stage at a time.
LEMMA CompactPlans ==
  /\ \A s \in RemovePlans : /\ s \in Seq(Op) /\ s # <<>> /\ Head(s).op = "remove"
                            /\ Head(s).nums \in SUBSET Nat /\ Tail(s) = <<>>
  /\ \A e, N : \A s \in CompactInstall(e, N) :
       /\ s \in Seq(Op) /\ s # <<>> /\ Head(s).op = "install" /\ Head(s).edits = e
       /\ Tail(s) = <<RemoveSst(N)>>
  /\ \A e, N : \A s \in CompactSync(e, N) : /\ s \in Seq(Op) /\ s # <<>> /\ Head(s).op = "syncman"
                                            /\ Tail(s) \in CompactInstall(e, N)
  /\ \A e, N : \A s \in CompactLog(e, N) : /\ s \in Seq(Op) /\ s # <<>> /\ Head(s).op = "log"
                                           /\ Head(s).edits \in Unlogged(e) /\ Tail(s) \in CompactSync(e, N)
  /\ \A e, N : \A s \in CompactDir(e, N) : /\ s \in Seq(Op) /\ s # <<>> /\ Head(s).op = "syncdir"
                                           /\ Tail(s) \in CompactLog(e, N)
  /\ \A T, e, N : \A s \in CompactTables(T, e, N) :
       \/ s \in CompactDir(e, N)
       \/ /\ s \in Seq(Op) /\ s # <<>> /\ Head(s) \in {WriteSst(t) : t \in T} /\ Head(s).op = "sst"
          /\ Tail(s) \in CompactTables(T, e, N)
<1>1. \A op : Step(op).op = op
  BY DEF Step
<1>2. \A e : LogEdits(e).op = "log" /\ LogEdits(e).edits = e
  BY DEF LogEdits
<1>3. \A e : Install(e).op = "install" /\ Install(e).edits = e
  BY DEF Install
<1>4. ASSUME NEW s \in RemovePlans
      PROVE  /\ s \in Seq(Op) /\ s # <<>> /\ Head(s).op = "remove"
             /\ Head(s).nums \in SUBSET Nat /\ Tail(s) = <<>>
  <2>1. PICK M \in SUBSET Nat : s = <<RemoveSst(M)>>
    BY DEF RemovePlans
  <2> DEFINE x == RemoveSst(M)
  <2>2. x \in Op /\ x.op = "remove" /\ x.nums = M
    BY OpsTyped
  <2>3. s = <<x>>
    BY <2>1
  <2> HIDE DEF x
  <2>4. <<x>> \in Seq(Op)
    BY <2>2
  <2>5. Head(<<x>>) = x /\ Tail(<<x>>) = <<>> /\ <<x>> # <<>>
    OBVIOUS
  <2> QED
    BY <2>2, <2>3, <2>4, <2>5
<1>5. \A e, N : \A s \in CompactInstall(e, N) :
        /\ s \in Seq(Op) /\ s # <<>> /\ Head(s).op = "install" /\ Head(s).edits = e
        /\ Tail(s) = <<RemoveSst(N)>>
  BY <1>3, ThenIs DEF CompactInstall
<1>6. \A e, N : \A s \in CompactSync(e, N) : /\ s \in Seq(Op) /\ s # <<>> /\ Head(s).op = "syncman"
                                             /\ Tail(s) \in CompactInstall(e, N)
  BY <1>1, ThenIs DEF CompactSync
<1>7. ASSUME NEW e, NEW N, NEW s \in CompactLog(e, N)
      PROVE  /\ s \in Seq(Op) /\ s # <<>> /\ Head(s).op = "log"
             /\ Head(s).edits \in Unlogged(e) /\ Tail(s) \in CompactSync(e, N)
  <2>1. PICK x \in Unlogged(e) : s \in Then(LogEdits(x), CompactSync(e, N))
    BY DEF CompactLog
  <2> QED
    BY <1>2, <2>1, ThenIs
<1>8. \A e, N : \A s \in CompactDir(e, N) : /\ s \in Seq(Op) /\ s # <<>> /\ Head(s).op = "syncdir"
                                            /\ Tail(s) \in CompactLog(e, N)
  BY <1>1, ThenIs DEF CompactDir
<1>9. ASSUME NEW T, NEW e, NEW N, NEW s \in CompactTables(T, e, N)
      PROVE  \/ s \in CompactDir(e, N)
             \/ /\ s \in Seq(Op) /\ s # <<>> /\ Head(s) \in {WriteSst(t) : t \in T} /\ Head(s).op = "sst"
                /\ Tail(s) \in CompactTables(T, e, N)
  <2> DEFINE W == {WriteSst(t) : t \in T}
  <2>1. \A w \in W : w.op = "sst"
    BY DEF WriteSst
  <2>2. PICK ws \in Seq(W), z \in CompactDir(e, N) : s = ws \o z /\ s \in Seq(Op)
    BY DEF CompactTables
  <2>3. z \in Seq(Op)
    BY <1>8
  <2>4. \A u \in Seq(Op) :
          (\E x \in Seq(W), y \in CompactDir(e, N) : u = x \o y) => u \in CompactTables(T, e, N)
    BY DEF CompactTables
  <2> HIDE DEF W
  <2> Joined(s, ws, z)
    BY <2>2 DEF Joined
  <2>5. \/ ws = <<>> /\ s = z
        \/ /\ s # <<>> /\ ws # <<>> /\ Head(s) \in W /\ Head(s) = Head(ws)
           /\ Tail(ws) \in Seq(W) /\ Joined(Tail(s), Tail(ws), z) /\ Tail(s) \in Seq(Op)
    <3> s \in Seq(Op)
      BY <2>2
    <3> QED
      BY <2>3, TablesFirst
  <2>6. \/ s \in CompactDir(e, N)
        \/ /\ s # <<>> /\ Head(s) \in W /\ Head(s).op = "sst" /\ Tail(s) \in CompactTables(T, e, N)
    <3>1. CASE ws = <<>> /\ s = z
      BY <2>2, <3>1
    <3>2. CASE /\ s # <<>> /\ ws # <<>> /\ Head(s) \in W /\ Head(s) = Head(ws)
               /\ Tail(ws) \in Seq(W) /\ Joined(Tail(s), Tail(ws), z) /\ Tail(s) \in Seq(Op)
      <4> DEFINE u == Tail(s)
                 x == Tail(ws)
      <4>1. x \in Seq(W) /\ z \in CompactDir(e, N) /\ u = x \o z /\ u \in Seq(Op)
        BY <2>2, <3>2 DEF Joined
      <4>2. \E w \in Seq(W), y \in CompactDir(e, N) : u = w \o y
        <5> HIDE DEF u, x
        <5> QED
          BY <4>1, Zenon
      <4> HIDE DEF u, x
      <4>3. u \in CompactTables(T, e, N)
        BY <2>4, <4>1, <4>2, Zenon
      <4> QED
        BY <2>1, <3>2, <4>3 DEF u
    <3> QED
      BY <2>5, <3>1, <3>2
  <2> QED
    BY <2>2, <2>6 DEF W
<1> QED
  BY <1>4, <1>5, <1>6, <1>7, <1>8, <1>9

\* What is made while a flush or a compaction is planned.
LEMMA WorkTyped ==
  ASSUME TypeInv
  PROVE  /\ imms # <<>> /\ nextFile > 1 =>
              NewTable \in Built /\ NewEdits \in Seq(Edit) /\ NewTable.num = nextFile - 1
         /\ Overfull(levels) # {} =>
              JobOuts \in SUBSET Built /\ JobEdits \in Seq(Edit) /\ JobFiles \in SUBSET Nat
         /\ LastOne \in BOOLEAN
<1>1. ASSUME imms # <<>>, nextFile > 1
      PROVE  NewTable \in Built /\ NewEdits \in Seq(Edit) /\ NewTable.num = nextFile - 1
  <2>1. Head(imms) \in Batch /\ nextFile - 1 \in Nat /\ nextSeq \in 0..MaxSeq
    BY <1>1 DEF TypeInv, MemoryType
  <2>2. NewTable \in Built /\ NewTable.num = nextFile - 1
    BY <2>1, MkTableBuilt DEF NewTable
  <2>3. FlushEdits(NewTable) \in Seq(Edit)
    BY <2>1, <2>2, FlushEditsType
  <2> QED
    BY <2>2, <2>3 DEF NewEdits
<1>2. Overfull(levels) # {} =>
        JobOuts \in SUBSET Built /\ JobEdits \in Seq(Edit) /\ JobFiles \in SUBSET Nat
  BY JobTypes DEF TypeInv, MemoryType
<1> QED
  BY <1>1, <1>2 DEF LastOne

\* The plan of a flush.
LEMMA FlushPlanIs ==
  ASSUME TypeInv, imms # <<>>, NEW rest \in {<<>>, <<Step("compact")>>}
  PROVE  LET t == MkTable(nextFile, Head(imms))
         IN  FlushPlan \o rest \in FlushTable(t, FlushEdits(t), LastOne)
<1> DEFINE t  == MkTable(nextFile, Head(imms))
           e  == FlushEdits(t)
           o1 == WriteSst(t)
           o2 == Step("syncdir")
           o3 == LogEdits(e)
           o4 == Step("syncman")
           o5 == Step("flushed")
           un == Step("unlink")
           cr == Step("create")
           fl == Step("flush")
           co == Step("compact")
           a  == <<o1, o2, o3, o4, o5>>
           w  == IF LastOne THEN <<un, cr>> ELSE <<>>
           f  == <<fl>>
           g  == f \o rest
           h  == w \o g
           plan == FlushPlan
<1>1. Head(imms) \in Batch /\ nextFile \in Nat /\ nextSeq \in 0..MaxSeq
  BY DEF TypeInv, MemoryType
<1>2. t \in Built
  BY <1>1, MkTableBuilt
<1>3. e \in Seq(Edit)
  BY <1>1, <1>2, FlushEditsType
<1>4. /\ o1 \in Op /\ o2 \in Op /\ o3 \in Op /\ o4 \in Op /\ o5 \in Op
      /\ un \in Op /\ cr \in Op /\ fl \in Op /\ co \in Op
  BY <1>2, <1>3, OpsTyped, BuiltIsStock
<1>5. plan = (a \o w) \o f
  BY DEF FlushPlan, WalReset, LastOne
<1>6. rest \in {<<>>, <<co>>} /\ Loop = {<<fl>>, <<fl, co>>} /\ CreatePlans = Then(cr, Loop)
  BY DEF Loop, CreatePlans
<1>7. UnlinkPlans = Then(un, CreatePlans)
  BY DEF UnlinkPlans
<1>8. FlushSync(LastOne) = Then(o4, Then(o5, IF LastOne THEN UnlinkPlans ELSE Loop))
  BY DEF FlushSync, FlushInstall
<1>9. FlushTable(t, e, LastOne) = Then(o1, Then(o2, FlushLog(e, LastOne)))
  BY DEF FlushTable, FlushDir
<1>10. Then(o3, FlushSync(LastOne)) \subseteq FlushLog(e, LastOne)
  BY <1>3 DEF FlushLog, Unlogged
<1> HIDE DEF t, e, o1, o2, o3, o4, o5, un, cr, fl, co, plan
<1> DEFINE a2 == <<o2, o3, o4, o5>>
           a3 == <<o3, o4, o5>>
           a4 == <<o4, o5>>
           a5 == <<o5>>
<1>11. /\ a # <<>> /\ Head(a) = o1 /\ Tail(a) = a2
       /\ a2 # <<>> /\ Head(a2) = o2 /\ Tail(a2) = a3
       /\ a3 # <<>> /\ Head(a3) = o3 /\ Tail(a3) = a4
       /\ a4 # <<>> /\ Head(a4) = o4 /\ Tail(a4) = a5
       /\ a5 # <<>> /\ Head(a5) = o5 /\ Tail(a5) = <<>>
  OBVIOUS
<1>12. a \in Seq(Op) /\ a2 \in Seq(Op) /\ a3 \in Seq(Op) /\ a4 \in Seq(Op) /\ a5 \in Seq(Op)
  BY <1>4
<1>13. f \in Seq(Op) /\ rest \in Seq(Op) /\ <<un, cr>> \in Seq(Op) /\ <<cr>> \in Seq(Op)
  <2>1. <<fl>> \in Seq(Op) /\ <<co>> \in Seq(Op) /\ <<cr>> \in Seq(Op) /\ <<>> \in Seq(Op)
    BY <1>4
  <2>2. <<un, cr>> \in Seq(Op)
    BY <1>4
  <2>3. rest = <<>> \/ rest = <<co>>
    BY <1>6
  <2> QED
    BY <2>1, <2>2, <2>3
<1>14. g \in Loop
  <2>1. <<fl>> \o <<>> = <<fl>>
    BY <1>13, ConcatEmpty
  <2>2. <<fl>> \o <<co>> = <<fl, co>>
    BY <1>4, PlanOfTwo
  <2> QED
    BY <1>6, <2>1, <2>2
<1>15. g \in Seq(Op)
  BY <1>13, PlansAssoc
<1> HIDE DEF a, a2, a3, a4, a5, f, g
<1>16. h \in (IF LastOne THEN UnlinkPlans ELSE Loop) /\ h \in Seq(Op) /\ w \in Seq(Op)
  <2>1. CASE LastOne
    <3> DEFINE w2 == <<cr>>
    <3>1. w # <<>> /\ Head(w) = un /\ Tail(w) = w2 /\ w \in Seq(Op) /\ w2 \in Seq(Op)
      BY <1>13, <2>1
    <3>2. w2 # <<>> /\ Head(w2) = cr /\ Tail(w2) = <<>>
      OBVIOUS
    <3> HIDE DEF w, w2
    <3>3. <<>> \o g = g
      BY <1>15, ConcatEmpty
    <3>4. w2 \o g \in CreatePlans
      BY <1>6, <1>14, <1>15, <3>1, <3>2, <3>3, ThenConcat
    <3>5. w \o g \in UnlinkPlans
      BY <1>7, <1>15, <3>1, <3>4, ThenConcat
    <3> QED
      BY <1>15, <2>1, <3>1, <3>5, PlansAssoc
  <2>2. CASE ~LastOne
    <3>1. w = <<>>
      BY <2>2
    <3>2. h = g
      BY <1>15, <3>1, ConcatEmpty
    <3> QED
      BY <1>13, <1>14, <1>15, <2>2, <3>1, <3>2
  <2> QED
    BY <2>1, <2>2
<1> HIDE DEF w, h
<1>17. <<>> \o h = h
  BY <1>16, ConcatEmpty
<1>18. a5 \o h \in Then(o5, IF LastOne THEN UnlinkPlans ELSE Loop)
  BY <1>11, <1>12, <1>16, <1>17, ThenConcat
<1>19. a4 \o h \in FlushSync(LastOne)
  <2>1. a4 \o h \in Then(o4, Then(o5, IF LastOne THEN UnlinkPlans ELSE Loop))
    BY <1>11, <1>12, <1>16, <1>18, ThenConcat
  <2> QED
    BY <1>8, <2>1
<1>20. a3 \o h \in FlushLog(e, LastOne)
  <2>1. a3 \o h \in Then(o3, FlushSync(LastOne))
    BY <1>11, <1>12, <1>16, <1>19, ThenConcat
  <2> QED
    BY <1>10, <2>1
<1>21. a2 \o h \in Then(o2, FlushLog(e, LastOne))
  BY <1>11, <1>12, <1>16, <1>20, ThenConcat
<1>22. a \o h \in FlushTable(t, e, LastOne)
  <2>1. a \o h \in Then(o1, Then(o2, FlushLog(e, LastOne)))
    BY <1>11, <1>12, <1>16, <1>21, ThenConcat
  <2> QED
    BY <1>9, <2>1
<1>23. plan \o rest = a \o h
  <2>1. a \o w \in Seq(Op)
    BY <1>12, <1>16, PlansAssoc
  <2>2. plan \o rest = (a \o w) \o g
    BY <1>5, <1>13, <2>1, PlansAssoc DEF g
  <2>3. h = w \o g
    BY DEF h
  <2>4. (a \o w) \o g = a \o (w \o g)
    <3>1. a \in Seq(Op) /\ w \in Seq(Op) /\ g \in Seq(Op)
      BY <1>12, <1>15, <1>16
    <3> QED
      BY <3>1, PlansAssoc
  <2> QED
    BY <2>2, <2>3, <2>4
<1> QED
  BY <1>22, <1>23 DEF t, e, plan

\* The plan of a compaction.
LEMMA CompactPlanIs ==
  ASSUME TypeInv, Overfull(levels) # {}
  PROVE  /\ CompactPlan \in CompactTables(JobOuts, JobEdits, JobFiles) /\ CompactPlan \in Seq(Op)
         /\ \E ws \in Seq({WriteSst(t) : t \in JobOuts}), z \in CompactDir(JobEdits, JobFiles) :
              CompactPlan = ws \o z /\ \A t \in JobOuts : \E i \in 1..Len(ws) : ws[i] = WriteSst(t)
<1> DEFINE T  == JobOuts
           n  == Cardinality(T)
           b  == ByNum(T)
           e  == JobEdits
           N  == JobFiles
           o1 == Step("syncdir")
           o2 == LogEdits(e)
           o3 == Step("syncman")
           o4 == Install(e)
           o5 == RemoveSst(N)
           ws == [i \in DOMAIN b |-> WriteSst(b[i])]
           d  == <<o1>>
           c  == <<o2, o3, o4, o5>>
           W  == {WriteSst(t) : t \in T}
           plan == CompactPlan
<1>1. plan = (ws \o d) \o c
  BY DEF CompactPlan, CommitSteps, JobOuts, JobEdits, JobFiles, JobUpper, JobLower
<1>2. e \in Seq(Edit) /\ N \in SUBSET Nat /\ T \in SUBSET Built /\ IsFiniteSet(T)
  BY JobTypes DEF TypeInv, MemoryType
<1>3. T \in SUBSET Table
  BY <1>2 DEF Built
<1>4. /\ b \in Seq(T) /\ DOMAIN b = 1..n /\ n \in Nat
      /\ \A t \in T : \E i \in DOMAIN b : b[i] = t
  BY <1>2, <1>3, ByNumSorts, FS_CardinalityType
<1>5. W \subseteq Op
  BY <1>2, OpsTyped, BuiltIsStock
<1>6. o1 \in Op /\ o2 \in Op /\ o3 \in Op /\ o4 \in Op /\ o5 \in Op
  BY <1>2, OpsTyped
<1>7. CompactTables(T, e, N)
        = {s \in Seq(Op) : \E x \in Seq(W), z \in Then(o1, CompactLog(e, N)) : s = x \o z}
  BY DEF CompactTables, CompactDir
<1>8. Then(o2, Then(o3, Then(o4, {<<o5>>}))) \subseteq CompactLog(e, N)
  BY <1>2 DEF CompactLog, CompactSync, CompactInstall, Unlogged
<1> HIDE DEF n, b
<1>9. ws \in Seq(W) /\ \A t \in T : \E i \in 1..Len(ws) : ws[i] = WriteSst(t)
  <2>1. ws \in Seq(W) /\ 1..Len(ws) = DOMAIN b /\ \A i \in DOMAIN b : ws[i] = WriteSst(b[i])
    BY <1>4
  <2> HIDE DEF ws
  <2> QED
    BY <1>4, <2>1
<1> HIDE DEF T, e, N, o1, o2, o3, o4, o5, ws, W, plan
<1>10. ws \in Seq(Op)
  BY <1>5, <1>9, Widen
<1> DEFINE c3 == <<o3, o4, o5>>
           c4 == <<o4, o5>>
           c5 == <<o5>>
<1>11. /\ c # <<>> /\ Head(c) = o2 /\ Tail(c) = c3 /\ c3 # <<>> /\ Head(c3) = o3 /\ Tail(c3) = c4
       /\ c4 # <<>> /\ Head(c4) = o4 /\ Tail(c4) = c5 /\ c5 \in {<<o5>>}
  OBVIOUS
<1>12. c \in Seq(Op) /\ c3 \in Seq(Op) /\ c4 \in Seq(Op) /\ c5 \in Seq(Op) /\ d \in Seq(Op)
  BY <1>6
<1> HIDE DEF c, c3, c4, c5
<1>13. c \in CompactLog(e, N)
  BY <1>8, <1>11, <1>12 DEF Then
<1>14. d \o c \in Then(o1, CompactLog(e, N))
  BY <1>6, <1>12, <1>13, ThenFirst
<1> HIDE DEF d
<1>15. plan = ws \o (d \o c) /\ d \o c \in Seq(Op)
  <2>1. (ws \o d) \o c = ws \o (d \o c)
    BY <1>10, <1>12, PlansAssoc, ZenonT(30)
  <2>2. d \o c \in Seq(Op)
    BY <1>12, Concat
  <2> HIDE DEF plan
  <2> QED
    BY <1>1, <2>1, <2>2
<1>16. plan \in Seq(Op)
  BY <1>10, <1>15, PlansAssoc
<1> DEFINE z == d \o c
<1>17. z \in Then(o1, CompactLog(e, N)) /\ plan = ws \o z
  BY <1>14, <1>15
<1> HIDE DEF z
<1>18. plan \in CompactTables(T, e, N)
  BY <1>7, <1>9, <1>16, <1>17
<1>19. CompactDir(e, N) = Then(o1, CompactLog(e, N))
  BY DEF CompactDir, o1
<1>20. \E x \in Seq(W), y \in CompactDir(e, N) :
         plan = x \o y /\ \A t \in T : \E i \in 1..Len(x) : x[i] = WriteSst(t)
  BY <1>9, <1>17, <1>19
<1> QED
  BY <1>16, <1>18, <1>20 DEF T, e, N, W, plan

\* Where the holder of the mutex is, by what its plan begins with.
LEMMA PlanTyped ==
  ASSUME PlanInv
  PROVE  todo \in Seq(Op)
BY IdlingPlans, FlushPlans, CompactPlans DEF PlanInv, CompactTables

\* What a plan of each kind begins with.
LEMMA PlanHeads ==
  LET op   == Head(todo).op
      some == todo # <<>>
  IN  /\ todo \in Idling =>
           \/ todo = <<>>
           \/ some /\ op = "compact" /\ Tail(todo) = <<>>
           \/ some /\ op = "flush" /\ todo \in Loop /\ Tail(todo) \in {<<>>, <<Step("compact")>>}
      /\ todo \in CreatePlans => some /\ op = "create" /\ Tail(todo) \in Loop
      /\ todo \in UnlinkPlans => some /\ op = "unlink" /\ Tail(todo) \in CreatePlans
      /\ todo \in FlushInstall(LastOne) =>
           some /\ op = "flushed" /\ Tail(todo) \in IF LastOne THEN UnlinkPlans ELSE Loop
      /\ todo \in FlushSync(LastOne) => some /\ op = "syncman" /\ Tail(todo) \in FlushInstall(LastOne)
      /\ todo \in FlushLog(NewEdits, LastOne) =>
           /\ some /\ op = "log" /\ Head(todo).edits \in Unlogged(NewEdits)
           /\ Tail(todo) \in FlushSync(LastOne)
      /\ todo \in FlushDir(NewEdits, LastOne) =>
           some /\ op = "syncdir" /\ Tail(todo) \in FlushLog(NewEdits, LastOne)
      /\ todo \in FlushTable(NewTable, NewEdits, LastOne) =>
           /\ some /\ op = "sst" /\ Head(todo) = WriteSst(NewTable)
           /\ Tail(todo) \in FlushDir(NewEdits, LastOne)
      /\ todo \in CompactInstall(JobEdits, JobFiles) =>
           some /\ op = "install" /\ Head(todo).edits = JobEdits /\ Tail(todo) = <<RemoveSst(JobFiles)>>
      /\ todo \in CompactSync(JobEdits, JobFiles) =>
           some /\ op = "syncman" /\ Tail(todo) \in CompactInstall(JobEdits, JobFiles)
      /\ todo \in CompactLog(JobEdits, JobFiles) =>
           /\ some /\ op = "log" /\ Head(todo).edits \in Unlogged(JobEdits)
           /\ Tail(todo) \in CompactSync(JobEdits, JobFiles)
      /\ todo \in CompactDir(JobEdits, JobFiles) =>
           some /\ op = "syncdir" /\ Tail(todo) \in CompactLog(JobEdits, JobFiles)
      /\ todo \in CompactTables(JobOuts, JobEdits, JobFiles) =>
           \/ todo \in CompactDir(JobEdits, JobFiles)
           \/ /\ some /\ op = "sst" /\ Head(todo) \in {WriteSst(t) : t \in JobOuts}
              /\ Tail(todo) \in CompactTables(JobOuts, JobEdits, JobFiles)
      /\ todo \in RemovePlans =>
           some /\ op = "remove" /\ Head(todo).nums \in SUBSET Nat /\ Tail(todo) = <<>>
<1> DEFINE op == Head(todo).op
           some == todo # <<>>
<1>1. todo \in Idling =>
        \/ todo = <<>>
        \/ some /\ op = "compact" /\ Tail(todo) = <<>>
        \/ some /\ op = "flush" /\ todo \in Loop /\ Tail(todo) \in {<<>>, <<Step("compact")>>}
  BY IdlingPlans
<1>2. /\ todo \in CreatePlans => some /\ op = "create" /\ Tail(todo) \in Loop
      /\ todo \in UnlinkPlans => some /\ op = "unlink" /\ Tail(todo) \in CreatePlans
  BY FlushPlans
<1>3. /\ todo \in FlushInstall(LastOne) =>
           some /\ op = "flushed" /\ Tail(todo) \in IF LastOne THEN UnlinkPlans ELSE Loop
      /\ todo \in FlushSync(LastOne) => some /\ op = "syncman" /\ Tail(todo) \in FlushInstall(LastOne)
      /\ todo \in FlushLog(NewEdits, LastOne) =>
           /\ some /\ op = "log" /\ Head(todo).edits \in Unlogged(NewEdits)
           /\ Tail(todo) \in FlushSync(LastOne)
      /\ todo \in FlushDir(NewEdits, LastOne) =>
           some /\ op = "syncdir" /\ Tail(todo) \in FlushLog(NewEdits, LastOne)
      /\ todo \in FlushTable(NewTable, NewEdits, LastOne) =>
           /\ some /\ op = "sst" /\ Head(todo) = WriteSst(NewTable)
           /\ Tail(todo) \in FlushDir(NewEdits, LastOne)
  BY FlushPlans
<1>4. /\ todo \in CompactInstall(JobEdits, JobFiles) =>
           some /\ op = "install" /\ Head(todo).edits = JobEdits /\ Tail(todo) = <<RemoveSst(JobFiles)>>
      /\ todo \in CompactSync(JobEdits, JobFiles) =>
           some /\ op = "syncman" /\ Tail(todo) \in CompactInstall(JobEdits, JobFiles)
      /\ todo \in CompactLog(JobEdits, JobFiles) =>
           /\ some /\ op = "log" /\ Head(todo).edits \in Unlogged(JobEdits)
           /\ Tail(todo) \in CompactSync(JobEdits, JobFiles)
      /\ todo \in CompactDir(JobEdits, JobFiles) =>
           some /\ op = "syncdir" /\ Tail(todo) \in CompactLog(JobEdits, JobFiles)
      /\ todo \in CompactTables(JobOuts, JobEdits, JobFiles) =>
           \/ todo \in CompactDir(JobEdits, JobFiles)
           \/ /\ some /\ op = "sst" /\ Head(todo) \in {WriteSst(t) : t \in JobOuts}
              /\ Tail(todo) \in CompactTables(JobOuts, JobEdits, JobFiles)
  BY CompactPlans
<1>5. todo \in RemovePlans => /\ some /\ op = "remove" /\ Head(todo).nums \in SUBSET Nat
                              /\ Tail(todo) = <<>>
  BY CompactPlans
<1> QED
  BY <1>1, <1>2, <1>3, <1>4, <1>5

\* What kind of step is due says what is under way and what follows it.
LEMMA Steps ==
  ASSUME PlanInv
  PROVE  /\ Now("flush") => todo \in Loop /\ Rest \in {<<>>, <<Step("compact")>>}
         /\ Now("compact") => Rest = <<>>
         /\ Now("sst") =>
              \/ /\ imms # <<>> /\ nextFile > 1 /\ Head(todo) = WriteSst(NewTable)
                 /\ Rest \in FlushDir(NewEdits, LastOne)
              \/ /\ Overfull(levels) # {} /\ Head(todo) \in {WriteSst(t) : t \in JobOuts}
                 /\ Rest \in CompactTables(JobOuts, JobEdits, JobFiles)
         /\ Now("syncdir") =>
              \/ imms # <<>> /\ nextFile > 1 /\ Rest \in FlushLog(NewEdits, LastOne)
              \/ Overfull(levels) # {} /\ Rest \in CompactLog(JobEdits, JobFiles)
         /\ Now("log") =>
              \/ /\ imms # <<>> /\ nextFile > 1 /\ Head(todo).edits \in Unlogged(NewEdits)
                 /\ Rest \in FlushSync(LastOne)
              \/ /\ Overfull(levels) # {} /\ Head(todo).edits \in Unlogged(JobEdits)
                 /\ Rest \in CompactSync(JobEdits, JobFiles)
         /\ Now("syncman") =>
              \/ imms # <<>> /\ nextFile > 1 /\ Rest \in FlushInstall(LastOne)
              \/ Overfull(levels) # {} /\ Rest \in CompactInstall(JobEdits, JobFiles)
         /\ Now("flushed") =>
              imms # <<>> /\ nextFile > 1 /\ Rest \in IF LastOne THEN UnlinkPlans ELSE Loop
         /\ Now("install") => /\ Overfull(levels) # {} /\ Head(todo).edits = JobEdits
                              /\ Rest = <<RemoveSst(JobFiles)>>
         /\ Now("remove") => Head(todo).nums \in SUBSET Nat /\ Rest = <<>>
         /\ Now("unlink") => mem = {} /\ imms = <<>> /\ Rest \in CreatePlans
         /\ Now("create") => Rest \in Loop
<1>1. Now("flush") => todo \in Loop /\ Rest \in {<<>>, <<Step("compact")>>}
  BY PlanHeads DEF PlanInv, Now, Rest
<1>2. Now("compact") => Rest = <<>>
  BY PlanHeads DEF PlanInv, Now, Rest
<1>3. Now("sst") =>
        \/ /\ imms # <<>> /\ nextFile > 1 /\ Head(todo) = WriteSst(NewTable)
           /\ Rest \in FlushDir(NewEdits, LastOne)
        \/ /\ Overfull(levels) # {} /\ Head(todo) \in {WriteSst(t) : t \in JobOuts}
           /\ Rest \in CompactTables(JobOuts, JobEdits, JobFiles)
  BY PlanHeads DEF PlanInv, Now, Rest
<1>4. Now("syncdir") =>
        \/ imms # <<>> /\ nextFile > 1 /\ Rest \in FlushLog(NewEdits, LastOne)
        \/ Overfull(levels) # {} /\ Rest \in CompactLog(JobEdits, JobFiles)
  BY PlanHeads DEF PlanInv, Now, Rest
<1>5. Now("log") =>
        \/ /\ imms # <<>> /\ nextFile > 1 /\ Head(todo).edits \in Unlogged(NewEdits)
           /\ Rest \in FlushSync(LastOne)
        \/ /\ Overfull(levels) # {} /\ Head(todo).edits \in Unlogged(JobEdits)
           /\ Rest \in CompactSync(JobEdits, JobFiles)
  BY PlanHeads DEF PlanInv, Now, Rest
<1>6. Now("syncman") =>
        \/ imms # <<>> /\ nextFile > 1 /\ Rest \in FlushInstall(LastOne)
        \/ Overfull(levels) # {} /\ Rest \in CompactInstall(JobEdits, JobFiles)
  BY PlanHeads DEF PlanInv, Now, Rest
<1>7. Now("flushed") =>
        imms # <<>> /\ nextFile > 1 /\ Rest \in IF LastOne THEN UnlinkPlans ELSE Loop
  BY PlanHeads DEF PlanInv, Now, Rest
<1>8. Now("install") => /\ Overfull(levels) # {} /\ Head(todo).edits = JobEdits
                        /\ Rest = <<RemoveSst(JobFiles)>>
  BY PlanHeads DEF PlanInv, Now, Rest
<1>9. Now("remove") => Head(todo).nums \in SUBSET Nat /\ Rest = <<>>
  BY PlanHeads DEF PlanInv, Now, Rest
<1>10. Now("unlink") => mem = {} /\ imms = <<>> /\ Rest \in CreatePlans
  BY PlanHeads DEF PlanInv, Now, Rest
<1>11. Now("create") => Rest \in Loop
  BY PlanHeads DEF PlanInv, Now, Rest
<1> QED
  BY <1>1, <1>2, <1>3, <1>4, <1>5, <1>6, <1>7, <1>8, <1>9, <1>10, <1>11

-----------------------------------------------------------------------------
(* The types are kept.  One lemma for each action or group of them.        *)

\* The types hold at first, and every action keeps them.
LEMMA TypesAtFirst == Init => TypeInv
<1> SUFFICES ASSUME Init PROVE TypeInv
  OBVIOUS
<1>1. SetNextFileNum(1) \in Edit /\ SetLastSeq(0) \in Edit
  BY LsmAssumption DEF SetNextFileNum, SetLastSeq, Edit, LsmAssumption
<1>2. NewManifest \in Seq(Edit \cup {Torn}) /\ Len(NewManifest) = 2
  BY <1>1 DEF NewManifest
<1>3. DiskType
  <2>1. wal = <<>> /\ walSynced = 0 /\ walEntry = FALSE /\ stumps = {} /\ sst = <<>>
    BY DEF Init
  <2>2. wal \in Seq(Record \cup {Torn}) /\ walSynced \in 0..Len(wal) /\ walEntry \in BOOLEAN
    <3>1. wal \in Seq(Record \cup {Torn}) /\ Len(wal) = 0
      BY <2>1
    <3>2. walSynced \in 0..Len(wal)
      BY <2>1, <3>1
    <3> QED
      BY <2>1, <3>1, <3>2
  <2>3. DOMAIN sst = {}
    BY <2>1
  <2>4. man \in Seq(Edit \cup {Torn}) /\ manSynced \in 0..Len(man)
    BY <1>2 DEF Init, Synced
  <2> QED
    BY <2>1, <2>2, <2>3, <2>4 DEF DiskType, Files
<1>4. Stored([l \in Level |-> {}]) /\ IsFiniteSet({})
  BY FS_EmptySet DEF Stored
<1>5. MemoryType
  BY <1>4, LsmAssumption DEF Init, MemoryType, LsmAssumption
<1>6. HistoryType
  BY <1>4, DiskAssumption DEF Init, HistoryType, DiskAssumption
<1>7. PlanInv
  BY DEF Init, PlanInv, Idling
<1> QED
  BY <1>3, <1>5, <1>6, <1>7 DEF TypeInv

\* A log and the stump at its end, if there is one.
LEMMA LogFiles ==
  ASSUME DiskType
  PROVE  /\ WalFile \in Seq(Record \cup {Torn}) /\ Len(WalFile) \in Nat /\ Len(WalFile) >= Len(wal)
         /\ ManFile \in Seq(Edit \cup {Torn}) /\ Len(ManFile) \in Nat /\ Len(ManFile) >= Len(man)
         /\ "wal" \notin stumps => WalFile = wal
         /\ "man" \notin stumps => ManFile = man
<1>1. wal \in Seq(Record \cup {Torn}) /\ man \in Seq(Edit \cup {Torn})
  BY DEF DiskType
<1>2. ASSUME NEW S, NEW log \in Seq(S \cup {Torn})
      PROVE  /\ log \o <<Torn>> \in Seq(S \cup {Torn}) /\ Len(log \o <<Torn>>) \in Nat
             /\ Len(log \o <<Torn>>) >= Len(log) /\ Len(log) \in Nat /\ log \o <<>> = log
  <2>1. Torn \in S \cup {Torn}
    OBVIOUS
  <2> HIDE DEF Torn
  <2> QED
    BY <2>1
<1>3. /\ WalFile = wal \o <<Torn>> \/ WalFile = wal \o <<>>
      /\ ManFile = man \o <<Torn>> \/ ManFile = man \o <<>>
      /\ "wal" \notin stumps => WalFile = wal \o <<>>
      /\ "man" \notin stumps => ManFile = man \o <<>>
  BY DEF WalFile, ManFile, Stump
<1> DEFINE w == wal \o <<Torn>>
           m == man \o <<Torn>>
<1>4. w \in Seq(Record \cup {Torn}) /\ Len(w) \in Nat /\ Len(w) >= Len(wal) /\ Len(wal) \in Nat
      /\ wal \o <<>> = wal
  BY <1>1, <1>2
<1>5. m \in Seq(Edit \cup {Torn}) /\ Len(m) \in Nat /\ Len(m) >= Len(man) /\ Len(man) \in Nat
      /\ man \o <<>> = man
  BY <1>1, <1>2
<1>6. (WalFile = w \/ WalFile = wal) /\ (ManFile = m \/ ManFile = man)
      /\ ("wal" \notin stumps => WalFile = wal) /\ ("man" \notin stumps => ManFile = man)
  BY <1>3, <1>4, <1>5
<1> HIDE DEF w, m
<1>7. WalFile \in Seq(Record \cup {Torn}) /\ Len(WalFile) \in Nat /\ Len(WalFile) >= Len(wal)
  BY <1>1, <1>4, <1>6
<1>8. ManFile \in Seq(Edit \cup {Torn}) /\ Len(ManFile) \in Nat /\ Len(ManFile) >= Len(man)
  BY <1>1, <1>5, <1>6
<1> QED
  BY <1>6, <1>7, <1>8

\* The record of the next write.
LEMMA NextRecord ==
  ASSUME TypeInv, nextSeq < MaxSeq, NEW k \in Keys, NEW v \in Vals \cup {Tomb}
  PROVE  LET r == [key |-> k, seq |-> nextSeq + 1, val |-> v]
         IN  /\ r \in Record /\ nextSeq + 1 \in 0..MaxSeq
             /\ mem \cup {r} \in Batch
             /\ Logged(r) \in Seq(Record \cup {Torn}) /\ Len(Logged(r)) >= Len(wal)
             /\ acked \cup {r} \in SUBSET Record /\ IsFiniteSet(acked \cup {r})
<1> DEFINE r == [key |-> k, seq |-> nextSeq + 1, val |-> v]
<1>1. nextSeq \in Nat /\ MaxSeq \in Nat
  BY LsmAssumption DEF TypeInv, MemoryType, LsmAssumption
<1>2. r \in Record /\ nextSeq + 1 \in 0..MaxSeq
  BY <1>1 DEF Record
<1> HIDE DEF r
<1>3. IsFiniteSet(mem \cup {r}) /\ IsFiniteSet(acked \cup {r})
  BY FS_AddElement DEF TypeInv, MemoryType, HistoryType
<1>4. mem \cup {r} \in Batch /\ acked \cup {r} \in SUBSET Record
  BY <1>2, <1>3 DEF Batch, TypeInv, MemoryType, HistoryType
<1>5. wal \in Seq(Record \cup {Torn}) /\ Len(wal) \in Nat
  BY DEF TypeInv, DiskType
<1>6. Append(WalFile, r) \in Seq(Record \cup {Torn}) /\ Len(Append(WalFile, r)) >= Len(wal)
  <2>1. WalFile \in Seq(Record \cup {Torn}) /\ Len(WalFile) \in Nat /\ Len(WalFile) >= Len(wal)
    BY LogFiles DEF TypeInv
  <2> QED
    BY <1>2, <1>5, <2>1
<1>7. Logged(r) \in Seq(Record \cup {Torn}) /\ Len(Logged(r)) >= Len(wal)
  BY <1>5, <1>6 DEF Logged
<1> QED
  BY <1>2, <1>3, <1>4, <1>7 DEF r

\* Nothing is planned while a client works.
LEMMA IdlePlan ==
  ASSUME todo' = <<>> \/ todo' = <<Step("compact")>> \/ todo' \in Loop
  PROVE  PlanInv'
BY DEF PlanInv, Idling

\* A write keeps the types.
LEMMA TypesWrite ==
  ASSUME TypeInv, NEW k \in Keys, NEW v \in Vals \cup {Tomb}, Write(k, v)
  PROVE  TypeInv'
<1> DEFINE r == [key |-> k, seq |-> nextSeq + 1, val |-> v]
           m == mem \cup {r}
<1>1. /\ todo = <<>> /\ nextSeq < MaxSeq /\ nextSeq' = nextSeq + 1
      /\ wal' = Logged(r)
      /\ walSynced' = Len(wal') \/ walSynced' = walSynced
      /\ pending' = 0 \/ pending' = pending + 1
      /\ (mem' = {} /\ imms' = Append(imms, m)) \/ (mem' = m /\ imms' = imms)
      /\ acked' = acked \cup {r}
      /\ safe' = acked' \/ safe' = safe
      /\ UNCHANGED <<walEntry, man, manSynced, sst, up, linked, levels, nextFile, todo,
                     doubt, mishaps>>
      /\ stumps' \subseteq stumps /\ struck' \subseteq struck \cup {"behind"}
  BY DEF Write, Idle, Behind
<1>2. /\ r \in Record /\ nextSeq + 1 \in 0..MaxSeq /\ m \in Batch
      /\ Logged(r) \in Seq(Record \cup {Torn}) /\ Len(Logged(r)) >= Len(wal)
      /\ acked \cup {r} \in SUBSET Record /\ IsFiniteSet(acked \cup {r})
  BY <1>1, NextRecord
<1> HIDE DEF r, m
<1>3. DiskType'
  <2>1. walSynced' \in 0..Len(wal')
    BY <1>1, <1>2 DEF TypeInv, DiskType
  <2> QED
    BY <1>1, <1>2, <2>1 DEF TypeInv, DiskType
<1>4. MemoryType'
  <2>1. imms' \in Seq(Batch)
    BY <1>1, <1>2 DEF TypeInv, MemoryType
  <2>2. mem' \in SUBSET Record /\ IsFiniteSet(mem')
    BY <1>1, <1>2, FS_EmptySet DEF Batch
  <2> QED
    BY <1>1, <1>2, <2>1, <2>2 DEF TypeInv, MemoryType
<1>5. HistoryType'
  BY <1>1, <1>2 DEF TypeInv, HistoryType, AllFaults
<1>6. PlanInv'
  BY <1>1, IdlePlan
<1> QED
  BY <1>3, <1>4, <1>5, <1>6 DEF TypeInv

\* A write whose log append fails keeps the types.
LEMMA TypesWriteFails ==
  ASSUME TypeInv, NEW k \in Keys, NEW v \in Vals \cup {Tomb}, WriteFails(k, v)
  PROVE  TypeInv'
<1> DEFINE r == [key |-> k, seq |-> nextSeq + 1, val |-> v]
<1>1. /\ todo = <<>> /\ nextSeq < MaxSeq /\ nextSeq' = nextSeq + 1
      /\ wal' = wal \/ wal' = WalFile \/ wal' = Logged(r)
      /\ stumps' \subseteq stumps \cup {"wal"}
      /\ walSynced' = Len(wal') \/ walSynced' = walSynced
      /\ pending' = 0 \/ pending' = pending + 1 \/ pending' = pending
      /\ mem' = mem \/ mem' = mem \cup {r}
      /\ doubt' = doubt \/ doubt' = doubt \cup {r}
      /\ struck' \subseteq struck \cup {"iowrite", "torn", "behind"}
      /\ UNCHANGED <<walEntry, man, manSynced, sst, up, linked, imms, levels, nextFile, todo,
                     acked, safe, mishaps>>
  BY DEF WriteFails, Idle, Behind
<1>2. /\ r \in Record /\ nextSeq + 1 \in 0..MaxSeq /\ mem \cup {r} \in Batch
      /\ Logged(r) \in Seq(Record \cup {Torn}) /\ Len(Logged(r)) >= Len(wal)
  BY <1>1, NextRecord
<1> HIDE DEF r
<1>3. DiskType'
  <2>1. WalFile \in Seq(Record \cup {Torn}) /\ Len(WalFile) >= Len(wal)
    BY LogFiles DEF TypeInv
  <2>2. wal' \in Seq(Record \cup {Torn}) /\ Len(wal') \in Nat /\ Len(wal') >= Len(wal)
    <3>1. wal \in Seq(Record \cup {Torn}) /\ Len(wal) \in Nat
      BY DEF TypeInv, DiskType
    <3>2. wal' \in Seq(Record \cup {Torn}) /\ (wal' = wal \/ Len(wal') >= Len(wal))
      BY <1>1, <1>2, <2>1, <3>1, Zenon
    <3>3. Len(wal') \in Nat
      BY <3>2
    <3> QED
      BY <3>1, <3>2, <3>3
  <2>3. walSynced' \in 0..Len(wal')
    BY <1>1, <2>2 DEF TypeInv, DiskType
  <2> QED
    BY <1>1, <2>2, <2>3 DEF TypeInv, DiskType
<1>4. MemoryType'
  <2>1. mem' \in SUBSET Record /\ IsFiniteSet(mem')
    BY <1>1, <1>2 DEF TypeInv, MemoryType, Batch
  <2> QED
    BY <1>1, <1>2, <2>1 DEF TypeInv, MemoryType
<1>5. HistoryType'
  BY <1>1, <1>2 DEF TypeInv, HistoryType, AllFaults
<1>6. PlanInv'
  BY <1>1, IdlePlan
<1> QED
  BY <1>3, <1>4, <1>5, <1>6 DEF TypeInv

\* A sync and the start of a flush, a compaction or the thread keep the types.
LEMMA TypesClient ==
  ASSUME TypeInv, Sync \/ StartFlush \/ StartCompact \/ StartBackground
  PROVE  TypeInv'
<1>1. CASE Sync
  <2>1. /\ todo' = <<>> /\ walSynced' = Len(wal) /\ pending' = 0 /\ safe' = acked
        /\ UNCHANGED <<wal, walEntry, man, manSynced, stumps, sst, up, linked, mem, imms, levels,
                       nextSeq, nextFile, acked, doubt, mishaps, struck>>
    BY <1>1 DEF Sync, Idle
  <2>2. PlanInv'
    BY <2>1, IdlePlan
  <2> QED
    BY <2>1, <2>2 DEF TypeInv, DiskType, MemoryType, HistoryType
<1>2. CASE StartFlush
  <2>1. /\ todo' = <<Step("flush")>> /\ mem' = {}
        /\ imms' = imms \/ (mem # {} /\ imms' = Append(imms, mem))
        /\ walSynced' = walSynced \/ walSynced' = Len(wal)
        /\ pending' = pending \/ pending' = 0
        /\ safe' = safe \/ safe' = acked
        /\ UNCHANGED <<wal, walEntry, man, manSynced, stumps, sst, up, linked, levels, nextSeq, nextFile,
                       acked, doubt, mishaps, struck>>
    BY <1>2 DEF StartFlush, Idle
  <2>2. PlanInv'
    BY <2>1, IdlePlan DEF Loop
  <2>3. imms' \in Seq(Batch) /\ IsFiniteSet(mem')
    BY <2>1, FS_EmptySet DEF TypeInv, MemoryType, Batch
  <2>4. DiskType'
    BY <2>1 DEF TypeInv, DiskType
  <2>5. MemoryType' /\ HistoryType'
    BY <2>1, <2>3 DEF TypeInv, MemoryType, HistoryType
  <2> QED
    BY <2>2, <2>4, <2>5 DEF TypeInv
<1>3. CASE StartCompact \/ StartBackground
  <2>1. (todo' = <<Step("compact")>> \/ todo' \in Loop) /\ UNCHANGED <<disk, up, memory, history>>
    BY <1>3 DEF StartCompact, StartBackground, Loop
  <2>2. PlanInv'
    BY <2>1, IdlePlan
  <2> QED
    BY <2>1, <2>2 DEF TypeInv, DiskType, MemoryType, HistoryType, disk, memory, history
<1> QED
  BY <1>1, <1>2, <1>3
\* A step that leaves the memtables, the levels and the numbers alone leaves
\* the work that the plan is about alone.
LEMMA SameWork ==
  ASSUME UNCHANGED <<mem, imms, levels, nextSeq, nextFile>>
  PROVE  /\ NewTable' = NewTable /\ NewEdits' = NewEdits /\ LastOne' = LastOne
         /\ JobOuts' = JobOuts /\ JobEdits' = JobEdits /\ JobFiles' = JobFiles
<1>1. NewTable' = NewTable
  BY DEF NewTable
<1>2. NewEdits' = NewEdits
  BY <1>1 DEF NewEdits, FlushEdits
<1>3. LastOne' = LastOne
  BY DEF LastOne
<1>4. JobUpper' = JobUpper /\ JobLower' = JobLower
  BY DEF JobUpper, JobLower
<1>5. JobOuts' = JobOuts
  BY <1>4 DEF JobOuts
<1>6. JobEdits' = JobEdits
  BY <1>4, <1>5 DEF JobEdits, CompactEdits
<1>7. JobFiles' = JobFiles
  BY <1>4 DEF JobFiles
<1> QED
  BY <1>1, <1>2, <1>3, <1>5, <1>6, <1>7

\* Taking a step off the plan leaves the rest of that plan.
LEMMA PlanGoesOn ==
  ASSUME TypeInv, UNCHANGED <<mem, imms, levels, nextSeq, nextFile>>, todo' = Rest,
         \/ Now("sst") \/ Now("syncdir") \/ Now("log") \/ Now("syncman") \/ Now("remove")
         \/ Now("unlink") \/ Now("create")
  PROVE  PlanInv'
<1>1. PlanInv
  BY DEF TypeInv
<1> USE SameWork DEF PlanInv
<1>2. CASE Now("sst")
  BY <1>1, <1>2, Steps
<1>3. CASE Now("syncdir")
  BY <1>1, <1>3, Steps
<1>4. CASE Now("log")
  BY <1>1, <1>4, Steps
<1>5. CASE Now("syncman")
  BY <1>1, <1>5, Steps
<1>6. CASE Now("remove")
  BY <1>1, <1>6, Steps DEF Idling
<1>7. CASE Now("unlink")
  BY <1>1, <1>7, Steps
<1>8. CASE Now("create")
  BY <1>1, <1>8, Steps DEF Idling
<1> QED
  BY <1>2, <1>3, <1>4, <1>5, <1>6, <1>7, <1>8

\* Planning a flush or a compaction keeps the types.
LEMMA TypesPlan ==
  ASSUME TypeInv, PlanFlush \/ PlanCompact
  PROVE  TypeInv'
<1>1. CASE PlanFlush
  <2>1. /\ Now("flush") /\ todo \in Loop /\ Rest \in {<<>>, <<Step("compact")>>}
        /\ UNCHANGED <<disk, up, linked, pending, mem, imms, levels, nextSeq, history>>
    BY <1>1, Steps DEF PlanFlush, TypeInv
  <2>2. CASE imms = <<>>
    <3>1. todo' = Rest /\ nextFile' = nextFile
      BY <1>1, <2>2 DEF PlanFlush
    <3>2. PlanInv'
      BY <2>1, <3>1, IdlePlan
    <3> QED
      BY <2>1, <3>1, <3>2 DEF TypeInv, DiskType, MemoryType, HistoryType, disk, history
  <2>3. CASE imms # <<>>
    <3> DEFINE t == MkTable(nextFile, Head(imms))
    <3>1. todo' = FlushPlan \o Rest /\ nextFile' = nextFile + 1
      BY <1>1, <2>3 DEF PlanFlush
    <3>2. nextFile \in Nat \ {0}
      BY DEF TypeInv, MemoryType
    <3>3. FlushPlan \o Rest \in FlushTable(t, FlushEdits(t), LastOne)
      BY <2>1, <2>3, FlushPlanIs
    <3>4. nextFile' \in Nat \ {0} /\ nextFile' > 1 /\ nextFile' - 1 = nextFile
      BY <3>1, <3>2
    <3>5. NewTable' = t
      BY <2>1, <3>4 DEF NewTable
    <3>6. NewEdits' = FlushEdits(t)
      BY <2>1, <3>5 DEF NewEdits, FlushEdits
    <3>7. LastOne' = LastOne
      BY <2>1 DEF LastOne
    <3>8. PlanInv'
      BY <2>1, <2>3, <3>1, <3>3, <3>4, <3>5, <3>6, <3>7 DEF PlanInv
    <3> QED
      BY <2>1, <3>4, <3>8 DEF TypeInv, DiskType, MemoryType, HistoryType, disk, history
  <2> QED
    BY <2>2, <2>3
<1>2. CASE PlanCompact
  <2>1. /\ Now("compact") /\ Rest = <<>> /\ UNCHANGED <<disk, up, memory, history>>
        /\ UNCHANGED <<mem, imms, levels, nextSeq, nextFile>>
    BY <1>2, Steps DEF PlanCompact, TypeInv, memory
  <2>2. PlanInv'
    <3>1. CASE Overfull(levels) = {}
      <4>1. todo' = <<>>
        BY <1>2, <2>1, <3>1 DEF PlanCompact
      <4> QED
        BY <4>1, IdlePlan
    <3>2. CASE Overfull(levels) # {}
      <4>1. CompactPlan \in CompactTables(JobOuts, JobEdits, JobFiles) /\ CompactPlan \in Seq(Op)
        BY <3>2, CompactPlanIs
      <4>2. todo' = CompactPlan \o <<>>
        BY <1>2, <2>1, <3>2 DEF PlanCompact
      <4>3. todo' = CompactPlan
        BY <4>1, <4>2, ConcatEmpty
      <4> QED
        BY <2>1, <3>2, <4>1, <4>3, SameWork DEF PlanInv
    <3> QED
      BY <3>1, <3>2
  <2> QED
    BY <2>1, <2>2 DEF TypeInv, DiskType, MemoryType, HistoryType, disk, memory, history
<1> QED
  BY <1>1, <1>2

\* Writing a table and removing the inputs keep the types.
LEMMA TypesTable ==
  ASSUME TypeInv, WriteTable \/ RemoveInputs
  PROVE  TypeInv'
<1>1. /\ Now("sst") \/ Now("remove")
      /\ todo' = Rest
      /\ UNCHANGED <<wal, walSynced, walEntry, man, manSynced, stumps, up, memory, history>>
      /\ UNCHANGED <<mem, imms, levels, nextSeq, nextFile>>
  BY DEF WriteTable, RemoveInputs, memory
<1>2. PlanInv'
  BY <1>1, PlanGoesOn
<1>3. Files(sst')
  <2>1. CASE WriteTable
    <3>1. Head(todo) \in Op /\ Head(todo).op = "sst"
      BY <2>1, PlanTyped DEF TypeInv, WriteTable, Now
    <3>2. Head(todo).num \in Nat /\ Head(todo).recs \in Batch
      BY <3>1 DEF Op
    <3>3. sst' = [n \in DOMAIN sst \cup {Head(todo).num} |->
                    IF n = Head(todo).num THEN Head(todo).recs ELSE sst[n]]
      BY <2>1 DEF WriteTable
    <3> QED
      BY <3>2, <3>3 DEF Files, TypeInv, DiskType
  <2>2. CASE RemoveInputs
    <3>1. sst' = [n \in DOMAIN sst \ Head(todo).nums |-> sst[n]]
      BY <2>2 DEF RemoveInputs, Restrict
    <3> QED
      BY <3>1 DEF Files, TypeInv, DiskType
  <2> QED
    BY <2>1, <2>2
<1> QED
  BY <1>1, <1>2, <1>3 DEF TypeInv, DiskType, MemoryType, HistoryType, memory, history

\* The syncs, and the renewal of the log, keep the types.
LEMMA TypesSync ==
  ASSUME TypeInv, SyncDir \/ SyncManifest \/ UnlinkWal \/ CreateWal
  PROVE  TypeInv'
<1>1. /\ Now("syncdir") \/ Now("syncman") \/ Now("unlink") \/ Now("create")
      /\ todo' = Rest /\ UNCHANGED <<mem, imms, levels, nextSeq, nextFile>>
      /\ UNCHANGED <<man, sst, up, history>> /\ stumps' \subseteq stumps
      /\ (wal' = wal /\ walSynced' = walSynced) \/ (wal' = <<>> /\ walSynced' = 0)
      /\ walEntry' \in {walEntry, linked, FALSE} /\ linked' \in {linked, TRUE, FALSE}
      /\ manSynced' = manSynced \/ manSynced' = Len(man)
      /\ pending' = pending \/ pending' = 0
  BY DEF SyncDir, SyncManifest, UnlinkWal, CreateWal, memory, disk
<1>2. PlanInv'
  BY <1>1, PlanGoesOn
<1>3. wal' \in Seq(Record \cup {Torn}) /\ walSynced' \in 0..Len(wal')
  <2>1. <<>> \in Seq(Record \cup {Torn}) /\ 0 \in 0..Len(<<>>)
    OBVIOUS
  <2> QED
    BY <1>1, <2>1 DEF TypeInv, DiskType
<1>4. manSynced' \in 0..Len(man')
  BY <1>1 DEF TypeInv, DiskType
<1>5. DiskType'
  BY <1>1, <1>3, <1>4 DEF TypeInv, DiskType, MemoryType
<1>6. linked' \in BOOLEAN
  BY <1>1 DEF TypeInv, MemoryType
<1>7. MemoryType'
  BY <1>1, <1>6 DEF TypeInv, MemoryType
<1> QED
  BY <1>1, <1>2, <1>5, <1>7 DEF TypeInv, HistoryType, history

\* Manifest::log keeps the types.
LEMMA TypesLog ==
  ASSUME TypeInv, LogManifest
  PROVE  TypeInv'
<1> DEFINE edits == Head(todo).edits
<1>1. PICK n \in 1..Len(edits) :
        /\ n = IF "midlog" \in Faults THEN 1 ELSE Len(edits)
        /\ man' = ManFile \o SubSeq(edits, 1, n)
        /\ todo' = IF n = Len(edits) THEN Rest
                   ELSE <<LogEdits(SubSeq(edits, n + 1, Len(edits)))>> \o Rest
  BY DEF LogManifest
<1>2. /\ Now("log")
      /\ UNCHANGED <<wal, walSynced, walEntry, manSynced, sst, up, memory, acked, safe, doubt, mishaps>>
      /\ stumps' \subseteq stumps /\ struck' \subseteq struck \cup {"behind"}
      /\ UNCHANGED <<mem, imms, levels, nextSeq, nextFile>>
  BY DEF LogManifest, memory, Behind
<1>3. edits \in Seq(Edit) /\ todo \in Seq(Op) /\ Rest \in Seq(Op)
  <2>1. todo \in Seq(Op) /\ todo # <<>> /\ Head(todo).op = "log"
    BY <1>2, PlanTyped DEF TypeInv, Now
  <2>2. Head(todo) \in Op /\ Rest \in Seq(Op)
    BY <2>1 DEF Rest
  <2> QED
    BY <2>1, <2>2 DEF Op
<1> DEFINE x == SubSeq(edits, n + 1, Len(edits))
           y == SubSeq(edits, 1, n)
<1>4. x \in Seq(Edit) /\ y \in Seq(Edit) /\ Len(edits) \in Nat
  BY <1>3
<1> HIDE DEF x, y
<1>5. man' \in Seq(Edit \cup {Torn}) /\ Len(man') >= Len(man) /\ manSynced' \in 0..Len(man')
  <2>1. /\ ManFile \in Seq(Edit \cup {Torn}) /\ y \in Seq(Edit \cup {Torn})
        /\ Len(ManFile) \in Nat /\ Len(ManFile) >= Len(man)
    BY <1>4, Widen, LogFiles DEF TypeInv
  <2>2. man' = ManFile \o y
    BY <1>1 DEF y
  <2>3. man' \in Seq(Edit \cup {Torn}) /\ Len(man') = Len(ManFile) + Len(y)
    BY <2>1, <2>2, Concat
  <2>4. Len(y) \in Nat /\ Len(man) \in Nat
    BY <1>4 DEF TypeInv, DiskType
  <2> QED
    BY <1>2, <2>1, <2>3, <2>4 DEF TypeInv, DiskType
<1>6. PlanInv'
  <2>1. CASE todo' = Rest
    BY <1>2, <2>1, PlanGoesOn
  <2>2. CASE todo' # Rest
    <3>1. n # Len(edits) /\ todo' = <<LogEdits(x)>> \o Rest
      BY <1>1, <2>2 DEF x
    <3>2. \A e : Unlogged(e) = Seq(Edit)
      BY <1>1, <3>1 DEF Unlogged
    <3>3. LogEdits(x) \in Op
      BY <1>4, OpsTyped
    <3> HIDE DEF edits
    <3>4. CASE imms # <<>> /\ nextFile > 1 /\ Rest \in FlushSync(LastOne)
      <4>1. todo' \in Then(LogEdits(x), FlushSync(LastOne))
        BY <1>3, <3>1, <3>3, <3>4, ThenFirst
      <4>2. todo' \in FlushLog(NewEdits, LastOne)
        BY <1>4, <3>2, <4>1 DEF FlushLog
      <4> QED
        BY <1>2, <3>4, <4>2, SameWork DEF PlanInv
    <3>5. CASE Overfull(levels) # {} /\ Rest \in CompactSync(JobEdits, JobFiles)
      <4>1. todo' \in Then(LogEdits(x), CompactSync(JobEdits, JobFiles))
        BY <1>3, <3>1, <3>3, <3>5, ThenFirst
      <4>2. todo' \in CompactLog(JobEdits, JobFiles)
        BY <1>4, <3>2, <4>1 DEF CompactLog
      <4> QED
        BY <1>2, <3>5, <4>2, SameWork DEF PlanInv
    <3> QED
      BY <1>2, <3>4, <3>5, Steps DEF TypeInv
  <2> QED
    BY <2>1, <2>2
<1> QED
  BY <1>2, <1>5, <1>6 DEF TypeInv, DiskType, MemoryType, HistoryType, AllFaults, memory

\* Putting a flushed table in its place keeps the types.
LEMMA TypesInstallFlush ==
  ASSUME TypeInv, InstallFlush
  PROVE  TypeInv'
<1> DEFINE t == MkTable(nextFile - 1, Head(imms))
<1>1. /\ Now("flushed") /\ levels' = [levels EXCEPT ![0] = @ \cup {t}]
      /\ imms' = Tail(imms) /\ todo' = Rest
      /\ UNCHANGED <<disk, up, linked, pending, mem, nextSeq, nextFile, history>>
  BY DEF InstallFlush
<1>2. imms # <<>> /\ nextFile > 1 /\ Rest \in IF LastOne THEN UnlinkPlans ELSE Loop
  BY <1>1, Steps DEF TypeInv
<1>3. imms \in Seq(Batch) /\ nextFile \in Nat /\ Stored(levels)
  BY DEF TypeInv, MemoryType
<1>4. Head(imms) \in Batch /\ Tail(imms) \in Seq(Batch) /\ nextFile - 1 \in Nat
  BY <1>2, <1>3
<1>5. t \in Stock
  BY <1>4, MkTableBuilt, BuiltIsStock
<1> HIDE DEF t
<1>6. Stored(levels')
  <2>1. levels \in [Level -> SUBSET Stock] /\ \A l \in Level : IsFiniteSet(levels[l])
    BY <1>3 DEF Stored
  <2>2. \A l \in Level : levels'[l] = levels[l] \/ levels'[l] = levels[l] \cup {t}
    BY <1>1, <2>1
  <2>3. levels' \in [Level -> SUBSET Stock]
    BY <1>1, <1>5, <2>1
  <2>4. \A l \in Level : IsFiniteSet(levels[l] \cup {t})
    BY <2>1, FS_AddElement
  <2> QED
    BY <2>1, <2>2, <2>3, <2>4 DEF Stored
<1>7. PlanInv'
  <2>1. CASE LastOne
    <3>1. mem = {} /\ Len(imms) = 1
      BY <2>1 DEF LastOne
    <3>2. imms' = <<>> /\ mem' = {}
      BY <1>1, <1>2, <1>3, <3>1
    <3>3. todo' \in UnlinkPlans
      BY <1>1, <1>2, <2>1
    <3> QED
      BY <3>2, <3>3 DEF PlanInv
  <2>2. CASE ~LastOne
    BY <1>1, <1>2, <2>2, IdlePlan
  <2> QED
    BY <2>1, <2>2
<1> QED
  BY <1>1, <1>4, <1>6, <1>7 DEF TypeInv, DiskType, MemoryType, HistoryType, disk, history

\* Putting a compaction in its place keeps the types.
LEMMA TypesInstallCompaction ==
  ASSUME TypeInv, InstallCompaction
  PROVE  TypeInv'
<1> DEFINE edits == Head(todo).edits
           added(l) == {edits[i].meta : i \in {j \in Ops(edits, "AddFile") : edits[j].level = l}}
           gone(l)  == {edits[i].num : i \in {j \in Ops(edits, "DeleteFile") : edits[j].level = l}}
           kept(l)  == {m \in {Meta(t) : t \in levels[l]} \cup added(l) : m.num \notin gone(l)}
<1>1. /\ Now("install") /\ levels' = [l \in Level |-> Opened(kept(l), sst)]
      /\ nextFile' = LastNextFileNum(edits) /\ todo' = Rest
      /\ UNCHANGED <<disk, up, linked, pending, mem, imms, nextSeq, history>>
  BY DEF InstallCompaction
<1>2. Overfull(levels) # {} /\ edits = JobEdits /\ Rest = <<RemoveSst(JobFiles)>>
  BY <1>1, Steps DEF TypeInv
<1>3. JobEdits \in Seq(Edit) /\ JobFiles \in SUBSET Nat
  BY <1>2, WorkTyped
<1>4. edits \in Seq(Edit \cup {Torn})
  BY <1>2, <1>3, Widen
<1> HIDE DEF edits
<1>5. nextFile' \in Nat \ {0}
  BY <1>1, <1>4, ManifestNumbers
<1>6. ASSUME NEW l \in Level
      PROVE  kept(l) \in SUBSET Metas /\ IsFiniteSet(kept(l))
  <2> DEFINE L == levels[l]
             F == {Meta(t) : t \in L}
             f == [t \in L |-> Meta(t)]
             J == {j \in Ops(edits, "AddFile") : edits[j].level = l}
             A == added(l)
             g == [j \in J |-> edits[j].meta]
  <2>1. L \in SUBSET Stock /\ IsFiniteSet(L)
    BY DEF TypeInv, MemoryType, Stored
  <2>2. F \in SUBSET Metas
    BY <2>1 DEF Stock, Table, Meta, Metas
  <2>3. IsFiniteSet(J) /\ \A j \in J : edits[j].meta \in Metas
    <3>1. IsFiniteSet(Ops(edits, "AddFile")) /\ J \subseteq Ops(edits, "AddFile")
      BY <1>4, OpsAre
    <3>2. \A j \in J : edits[j] \in Edit /\ edits[j].op = "AddFile"
      BY <1>4, OpsAre
    <3> QED
      BY <3>1, <3>2, FS_Subset, EditFields
  <2>4. A \in SUBSET Metas
    BY <2>3
  <2> HIDE DEF L, F, J, A
  <2>5. f \in [L -> F] /\ \A m \in F : \E t \in L : f[t] = m
    BY DEF F
  <2>6. g \in [J -> A] /\ \A m \in A : \E j \in J : g[j] = m
    BY DEF A, J
  <2> HIDE DEF f, g
  <2>7. IsFiniteSet(F)
    BY <2>1, <2>5, FiniteImage, ZenonT(30)
  <2>8. IsFiniteSet(A)
    BY <2>3, <2>6, FiniteImage, ZenonT(30)
  <2>9. IsFiniteSet(F \cup A)
    BY <2>7, <2>8, FS_Union
  <2>10. kept(l) \subseteq F \cup A
    BY DEF F, A, L
  <2> QED
    BY <2>2, <2>4, <2>9, <2>10, FS_Subset
<1> HIDE DEF kept
<1>7. Stored(levels')
  <2>1. \A l \in Level : Opened(kept(l), sst) \in SUBSET Stock /\ IsFiniteSet(Opened(kept(l), sst))
    BY <1>6, OpenedType DEF TypeInv, DiskType
  <2> QED
    BY <1>1, <2>1 DEF Stored
<1>8. PlanInv'
  BY <1>1, <1>2, <1>3 DEF PlanInv, RemovePlans
<1> QED
  BY <1>1, <1>5, <1>7, <1>8 DEF TypeInv, DiskType, MemoryType, HistoryType, disk, history

\* The first records of a log, and a log with one more.
LEMMA LogParts ==
  ASSUME NEW S, NEW log \in Seq(S)
  PROVE  /\ Len(log) \in Nat
         /\ \A n \in 0..Len(log) :
              /\ SubSeq(log, 1, n) \in Seq(S) /\ Len(SubSeq(log, 1, n)) = n
              /\ \A i \in 1..n : SubSeq(log, 1, n)[i] = log[i]
         /\ \A x \in S : Append(log, x) \in Seq(S) /\ Len(Append(log, x)) = Len(log) + 1
<1>1. Len(log) \in Nat
  OBVIOUS
<1>2. ASSUME NEW n \in 0..Len(log)
      PROVE  /\ SubSeq(log, 1, n) \in Seq(S) /\ Len(SubSeq(log, 1, n)) = n
             /\ \A i \in 1..n : SubSeq(log, 1, n)[i] = log[i]
  <2>1. CASE n = 0
    BY <2>1
  <2>2. CASE n # 0
    BY <1>1, <2>2
  <2> QED
    BY <2>1, <2>2
<1>3. \A x \in S : Append(log, x) \in Seq(S) /\ Len(Append(log, x)) = Len(log) + 1
  OBVIOUS
<1> QED
  BY <1>1, <1>2, <1>3

\* A step that fails keeps the types.
LEMMA TypesIoError ==
  ASSUME TypeInv, IoError
  PROVE  TypeInv'
<1>1. /\ todo \in Seq(Op) /\ todo # <<>> /\ todo' = GivenUp
      /\ mishaps < MaxMishaps /\ mishaps' = mishaps + 1 /\ struck' = struck \cup {"iotable"}
      /\ UNCHANGED <<wal, walSynced, walEntry, manSynced, sst, up, linked, pending, mem, imms,
                     levels, nextSeq, acked, safe, doubt>>
      /\ stumps' \subseteq stumps \cup {"man"}
  BY PlanTyped DEF IoError, Now, TypeInv
<1>2. PlanInv'
  <2>1. Last(todo) \in Op
    BY <1>1 DEF Last
  <2>2. Last(todo).op = "compact" => Last(todo) = Step("compact")
    BY <2>1 DEF Op, Step
  <2>3. todo' \in {<<>>, <<Step("compact")>>}
    BY <1>1, <2>2 DEF GivenUp
  <2> QED
    BY <2>3, IdlePlan
<1>3. Head(todo) \in Op
  BY <1>1
<1>4. man' \in Seq(Edit \cup {Torn}) /\ Len(man) <= Len(man') /\ Len(man') \in Nat
  <2>1. man \in Seq(Edit \cup {Torn}) /\ Len(man) \in Nat
    BY DEF TypeInv, DiskType
  <2>2. CASE man' = man
    BY <2>1, <2>2
  <2>3. CASE Now("log") /\ man' # man
    <3>1. PICK n \in 0..(Len(Head(todo).edits) - 1) :
            man' = ManFile \o SubSeq(Head(todo).edits, 1, n)
      BY <2>3 DEF IoError, Now
    <3>2. Head(todo).edits \in Seq(Edit)
      BY <1>3, <2>3 DEF Op, Now
    <3> DEFINE y == SubSeq(Head(todo).edits, 1, n)
    <3>3. n \in 0..Len(Head(todo).edits)
      BY <3>2
    <3>4. y \in Seq(Edit)
      BY <3>2, <3>3, LogParts
    <3>5. y \in Seq(Edit \cup {Torn}) /\ Len(y) \in Nat
      BY <3>4, Widen
    <3>6. man' = ManFile \o y
      BY <3>1
    <3> HIDE DEF y
    <3>7. /\ ManFile \in Seq(Edit \cup {Torn})
          /\ Len(ManFile) \in Nat /\ Len(ManFile) >= Len(man)
      BY LogFiles DEF TypeInv
    <3>8. man' \in Seq(Edit \cup {Torn}) /\ Len(man') = Len(ManFile) + Len(y)
      BY <3>5, <3>6, <3>7, Concat
    <3> QED
      BY <2>1, <3>5, <3>7, <3>8
  <2> QED
    BY <2>2, <2>3 DEF IoError
<1>5. manSynced' \in 0..Len(man')
  BY <1>1, <1>4 DEF TypeInv, DiskType
<1>6. nextFile' \in Nat \ {0}
  <2>1. CASE nextFile' = nextFile
    BY <2>1 DEF TypeInv, MemoryType
  <2>2. CASE Now("install") /\ nextFile' = LastNextFileNum(Head(todo).edits)
    <3>1. Head(todo).edits \in Seq(Edit)
      BY <1>3, <2>2 DEF Op, Now
    <3>2. Head(todo).edits \in Seq(Edit \cup {Torn})
      BY <3>1, Widen
    <3> QED
      BY <2>2, <3>2, ManifestNumbers
  <2> QED
    BY <2>1, <2>2 DEF IoError
<1>7. mishaps' \in 0..MaxMishaps /\ struck' \subseteq AllFaults \cup {"crash", "behind"}
  BY <1>1, DiskAssumption DEF TypeInv, HistoryType, AllFaults, DiskAssumption
<1>8. DiskType'
  BY <1>1, <1>4, <1>5 DEF TypeInv, DiskType
<1>9. MemoryType'
  BY <1>1, <1>6 DEF TypeInv, MemoryType
<1>10. HistoryType'
  BY <1>1, <1>7 DEF TypeInv, HistoryType
<1> QED
  BY <1>2, <1>8, <1>9, <1>10 DEF TypeInv

\* Nothing is left in memory.
LEMMA TypesForget ==
  ASSUME Forget
  PROVE  MemoryType' /\ PlanInv'
<1>1. Stored([l \in Level |-> {}]) /\ IsFiniteSet({}) /\ {} \in SUBSET Record
  BY FS_EmptySet DEF Stored
<1>2. <<>> \in Seq(Batch) /\ 0 \in 0..MaxSeq
  BY LsmAssumption DEF LsmAssumption
<1>3. PlanInv'
  BY IdlePlan DEF Forget
<1>4. /\ up' = FALSE /\ linked' = FALSE /\ pending' = 0
      /\ mem' = {} /\ imms' = <<>> /\ levels' = [l \in Level |-> {}]
      /\ nextSeq' = 0 /\ nextFile' = 1
  BY DEF Forget
<1>5. imms' \in Seq(Batch)
  BY <1>4
<1>6. Stored(levels')
  BY <1>1, <1>4
<1>7. up' \in BOOLEAN /\ linked' \in BOOLEAN /\ mem' \in SUBSET Record /\ IsFiniteSet(mem')
  BY <1>1, <1>4
<1>8. pending' \in Nat /\ nextSeq' \in 0..MaxSeq /\ nextFile' \in Nat \ {0}
  BY <1>2, <1>4
<1>9. MemoryType'
  BY <1>5, <1>6, <1>7, <1>8 DEF MemoryType
<1> QED
  BY <1>3, <1>9

\* A crash and a power loss keep the types.
LEMMA TypesCrash ==
  ASSUME TypeInv, Crash \/ PowerLoss
  PROVE  TypeInv'
<1>1. Forget /\ mishaps < MaxMishaps /\ mishaps' = mishaps + 1
  BY DEF Crash, PowerLoss
<1>2. MemoryType' /\ PlanInv'
  BY <1>1, TypesForget
<1>3. wal \in Seq(Record \cup {Torn}) /\ man \in Seq(Edit \cup {Torn})
  BY DEF TypeInv, DiskType
<1>4. walSynced \in 0..Len(wal) /\ manSynced \in 0..Len(man) /\ Len(wal) \in Nat /\ Len(man) \in Nat
  BY <1>3 DEF TypeInv, DiskType
<1>5. mishaps' \in 0..MaxMishaps
  BY <1>1, DiskAssumption DEF TypeInv, HistoryType, DiskAssumption
<1>6. CASE Crash
  <2>1. /\ struck' \subseteq struck \cup {"crash", "torn", "behind"}
        /\ wal' = wal \/ wal' = WalFile
        /\ man' = man \/ man' = ManFile
        /\ stumps' \subseteq stumps \cup {"wal", "man"}
        /\ UNCHANGED <<walSynced, walEntry, manSynced, sst, acked, safe, doubt>>
    BY <1>6 DEF Crash, Behind
  <2>2. wal' \in Seq(Record \cup {Torn}) /\ Len(wal') \in Nat /\ Len(wal') >= Len(wal)
    BY <1>3, <1>4, <2>1, LogFiles DEF TypeInv
  <2>3. man' \in Seq(Edit \cup {Torn}) /\ Len(man') \in Nat /\ Len(man') >= Len(man)
    BY <1>3, <1>4, <2>1, LogFiles DEF TypeInv
  <2>4. walSynced' \in 0..Len(wal') /\ manSynced' \in 0..Len(man')
    BY <1>4, <2>1, <2>2, <2>3
  <2>5. DiskType'
    BY <2>1, <2>2, <2>3, <2>4 DEF TypeInv, DiskType
  <2>6. HistoryType'
    BY <1>5, <2>1 DEF TypeInv, HistoryType, AllFaults
  <2> QED
    BY <1>2, <2>5, <2>6 DEF TypeInv
<1>7. CASE PowerLoss
  <2>1. PICK n \in WalPrefixes, m \in ManPrefixes :
          /\ man' = SubSeq(man, 1, m) /\ manSynced' = m
          /\ \/ /\ wal' = SubSeq(wal, 1, n) /\ walSynced' = n /\ walEntry' = TRUE
                /\ acked' = acked \ LostRecords(n) /\ doubt' = doubt \ LostRecords(n)
             \/ /\ wal' = <<>> /\ walSynced' = 0 /\ walEntry' = FALSE
                /\ UNCHANGED <<acked, doubt>>
          /\ struck' \subseteq struck \cup {"crash", "direntry", "torn"}
          /\ stumps' \subseteq {"wal", "man"}
    BY <1>7 DEF PowerLoss, Tearable, Cut
  <2>2. UNCHANGED <<sst, safe>>
    BY <1>7 DEF PowerLoss
  <2>3. n \in 0..Len(wal) /\ m \in 0..Len(man)
    BY <1>4 DEF WalPrefixes, ManPrefixes
  <2>4. /\ SubSeq(wal, 1, n) \in Seq(Record \cup {Torn}) /\ Len(SubSeq(wal, 1, n)) = n
        /\ man' \in Seq(Edit \cup {Torn}) /\ Len(man') = m
    BY <1>3, <2>1, <2>3, LogParts
  <2>5. <<>> \in Seq(Record \cup {Torn}) /\ 0 \in 0..Len(<<>>)
    OBVIOUS
  <2>6. wal' \in Seq(Record \cup {Torn}) /\ walSynced' \in 0..Len(wal')
    <3>1. n \in 0..n
      BY <2>3
    <3>2. CASE wal' = SubSeq(wal, 1, n) /\ walSynced' = n
      BY <2>4, <3>1, <3>2
    <3>3. CASE wal' = <<>> /\ walSynced' = 0
      BY <2>5, <3>3
    <3> QED
      BY <2>1, <3>2, <3>3
  <2>7. manSynced' \in 0..Len(man')
    BY <2>1, <2>3, <2>4
  <2>8. walEntry' \in BOOLEAN
    BY <2>1
  <2>9. DiskType'
    BY <2>1, <2>2, <2>4, <2>6, <2>7, <2>8 DEF TypeInv, DiskType
  <2>10. acked' \subseteq acked /\ doubt' \subseteq doubt
         /\ struck' \subseteq struck \cup {"crash", "direntry", "torn"}
    BY <2>1
  <2>11. HistoryType'
    BY <1>5, <2>2, <2>10, FS_Subset DEF TypeInv, HistoryType, AllFaults
  <2> QED
    BY <1>2, <2>9, <2>11 DEF TypeInv
<1> QED
  BY <1>6, <1>7

\* A reopen keeps the types.
LEMMA TypesOpen ==
  ASSUME TypeInv, Open
  PROVE  TypeInv'
<1>1. /\ up' = TRUE /\ linked' = TRUE /\ pending' = 0
      /\ mem' = Replayed(WalFile) /\ imms' = <<>> /\ levels' = Version(ManFile, sst)
      /\ nextSeq' = RecoveredSeq(WalFile, ManFile) /\ nextFile' = LastNextFileNum(ManFile)
      /\ todo' = <<>> /\ UNCHANGED <<disk, history>>
  BY DEF Open
<1>2. WalFile \in Seq(Record \cup {Torn}) /\ ManFile \in Seq(Edit \cup {Torn}) /\ Files(sst)
  BY LogFiles DEF TypeInv, DiskType
<1>3. Stored(levels')
  BY <1>1, <1>2, VersionType
<1>4. mem' \in SUBSET Record /\ IsFiniteSet(mem')
  BY <1>1, <1>2, ReplayedType
<1>5. nextSeq' \in 0..MaxSeq /\ nextFile' \in Nat \ {0}
  BY <1>1, <1>2, RecoveredSeqIs, ManifestNumbers
<1>6. MemoryType'
  BY <1>1, <1>3, <1>4, <1>5 DEF MemoryType
<1>7. PlanInv'
  BY <1>1, IdlePlan
<1> QED
  BY <1>1, <1>6, <1>7 DEF TypeInv, DiskType, HistoryType, disk, history

\* Every step keeps the types.
LEMMA TypesNext ==
  ASSUME TypeInv, [Next]_vars
  PROVE  TypeInv'
<1>1. CASE UNCHANGED vars
  <2>1. /\ UNCHANGED <<disk, up, memory, todo, history>>
        /\ UNCHANGED <<mem, imms, levels, nextSeq, nextFile>>
    BY <1>1 DEF vars, memory
  <2>2. PlanInv'
    BY <2>1, SameWork DEF TypeInv, PlanInv
  <2> QED
    BY <2>1, <2>2 DEF TypeInv, DiskType, MemoryType, HistoryType, disk, memory, history
<1>2. CASE \E k \in Keys, v \in Vals \cup {Tomb} : Write(k, v)
  BY <1>2, TypesWrite
<1>3. CASE \E k \in Keys, v \in Vals \cup {Tomb} : WriteFails(k, v)
  BY <1>3, TypesWriteFails
<1>4. CASE Sync \/ StartFlush \/ StartCompact \/ StartBackground
  BY <1>4, TypesClient
<1>5. CASE PlanFlush \/ PlanCompact
  BY <1>5, TypesPlan
<1>6. CASE WriteTable \/ RemoveInputs
  BY <1>6, TypesTable
<1>7. CASE SyncDir \/ SyncManifest \/ UnlinkWal \/ CreateWal
  BY <1>7, TypesSync
<1>8. CASE LogManifest
  BY <1>8, TypesLog
<1>9. CASE InstallFlush
  BY <1>9, TypesInstallFlush
<1>10. CASE InstallCompaction
  BY <1>10, TypesInstallCompaction
<1>11. CASE IoError
  BY <1>11, TypesIoError
<1>12. CASE Crash \/ PowerLoss
  BY <1>12, TypesCrash
<1>13. CASE Open
  BY <1>13, TypesOpen
<1> QED
  BY <1>1, <1>2, <1>3, <1>4, <1>5, <1>6, <1>7, <1>8, <1>9, <1>10, <1>11, <1>12, <1>13 DEF Next

\* Whatever the faults: the state has its types, and what the holder of the
\* mutex has still to do is the rest of a flush or of a compaction of what is
\* in memory.
THEOREM DiskTypeInv == Spec => []TypeInv
<1>1. Init => TypeInv
  BY TypesAtFirst
<1>2. TypeInv /\ [Next]_vars => TypeInv'
  BY TypesNext
<1> QED
  BY <1>1, <1>2, PTL DEF Spec

\* TypeOK: open() after any fault leaves a state of these types.
THEOREM DiskTypeOK == Spec => []TypeOK
<1>1. TypeInv => TypeOK
  <2> SUFFICES ASSUME TypeInv PROVE TypeOK
    OBVIOUS
  <2>1. \A n \in DOMAIN sst : n \in Nat /\ sst[n] \in SUBSET Record
    BY DEF TypeInv, DiskType, Files, Batch
  <2>2. levels \in Levels
    BY StoredLevels DEF TypeInv, MemoryType
  <2>3. imms \in Seq(SUBSET Record)
    <3>1. imms \in Seq(Batch) /\ Batch \subseteq SUBSET Record
      BY DEF TypeInv, MemoryType, Batch
    <3> QED
      BY <3>1, Widen
  <2> QED
    BY <2>1, <2>2, <2>3 DEF TypeInv, DiskType, MemoryType, HistoryType, TypeOK
<1> QED
  BY <1>1, DiskTypeInv, PTL

-----------------------------------------------------------------------------
(* What is served: the writes that took effect and perhaps some in doubt.   *)

\* The places that a lookup visits hold writes of K and D only, newer ones
\* above older ones, and answer as K and some writes of D say.
Serves(m, im, lv, K, D) ==
  /\ Sound(lv) /\ Disjoint(lv) /\ Layered(Record, m, im, lv)
  /\ AllRecs(m, im, lv) \subseteq K \cup D
  /\ \A k \in Keys : \E E \in SUBSET D : Written(AllRecs(m, im, lv), k) = Written(K \cup E, k)

\* What a key may read as when the writes of K took effect and any of those of
\* D may have.
MayAnswer(K, D, k) == {Written(K \cup E, k) : E \in SUBSET D}

-----------------------------------------------------------------------------
(* Writes.                                                                 *)

\* The newest write of a key is what the key reads as.
LEMMA NewestWritten ==
  ASSUME NEW S \in SUBSET Record, OncePerSeq(S), NEW r \in S, \A q \in S : q.seq <= r.seq
  PROVE  Written(S, r.key) = IF r.val = Tomb THEN NoValue ELSE r.val
<1> DEFINE F == Visible(S, r.key, MaxSeq)
<1>1. F \in SUBSET Record /\ r \in F /\ F \subseteq S
  BY LsmAssumption DEF Visible, Record, LsmAssumption
<1>2. Newest(F) = r
  BY <1>1, NewestIs DEF OncePerSeq
<1> QED
  BY <1>1, <1>2 DEF Written, Answer

\* A write of another key changes nothing.
LEMMA OtherKeyWritten ==
  ASSUME NEW S, NEW r, NEW k, r.key # k
  PROVE  Written(S \cup {r}, k) = Written(S, k)
<1>1. Visible(S \cup {r}, k, MaxSeq) = Visible(S, k, MaxSeq)
  BY DEF Visible
<1> QED
  BY <1>1 DEF Written

\* A record newer than all there are may go on top.
LEMMA GoesOnTop ==
  ASSUME NEW m, NEW im, NEW lv, NEW r \in Record, Layered(Record, m, im, lv),
         AllRecs(m, im, lv) \subseteq {q \in Record : q.seq < r.seq}
  PROVE  /\ Layered(Record, m \cup {r}, im, lv)
         /\ AllRecs(m \cup {r}, im, lv) = AllRecs(m, im, lv) \cup {r}
<1> DEFINE A == AllRecs(m, im, lv)
           n == m \cup {r}
<1>1. /\ \A i \in DOMAIN im : im[i] \subseteq A
      /\ \A l \in Level : Recs(lv[l]) \subseteq A
  BY AllRecsAre DEF Recs
<1>2. \A q \in A : r.seq > q.seq
  BY DEF Record
<1>3. \A x \in n : x \in m \/ x = r
  OBVIOUS
<1>4. AllRecs(n, im, lv) = A \cup {r}
  <2>1. ASSUME NEW q PROVE q \in AllRecs(n, im, lv) <=> q \in A \cup {r}
    BY AllRecsAre
  <2> QED
    BY <2>1
<1>5. m \subseteq n
  OBVIOUS
<1> HIDE DEF A, n
<1>6. \A i \in DOMAIN im : Newer(Record, n, im[i])
  BY <1>1, <1>2, <1>3, <1>5 DEF Layered, Newer
<1>7. \A l \in Level : Newer(Record, n, Recs(lv[l]))
  BY <1>1, <1>2, <1>3, <1>5 DEF Layered, Newer
<1>8. Layered(Record, n, im, lv)
  BY <1>6, <1>7 DEF Layered
<1> QED
  BY <1>4, <1>8 DEF A, n

\* What serves the writes of K and D consists of records.
LEMMA ServesType ==
  ASSUME NEW m, NEW im, NEW lv, NEW K \in SUBSET Record, NEW D \in SUBSET Record, Serves(m, im, lv, K, D)
  PROVE  /\ AllRecs(m, im, lv) \in SUBSET Record /\ m \in SUBSET Record
         /\ \A i \in DOMAIN im : im[i] \in SUBSET Record
BY AllRecsAre DEF Serves

\* A write that returned Ok.
LEMMA ServesWrite ==
  ASSUME NEW m, NEW im, NEW lv, NEW K \in SUBSET Record, NEW D \in SUBSET Record,
         Serves(m, im, lv, K, D), OncePerSeq(K \cup D),
         NEW r \in Record, \A q \in K \cup D : q.seq < r.seq
  PROVE  Serves(m \cup {r}, im, lv, K \cup {r}, D)
<1> DEFINE A == AllRecs(m, im, lv)
           n == m \cup {r}
<1>1. A \subseteq K \cup D /\ Layered(Record, m, im, lv) /\ Sound(lv) /\ Disjoint(lv)
  BY DEF Serves
<1>2. Layered(Record, n, im, lv) /\ AllRecs(n, im, lv) = A \cup {r}
  <2>1. A \subseteq {q \in Record : q.seq < r.seq}
    BY <1>1
  <2> QED
    BY <1>1, <2>1, GoesOnTop
<1>3. ASSUME NEW k \in Keys
      PROVE  \E E \in SUBSET D : Written(A \cup {r}, k) = Written(K \cup {r} \cup E, k)
  <2>1. PICK E \in SUBSET D : Written(A, k) = Written(K \cup E, k)
    BY DEF Serves
  <2>2. CASE k # r.key
    <3>1. K \cup {r} \cup E = (K \cup E) \cup {r}
      OBVIOUS
    <3> QED
      BY <2>1, <2>2, <3>1, OtherKeyWritten
  <2>3. CASE k = r.key
    <3>1. \A q \in K \cup D \cup {r} : q.seq <= r.seq
      BY DEF Record
    <3>2. OncePerSeq(K \cup D \cup {r})
      BY DEF OncePerSeq, Record
    <3> DEFINE S == A \cup {r}
               T == K \cup {r} \cup E
    <3>3. S \in SUBSET Record /\ T \in SUBSET Record /\ r \in S /\ r \in T
      BY <1>1
    <3>4. /\ \A q \in S : q.seq <= r.seq
          /\ \A q \in T : q.seq <= r.seq
      BY <1>1, <3>1
    <3>5. S \subseteq K \cup D \cup {r} /\ T \subseteq K \cup D \cup {r}
      BY <1>1
    <3> HIDE DEF S, T
    <3>6. OncePerSeq(S) /\ OncePerSeq(T)
      BY <3>2, <3>5 DEF OncePerSeq
    <3>7. Written(S, r.key) = Written(T, r.key)
      BY <3>3, <3>4, <3>6, NewestWritten
    <3> QED
      BY <2>3, <3>7 DEF S, T
  <2> QED
    BY <2>2, <2>3
<1>4. A \cup {r} \subseteq K \cup {r} \cup D
  BY <1>1
<1> QED
  BY <1>1, <1>2, <1>3, <1>4 DEF Serves

\* A write that returned an error: it may have reached the memtable or not.
LEMMA ServesDoubt ==
  ASSUME NEW m, NEW im, NEW lv, NEW K \in SUBSET Record, NEW D \in SUBSET Record,
         Serves(m, im, lv, K, D), OncePerSeq(K \cup D),
         NEW r \in Record, \A q \in K \cup D : q.seq < r.seq
  PROVE  /\ Serves(m, im, lv, K, D \cup {r})
         /\ Serves(m \cup {r}, im, lv, K, D \cup {r})
<1> DEFINE A == AllRecs(m, im, lv)
           n == m \cup {r}
<1>1. A \subseteq K \cup D /\ Layered(Record, m, im, lv) /\ Sound(lv) /\ Disjoint(lv)
  BY DEF Serves
<1>2. Layered(Record, n, im, lv) /\ AllRecs(n, im, lv) = A \cup {r}
  <2>1. A \subseteq {q \in Record : q.seq < r.seq}
    BY <1>1
  <2> QED
    BY <1>1, <2>1, GoesOnTop
<1>3. \A k \in Keys : \E E \in SUBSET (D \cup {r}) : Written(A, k) = Written(K \cup E, k)
  BY DEF Serves
<1>4. Serves(m, im, lv, K, D \cup {r})
  BY <1>1, <1>3 DEF Serves
<1>5. ASSUME NEW k \in Keys
      PROVE  \E E \in SUBSET (D \cup {r}) : Written(A \cup {r}, k) = Written(K \cup E, k)
  <2>1. Serves(n, im, lv, K \cup {r}, D)
    BY ServesWrite
  <2>2. PICK E \in SUBSET D : Written(A \cup {r}, k) = Written(K \cup {r} \cup E, k)
    BY <1>2, <2>1 DEF Serves
  <2>3. K \cup {r} \cup E = K \cup (E \cup {r}) /\ E \cup {r} \in SUBSET (D \cup {r})
    OBVIOUS
  <2> QED
    BY <2>2, <2>3
<1>6. A \cup {r} \subseteq K \cup (D \cup {r})
  BY <1>1
<1>7. Serves(n, im, lv, K, D \cup {r})
  BY <1>1, <1>2, <1>5, <1>6 DEF Serves
<1> QED
  BY <1>4, <1>7

-----------------------------------------------------------------------------
(* Freezing, flushing and compacting.                                      *)

\* Freezing the memtable changes no answer.
LEMMA ServesFreeze ==
  ASSUME NEW m, NEW im \in Seq(Batch), NEW lv, NEW K, NEW D, Serves(m, im, lv, K, D)
  PROVE  Serves({}, Append(im, m), lv, K, D)
<1>1. /\ Layered(Record, {}, Append(im, m), lv)
      /\ AllRecs({}, Append(im, m), lv) = AllRecs(m, im, lv)
  BY FreezeKeepsOrder DEF Serves
<1> QED
  BY <1>1 DEF Serves

\* The oldest frozen memtable becomes a table.
LEMMA FirstFlushed ==
  ASSUME NEW im \in Seq(Batch), im # <<>>, NEW lv, Sound(lv), NEW nf \in Nat \ {0}
  PROVE  LET f == FlushImms(im, lv, nf, 1)
         IN  /\ f.imms = Tail(im)
             /\ f.levels = [lv EXCEPT ![0] = @ \cup {MkTable(nf, Head(im))}]
<1>1. 1..1 = {1} /\ Len(im) \in Nat /\ Len(im) # 0 /\ im[1] = Head(im)
  OBVIOUS
<1>2. SubSeq(im, 2, Len(im)) = Tail(im)
  OBVIOUS
<1>3. {MkTable(nf + i - 1, im[i]) : i \in {1}} = {MkTable(nf, Head(im))}
  <2>1. nf + 1 - 1 = nf
    OBVIOUS
  <2> QED
    BY <1>1, <2>1
<1>4. FlushImms(im, lv, nf, 1).imms = SubSeq(im, 2, Len(im))
  BY DEF FlushImms
<1>5. FlushImms(im, lv, nf, 1).levels = [lv EXCEPT ![0] = @ \cup {MkTable(nf + i - 1, im[i]) : i \in 1..1}]
  BY DEF FlushImms
<1> QED
  BY <1>1, <1>2, <1>3, <1>4, <1>5

\* A table numbered with the next number, in level 0.
LEMMA NumberedOneMore ==
  ASSUME NEW lv, Sound(lv), NEW nf \in Nat, Numbered(lv, nf), NEW t, t.num = nf
  PROVE  Numbered([lv EXCEPT ![0] = @ \cup {t}], nf + 1)
<1> DEFINE w == [lv EXCEPT ![0] = @ \cup {t}]
<1>1. \A l \in Level : \A u \in lv[l] : u.num \in Nat /\ u.num < nf
  BY DEF Sound, Built, Table, Numbered
<1>2. \A l \in Level : w[l] = lv[l] \/ (l = 0 /\ w[l] = lv[l] \cup {t})
  BY DEF Sound
<1> HIDE DEF w
<1>3. \A l \in Level : \A u \in w[l] : u \in lv[l] \/ (l = 0 /\ u = t)
  BY <1>2
<1>4. \A l \in Level : \A u \in w[l] : u.num < nf + 1
  BY <1>1, <1>3
<1>5. ASSUME NEW l \in Level, NEW k \in Level, NEW u \in w[l], NEW v \in w[k], u.num = v.num
      PROVE  l = k /\ u = v
  <2>1. CASE u \in lv[l] /\ v \in lv[k]
    BY <1>5, <2>1 DEF Numbered
  <2>2. CASE u \in lv[l] /\ k = 0 /\ v = t
    BY <1>1, <1>5, <2>2
  <2>3. CASE l = 0 /\ u = t /\ v \in lv[k]
    BY <1>1, <1>5, <2>3
  <2> QED
    BY <1>3, <2>1, <2>2, <2>3
<1> QED
  BY <1>4, <1>5 DEF Numbered, w

\* Flushing the oldest memtable changes no answer.
LEMMA ServesFlush ==
  ASSUME NEW m, NEW im \in Seq(Batch), im # <<>>, NEW lv, NEW nf \in Nat \ {0}, NEW K, NEW D,
         Serves(m, im, lv, K, D), Numbered(lv, nf)
  PROVE  LET w == [lv EXCEPT ![0] = @ \cup {MkTable(nf, Head(im))}]
         IN  Serves(m, Tail(im), w, K, D) /\ Numbered(w, nf + 1)
<1> DEFINE f == FlushImms(im, lv, nf, 1)
           w == [lv EXCEPT ![0] = @ \cup {MkTable(nf, Head(im))}]
<1>1. Sound(lv) /\ Disjoint(lv) /\ Layered(Record, m, im, lv)
  BY DEF Serves
<1>2. f.imms = Tail(im) /\ f.levels = w
  BY <1>1, FirstFlushed
<1>3. 1 \in 0..Len(im)
  OBVIOUS
<1>4. /\ Layered(Record, m, f.imms, f.levels) /\ Disjoint(f.levels)
      /\ AllRecs(m, f.imms, f.levels) = AllRecs(m, im, lv)
  BY <1>1, <1>3, FlushKeepsOrder
<1>5. Sound(f.levels)
  BY <1>1, <1>3, FlushResult
<1>6. Numbered(w, nf + 1)
  BY <1>1, NumberedOneMore DEF MkTable
<1> HIDE DEF f, w
<1>7. Serves(m, Tail(im), w, K, D)
  BY <1>2, <1>4, <1>5 DEF Serves
<1> QED
  BY <1>6, <1>7 DEF w

\* The log repeats a memtable that is frozen.
LEMMA ServesLogged ==
  ASSUME NEW R, NEW lv, NEW K, NEW D, Serves(R, <<>>, lv, K, D), NEW S \in Batch, S \subseteq R,
         \A l \in Level : Newer(Record, S, Recs(lv[l]))
  PROVE  Serves(R, <<S>>, lv, K, D)
<1>1. Layered(Record, R, <<>>, lv) /\ Sound(lv) /\ Disjoint(lv)
  BY DEF Serves
<1>2. DOMAIN <<S>> = {1} /\ <<S>>[1] = S
  OBVIOUS
<1>3. Newer(Record, R, S)
  BY DEF Newer, Batch
<1>4. Layered(Record, R, <<S>>, lv)
  BY <1>1, <1>2, <1>3 DEF Layered
<1>5. AllRecs(R, <<S>>, lv) = AllRecs(R, <<>>, lv)
  <2>1. DOMAIN <<>> = {}
    OBVIOUS
  <2>2. ASSUME NEW q PROVE q \in AllRecs(R, <<S>>, lv) <=> q \in AllRecs(R, <<>>, lv)
    BY <1>2, <2>1, AllRecsAre
  <2> QED
    BY <2>2
<1> QED
  BY <1>1, <1>4, <1>5 DEF Serves

\* A compaction changes no answer.
LEMMA ServesCompact ==
  ASSUME NEW m \in SUBSET Record, NEW im \in Seq(Batch), NEW lv, NEW nf \in Nat \ {0},
         NEW K \in SUBSET Record, NEW D \in SUBSET Record,
         Serves(m, im, lv, K, D), OncePerSeq(K \cup D)
  PROVE  Serves(m, im, MaybeCompact(lv, nf, MaxSeq).levels, K, D)
<1> DEFINE c == MaybeCompact(lv, nf, MaxSeq).levels
<1>1. /\ Sound(lv) /\ Disjoint(lv) /\ Layered(Record, m, im, lv)
      /\ AllRecs(m, im, lv) \subseteq K \cup D
  BY DEF Serves
<1>2. OncePerSeq(AllRecs(m, im, lv))
  BY <1>1 DEF OncePerSeq
<1>3. Sound(c)
  BY <1>1, CompactResult
<1>4. Disjoint(c)
  BY <1>1, CompactKeepsDisjoint
<1>5. Layered(Record, m, im, c) /\ AllRecs(m, im, c) \subseteq AllRecs(m, im, lv)
  BY <1>1, <1>2, CompactKeepsOrder
<1>6. MaxSeq \in Nat /\ \A r \in AllRecs(m, im, lv) : r.seq <= MaxSeq
  BY <1>1, LsmAssumption DEF Record, LsmAssumption
<1>7. ASSUME NEW k \in Keys
      PROVE  Written(AllRecs(m, im, c), k) = Written(AllRecs(m, im, lv), k)
  BY <1>1, <1>2, <1>6, CompactKeepsAnswers DEF Written
<1> HIDE DEF c
<1>8. AllRecs(m, im, c) \subseteq K \cup D
  BY <1>1, <1>5
<1>9. \A k \in Keys : \E E \in SUBSET D : Written(AllRecs(m, im, c), k) = Written(K \cup E, k)
  BY <1>7 DEF Serves
<1>10. Serves(m, im, c, K, D)
  BY <1>3, <1>4, <1>5, <1>8, <1>9 DEF Serves
<1> QED
  BY <1>10 DEF c

\* A get answers as the writes say.
LEMMA ServesReads ==
  ASSUME NEW m \in SUBSET Record, NEW im \in Seq(Batch), NEW lv, NEW nf \in Nat,
         NEW K \in SUBSET Record, NEW D \in SUBSET Record,
         Serves(m, im, lv, K, D), OncePerSeq(K \cup D), Numbered(lv, nf), NEW k \in Keys
  PROVE  Answer(Lookup(m, im, lv, k, MaxSeq)) \in MayAnswer(K, D, k)
<1>1. /\ Sound(lv) /\ Disjoint(lv) /\ Layered(Record, m, im, lv)
      /\ AllRecs(m, im, lv) \subseteq K \cup D
  BY DEF Serves
<1>2. OncePerSeq(AllRecs(m, im, lv)) /\ MaxSeq \in Nat
  BY <1>1, LsmAssumption DEF OncePerSeq, LsmAssumption
<1>3. Answer(Lookup(m, im, lv, k, MaxSeq)) = Written(AllRecs(m, im, lv), k)
  BY <1>1, <1>2, LookupFindsNewest DEF Written
<1>4. PICK E \in SUBSET D : Written(AllRecs(m, im, lv), k) = Written(K \cup E, k)
  BY DEF Serves
<1> QED
  BY <1>3, <1>4 DEF MayAnswer

-----------------------------------------------------------------------------
(* What the MANIFEST says after more edits.                                *)

\* The files that edits add to a level and delete from it.
Added(edits, l) == {edits[i].meta : i \in {j \in Ops(edits, "AddFile") : edits[j].level = l}}
Gone(edits, l)  == {edits[i].num : i \in {j \in Ops(edits, "DeleteFile") : edits[j].level = l}}

\* The positions of the edits of a kind.
LEMMA OpsOf ==
  ASSUME NEW edits \in Seq(Edit), NEW op
  PROVE  Ops(edits, op) = {i \in 1..Len(edits) : edits[i].op = op}
<1>1. BeforeStump(edits) = 1..Len(edits)
  BY TornIsNeither, NoStump
<1> QED
  BY <1>1 DEF Ops

\* A table is live when no edit after the one that adds it deletes it.
LEMMA LiveIs ==
  ASSUME NEW edits \in Seq(Edit), NEW l, NEW f
  PROVE  f \in Live(edits, l) <=>
           \E j \in 1..Len(edits) :
             /\ edits[j].op = "AddFile" /\ edits[j].level = l /\ edits[j].meta = f
             /\ \A d \in 1..Len(edits) :
                  d > j /\ edits[d].op = "DeleteFile" => edits[d].level # l \/ edits[d].num # f.num
<1>1. /\ Ops(edits, "AddFile") = {i \in 1..Len(edits) : edits[i].op = "AddFile"}
      /\ Ops(edits, "DeleteFile") = {i \in 1..Len(edits) : edits[i].op = "DeleteFile"}
  BY OpsOf
<1> QED
  BY <1>1 DEF Live

\* What an older manifest and newer edits list together.
LEMMA LiveAppend ==
  ASSUME NEW old \in Seq(Edit), NEW e \in Seq(Edit), NEW l
  PROVE  Live(old \o e, l) = {f \in Live(old, l) : f.num \notin Gone(e, l)} \cup Live(e, l)
<1> DEFINE c == old \o e
           n == Len(old)
<1>1. /\ c \in Seq(Edit) /\ Len(c) = n + Len(e) /\ n \in Nat /\ Len(e) \in Nat
      /\ \A i \in 1..n : c[i] = old[i]
      /\ \A i \in 1..Len(e) : c[n + i] = e[i]
      /\ \A i \in 1..Len(c) : i \in 1..n \/ (i - n \in 1..Len(e) /\ c[i] = e[i - n])
  BY Concat
<1>2. \A x : x \in Gone(e, l) <=> \E i \in 1..Len(e) : e[i].op = "DeleteFile" /\ e[i].level = l /\ e[i].num = x
  <2>1. Ops(e, "DeleteFile") = {i \in 1..Len(e) : e[i].op = "DeleteFile"}
    BY OpsOf
  <2> QED
    BY <2>1 DEF Gone
<1> HIDE DEF c, n
<1>3. ASSUME NEW f \in Live(c, l)
      PROVE  f \in {g \in Live(old, l) : g.num \notin Gone(e, l)} \cup Live(e, l)
  <2>1. PICK j \in 1..Len(c) :
          /\ c[j].op = "AddFile" /\ c[j].level = l /\ c[j].meta = f
          /\ \A d \in 1..Len(c) :
               d > j /\ c[d].op = "DeleteFile" => c[d].level # l \/ c[d].num # f.num
    <3>1. c \in Seq(Edit)
      BY <1>1
    <3> QED
      BY <1>3, <3>1, LiveIs
  <2>2. CASE j \in 1..n
    <3>1. f \in Live(old, l)
      <4>1. old[j].op = "AddFile" /\ old[j].level = l /\ old[j].meta = f
        BY <1>1, <2>1, <2>2
      <4>2. \A d \in 1..n : d > j /\ old[d].op = "DeleteFile" => old[d].level # l \/ old[d].num # f.num
        <5>1. \A d \in 1..n : d \in 1..Len(c) /\ c[d] = old[d]
          BY <1>1
        <5> QED
          BY <2>1, <5>1
      <4> QED
        BY <2>2, <4>1, <4>2, LiveIs DEF n
    <3>2. f.num \notin Gone(e, l)
      <4> SUFFICES ASSUME NEW i \in 1..Len(e), e[i].op = "DeleteFile", e[i].level = l, e[i].num = f.num
                   PROVE  FALSE
        BY <1>2
      <4>1. n + i \in 1..Len(c) /\ n + i > j /\ c[n + i] = e[i]
        BY <1>1, <2>2
      <4> QED
        BY <2>1, <4>1
    <3> QED
      BY <3>1, <3>2
  <2>3. CASE j - n \in 1..Len(e) /\ c[j] = e[j - n]
    <3> DEFINE i == j - n
    <3>1. i \in 1..Len(e) /\ e[i].op = "AddFile" /\ e[i].level = l /\ e[i].meta = f
      BY <2>1, <2>3
    <3>2. \A d \in 1..Len(e) : d > i => n + d \in 1..Len(c) /\ n + d > j /\ c[n + d] = e[d]
      BY <1>1, <2>3
    <3> HIDE DEF i
    <3>3. \A d \in 1..Len(e) : d > i /\ e[d].op = "DeleteFile" => e[d].level # l \/ e[d].num # f.num
      BY <2>1, <3>2
    <3>4. f \in Live(e, l)
      BY <3>1, <3>3, LiveIs
    <3> QED
      BY <3>4
  <2> QED
    BY <1>1, <2>2, <2>3
<1>4. ASSUME NEW f \in Live(old, l), f.num \notin Gone(e, l)
      PROVE  f \in Live(c, l)
  <2>1. PICK j \in 1..n :
          /\ old[j].op = "AddFile" /\ old[j].level = l /\ old[j].meta = f
          /\ \A d \in 1..n :
               d > j /\ old[d].op = "DeleteFile" => old[d].level # l \/ old[d].num # f.num
    BY <1>4, LiveIs DEF n
  <2>2. j \in 1..Len(c) /\ c[j] = old[j]
    BY <1>1
  <2>3. ASSUME NEW d \in 1..Len(c), d > j, c[d].op = "DeleteFile"
        PROVE  c[d].level # l \/ c[d].num # f.num
    <3>1. CASE d \in 1..n
      BY <1>1, <2>1, <2>3, <3>1
    <3>2. CASE d - n \in 1..Len(e) /\ c[d] = e[d - n]
      BY <1>2, <1>4, <2>3, <3>2
    <3> QED
      BY <1>1, <3>1, <3>2
  <2> QED
    BY <1>1, <2>1, <2>2, <2>3, LiveIs
<1>5. ASSUME NEW f \in Live(e, l)
      PROVE  f \in Live(c, l)
  <2>1. PICK j \in 1..Len(e) :
          /\ e[j].op = "AddFile" /\ e[j].level = l /\ e[j].meta = f
          /\ \A d \in 1..Len(e) :
               d > j /\ e[d].op = "DeleteFile" => e[d].level # l \/ e[d].num # f.num
    BY <1>5, LiveIs
  <2> DEFINE i == n + j
  <2>2. i \in 1..Len(c) /\ c[i] = e[j]
    BY <1>1
  <2>3. ASSUME NEW d \in 1..Len(c), d > i, c[d].op = "DeleteFile"
        PROVE  c[d].level # l \/ c[d].num # f.num
    <3>1. d - n \in 1..Len(e) /\ d - n > j /\ c[d] = e[d - n]
      BY <1>1, <2>3
    <3> QED
      BY <2>1, <2>3, <3>1
  <2> HIDE DEF i
  <2>4. c[i].op = "AddFile" /\ c[i].level = l /\ c[i].meta = f /\ c \in Seq(Edit)
    BY <1>1, <2>1, <2>2
  <2> QED
    BY <2>2, <2>3, <2>4, LiveIs
<1> QED
  BY <1>3, <1>4, <1>5 DEF c

\* c is old with e behind it.
Extends(c, old, e) == c = old \o e

\* The last edit of a kind counts.
LastOf(edits, op, i) ==
  /\ i \in 1..Len(edits) /\ edits[i].op = op
  /\ \A j \in 1..Len(edits) : edits[j].op = op => j <= i

\* The last edit of a kind is the one at the last of its positions.
LEMMA LastOfKind ==
  ASSUME NEW edits \in Seq(Edit), NEW op, NEW i, LastOf(edits, op, i)
  PROVE  Ops(edits, op) # {} /\ Max(Ops(edits, op)) = i
<1> DEFINE I == Ops(edits, op)
<1>1. I = {j \in 1..Len(edits) : edits[j].op = op}
  BY OpsOf
<1>2. I \in SUBSET Nat /\ IsFiniteSet(I)
  <2>1. edits \in Seq(Edit \cup {Torn})
    BY Widen
  <2> QED
    BY <2>1, OpsAre
<1>3. i \in I /\ \A j \in I : j <= i
  BY <1>1 DEF LastOf
<1> HIDE DEF I
<1>4. Max(I) \in I /\ i <= Max(I)
  BY <1>2, <1>3, MaxOfFinite
<1>5. Max(I) = i
  <2>1. Max(I) \in Nat /\ i \in Nat /\ Max(I) <= i
    BY <1>2, <1>3, <1>4
  <2> QED
    BY <1>4, <2>1
<1> QED
  BY <1>3, <1>5 DEF I

\* More edits, one of them of the kind, or none.
LEMMA LastAppend ==
  ASSUME NEW old \in Seq(Edit), NEW e \in Seq(Edit), NEW op, NEW i, LastOf(e, op, i),
         NEW c, Extends(c, old, e)
  PROVE  Ops(c, op) # {} /\ c[Max(Ops(c, op))] = e[i]
<1> DEFINE n == Len(old)
           k == n + i
<1>1. /\ c \in Seq(Edit) /\ Len(c) = n + Len(e) /\ n \in Nat /\ Len(e) \in Nat
      /\ \A x \in 1..Len(e) : c[n + x] = e[x]
      /\ \A x \in 1..Len(c) : x \in 1..n \/ (x - n \in 1..Len(e) /\ c[x] = e[x - n])
  BY Concat DEF Extends
<1> HIDE DEF n
<1>2. /\ i \in 1..Len(e) /\ e[i].op = op /\ \A j \in 1..Len(e) : e[j].op = op => j <= i
      /\ k \in 1..Len(c) /\ c[k] = e[i]
  BY <1>1 DEF LastOf
<1>3. ASSUME NEW j \in 1..Len(c), c[j].op = op PROVE j <= k
  <2>1. CASE j \in 1..n
    BY <1>1, <1>2, <2>1
  <2>2. CASE j - n \in 1..Len(e) /\ c[j] = e[j - n]
    <3>1. j - n <= i
      BY <1>2, <1>3, <2>2
    <3> QED
      BY <1>1, <1>2, <3>1
  <2> QED
    BY <1>1, <2>1, <2>2
<1> HIDE DEF k
<1>4. Ops(c, op) # {} /\ Max(Ops(c, op)) = k
  <2>1. LastOf(c, op, k)
    BY <1>2, <1>3 DEF LastOf
  <2> QED
    BY <1>1, <2>1, LastOfKind
<1> QED
  BY <1>2, <1>4

\* The last edit sets the next file number.
LEMMA NumberAppend ==
  ASSUME NEW old \in Seq(Edit), NEW e \in Seq(Edit), Len(e) \in 1..Len(e), e[Len(e)].op = "SetNextFileNum"
  PROVE  /\ LastNextFileNum(old \o e) = e[Len(e)].n
         /\ LastNextFileNum(e) = e[Len(e)].n
<1>1. PICK i \in 1..Len(e) : i = Len(e)
  OBVIOUS
<1>2. LastOf(e, "SetNextFileNum", i)
  BY <1>1 DEF LastOf
<1>3. /\ Ops(old \o e, "SetNextFileNum") # {}
      /\ (old \o e)[Max(Ops(old \o e, "SetNextFileNum"))] = e[i]
  <2> DEFINE c == old \o e
  <2>1. Extends(c, old, e)
    BY DEF Extends
  <2> HIDE DEF c
  <2>2. Ops(c, "SetNextFileNum") # {} /\ c[Max(Ops(c, "SetNextFileNum"))] = e[i]
    BY <1>2, <2>1, LastAppend
  <2> QED
    BY <2>2 DEF c
<1>4. Ops(e, "SetNextFileNum") # {} /\ Max(Ops(e, "SetNextFileNum")) = i
  BY <1>2, LastOfKind
<1> QED
  BY <1>1, <1>3, <1>4 DEF LastNextFileNum

\* Edits without one of a kind leave the last of that kind in place.
LEMMA NoneAppend ==
  ASSUME NEW old \in Seq(Edit), NEW e \in Seq(Edit), NEW op, \A i \in 1..Len(e) : e[i].op # op
  PROVE  /\ Ops(old \o e, op) = Ops(old, op)
         /\ Ops(old, op) # {} => (old \o e)[Max(Ops(old, op))] = old[Max(Ops(old, op))]
<1> DEFINE c == old \o e
           n == Len(old)
           I == Ops(old, op)
<1>1. /\ c \in Seq(Edit) /\ Len(c) = n + Len(e) /\ n \in Nat /\ Len(e) \in Nat
      /\ \A i \in 1..n : c[i] = old[i]
      /\ \A i \in 1..Len(c) : i \in 1..n \/ (i - n \in 1..Len(e) /\ c[i] = e[i - n])
  BY Concat
<1>2. /\ Ops(c, op) = {i \in 1..Len(c) : c[i].op = op}
      /\ I = {i \in 1..n : old[i].op = op}
  BY <1>1, OpsOf
<1>3. I \in SUBSET Nat /\ IsFiniteSet(I) /\ I \subseteq 1..n
  <2>1. old \in Seq(Edit \cup {Torn})
    BY Widen
  <2> QED
    BY <2>1, OpsAre
<1> HIDE DEF c, n, I
<1>4. Ops(c, op) = I
  <2>1. \A i \in 1..Len(c) : c[i].op = op => i \in 1..n
    BY <1>1
  <2>2. \A i \in 1..n : i \in 1..Len(c) /\ c[i] = old[i]
    BY <1>1
  <2> QED
    BY <1>2, <2>1, <2>2
<1>5. I # {} => Max(I) \in I
  BY <1>3, MaxOfFinite
<1> QED
  BY <1>1, <1>3, <1>4, <1>5 DEF c, I

\* What edits add and delete, whatever their order.
LEMMA RangeConcat ==
  ASSUME NEW S, NEW s \in Seq(S), NEW t \in Seq(S)
  PROVE  \A c : Extends(c, s, t) => c \in Seq(S) /\ Range(c) = Range(s) \cup Range(t)
<1> SUFFICES ASSUME NEW c, Extends(c, s, t)
             PROVE  c \in Seq(S) /\ Range(c) = Range(s) \cup Range(t)
  OBVIOUS
<1>1. /\ c \in Seq(S) /\ Len(c) = Len(s) + Len(t) /\ Len(s) \in Nat /\ Len(t) \in Nat
      /\ DOMAIN c = 1..Len(c) /\ DOMAIN s = 1..Len(s) /\ DOMAIN t = 1..Len(t)
      /\ \A i \in 1..Len(s) : c[i] = s[i]
      /\ \A i \in 1..Len(t) : c[Len(s) + i] = t[i]
      /\ \A i \in 1..Len(c) : i \in 1..Len(s) \/ (i - Len(s) \in 1..Len(t) /\ c[i] = t[i - Len(s)])
  BY Concat DEF Extends
<1>2. \A i \in 1..Len(c) : c[i] \in Range(s) \cup Range(t)
  BY <1>1 DEF Range
<1>3. \A i \in 1..Len(s) : i \in 1..Len(c)
  BY <1>1
<1>4. \A i \in 1..Len(t) : Len(s) + i \in 1..Len(c)
  BY <1>1
<1>5. \A i \in 1..Len(s) : s[i] \in Range(c)
  BY <1>1, <1>3 DEF Range
<1>6. \A i \in 1..Len(t) : t[i] \in Range(c)
  BY <1>1, <1>4 DEF Range
<1>7. Range(c) \subseteq Range(s) \cup Range(t)
  BY <1>1, <1>2 DEF Range
<1>8. Range(s) \subseteq Range(c) /\ Range(t) \subseteq Range(c)
  BY <1>1, <1>5, <1>6 DEF Range
<1> QED
  BY <1>1, <1>7, <1>8

\* The files that edits add and delete, as conditions on the edits.
LEMMA AddedGone ==
  ASSUME NEW e \in Seq(Edit), NEW l
  PROVE  /\ \A f : f \in Added(e, l) <=> \E r \in Range(e) : r.op = "AddFile" /\ r.level = l /\ r.meta = f
         /\ \A n : n \in Gone(e, l) <=> \E r \in Range(e) : r.op = "DeleteFile" /\ r.level = l /\ r.num = n
         /\ (\A f \in Added(e, l) : f.num \notin Gone(e, l)) => Live(e, l) = Added(e, l)
<1>1. /\ Ops(e, "AddFile") = {i \in 1..Len(e) : e[i].op = "AddFile"}
      /\ Ops(e, "DeleteFile") = {i \in 1..Len(e) : e[i].op = "DeleteFile"}
      /\ DOMAIN e = 1..Len(e)
  BY OpsOf
<1>2. \A f : f \in Added(e, l) <=> \E i \in 1..Len(e) : e[i].op = "AddFile" /\ e[i].level = l /\ e[i].meta = f
  BY <1>1 DEF Added
<1>3. \A n : n \in Gone(e, l) <=> \E i \in 1..Len(e) : e[i].op = "DeleteFile" /\ e[i].level = l /\ e[i].num = n
  BY <1>1 DEF Gone
<1>4. Range(e) = {e[i] : i \in 1..Len(e)}
  BY <1>1 DEF Range
<1>5. ASSUME \A f \in Added(e, l) : f.num \notin Gone(e, l)
      PROVE  Live(e, l) = Added(e, l)
  <2>1. ASSUME NEW f PROVE f \in Live(e, l) <=> f \in Added(e, l)
    BY <1>2, <1>3, <1>5, LiveIs
  <2> QED
    BY <2>1
<1>6. \A f : f \in Added(e, l) <=> \E r \in Range(e) : r.op = "AddFile" /\ r.level = l /\ r.meta = f
  BY <1>2, <1>4
<1>7. \A n : n \in Gone(e, l) <=> \E r \in Range(e) : r.op = "DeleteFile" /\ r.level = l /\ r.num = n
  BY <1>3, <1>4
<1> QED
  BY <1>5, <1>6, <1>7

\* The MANIFEST with the edits of a flush.
LEMMA FlushLogged ==
  ASSUME NEW old \in Seq(Edit), NEW t \in Built, nextSeq \in 0..MaxSeq
  PROVE  LET new == old \o FlushEdits(t)
         IN  /\ new \in Seq(Edit)
             /\ \A l \in Level : Live(new, l) = IF l = 0 THEN Live(old, l) \cup {Meta(t)} ELSE Live(old, l)
             /\ LastNextFileNum(new) = t.num + 1 /\ LastSeq(new) = nextSeq
<1> DEFINE e   == FlushEdits(t)
           a   == AddFile(0, t)
           b   == SetNextFileNum(t.num + 1)
           c   == SetLastSeq(nextSeq)
           new == old \o e
<1>1. e \in Seq(Edit) /\ new \in Seq(Edit)
  BY FlushEditsType, Concat
<1>2. e = <<a, b, c>>
  BY DEF FlushEdits
<1>3. /\ a.op = "AddFile" /\ a.level = 0 /\ a.meta = Meta(t)
      /\ b.op = "SetNextFileNum" /\ b.n = t.num + 1
      /\ c.op = "SetLastSeq" /\ c.s = nextSeq
  BY DEF AddFile, SetNextFileNum, SetLastSeq
<1>0. Extends(new, old, e)
  BY DEF Extends
<1> HIDE DEF a, b, c, e, new
<1>4. Len(e) = 3 /\ e[1] = a /\ e[2] = b /\ e[3] = c
  BY <1>2
<1>5. \A i \in 1..Len(e) : i = 1 \/ i = 2 \/ i = 3
  BY <1>4
<1>6. Range(e) = {a, b, c}
  <2>1. DOMAIN e = {1, 2, 3}
    BY <1>2
  <2> QED
    BY <1>4, <2>1 DEF Range
<1>7. ASSUME NEW l \in Level
      PROVE  Live(new, l) = IF l = 0 THEN Live(old, l) \cup {Meta(t)} ELSE Live(old, l)
  <2>1. /\ \A f : f \in Added(e, l) <=> l = 0 /\ f = Meta(t)
        /\ \A n : n \notin Gone(e, l)
    BY <1>1, <1>3, <1>6, AddedGone
  <2>2. Live(e, l) = Added(e, l)
    BY <1>1, <2>1, AddedGone
  <2>3. Live(new, l) = {f \in Live(old, l) : f.num \notin Gone(e, l)} \cup Live(e, l)
    BY <1>1, LiveAppend DEF new
  <2> QED
    BY <2>1, <2>2, <2>3
<1>8. LastNextFileNum(new) = t.num + 1
  <2>1. PICK i : e[i] = b /\ LastOf(e, "SetNextFileNum", i)
    <3>1. PICK x \in 1..Len(e) : e[x] = b /\ \A j \in 1..Len(e) : e[j].op = "SetNextFileNum" => j <= x
      BY <1>3, <1>4, <1>5
    <3> QED
      BY <1>3, <3>1 DEF LastOf
  <2>2. Ops(new, "SetNextFileNum") # {} /\ new[Max(Ops(new, "SetNextFileNum"))] = e[i]
    BY <1>0, <1>1, <2>1, LastAppend
  <2> QED
    BY <1>3, <2>1, <2>2 DEF LastNextFileNum
<1>9. LastSeq(new) = nextSeq
  <2>1. PICK i : e[i] = c /\ LastOf(e, "SetLastSeq", i)
    <3>1. PICK x \in 1..Len(e) : e[x] = c /\ \A j \in 1..Len(e) : e[j].op = "SetLastSeq" => j <= x
      BY <1>3, <1>4, <1>5
    <3> QED
      BY <1>3, <3>1 DEF LastOf
  <2>2. Ops(new, "SetLastSeq") # {} /\ new[Max(Ops(new, "SetLastSeq"))] = e[i]
    BY <1>0, <1>1, <2>1, LastAppend
  <2> QED
    BY <1>3, <2>1, <2>2 DEF LastSeq
<1> QED
  BY <1>1, <1>7, <1>8, <1>9 DEF e, new

\* Sound levels are levels of tables.
LEMMA SoundStored ==
  ASSUME NEW lv, Sound(lv)
  PROVE  Stored(lv)
<1>1. Built \subseteq Stock
  BY BuiltIsStock
<1> QED
  BY <1>1 DEF Sound, Stored

\* What a compaction adds and deletes, and its last edit.
LEMMA JobEditsAre ==
  ASSUME Stored(levels), nextFile \in Nat \ {0}, Overfull(levels) # {}
  PROVE  LET l == JobLevel(levels)
             e == JobEdits
             n == AfterLast(JobOuts, nextFile)
         IN  /\ \A x : Added(e, x) = IF x = l + 1 THEN {Meta(t) : t \in JobOuts} ELSE {}
             /\ \A x : Gone(e, x) = IF x = l THEN {t.num : t \in JobUpper}
                                    ELSE IF x = l + 1 THEN {t.num : t \in JobLower} ELSE {}
             /\ Len(e) \in 1..Len(e) /\ e[Len(e)] = SetNextFileNum(n)
             /\ \A i \in 1..Len(e) : i # Len(e) => e[i].op \in {"AddFile", "DeleteFile"}
<1> DEFINE l == JobLevel(levels)
           k == l + 1
           e == JobEdits
           n == AfterLast(JobOuts, nextFile)
           a == Additions(JobOuts, k)
           b == Deletions(JobUpper, l)
           c == Deletions(JobLower, k)
           d == SetNextFileNum(n)
           f == (a \o b) \o c
<1>1. /\ l \in Level /\ k \in Level /\ l \in Nat /\ e \in Seq(Edit)
      /\ JobUpper \in SUBSET Stock /\ JobLower \in SUBSET Stock /\ JobOuts \in SUBSET Stock
      /\ IsFiniteSet(JobUpper) /\ IsFiniteSet(JobLower) /\ IsFiniteSet(JobOuts)
      /\ JobOuts \in SUBSET Built
  BY JobTypes
<1>2. l # k
  BY <1>1
<1>3. n \in Nat \ {0}
  BY <1>1, AfterLastType
<1>4. d \in Edit /\ d.op = "SetNextFileNum"
  BY <1>3 DEF SetNextFileNum, Edit
<1>5. e = f \o <<d>>
  BY DEF JobEdits, CompactEdits
<1> DEFINE Q == [op : {"AddFile"}, level : {k}, meta : Metas]
                  \cup [op : {"DeleteFile"}, level : {l}, num : Nat]
                  \cup [op : {"DeleteFile"}, level : {k}, num : Nat]
<1> HIDE DEF l, k, n
<1>6. /\ a \in Seq(Q) /\ b \in Seq(Q) /\ c \in Seq(Q)
      /\ Range(a) = {AddFile(k, t) : t \in JobOuts}
      /\ Range(b) = {DeleteFile(l, t.num) : t \in JobUpper}
      /\ Range(c) = {DeleteFile(k, t.num) : t \in JobLower}
  <2>1. /\ a \in Seq([op : {"AddFile"}, level : {k}, meta : Metas])
        /\ b \in Seq([op : {"DeleteFile"}, level : {l}, num : Nat])
        /\ c \in Seq([op : {"DeleteFile"}, level : {k}, num : Nat])
    BY <1>1, EditsOfTables
  <2>2. /\ [op : {"AddFile"}, level : {k}, meta : Metas] \subseteq Q
        /\ [op : {"DeleteFile"}, level : {l}, num : Nat] \subseteq Q
        /\ [op : {"DeleteFile"}, level : {k}, num : Nat] \subseteq Q
    OBVIOUS
  <2> HIDE DEF a, b, c, Q
  <2>6. a \in Seq(Q) /\ b \in Seq(Q) /\ c \in Seq(Q)
    BY <2>1, <2>2, Widen
  <2>3. Range(a) = {AddFile(k, t) : t \in JobOuts}
    BY <1>1, EditsOfTables DEF Range, a
  <2>4. Range(b) = {DeleteFile(l, t.num) : t \in JobUpper}
    BY <1>1, EditsOfTables DEF Range, b
  <2>5. Range(c) = {DeleteFile(k, t.num) : t \in JobLower}
    BY <1>1, EditsOfTables DEF Range, c
  <2> QED
    BY <2>3, <2>4, <2>5, <2>6
<1>7. Q \subseteq Edit
  BY <1>1 DEF Edit
<1>8. \A r \in Q : r.op \in {"AddFile", "DeleteFile"}
  OBVIOUS
<1> HIDE DEF a, b, c, d, e, Q, f
<1>9. f \in Seq(Q) /\ Range(f) = Range(a) \cup Range(b) \cup Range(c)
  <2> DEFINE g == a \o b
  <2>1. Extends(g, a, b) /\ Extends(f, g, c)
    BY DEF Extends, f
  <2> HIDE DEF g
  <2>2. g \in Seq(Q) /\ Range(g) = Range(a) \cup Range(b)
    BY <1>6, <2>1, RangeConcat
  <2>3. f \in Seq(Q) /\ Range(f) = Range(g) \cup Range(c)
    BY <1>6, <2>1, <2>2, RangeConcat
  <2> QED
    BY <2>2, <2>3
<1>10. f \in Seq(Edit) /\ <<d>> \in Seq(Edit) /\ Range(<<d>>) = {d}
  <2>1. f \in Seq(Edit)
    BY <1>7, <1>9, Widen
  <2>2. <<d>> \in Seq(Edit) /\ DOMAIN <<d>> = {1} /\ <<d>>[1] = d
    BY <1>4
  <2> QED
    BY <2>1, <2>2 DEF Range
<1>11. Range(e) = Range(f) \cup {d}
  <2> DEFINE g == <<d>>
  <2>1. g \in Seq(Edit) /\ Range(g) = {d} /\ Extends(e, f, g)
    BY <1>5, <1>10 DEF Extends
  <2> HIDE DEF g
  <2> QED
    BY <1>10, <2>1, RangeConcat
<1>12. \A x, g : g \in Added(e, x) <=> x = k /\ g \in {Meta(t) : t \in JobOuts}
  <2>1. \A x, g : g \in Added(e, x) <=> \E r \in Range(e) : r.op = "AddFile" /\ r.level = x /\ r.meta = g
    BY <1>1, AddedGone DEF e
  <2>2. \A r \in Range(e) : r.op = "AddFile" => r \in Range(a)
    BY <1>4, <1>6, <1>9, <1>11 DEF DeleteFile
  <2>3. \A t : AddFile(k, t).op = "AddFile" /\ AddFile(k, t).level = k /\ AddFile(k, t).meta = Meta(t)
    BY DEF AddFile
  <2>4. \A t \in JobOuts : AddFile(k, t) \in Range(e)
    BY <1>6, <1>9, <1>11
  <2> QED
    BY <1>6, <2>1, <2>2, <2>3, <2>4
<1>13. \A x, y : y \in Gone(e, x) <=> \/ x = l /\ y \in {t.num : t \in JobUpper}
                                      \/ x = k /\ y \in {t.num : t \in JobLower}
  <2>1. \A x, y : y \in Gone(e, x) <=> \E r \in Range(e) : r.op = "DeleteFile" /\ r.level = x /\ r.num = y
    BY <1>1, AddedGone DEF e
  <2>2. \A r \in Range(e) : r.op = "DeleteFile" => r \in Range(b) \/ r \in Range(c)
    BY <1>4, <1>6, <1>9, <1>11 DEF AddFile
  <2>3. \A x, y : DeleteFile(x, y).op = "DeleteFile" /\ DeleteFile(x, y).level = x /\ DeleteFile(x, y).num = y
    BY DEF DeleteFile
  <2>4. /\ \A t \in JobUpper : DeleteFile(l, t.num) \in Range(e)
        /\ \A t \in JobLower : DeleteFile(k, t.num) \in Range(e)
    BY <1>6, <1>9, <1>11
  <2>5. ASSUME NEW x, NEW y, y \in Gone(e, x)
        PROVE  \/ x = l /\ y \in {t.num : t \in JobUpper}
               \/ x = k /\ y \in {t.num : t \in JobLower}
    <3>1. PICK r \in Range(e) : r.op = "DeleteFile" /\ r.level = x /\ r.num = y
      BY <2>1, <2>5
    <3>2. CASE r \in Range(b)
      BY <1>6, <2>3, <3>1, <3>2
    <3>3. CASE r \in Range(c)
      BY <1>6, <2>3, <3>1, <3>3
    <3> QED
      BY <2>2, <3>1, <3>2, <3>3
  <2>6. \A t \in JobUpper : t.num \in Gone(e, l)
    BY <2>1, <2>3, <2>4
  <2>7. \A t \in JobLower : t.num \in Gone(e, k)
    BY <2>1, <2>3, <2>4
  <2> QED
    BY <2>5, <2>6, <2>7
<1>14. /\ Len(e) \in 1..Len(e) /\ e[Len(e)] = d
       /\ \A i \in 1..Len(e) : i # Len(e) => e[i].op \in {"AddFile", "DeleteFile"}
  <2>1. Len(f) \in Nat /\ \A i \in 1..Len(f) : f[i] \in Q
    BY <1>9
  <2>2. Len(<<d>>) = 1 /\ <<d>>[1] = d
    OBVIOUS
  <2>3. /\ Len(e) = Len(f) + 1 /\ e[Len(f) + 1] = d
        /\ \A i \in 1..Len(f) : e[i] = f[i]
    BY <1>5, <1>10, <2>2, Concat
  <2> QED
    BY <1>8, <2>1, <2>3
<1>15. \A x : Added(e, x) = IF x = k THEN {Meta(t) : t \in JobOuts} ELSE {}
  BY <1>12
<1>16. \A x : Gone(e, x) = IF x = l THEN {t.num : t \in JobUpper}
                           ELSE IF x = k THEN {t.num : t \in JobLower} ELSE {}
  BY <1>2, <1>13
<1> QED
  BY <1>14, <1>15, <1>16 DEF l, k, e, n, d

-----------------------------------------------------------------------------
(* The files.                                                              *)

\* Table t is in its file.
Filed(t, files) == t.num \in DOMAIN files /\ files[t.num] = t.recs
FilesIn(lv, files) == \A l \in Level : \A t \in lv[l] : Filed(t, files)

\* The edits list the tables of lv, level by level, and each is in its file.
Lists(edits, files, lv) ==
  FilesIn(lv, files) /\ \A l \in Level : Live(edits, l) = {Meta(t) : t \in lv[l]}

\* Opening the descriptions of tables that are on disk gives the tables.
LEMMA MetasOpened ==
  ASSUME NEW T \in SUBSET Stock, NEW files, \A t \in T : Filed(t, files)
  PROVE  Opened({Meta(t) : t \in T}, files) = T
<1> DEFINE O(m) == [num |-> m.num, lo |-> m.lo, hi |-> m.hi, recs |-> files[m.num]]
<1>1. \A t \in T : O(Meta(t)) = t /\ Meta(t).num \in DOMAIN files
  <2> SUFFICES ASSUME NEW t \in T PROVE O(Meta(t)) = t /\ Meta(t).num \in DOMAIN files
    OBVIOUS
  <2>1. Meta(t).num = t.num /\ Meta(t).lo = t.lo /\ Meta(t).hi = t.hi
    BY DEF Meta
  <2>2. t = [num |-> t.num, lo |-> t.lo, hi |-> t.hi, recs |-> t.recs]
    BY DEF Stock, Table
  <2>3. Filed(t, files)
    OBVIOUS
  <2> QED
    BY <2>1, <2>2, <2>3 DEF Filed
<1>2. Opened({Meta(t) : t \in T}, files) = {O(m) : m \in {x \in {Meta(t) : t \in T} : x.num \in DOMAIN files}}
  BY DEF Opened
<1> HIDE DEF O
<1>3. {x \in {Meta(t) : t \in T} : x.num \in DOMAIN files} = {Meta(t) : t \in T}
  BY <1>1
<1>4. {O(m) : m \in {Meta(t) : t \in T}} = {O(Meta(t)) : t \in T}
  OBVIOUS
<1>5. {O(Meta(t)) : t \in T} = T
  BY <1>1
<1> QED
  BY <1>2, <1>3, <1>4, <1>5

\* Recovery opens what the edits list.
LEMMA ListsVersion ==
  ASSUME NEW edits, NEW files, NEW lv \in [Level -> SUBSET Stock], Lists(edits, files, lv)
  PROVE  Version(edits, files) = lv
<1>1. \A l \in Level : Opened(Live(edits, l), files) = lv[l]
  <2> SUFFICES ASSUME NEW l \in Level PROVE Opened(Live(edits, l), files) = lv[l]
    OBVIOUS
  <2>1. Live(edits, l) = {Meta(t) : t \in lv[l]} /\ lv[l] \in SUBSET Stock
    BY DEF Lists
  <2>2. \A t \in lv[l] : Filed(t, files)
    BY DEF Lists, FilesIn
  <2> QED
    BY <2>1, <2>2, MetasOpened
<1> QED
  BY <1>1 DEF Version

\* A manifest lists the same levels as long as their files stay.
LEMMA ListsKept ==
  ASSUME NEW edits, NEW f, NEW g, NEW lv, Lists(edits, f, lv),
         \A l \in Level : \A t \in lv[l] : t.num \in DOMAIN g /\ g[t.num] = f[t.num]
  PROVE  Lists(edits, g, lv)
BY DEF Lists, FilesIn, Filed

\* The edits of a flush list its table in level 0.
LEMMA FlushListed ==
  ASSUME NEW old \in Seq(Edit), NEW files, NEW lv, Sound(lv), Lists(old, files, lv),
         NEW t \in Built, Filed(t, files), nextSeq \in 0..MaxSeq
  PROVE  Lists(old \o FlushEdits(t), files, [lv EXCEPT ![0] = @ \cup {t}])
<1> DEFINE w == [lv EXCEPT ![0] = @ \cup {t}]
           new == old \o FlushEdits(t)
<1>1. \A l \in Level : w[l] = IF l = 0 THEN lv[l] \cup {t} ELSE lv[l]
  BY DEF Sound
<1>2. \A l \in Level : Live(new, l) = IF l = 0 THEN Live(old, l) \cup {Meta(t)} ELSE Live(old, l)
  BY FlushLogged
<1> HIDE DEF w, new
<1>3. \A l \in Level : Live(new, l) = {Meta(u) : u \in w[l]}
  BY <1>1, <1>2 DEF Lists
<1>4. FilesIn(w, files)
  BY <1>1 DEF Lists, FilesIn
<1> QED
  BY <1>3, <1>4 DEF Lists, w, new

\* The compaction, in terms of the plan's tables.
LEMMA JobParts ==
  ASSUME Sound(levels), nextFile \in Nat \ {0}, Overfull(levels) # {}
  PROVE  LET l == JobLevel(levels)
             c == MaybeCompact(levels, nextFile, MaxSeq)
         IN  /\ l \in Level /\ l + 1 \in Level /\ l \in Nat
             /\ JobUpper \subseteq levels[l] /\ JobLower \subseteq levels[l + 1]
             /\ c.levels[l] = levels[l] \ JobUpper
             /\ c.levels[l + 1] = (levels[l + 1] \ JobLower) \cup JobOuts
             /\ \A x \in Level \ {l, l + 1} : c.levels[x] = levels[x]
             /\ c.nextFile = AfterLast(JobOuts, nextFile)
             /\ JobOuts \subseteq Built /\ \A t \in JobOuts : t.num >= nextFile
<1> DEFINE l == JobLevel(levels)
<1>1. Merged(levels) = Recs(JobUpper \cup JobLower)
  BY DEF Merged, JobUpper, JobLower
<1>2. JobOuts = Outputs(Survivors(Merged(levels), l + 1, MaxSeq), nextFile)
  BY <1>1 DEF JobOuts
<1>3. /\ Survivors(Merged(levels), l + 1, MaxSeq) \in SUBSET Record
      /\ IsFiniteSet(Survivors(Merged(levels), l + 1, MaxSeq))
  BY CompactParts
<1>4. \A t \in JobOuts : t \in Built /\ t.num >= nextFile
  BY <1>2, <1>3, OutputsBuilt
<1> QED
  BY <1>2, <1>4, CompactParts DEF JobUpper, JobLower

\* The inputs of a compaction go, by their numbers, and its outputs come.
LEMMA JobKept ==
  ASSUME Sound(levels), nextFile \in Nat \ {0}, Numbered(levels, nextFile), Overfull(levels) # {},
         NEW x \in Level
  PROVE  LET c == MaybeCompact(levels, nextFile, MaxSeq)
             m == {Meta(t) : t \in levels[x]}
         IN  /\ {f \in m : f.num \notin Gone(JobEdits, x)} \cup Added(JobEdits, x) = {Meta(t) : t \in c.levels[x]}
             /\ \A f \in Added(JobEdits, x) : f.num \notin Gone(JobEdits, x)
<1> DEFINE l == JobLevel(levels)
           k == l + 1
           c == MaybeCompact(levels, nextFile, MaxSeq)
           m == {Meta(t) : t \in levels[x]}
           K == {f \in m : f.num \notin Gone(JobEdits, x)}
           A == Added(JobEdits, x)
<1>1. Stored(levels)
  BY SoundStored
<1>2. /\ \A y : Added(JobEdits, y) = IF y = k THEN {Meta(t) : t \in JobOuts} ELSE {}
      /\ \A y : Gone(JobEdits, y) = IF y = l THEN {t.num : t \in JobUpper}
                                    ELSE IF y = k THEN {t.num : t \in JobLower} ELSE {}
  BY <1>1, JobEditsAre
<1>3. /\ l \in Level /\ k \in Level /\ l \in Nat
      /\ JobUpper \subseteq levels[l] /\ JobLower \subseteq levels[k]
      /\ c.levels[l] = levels[l] \ JobUpper
      /\ c.levels[k] = (levels[k] \ JobLower) \cup JobOuts
      /\ \A y \in Level \ {l, k} : c.levels[y] = levels[y]
  BY JobParts
<1>4. \A t \in JobOuts : t.num >= nextFile /\ t.num \in Nat
  BY JobParts DEF Built, Table
<1>5. \A y \in Level : \A t \in levels[y] : t.num \in Nat /\ t.num < nextFile
  BY DEF Numbered, Sound, Built, Table
<1>6. \A y \in Level : \A t, u \in levels[y] : t.num = u.num => t = u
  BY DEF Numbered
<1>7. \A t : Meta(t).num = t.num
  BY DEF Meta
<1>8. l # k
  BY <1>3
<1> HIDE DEF l, k
<1>9. \A f : f \in K <=> \E t \in levels[x] : f = Meta(t) /\ t.num \notin Gone(JobEdits, x)
  BY <1>7
<1> HIDE DEF K
<1>10. CASE x = l
  <2>1. A = {} /\ Gone(JobEdits, x) = {t.num : t \in JobUpper}
    BY <1>2, <1>8, <1>10
  <2>2. \A t \in levels[x] : t.num \notin Gone(JobEdits, x) <=> t \notin JobUpper
    BY <1>3, <1>6, <1>10, <2>1
  <2>3. \A f : f \in K <=> \E t \in c.levels[x] : f = Meta(t)
    BY <1>3, <1>9, <1>10, <2>2
  <2> HIDE DEF c
  <2>4. K = {Meta(t) : t \in c.levels[x]}
    BY <2>3
  <2> QED
    BY <2>1, <2>4 DEF K, c
<1>11. CASE x = k
  <2>1. A = {Meta(t) : t \in JobOuts} /\ Gone(JobEdits, x) = {t.num : t \in JobLower}
    BY <1>2, <1>8, <1>11
  <2>2. \A t \in levels[x] : t.num \notin Gone(JobEdits, x) <=> t \notin JobLower
    BY <1>3, <1>6, <1>11, <2>1
  <2> HIDE DEF c
  <2>3. \A f : f \in K \cup A <=> \E t \in c.levels[x] : f = Meta(t)
    BY <1>3, <1>9, <1>11, <2>1, <2>2
  <2>4. K \cup A = {Meta(t) : t \in c.levels[x]}
    BY <2>3
  <2>5. \A f \in A : f.num \notin Gone(JobEdits, x)
    <3> SUFFICES ASSUME NEW t \in JobOuts, NEW u \in JobLower PROVE t.num # u.num
      BY <1>7, <2>1
    <3> QED
      BY <1>3, <1>4, <1>5
  <2> QED
    BY <2>4, <2>5 DEF K, c
<1>12. CASE x # l /\ x # k
  <2>1. A = {} /\ Gone(JobEdits, x) = {}
    BY <1>2, <1>12
  <2> HIDE DEF c
  <2>2. \A f : f \in K <=> \E t \in c.levels[x] : f = Meta(t)
    BY <1>3, <1>9, <1>12, <2>1
  <2>3. K = {Meta(t) : t \in c.levels[x]}
    BY <2>2
  <2> QED
    BY <2>1, <2>3 DEF K, c
<1> QED
  BY <1>10, <1>11, <1>12

\* The MANIFEST with the edits of a compaction.
LEMMA JobListed ==
  ASSUME Sound(levels), nextFile \in Nat \ {0}, Numbered(levels, nextFile), Overfull(levels) # {},
         NEW old \in Seq(Edit), NEW files, Lists(old, files, levels),
         \A t \in JobOuts : Filed(t, files)
  PROVE  LET c   == MaybeCompact(levels, nextFile, MaxSeq)
             new == old \o JobEdits
         IN  /\ new \in Seq(Edit) /\ Lists(new, files, c.levels)
             /\ LastNextFileNum(new) = c.nextFile /\ LastSeq(new) = LastSeq(old)
<1> DEFINE c == MaybeCompact(levels, nextFile, MaxSeq)
           e == JobEdits
           new == old \o e
           l == JobLevel(levels)
<1>1. Stored(levels)
  BY SoundStored
<1>2. e \in Seq(Edit)
  BY <1>1, JobTypes
<1>3. new \in Seq(Edit)
  BY <1>2, Concat
<1>4. /\ Len(e) \in 1..Len(e) /\ e[Len(e)] = SetNextFileNum(AfterLast(JobOuts, nextFile))
      /\ \A i \in 1..Len(e) : i # Len(e) => e[i].op \in {"AddFile", "DeleteFile"}
  BY <1>1, JobEditsAre
<1>5. c.nextFile = AfterLast(JobOuts, nextFile)
  BY JobParts
<1>6. ASSUME NEW x \in Level
      PROVE  Live(new, x) = {Meta(t) : t \in c.levels[x]}
  <2>1. /\ {f \in {Meta(t) : t \in levels[x]} : f.num \notin Gone(e, x)} \cup Added(e, x) = {Meta(t) : t \in c.levels[x]}
        /\ \A f \in Added(e, x) : f.num \notin Gone(e, x)
    BY JobKept
  <2>2. Live(old, x) = {Meta(t) : t \in levels[x]}
    BY DEF Lists
  <2>3. Live(e, x) = Added(e, x)
    BY <1>2, <2>1, AddedGone
  <2> HIDE DEF c, e
  <2>4. Live(new, x) = {f \in Live(old, x) : f.num \notin Gone(e, x)} \cup Live(e, x)
    BY <1>2, LiveAppend
  <2> QED
    BY <2>1, <2>2, <2>3, <2>4
<1>7. FilesIn(c.levels, files)
  <2>1. \A x \in Level : \A t \in c.levels[x] : t \in levels[x] \/ t \in JobOuts
    <3>1. /\ l \in Level /\ l + 1 \in Level
          /\ c.levels[l] = levels[l] \ JobUpper
          /\ c.levels[l + 1] = (levels[l + 1] \ JobLower) \cup JobOuts
          /\ \A y \in Level \ {l, l + 1} : c.levels[y] = levels[y]
      BY JobParts
    <3> HIDE DEF c, l
    <3> QED
      BY <3>1
  <2> HIDE DEF c
  <2> QED
    BY <2>1 DEF FilesIn, Lists
<1>8. LastNextFileNum(new) = c.nextFile
  <2>1. e[Len(e)].op = "SetNextFileNum" /\ e[Len(e)].n = c.nextFile
    BY <1>4, <1>5 DEF SetNextFileNum
  <2> HIDE DEF c, e
  <2> QED
    BY <1>2, <1>4, <2>1, NumberAppend
<1>9. LastSeq(new) = LastSeq(old)
  <2>1. e[Len(e)].op = "SetNextFileNum"
    BY <1>4 DEF SetNextFileNum
  <2> HIDE DEF c, e
  <2>2. \A i \in 1..Len(e) : e[i].op # "SetLastSeq"
    BY <1>4, <2>1
  <2>3. /\ Ops(new, "SetLastSeq") = Ops(old, "SetLastSeq")
        /\ Ops(old, "SetLastSeq") # {} => new[Max(Ops(old, "SetLastSeq"))] = old[Max(Ops(old, "SetLastSeq"))]
    BY <1>2, <2>2, NoneAppend
  <2> QED
    BY <2>3 DEF LastSeq
<1> HIDE DEF c, e
<1>10. Lists(new, files, c.levels)
  BY <1>6, <1>7 DEF Lists
<1> QED
  BY <1>3, <1>8, <1>9, <1>10 DEF c, e

\* The version is rebuilt from the same edits.
LEMMA JobInstalled ==
  ASSUME Sound(levels), nextFile \in Nat \ {0}, Numbered(levels, nextFile), Overfull(levels) # {},
         FilesIn(levels, sst), \A t \in JobOuts : Filed(t, sst),
         InstallCompaction, Head(todo).edits = JobEdits
  PROVE  LET c == MaybeCompact(levels, nextFile, MaxSeq)
         IN  levels' = c.levels /\ nextFile' = c.nextFile
<1> DEFINE c == MaybeCompact(levels, nextFile, MaxSeq)
           e == JobEdits
           l == JobLevel(levels)
           kept(x) == {m \in {Meta(t) : t \in levels[x]} \cup Added(e, x) : m.num \notin Gone(e, x)}
<1>1. levels' = [x \in Level |-> Opened(kept(x), sst)] /\ nextFile' = LastNextFileNum(e)
  BY DEF InstallCompaction, Added, Gone
<1>2. Stored(levels)
  BY SoundStored
<1>3. e \in Seq(Edit)
  BY <1>2, JobTypes
<1>4. /\ c.nextFile = AfterLast(JobOuts, nextFile) /\ JobOuts \subseteq Built
      /\ l \in Level /\ l + 1 \in Level
      /\ c.levels[l] = levels[l] \ JobUpper
      /\ c.levels[l + 1] = (levels[l + 1] \ JobLower) \cup JobOuts
      /\ \A y \in Level \ {l, l + 1} : c.levels[y] = levels[y]
  BY JobParts
<1>5. /\ Len(e) \in 1..Len(e) /\ e[Len(e)] = SetNextFileNum(AfterLast(JobOuts, nextFile))
      /\ \A i \in 1..Len(e) : i # Len(e) => e[i].op \in {"AddFile", "DeleteFile"}
  BY <1>2, JobEditsAre
<1>6. Sound(c.levels)
  BY CompactResult
<1>7. \A x \in Level : kept(x) = {Meta(t) : t \in c.levels[x]}
  <2> SUFFICES ASSUME NEW x \in Level PROVE kept(x) = {Meta(t) : t \in c.levels[x]}
    OBVIOUS
  <2>1. /\ {f \in {Meta(t) : t \in levels[x]} : f.num \notin Gone(e, x)} \cup Added(e, x) = {Meta(t) : t \in c.levels[x]}
        /\ \A f \in Added(e, x) : f.num \notin Gone(e, x)
    BY JobKept
  <2> HIDE DEF c, e
  <2> QED
    BY <2>1
<1> HIDE DEF c, l, kept
<1>8. \A x \in Level : \A t \in c.levels[x] : Filed(t, sst)
  BY <1>4 DEF FilesIn
<1>9. c.levels \in [Level -> SUBSET Stock]
  BY <1>6, SoundStored DEF Stored
<1>10. \A x \in Level : Opened({Meta(t) : t \in c.levels[x]}, sst) = c.levels[x]
  BY <1>8, <1>9, MetasOpened
<1>11. [x \in Level |-> Opened(kept(x), sst)] = c.levels
  BY <1>7, <1>9, <1>10
<1>12. LastNextFileNum(e) = c.nextFile
  <2>1. e[Len(e)].op = "SetNextFileNum" /\ e[Len(e)].n = c.nextFile
    BY <1>4, <1>5 DEF SetNextFileNum
  <2> HIDE DEF e
  <2> QED
    BY <1>3, <1>5, <2>1, NumberAppend
<1> QED
  BY <1>1, <1>11, <1>12 DEF c

=============================================================================
