----------------------------- MODULE LogProofs -----------------------------
(***************************************************************************)
(* Theorems about the bytes of the log and of the MANIFEST, for any keys,  *)
(* values, numbers, checksum and number of appends: what recovery makes of *)
(* a file whose records were cut short anywhere.                           *)
(***************************************************************************)
EXTENDS LogFile, FiniteSetTheorems, SequenceTheorems, TLAPS

-----------------------------------------------------------------------------
(* Payloads.                                                               *)

\* Sequences with the same elements are the same.
LEMMA SameElements ==
  ASSUME NEW s \in Seq(Nat), NEW t \in Seq(Nat),
         Len(s) = Len(t), \A i \in 1..Len(s) : s[i] = t[i]
  PROVE  s = t
  OBVIOUS

\* A slice of a sequence is the sequence whose elements it has.
LEMMA SliceIs ==
  ASSUME NEW p \in Seq(Nat), NEW s \in Seq(Nat), NEW at \in Nat \ {0}, NEW n \in Nat,
         n = Len(s), at + n - 1 <= Len(p),
         \A i \in at..(at + n - 1) : p[i] = s[i - at + 1]
  PROVE  Slice(p, at, n) = s
<1> DEFINE q == SubSeq(p, at, at + n - 1)
<1>1. q \in Seq(Nat) /\ Len(q) = n
  OBVIOUS
<1>2. ASSUME NEW i \in 1..n PROVE q[i] = s[i]
  <2>1. q[i] = p[at + i - 1]
    OBVIOUS
  <2>2. at + i - 1 \in at..(at + n - 1) /\ at + i - 1 - at + 1 = i
    OBVIOUS
  <2> QED
    BY <2>1, <2>2
<1> HIDE DEF q
<1>3. q = s
  BY <1>1, <1>2, SameElements
<1> QED
  BY <1>3 DEF Slice, q

\* Where the parts of a concatenation are.
LEMMA Parts ==
  ASSUME NEW s \in Seq(Nat), NEW t \in Seq(Nat)
  PROVE  /\ s \o t \in Seq(Nat)
         /\ Len(s \o t) = Len(s) + Len(t)
         /\ \A i \in 1..Len(s) : (s \o t)[i] = s[i]
         /\ \A i \in (Len(s) + 1)..(Len(s) + Len(t)) : (s \o t)[i] = t[i - Len(s)]
<1>1. s \o t \in Seq(Nat)
  OBVIOUS
<1>2. Len(s \o t) = Len(s) + Len(t)
  OBVIOUS
<1>3. \A i \in 1..Len(s) : (s \o t)[i] = s[i]
  OBVIOUS
<1>4. \A i \in (Len(s) + 1)..(Len(s) + Len(t)) : (s \o t)[i] = t[i - Len(s)]
  OBVIOUS
<1> QED
  BY <1>1, <1>2, <1>3, <1>4

\* The cells of a write and of an edit that adds a file, and where their parts are.
WriteCells(a, b, s, c, d, e, t) == <<a, b>> \o s \o <<c, d, e>> \o t
AddFileCells(a, b, c, d, s, e, t, f) == <<a, b, c, d>> \o s \o <<e>> \o t \o <<f>>

WriteIsAt(p, a, b, s, c, d, e, t) ==
  /\ p \in Seq(Nat)
  /\ Len(p) = 5 + Len(s) + Len(t)
  /\ p[1] = a /\ p[2] = b
  /\ p[3 + Len(s)] = c /\ p[4 + Len(s)] = d /\ p[5 + Len(s)] = e
  /\ Slice(p, 3, Len(s)) = s
  /\ Slice(p, 6 + Len(s), Len(t)) = t
AddFileIsAt(p, a, b, c, d, s, e, t, f) ==
  /\ p \in Seq(Nat)
  /\ Len(p) = 6 + Len(s) + Len(t)
  /\ p[1] = a /\ p[2] = b /\ p[3] = c /\ p[4] = d
  /\ p[5 + Len(s)] = e /\ p[6 + Len(s) + Len(t)] = f
  /\ Slice(p, 5, Len(s)) = s
  /\ Slice(p, 6 + Len(s), Len(t)) = t

\* The parts of an encoded write.
LEMMA PartsOfWrite ==
  ASSUME NEW s \in Seq(Nat), NEW t \in Seq(Nat),
         NEW a \in Nat, NEW b \in Nat, NEW c \in Nat, NEW d \in Nat, NEW e \in Nat
  PROVE  WriteIsAt(WriteCells(a, b, s, c, d, e, t), a, b, s, c, d, e, t)
<1> DEFINE m == Len(s)
           n == Len(t)
           h == <<a, b>>
           q == h \o s
           g == <<c, d, e>>
           r == q \o g
           p == r \o t
<1>0. m \in Nat /\ n \in Nat /\ Len(s) = m /\ Len(t) = n
  OBVIOUS
<1> HIDE DEF m, n
<1>1. h \in Seq(Nat) /\ Len(h) = 2 /\ h[1] = a /\ h[2] = b
  OBVIOUS
<1>2. g \in Seq(Nat) /\ Len(g) = 3 /\ g[1] = c /\ g[2] = d /\ g[3] = e
  OBVIOUS
<1> HIDE DEF h, g
<1>3. /\ q \in Seq(Nat) /\ Len(q) = 2 + m
      /\ \A i \in 1..(2) : q[i] = h[i]
      /\ \A i \in (2 + 1)..(2 + m) : q[i] = s[i - (2)]
  <2>1. h \in Seq(Nat) /\ Len(h) = 2 /\ s \in Seq(Nat) /\ Len(s) = m
    BY <1>0, <1>1
  <2>2. /\ q \in Seq(Nat) /\ Len(q) = Len(h) + Len(s)
        /\ \A i \in 1..Len(h) : q[i] = h[i]
        /\ \A i \in (Len(h) + 1)..(Len(h) + Len(s)) : q[i] = s[i - Len(h)]
    BY <2>1, <1>0, Parts
  <2> HIDE DEF q
  <2> QED
    BY <1>0, <2>1, <2>2
<1> HIDE DEF q
<1>4. /\ r \in Seq(Nat) /\ Len(r) = 5 + m
      /\ \A i \in 1..(2 + m) : r[i] = q[i]
      /\ \A i \in (2 + m + 1)..(2 + m + 3) : r[i] = g[i - (2 + m)]
  <2>1. q \in Seq(Nat) /\ Len(q) = 2 + m /\ g \in Seq(Nat) /\ Len(g) = 3
    BY <1>0, <1>2, <1>3
  <2>2. /\ r \in Seq(Nat) /\ Len(r) = Len(q) + Len(g)
        /\ \A i \in 1..Len(q) : r[i] = q[i]
        /\ \A i \in (Len(q) + 1)..(Len(q) + Len(g)) : r[i] = g[i - Len(q)]
    BY <2>1, <1>0, Parts
  <2> HIDE DEF r
  <2> QED
    BY <1>0, <2>1, <2>2
<1> HIDE DEF r
<1>5. /\ p \in Seq(Nat) /\ Len(p) = 5 + m + n
      /\ \A i \in 1..(5 + m) : p[i] = r[i]
      /\ \A i \in (5 + m + 1)..(5 + m + n) : p[i] = t[i - (5 + m)]
  <2>1. r \in Seq(Nat) /\ Len(r) = 5 + m /\ t \in Seq(Nat) /\ Len(t) = n
    BY <1>0, <1>4
  <2>2. /\ p \in Seq(Nat) /\ Len(p) = Len(r) + Len(t)
        /\ \A i \in 1..Len(r) : p[i] = r[i]
        /\ \A i \in (Len(r) + 1)..(Len(r) + Len(t)) : p[i] = t[i - Len(r)]
    BY <2>1, <1>0, Parts
  <2> HIDE DEF p
  <2> QED
    BY <1>0, <2>1, <2>2
<1> HIDE DEF p
<1>6. p \in Seq(Nat) /\ Len(p) = 5 + m + n
  BY <1>0, <1>5
<1>7. p[1] = a /\ p[2] = b
  BY <1>0, <1>1, <1>3, <1>4, <1>5
<1>8. p[3 + m] = c /\ p[4 + m] = d /\ p[5 + m] = e
  <2>1. ASSUME NEW j \in 1..3, NEW i \in Int, i = 2 + m + j PROVE p[i] = g[j]
    <3>1. i \in 1..(5 + m) /\ i \in (2 + m + 1)..(2 + m + 3) /\ i - (2 + m) = j
      BY <1>0, <2>1
    <3> QED
      BY <1>0, <1>4, <1>5, <3>1
  <2> DEFINE x == 3 + m
             y == 4 + m
             z == 5 + m
  <2>2. x \in Int /\ y \in Int /\ z \in Int /\ x = 2 + m + 1 /\ y = 2 + m + 2 /\ z = 2 + m + 3
    BY <1>0
  <2> HIDE DEF x, y, z
  <2>3. p[x] = g[1] /\ p[y] = g[2] /\ p[z] = g[3]
    BY <1>0, <2>1, <2>2
  <2> QED
    BY <1>0, <1>2, <2>3 DEF x, y, z
<1>9. ASSUME NEW i \in 3..(3 + m - 1) PROVE p[i] = s[i - 3 + 1]
  BY <1>0, <1>3, <1>4, <1>5
<1>10. ASSUME NEW i \in (6 + m)..(6 + m + n - 1) PROVE p[i] = t[i - (6 + m) + 1]
  BY <1>0, <1>5
<1>11. Slice(p, 3, m) = s
  <2> DEFINE at == 3
  <2>1. at \in Nat \ {0} /\ at + m - 1 <= Len(p)
    BY <1>0, <1>6
  <2>2. \A i \in at..(at + m - 1) : p[i] = s[i - at + 1]
    BY <1>0, <1>9
  <2> HIDE DEF at
  <2>3. Slice(p, at, m) = s
    BY <1>0, <1>6, <2>1, <2>2, SliceIs
  <2> QED
    BY <1>0, <2>3 DEF at
<1>12. Slice(p, 6 + m, n) = t
  <2> DEFINE at == 6 + m
  <2>1. at \in Nat \ {0} /\ at + n - 1 <= Len(p)
    BY <1>0, <1>6
  <2>2. \A i \in at..(at + n - 1) : p[i] = t[i - at + 1]
    BY <1>0, <1>10
  <2> HIDE DEF at
  <2>3. Slice(p, at, n) = t
    BY <1>0, <1>6, <2>1, <2>2, SliceIs
  <2> QED
    BY <1>0, <2>3 DEF at
<1> QED
  BY <1>0, <1>6, <1>7, <1>8, <1>11, <1>12 DEF WriteIsAt, WriteCells, m, n, p, r, q, h, g

\* The parts of an encoded AddFile.
LEMMA PartsOfAddFile ==
  ASSUME NEW s \in Seq(Nat), NEW t \in Seq(Nat),
         NEW a \in Nat, NEW b \in Nat, NEW c \in Nat, NEW d \in Nat, NEW e \in Nat, NEW f \in Nat
  PROVE  AddFileIsAt(AddFileCells(a, b, c, d, s, e, t, f), a, b, c, d, s, e, t, f)
<1> DEFINE m == Len(s)
           n == Len(t)
           h == <<a, b, c, d>>
           q == h \o s
           g == <<e>>
           r == q \o g
           u == r \o t
           l == <<f>>
           p == u \o l
<1>0. m \in Nat /\ n \in Nat /\ Len(s) = m /\ Len(t) = n
  OBVIOUS
<1> HIDE DEF m, n
<1>1. h \in Seq(Nat) /\ Len(h) = 4 /\ h[1] = a /\ h[2] = b /\ h[3] = c /\ h[4] = d
  OBVIOUS
<1>2. /\ g \in Seq(Nat) /\ Len(g) = 1 /\ g[1] = e
      /\ l \in Seq(Nat) /\ Len(l) = 1 /\ l[1] = f
  OBVIOUS
<1> HIDE DEF h, g, l
<1>3. /\ q \in Seq(Nat) /\ Len(q) = 4 + m
      /\ \A i \in 1..(4) : q[i] = h[i]
      /\ \A i \in (4 + 1)..(4 + m) : q[i] = s[i - (4)]
  <2>1. h \in Seq(Nat) /\ Len(h) = 4 /\ s \in Seq(Nat) /\ Len(s) = m
    BY <1>0, <1>1
  <2>2. /\ q \in Seq(Nat) /\ Len(q) = Len(h) + Len(s)
        /\ \A i \in 1..Len(h) : q[i] = h[i]
        /\ \A i \in (Len(h) + 1)..(Len(h) + Len(s)) : q[i] = s[i - Len(h)]
    BY <2>1, <1>0, Parts
  <2> HIDE DEF q
  <2> QED
    BY <1>0, <2>1, <2>2
<1> HIDE DEF q
<1>4. /\ r \in Seq(Nat) /\ Len(r) = 5 + m
      /\ \A i \in 1..(4 + m) : r[i] = q[i]
      /\ \A i \in (4 + m + 1)..(4 + m + 1) : r[i] = g[i - (4 + m)]
  <2>1. q \in Seq(Nat) /\ Len(q) = 4 + m /\ g \in Seq(Nat) /\ Len(g) = 1
    BY <1>0, <1>2, <1>3
  <2>2. /\ r \in Seq(Nat) /\ Len(r) = Len(q) + Len(g)
        /\ \A i \in 1..Len(q) : r[i] = q[i]
        /\ \A i \in (Len(q) + 1)..(Len(q) + Len(g)) : r[i] = g[i - Len(q)]
    BY <2>1, <1>0, Parts
  <2> HIDE DEF r
  <2> QED
    BY <1>0, <2>1, <2>2
<1> HIDE DEF r
<1>5. /\ u \in Seq(Nat) /\ Len(u) = 5 + m + n
      /\ \A i \in 1..(5 + m) : u[i] = r[i]
      /\ \A i \in (5 + m + 1)..(5 + m + n) : u[i] = t[i - (5 + m)]
  <2>1. r \in Seq(Nat) /\ Len(r) = 5 + m /\ t \in Seq(Nat) /\ Len(t) = n
    BY <1>0, <1>4
  <2>2. /\ u \in Seq(Nat) /\ Len(u) = Len(r) + Len(t)
        /\ \A i \in 1..Len(r) : u[i] = r[i]
        /\ \A i \in (Len(r) + 1)..(Len(r) + Len(t)) : u[i] = t[i - Len(r)]
    BY <2>1, <1>0, Parts
  <2> HIDE DEF u
  <2> QED
    BY <1>0, <2>1, <2>2
<1> HIDE DEF u
<1>6. /\ p \in Seq(Nat) /\ Len(p) = 6 + m + n
      /\ \A i \in 1..(5 + m + n) : p[i] = u[i]
      /\ \A i \in (5 + m + n + 1)..(5 + m + n + 1) : p[i] = l[i - (5 + m + n)]
  <2>1. u \in Seq(Nat) /\ Len(u) = 5 + m + n /\ l \in Seq(Nat) /\ Len(l) = 1
    BY <1>0, <1>2, <1>5
  <2>2. /\ p \in Seq(Nat) /\ Len(p) = Len(u) + Len(l)
        /\ \A i \in 1..Len(u) : p[i] = u[i]
        /\ \A i \in (Len(u) + 1)..(Len(u) + Len(l)) : p[i] = l[i - Len(u)]
    BY <2>1, <1>0, Parts
  <2> HIDE DEF p
  <2> QED
    BY <1>0, <2>1, <2>2
<1> HIDE DEF p
<1>7. p \in Seq(Nat) /\ Len(p) = 6 + m + n
  BY <1>0, <1>6
<1>8. p[1] = a /\ p[2] = b /\ p[3] = c /\ p[4] = d
  BY <1>0, <1>1, <1>3, <1>4, <1>5, <1>6
<1>9. p[5 + m] = e /\ p[6 + m + n] = f
  <2>1. ASSUME NEW i \in Int, i = 5 + m PROVE p[i] = g[1]
    <3>1. /\ i \in 1..(5 + m + n) /\ i \in 1..(5 + m) /\ i \in (4 + m + 1)..(4 + m + 1)
          /\ i - (4 + m) = 1
      BY <1>0, <2>1
    <3>2. p[i] = u[i] /\ u[i] = r[i]
      BY <1>5, <1>6, <3>1
    <3>3. r[i] = g[i - (4 + m)]
      BY <1>4, <3>1
    <3> QED
      BY <3>1, <3>2, <3>3
  <2>2. ASSUME NEW i \in Int, i = 6 + m + n PROVE p[i] = l[1]
    <3>1. i \in (5 + m + n + 1)..(5 + m + n + 1) /\ i - (5 + m + n) = 1
      BY <1>0, <2>2
    <3> QED
      BY <1>0, <1>6, <3>1
  <2> QED
    BY <1>0, <1>2, <2>1, <2>2
<1>10. ASSUME NEW i \in 5..(5 + m - 1) PROVE p[i] = s[i - 5 + 1]
  BY <1>0, <1>3, <1>4, <1>5, <1>6
<1>11. ASSUME NEW i \in (6 + m)..(6 + m + n - 1) PROVE p[i] = t[i - (6 + m) + 1]
  <2>1. /\ i \in 1..(5 + m + n) /\ i \in (5 + m + 1)..(5 + m + n)
        /\ i - (5 + m) = i - (6 + m) + 1
    BY <1>0
  <2> QED
    BY <1>0, <1>5, <1>6, <2>1
<1>12. Slice(p, 5, m) = s
  <2> DEFINE at == 5
  <2>1. at \in Nat \ {0} /\ at + m - 1 <= Len(p)
    BY <1>0, <1>7
  <2>2. \A i \in at..(at + m - 1) : p[i] = s[i - at + 1]
    BY <1>0, <1>10
  <2> HIDE DEF at
  <2>3. Slice(p, at, m) = s
    BY <1>0, <1>7, <2>1, <2>2, SliceIs
  <2> QED
    BY <1>0, <2>3 DEF at
<1>13. Slice(p, 6 + m, n) = t
  <2> DEFINE at == 6 + m
  <2>1. at \in Nat \ {0} /\ at + n - 1 <= Len(p)
    BY <1>0, <1>7
  <2>2. \A i \in at..(at + n - 1) : p[i] = t[i - at + 1]
    BY <1>0, <1>11
  <2> HIDE DEF at
  <2>3. Slice(p, at, n) = t
    BY <1>0, <1>7, <2>1, <2>2, SliceIs
  <2> QED
    BY <1>0, <2>3 DEF at
<1> QED
  BY <1>0, <1>7, <1>8, <1>9, <1>12, <1>13 DEF AddFileIsAt, AddFileCells, m, n, p, u, r, q, h, g, l

\* The kinds of cells.
LEMMA NumberCells == Numbers \subseteq Nat /\ Magic \in Nat /\ Base \in Nat /\ Base > 4
  BY LogAssumption DEF LogAssumption, Byte

\* Keys and values are cells too.
LEMMA TextCells == \A s \in Names \cup Texts : s \in Seq(Nat)
<1>1. Byte \subseteq Nat
  BY LogAssumption DEF LogAssumption, Byte
<1> SUFFICES ASSUME NEW s \in Names \cup Texts PROVE s \in Seq(Nat)
  OBVIOUS
<1>2. s \in Seq(Byte)
  BY LogAssumption DEF LogAssumption
<1> QED
  BY <1>1, <1>2, SeqMonotonic

\* A write is read as it was written.
LEMMA WriteDecodes ==
  ASSUME NEW w \in Writes
  PROVE  /\ EncodeWrite(w) \in Seq(Nat)
         /\ DecodeWrite(EncodeWrite(w)) = {w}
<1> DEFINE k == Len(w.key)
           v == Len(w.val)
           p == EncodeWrite(w)
<1>1. w.key \in Names /\ w.seq \in Numbers /\ w.kind \in {0, 1} /\ w.val \in Texts \cup {<<>>}
  BY DEF Writes
<1>2. /\ w.key \in Seq(Nat) /\ w.val \in Seq(Nat)
      /\ w.seq \in Nat /\ w.kind \in Nat /\ Magic \in Nat
  <2>1. w.val \in Seq(Nat)
    <3>1. CASE w.val \in Texts
      BY <3>1, TextCells, Zenon
    <3>2. CASE w.val = <<>>
      BY <3>2
    <3> QED
      BY <1>1, <3>1, <3>2
  <2>2. w.key \in Seq(Nat)
    BY <1>1, TextCells, Zenon
  <2>3. w.seq \in Nat /\ w.kind \in Nat /\ Magic \in Nat
    <3>1. w.kind \in Nat
      BY <1>1
    <3>2. w.seq \in Nat /\ Magic \in Nat
      BY <1>1, NumberCells
    <3> QED
      BY <3>1, <3>2
  <2> QED
    BY <2>1, <2>2, <2>3
<1>3. k \in Nat /\ v \in Nat
  BY <1>2
<1>4. p = <<Magic, k>> \o w.key \o <<w.seq, w.kind, v>> \o w.val
  BY DEF EncodeWrite
<1>5. /\ p \in Seq(Nat) /\ Len(p) = 5 + k + v
      /\ p[1] = Magic /\ p[2] = k
      /\ p[3 + k] = w.seq /\ p[4 + k] = w.kind /\ p[5 + k] = v
      /\ Slice(p, 3, k) = w.key /\ Slice(p, 6 + k, v) = w.val
  <2> DEFINE s == w.key
             t == w.val
             c == w.seq
             d == w.kind
  <2>1. s \in Seq(Nat) /\ t \in Seq(Nat) /\ c \in Nat /\ d \in Nat /\ Len(s) = k /\ Len(t) = v
    BY <1>2
  <2>2. p = <<Magic, k>> \o s \o <<c, d, v>> \o t
    BY <1>4
  <2> HIDE DEF s, t, c, d, k, v, p
  <2>3. WriteIsAt(WriteCells(Magic, k, s, c, d, v, t), Magic, k, s, c, d, v, t)
    BY <1>2, <1>3, <2>1, PartsOfWrite
  <2>4. p = WriteCells(Magic, k, s, c, d, v, t)
    BY <2>2 DEF WriteCells
  <2>5. WriteIsAt(p, Magic, k, s, c, d, v, t)
    BY <2>3, <2>4
  <2> QED
    BY <2>1, <2>5 DEF WriteIsAt, s, t, c, d
<1>6. w = [key |-> w.key, seq |-> w.seq, kind |-> w.kind, val |-> w.val]
  BY DEF Writes
<1> HIDE DEF p, k, v
<1>7. /\ ~(Len(p) < 5) /\ 3 + k + 1 = 4 + k /\ 3 + k + 2 = 5 + k /\ 3 + k + 3 = 6 + k
      /\ 3 + k + 2 <= Len(p) /\ 3 + k + 2 + v = Len(p)
  BY <1>3, <1>5
<1>8. DecodeWrite(p) = {w}
  BY <1>1, <1>5, <1>6, <1>7 DEF DecodeWrite
<1> QED
  BY <1>5, <1>8 DEF p

\* An edit is read as it was written.
LEMMA EditDecodes ==
  ASSUME NEW e \in Edits
  PROVE  /\ EncodeEdit(e) \in Seq(Nat)
         /\ DecodeEdit(EncodeEdit(e)) = {e}
<1> DEFINE p == EncodeEdit(e)
<1>1. CASE e.op = "AddFile"
  <2> DEFINE a == Len(e.lo)
             b == Len(e.hi)
  <2>1. /\ e = [op |-> "AddFile", num |-> e.num, level |-> e.level, lo |-> e.lo, hi |-> e.hi, size |-> e.size]
        /\ e.num \in Numbers /\ e.level \in Numbers /\ e.size \in Numbers
        /\ e.lo \in Names /\ e.hi \in Names
    BY <1>1 DEF Edits
  <2>2. /\ e.lo \in Seq(Nat) /\ e.hi \in Seq(Nat)
        /\ e.num \in Nat /\ e.level \in Nat /\ e.size \in Nat
    <3>1. e.lo \in Seq(Nat) /\ e.hi \in Seq(Nat)
      BY <2>1, TextCells, Zenon
    <3> QED
      BY <2>1, <3>1, NumberCells
  <2>3. a \in Nat /\ b \in Nat
    BY <2>2
  <2>4. p = <<1, e.num, e.level, a>> \o e.lo \o <<b>> \o e.hi \o <<e.size>>
    BY <1>1 DEF EncodeEdit
  <2>5. /\ p \in Seq(Nat) /\ Len(p) = 6 + a + b
        /\ p[1] = 1 /\ p[2] = e.num /\ p[3] = e.level /\ p[4] = a
        /\ p[5 + a] = b /\ p[6 + a + b] = e.size
        /\ Slice(p, 5, a) = e.lo /\ Slice(p, 6 + a, b) = e.hi
    <3> DEFINE s == e.lo
               t == e.hi
               n == e.num
               l == e.level
               z == e.size
    <3>1. /\ s \in Seq(Nat) /\ t \in Seq(Nat) /\ n \in Nat /\ l \in Nat /\ z \in Nat
          /\ Len(s) = a /\ Len(t) = b /\ 1 \in Nat
      BY <2>2
    <3>2. p = <<1, n, l, a>> \o s \o <<b>> \o t \o <<z>>
      BY <2>4
    <3> HIDE DEF s, t, n, l, z, a, b, p
    <3>3. AddFileIsAt(AddFileCells(1, n, l, a, s, b, t, z), 1, n, l, a, s, b, t, z)
      BY <2>3, <3>1, PartsOfAddFile
    <3>4. p = AddFileCells(1, n, l, a, s, b, t, z)
      BY <3>2 DEF AddFileCells
    <3>5. AddFileIsAt(p, 1, n, l, a, s, b, t, z)
      BY <3>3, <3>4
    <3> QED
      BY <3>1, <3>5 DEF AddFileIsAt, s, t, n, l, z
  <2> HIDE DEF p, a, b
  <2>6. /\ p # <<>> /\ Len(p) >= 5 /\ 5 + a <= Len(p) /\ 5 + a + 1 = 6 + a
        /\ 5 + a + 1 + b = 6 + a + b /\ 5 + a + 1 + b <= Len(p)
    BY <2>3, <2>5
  <2>7. DecodeEdit(p) = {e}
    BY <2>1, <2>5, <2>6 DEF DecodeEdit
  <2> QED
    BY <2>5, <2>7 DEF p
<1>2. CASE e.op = "DeleteFile"
  <2>1. /\ e = [op |-> "DeleteFile", level |-> e.level, num |-> e.num]
        /\ e.level \in Nat /\ e.num \in Nat
    BY <1>2, NumberCells DEF Edits
  <2>2. p = <<2, e.level, e.num>>
    BY <1>2 DEF EncodeEdit
  <2> HIDE DEF p
  <2>3. p \in Seq(Nat) /\ Len(p) = 3 /\ p # <<>> /\ p[1] = 2 /\ p[2] = e.level /\ p[3] = e.num
    BY <2>1, <2>2
  <2> QED
    BY <2>1, <2>3 DEF DecodeEdit, p
<1>3. CASE e.op \in {"SetNextFileNum", "SetLastSeq"}
  <2>1. e = [op |-> e.op, n |-> e.n] /\ e.n \in Nat
    BY <1>3, NumberCells DEF Edits
  <2>2. p = <<IF e.op = "SetNextFileNum" THEN 3 ELSE 4, e.n>>
    BY <1>3 DEF EncodeEdit
  <2> HIDE DEF p
  <2>3. /\ p \in Seq(Nat) /\ Len(p) = 2 /\ p # <<>> /\ p[2] = e.n
        /\ p[1] = IF e.op = "SetNextFileNum" THEN 3 ELSE 4
    BY <2>1, <2>2
  <2>4. DecodeEdit(p) = {[op |-> e.op, n |-> e.n]}
    <3>1. CASE e.op = "SetNextFileNum"
      BY <3>1, <2>3 DEF DecodeEdit
    <3>2. CASE e.op = "SetLastSeq"
      BY <3>2, <2>3 DEF DecodeEdit
    <3> QED
      BY <1>3, <3>1, <3>2
  <2> QED
    BY <2>1, <2>3, <2>4 DEF p
<1> QED
  BY <1>1, <1>2, <1>3 DEF Edits

-----------------------------------------------------------------------------
(* Frames.                                                                 *)

\* Which records a file of kind k holds, and how.
RecordsIn(k) == IF k = "wal" THEN Writes ELSE Edits
FrameIn(k, r) == Frame(Encode(k, r))

\* A payload and what decoding it gives.
LEMMA PayloadOf ==
  ASSUME NEW k \in Kinds, NEW r \in RecordsIn(k)
  PROVE  LET p == Encode(k, r)
         IN /\ p \in Seq(Nat) /\ Len(p) < Base * Base
            /\ \E a, b \in Nat : Crc(p) = <<a, b>>
            /\ Decode(k, p) = {r}
<1> DEFINE p == Encode(k, r)
<1>1. p \in Payloads /\ p \in Seq(Nat) /\ Decode(k, p) = {r}
  <2>1. CASE k = "wal"
    BY <2>1, WriteDecodes DEF RecordsIn, Encode, Decode, Payloads
  <2>2. CASE k # "wal"
    BY <2>2, EditDecodes DEF RecordsIn, Encode, Decode, Payloads
  <2> QED
    BY <2>1, <2>2
<1> HIDE DEF p
<1>2. Len(p) < Base * Base /\ Crc(p) \in Nat \X Nat
  BY <1>1, PayloadAssumption DEF PayloadAssumption
<1> QED
  BY <1>1, <1>2 DEF p

\* The two cells of a length.
LEMMA LengthCells ==
  ASSUME NEW n \in Nat, NEW b \in Nat, b > 0, n < b * b
  PROVE  /\ n % b \in Nat /\ (n \div b) % b \in Nat
         /\ (n % b) + b * ((n \div b) % b) = n
<1> DEFINE q == n \div b
           m == n % b
<1>1. q \in Int /\ m \in 0..(b - 1) /\ n = b * q + m
  OBVIOUS
<1> HIDE DEF q, m
<1>2. q >= 0
  <2> SUFFICES ASSUME q < 0 PROVE FALSE
    BY <1>1
  <2>1. q <= -1
    BY <1>1
  <2>2. b * q <= b * (-1)
    BY <1>1, <2>1
  <2> QED
    BY <1>1, <2>2
<1>3. q < b
  <2> SUFFICES ASSUME q >= b PROVE FALSE
    BY <1>1
  <2>1. b * q >= b * b
    BY <1>1
  <2> QED
    BY <1>1, <2>1
<1>4. q % b = q
  BY <1>1, <1>2, <1>3
<1> QED
  BY <1>1, <1>2, <1>4 DEF q, m

\* The cells of a frame: the length, the checksum and the payload.
LEMMA FrameIs ==
  ASSUME NEW k \in Kinds, NEW r \in RecordsIn(k)
  PROVE  LET p == Encode(k, r)
             f == FrameIn(k, r)
         IN /\ f \in Seq(Nat) /\ Len(f) = 4 + Len(p)
            /\ f[1] + Base * f[2] = Len(p)
            /\ <<f[3], f[4]>> = Crc(p)
            /\ \A i \in 5..(4 + Len(p)) : f[i] = p[i - 4]
<1> DEFINE p == Encode(k, r)
           n == Len(p)
           f == FrameIn(k, r)
           x == n % Base
           y == (n \div Base) % Base
<1>1. p \in Seq(Nat) /\ n < Base * Base /\ n \in Nat
  BY PayloadOf
<1>2. PICK a \in Nat, b \in Nat : Crc(p) = <<a, b>>
  BY PayloadOf
<1>3. f = <<x, y>> \o Crc(p) \o p
  BY DEF FrameIn, Frame
<1>4. x \in Nat /\ y \in Nat /\ x + Base * y = n
  BY <1>1, NumberCells, LengthCells
<1> HIDE DEF f, x, y, n, p
<1> DEFINE g == <<x, y>>
           c == <<a, b>>
           h == g \o c
<1>5. /\ g \in Seq(Nat) /\ Len(g) = 2 /\ g[1] = x /\ g[2] = y
      /\ c \in Seq(Nat) /\ Len(c) = 2 /\ c[1] = a /\ c[2] = b
  BY <1>4
<1>6. f = h \o p
  BY <1>2, <1>3
<1> HIDE DEF g, c
<1>7. /\ h \in Seq(Nat) /\ Len(h) = Len(g) + Len(c)
      /\ \A i \in 1..Len(g) : h[i] = g[i]
      /\ \A i \in (Len(g) + 1)..(Len(g) + Len(c)) : h[i] = c[i - Len(g)]
  BY <1>5, Parts
<1> HIDE DEF h
<1>8. Len(h) = 4 /\ h[1] = x /\ h[2] = y /\ h[3] = a /\ h[4] = b
  BY <1>5, <1>7
<1>9. /\ f \in Seq(Nat) /\ Len(f) = Len(h) + Len(p)
      /\ \A i \in 1..Len(h) : f[i] = h[i]
      /\ \A i \in (Len(h) + 1)..(Len(h) + Len(p)) : f[i] = p[i - Len(h)]
  BY <1>1, <1>6, <1>7, Parts
<1>10. f[1] = x /\ f[2] = y /\ f[3] = a /\ f[4] = b
  BY <1>8, <1>9
<1>11. Len(f) = 4 + Len(p) /\ \A i \in 5..(4 + Len(p)) : f[i] = p[i - 4]
  BY <1>8, <1>9
<1>12. f[1] + Base * f[2] = Len(p)
  BY <1>4, <1>10 DEF n
<1> QED
  BY <1>2, <1>9, <1>10, <1>11, <1>12 DEF f, p

-----------------------------------------------------------------------------
(* The file.                                                               *)

\* Where the record at i begins: behind the last record, the end of the file.
Place(c, b, i) == IF i <= Len(b) THEN b[i].start ELSE Len(c)

\* The file c of kind k holds the records of b, one behind the other from its
\* start, each as far as it got.
LaidOut(k, c, b) ==
  /\ Place(c, b, 1) = 0
  /\ \A i \in 1..Len(b) :
       LET at == b[i].start
           to == Place(c, b, i + 1)
           f  == FrameIn(k, b[i].rec)
       IN /\ b[i].rec \in RecordsIn(k)
          /\ at < to /\ to <= at + Len(f)
          /\ \A j \in (at + 1)..to : c[j] = f[j - at]
  /\ \A i, j \in 1..(Len(b) + 1) : i < j => Place(c, b, i) < Place(c, b, j)

\* The inductive invariant.
LogInv == TypeOK /\ LaidOut(kind, cells, begun)

\* A record whose beginning is known.
Entry == [rec : Writes \cup Edits, start : Nat]

\* Places are within the file.
LEMMA PlaceType ==
  ASSUME NEW k, NEW c \in Seq(Nat), NEW b \in Seq(Entry), LaidOut(k, c, b), NEW i \in 1..(Len(b) + 1)
  PROVE  Place(c, b, i) \in 0..Len(c)
<1>1. Place(c, b, i) \in Nat
  <2>1. i <= Len(b) => b[i] \in Entry
    OBVIOUS
  <2> QED
    BY <2>1 DEF Place, Entry
<1>2. Place(c, b, Len(b) + 1) = Len(c)
  BY DEF Place
<1>3. i = Len(b) + 1 \/ Place(c, b, i) < Place(c, b, Len(b) + 1)
  BY DEF LaidOut
<1> QED
  BY <1>1, <1>2, <1>3

\* What a file has in it after an append that got n cells into it.
Grown(c, d, f, n) ==
  /\ d \in Seq(Nat) /\ Len(d) = Len(c) + n
  /\ \A j \in 1..Len(c) : d[j] = c[j]
  /\ \A j \in (Len(c) + 1)..(Len(c) + n) : d[j] = f[j - Len(c)]

\* An append grows the file.
LEMMA AppendGrows ==
  ASSUME NEW c \in Seq(Nat), NEW f \in Seq(Nat), NEW n \in 0..Len(f)
  PROVE  Grown(c, c \o SubSeq(f, 1, n), f, n)
<1> DEFINE g == SubSeq(f, 1, n)
           d == c \o g
<1>1. g \in Seq(Nat) /\ Len(g) = n
  OBVIOUS
<1>2. \A j \in 1..n : g[j] = f[j]
  OBVIOUS
<1> HIDE DEF g
<1>3. /\ d \in Seq(Nat) /\ Len(d) = Len(c) + Len(g)
      /\ \A j \in 1..Len(c) : d[j] = c[j]
      /\ \A j \in (Len(c) + 1)..(Len(c) + Len(g)) : d[j] = g[j - Len(c)]
  BY <1>1, Parts
<1> HIDE DEF d
<1>4. ASSUME NEW j \in (Len(c) + 1)..(Len(c) + n) PROVE d[j] = f[j - Len(c)]
  <2>1. j - Len(c) \in 1..n
    OBVIOUS
  <2>2. d[j] = g[j - Len(c)]
    BY <1>1, <1>3
  <2> QED
    BY <1>2, <2>1, <2>2
<1>5. Grown(c, d, f, n)
  BY <1>1, <1>3, <1>4 DEF Grown
<1> QED
  BY <1>5 DEF d, g

\* The history after that.
Longer(b, e, q) ==
  /\ e \in Seq(Entry) /\ Len(e) = Len(b) + 1 /\ e[Len(b) + 1] = q
  /\ \A i \in 1..Len(b) : e[i] = b[i]

\* An append adds to the history.
LEMMA AppendLonger ==
  ASSUME NEW b \in Seq(Entry), NEW q \in Entry
  PROVE  Longer(b, Append(b, q), q)
<1>1. Append(b, q) \in Seq(Entry) /\ Len(Append(b, q)) = Len(b) + 1 /\ Append(b, q)[Len(b) + 1] = q
  OBVIOUS
<1>2. \A i \in 1..Len(b) : Append(b, q)[i] = b[i]
  OBVIOUS
<1> QED
  BY <1>1, <1>2 DEF Longer

\* A file stays laid out when a record, or the beginning of one, goes to its end.
LEMMA GrownIsLaidOut ==
  ASSUME NEW k \in Kinds, NEW c \in Seq(Nat), NEW b \in Seq(Entry), LaidOut(k, c, b),
         NEW r \in RecordsIn(k), NEW n \in 1..Len(FrameIn(k, r)),
         NEW d, Grown(c, d, FrameIn(k, r), n),
         NEW e, NEW q, q.rec = r, q.start = Len(c), Longer(b, e, q)
  PROVE  LaidOut(k, d, e)
<1> DEFINE f == FrameIn(k, r)
<1>1. Len(f) \in Nat /\ n \in Nat /\ n <= Len(f)
  BY FrameIs
<1>2. Len(c) \in Nat /\ Len(b) \in Nat
  OBVIOUS
<1>5. \A j \in 1..Len(c) : d[j] = c[j]
  BY DEF Grown
<1>6. Len(d) = Len(c) + n /\ \A j \in (Len(c) + 1)..(Len(c) + n) : d[j] = f[j - Len(c)]
  BY DEF Grown
<1> HIDE DEF f
<1>7. q.rec = r /\ q.start = Len(c)
  OBVIOUS
<1>8. /\ Len(e) = Len(b) + 1 /\ e[Len(b) + 1] = q
      /\ \A i \in 1..Len(b) : e[i] = b[i]
  BY DEF Longer
<1>9. /\ \A i \in 1..(Len(b) + 1) : Place(d, e, i) = Place(c, b, i) /\ Place(c, b, i) \in 0..Len(c)
      /\ Place(d, e, Len(b) + 2) = Len(c) + n
  <2>1. ASSUME NEW i \in 1..(Len(b) + 1) PROVE Place(d, e, i) = Place(c, b, i)
    <3>1. CASE i <= Len(b)
      BY <3>1, <1>2, <1>8 DEF Place
    <3>2. CASE i = Len(b) + 1
      BY <3>2, <1>2, <1>7, <1>8 DEF Place
    <3> QED
      BY <1>2, <3>1, <3>2
  <2>2. Place(d, e, Len(b) + 2) = Len(d)
    BY <1>2, <1>8 DEF Place
  <2> QED
    BY <1>6, <2>1, <2>2, PlaceType
<1>10. Place(d, e, 1) = 0
  BY <1>2, <1>9 DEF LaidOut
<1>11. ASSUME NEW i \in 1..Len(e)
       PROVE  LET at == e[i].start
                  to == Place(d, e, i + 1)
                  h  == FrameIn(k, e[i].rec)
              IN /\ e[i].rec \in RecordsIn(k)
                 /\ at < to /\ to <= at + Len(h)
                 /\ \A j \in (at + 1)..to : d[j] = h[j - at]
  <2>1. CASE i <= Len(b)
    <3> DEFINE at == b[i].start
               to == Place(c, b, i + 1)
               h  == FrameIn(k, b[i].rec)
    <3>1. /\ b[i].rec \in RecordsIn(k)
          /\ at < to /\ to <= at + Len(h)
          /\ \A j \in (at + 1)..to : c[j] = h[j - at]
      BY <2>1 DEF LaidOut
    <3>2. e[i] = b[i] /\ Place(d, e, i + 1) = to /\ to \in 0..Len(c) /\ at \in Nat
      <4>1. i \in 1..Len(b) /\ i + 1 \in 1..(Len(b) + 1)
        BY <2>1, <1>2, <1>8
      <4>2. b[i] \in Entry
        BY <4>1
      <4>3. at \in Nat
        BY <4>2 DEF Entry
      <4> QED
        BY <4>1, <4>3, <1>8, <1>9
    <3> HIDE DEF at, to, h
    <3>3. ASSUME NEW j \in (at + 1)..to PROVE d[j] = h[j - at]
      <4>1. j \in 1..Len(c)
        BY <1>2, <3>2
      <4> QED
        BY <1>5, <3>1, <4>1
    <3> QED
      BY <3>1, <3>2, <3>3 DEF at, h
  <2>2. CASE i = Len(b) + 1
    <3>1. e[i] = q /\ Place(d, e, i + 1) = Len(c) + n
      BY <2>2, <1>8, <1>9
    <3>2. Len(c) < Len(c) + n /\ Len(c) + n <= Len(c) + Len(f)
      BY <1>1, <1>2
    <3> QED
      BY <1>6, <1>7, <3>1, <3>2 DEF f
  <2> QED
    BY <1>2, <1>8, <2>1, <2>2
<1>12. ASSUME NEW i \in 1..(Len(e) + 1), NEW j \in 1..(Len(e) + 1), i < j
       PROVE  Place(d, e, i) < Place(d, e, j)
  <2>1. CASE j <= Len(b) + 1
    <3>1. i \in 1..(Len(b) + 1) /\ j \in 1..(Len(b) + 1)
      BY <2>1, <1>2, <1>8, <1>12
    <3>2. Place(c, b, i) < Place(c, b, j)
      BY <1>12, <3>1 DEF LaidOut
    <3> QED
      BY <1>9, <3>1, <3>2
  <2>2. CASE j = Len(b) + 2
    <3>1. i \in 1..(Len(b) + 1)
      BY <2>2, <1>2, <1>8, <1>12
    <3> QED
      BY <2>2, <1>1, <1>2, <1>9, <3>1
  <2> QED
    BY <1>2, <1>8, <2>1, <2>2
<1> QED
  BY <1>10, <1>11, <1>12 DEF LaidOut

\* Every nonempty set of naturals has a smallest element.
LEMMA Least ==
  ASSUME NEW S \in SUBSET Nat, S # {}
  PROVE  \E m \in S : \A x \in S : m <= x
<1> DEFINE R     == StrictSubsetOrdering(Nat)
           Below == {0..n : n \in S}
<1>1. Below \subseteq FiniteSubsetsOf(Nat)
  <2>1. \A n \in S : IsFiniteSet(0..n)
    BY FS_Interval
  <2> QED
    BY <2>1 DEF FiniteSubsetsOf
<1>2. PICK T \in Below : \A U \in Below : <<U, T>> \notin R
  <2>1. IsWellFoundedOn(R, FiniteSubsetsOf(Nat)) /\ Below # {}
    BY FS_StrictSubsetOrderingWellFounded
  <2> QED
    BY <2>1, <1>1, WFMin
<1>3. PICK m \in S : T = 0..m
  OBVIOUS
<1>4. ASSUME NEW x \in S, x < m PROVE FALSE
  <2>1. 0..x \in Below /\ 0..x \subseteq T /\ m \in T /\ m \notin 0..x /\ T \subseteq Nat
    BY <1>3, <1>4
  <2> QED
    BY <1>2, <2>1 DEF StrictSubsetOrdering
<1> QED
  BY <1>4

\* The records that begin before n are the first ones.
LEMMA BegunBefore ==
  ASSUME NEW k, NEW c \in Seq(Nat), NEW b \in Seq(Entry), LaidOut(k, c, b), NEW n \in Nat
  PROVE  LET m == Cardinality({i \in DOMAIN b : b[i].start < n})
         IN m \in 0..Len(b) /\ \A i \in 1..Len(b) : b[i].start < n <=> i <= m
<1> DEFINE l == Len(b)
           S == {i \in DOMAIN b : b[i].start < n}
           T == {i \in 1..(l + 1) : i \notin S}
<1>1. l \in Nat /\ DOMAIN b = 1..l
  OBVIOUS
<1>2. \A i, j \in 1..l : i < j => b[i].start < b[j].start
  <2> SUFFICES ASSUME NEW i \in 1..l, NEW j \in 1..l, i < j PROVE b[i].start < b[j].start
    OBVIOUS
  <2>1. i \in 1..(Len(b) + 1) /\ j \in 1..(Len(b) + 1)
    BY <1>1
  <2>2. Place(c, b, i) < Place(c, b, j)
    BY <2>1 DEF LaidOut
  <2> QED
    BY <1>1, <2>2 DEF Place
<1>3. \A i \in 1..l : b[i].start \in Nat
  <2>1. \A i \in 1..l : b[i] \in Entry
    OBVIOUS
  <2> QED
    BY <2>1 DEF Entry
<1> HIDE DEF l
<1>4. l + 1 \in T /\ T \in SUBSET Nat
  BY <1>1
<1>5. PICK t \in T : \A x \in T : t <= x
  BY <1>4, Least
<1>6. t \in 1..(l + 1)
  OBVIOUS
<1>7. \A i \in 1..l : b[i].start < n <=> i <= t - 1
  <2> SUFFICES ASSUME NEW i \in 1..l PROVE b[i].start < n <=> i < t
    BY <1>6
  <2>1. ASSUME i < t PROVE b[i].start < n
    <3>1. i \notin T
      BY <1>5, <1>6, <2>1
    <3> QED
      BY <1>1, <3>1
  <2>2. ASSUME ~(i < t) PROVE ~(b[i].start < n)
    <3>1. t \in 1..l /\ (t = i \/ t < i)
      BY <1>1, <1>6, <2>2
    <3>2. ~(b[t].start < n)
      BY <1>1, <3>1
    <3> QED
      BY <1>2, <1>3, <3>1, <3>2
  <2> QED
    BY <2>1, <2>2
<1>8. S = 1..(t - 1)
  BY <1>1, <1>6, <1>7
<1>9. Cardinality(S) = t - 1
  <2>1. Cardinality(1..(t - 1)) = IF 1 > t - 1 THEN 0 ELSE t - 1 - 1 + 1
    BY <1>6, FS_Interval
  <2> HIDE DEF S
  <2> QED
    BY <1>6, <1>8, <2>1
<1> QED
  <2>1. t - 1 \in 0..Len(b) /\ \A i \in 1..Len(b) : b[i].start < n <=> i <= t - 1
    BY <1>1, <1>6, <1>7 DEF l
  <2> QED
    BY <1>9, <2>1

\* A file of which a power loss leaves n cells.
LEMMA CutIsLaidOut ==
  ASSUME NEW k \in Kinds, NEW c \in Seq(Nat), NEW b \in Seq(Entry), LaidOut(k, c, b),
         NEW n \in 0..Len(c), NEW m \in 0..Len(b),
         \A i \in 1..Len(b) : b[i].start < n <=> i <= m,
         NEW d, Len(d) = n, \A j \in 1..n : d[j] = c[j],
         NEW e, Len(e) = m, \A i \in 1..m : e[i] = b[i]
  PROVE  LaidOut(k, d, e)
<1>1. Len(c) \in Nat /\ Len(b) \in Nat /\ n \in Nat /\ m \in Nat /\ m <= Len(b) /\ n <= Len(c)
  OBVIOUS
<1>2. \A i \in 1..Len(b) : b[i].start \in Nat
  <2>1. \A i \in 1..Len(b) : b[i] \in Entry
    OBVIOUS
  <2> QED
    BY <2>1 DEF Entry
<1>3. \A i \in 1..m : Place(d, e, i) = Place(c, b, i) /\ Place(d, e, i) = b[i].start
  BY <1>1 DEF Place
<1>4. Place(d, e, m + 1) = n
  BY <1>1 DEF Place
<1>5. m < Len(b) => n <= b[m + 1].start
  BY <1>1, <1>2
<1>6. n <= Place(c, b, m + 1)
  BY <1>1, <1>5 DEF Place
<1>7. \A i, j \in 1..(Len(b) + 1) : i < j => Place(c, b, i) < Place(c, b, j)
  BY DEF LaidOut
<1>8. Place(d, e, 1) = 0
  <2>1. Place(c, b, 1) = 0
    BY DEF LaidOut
  <2>2. CASE m = 0
    BY <1>1, <1>4, <1>6, <2>1, <2>2
  <2>3. CASE m > 0
    BY <1>1, <1>3, <2>1, <2>3
  <2> QED
    BY <1>1, <2>2, <2>3
<1>9. ASSUME NEW i \in 1..m
      PROVE  LET at == e[i].start
                 to == Place(d, e, i + 1)
                 h  == FrameIn(k, e[i].rec)
             IN /\ e[i].rec \in RecordsIn(k)
                /\ at < to /\ to <= at + Len(h)
                /\ \A j \in (at + 1)..to : d[j] = h[j - at]
  <2> DEFINE at == b[i].start
             to == Place(c, b, i + 1)
             h  == FrameIn(k, b[i].rec)
             cut == Place(d, e, i + 1)
  <2>1. i \in 1..Len(b) /\ i <= m
    BY <1>1
  <2>2. /\ b[i].rec \in RecordsIn(k)
        /\ at < to /\ to <= at + Len(h)
        /\ \A j \in (at + 1)..to : c[j] = h[j - at]
    BY <2>1 DEF LaidOut
  <2>3. e[i] = b[i] /\ at \in Nat /\ at < n
    BY <1>2, <2>1
  <2>4. to \in Nat /\ cut \in Nat /\ cut <= n /\ cut <= to /\ at < cut
    <3>1. i + 1 \in 1..(Len(b) + 1)
      BY <1>1, <2>1
    <3>2. to \in 0..Len(c)
      BY <3>1, PlaceType
    <3>3. CASE i = m
      BY <3>2, <3>3, <1>1, <1>4, <1>6, <2>3
    <3>4. CASE i < m
      <4>1. i + 1 \in 1..m
        BY <3>4, <1>1
      <4>2. i + 1 \in 1..Len(b) /\ cut = to /\ cut = b[i + 1].start
        BY <4>1, <1>1, <1>3
      <4>3. b[i + 1].start < n
        BY <4>1, <4>2, <1>1
      <4> QED
        BY <4>2, <4>3, <3>2, <2>2, <1>1
    <3> QED
      BY <2>1, <3>3, <3>4
  <2> HIDE DEF at, to, h, cut
  <2>5. Len(h) \in Nat
    BY <2>2, FrameIs DEF h
  <2>6. at < cut /\ cut <= at + Len(h)
    BY <2>2, <2>3, <2>4, <2>5
  <2>7. ASSUME NEW j \in (at + 1)..cut PROVE d[j] = h[j - at]
    <3>1. j \in 1..n /\ j \in (at + 1)..to
      BY <1>1, <2>3, <2>4
    <3> QED
      BY <2>2, <3>1
  <2> QED
    BY <2>2, <2>3, <2>6, <2>7 DEF at, h, cut
<1>10. ASSUME NEW i \in 1..(m + 1), NEW j \in 1..(m + 1), i < j PROVE Place(d, e, i) < Place(d, e, j)
  <2>1. i \in 1..m /\ i \in 1..Len(b) /\ b[i].start < n
    BY <1>1, <1>10
  <2>2. CASE j = m + 1
    BY <2>1, <2>2, <1>3, <1>4
  <2>3. CASE j <= m
    <3>1. j \in 1..m /\ j \in 1..(Len(b) + 1) /\ i \in 1..(Len(b) + 1)
      BY <1>1, <2>1, <2>3
    <3> QED
      BY <1>3, <1>7, <1>10, <2>1, <3>1
  <2> QED
    BY <1>1, <2>2, <2>3
<1> QED
  BY <1>8, <1>9, <1>10 DEF LaidOut

-----------------------------------------------------------------------------
(* Type correctness and the layout.                                        *)

\* The type of the history, from TypeOK.
LEMMA BegunIn ==
  ASSUME NEW c \in Seq(Nat), NEW b \in Seq([rec : Writes \cup Edits, start : 0..Len(c)])
  PROVE  b \in Seq(Entry)
<1> DEFINE S == [rec : Writes \cup Edits, start : 0..Len(c)]
<1>1. S \subseteq Entry
  BY DEF Entry
<1>2. b \in Seq(S)
  OBVIOUS
<1> HIDE DEF S
<1> QED
  BY <1>1, <1>2, SeqMonotonic

\* And back: in a file that is laid out every record begins within it.
LEMMA BegunType ==
  ASSUME NEW c \in Seq(Nat), NEW b \in Seq(Entry), NEW k, LaidOut(k, c, b)
  PROVE  b \in Seq([rec : Writes \cup Edits, start : 0..Len(c)])
<1> DEFINE S == [rec : Writes \cup Edits, start : 0..Len(c)]
<1>1. ASSUME NEW i \in 1..Len(b) PROVE b[i] \in S
  <2>1. b[i] \in Entry /\ Len(b) \in Nat
    OBVIOUS
  <2>2. i \in 1..(Len(b) + 1)
    BY <2>1
  <2>3. Place(c, b, i) \in 0..Len(c)
    BY <2>2, PlaceType
  <2>4. b[i].start \in 0..Len(c)
    BY <2>1, <2>3 DEF Place
  <2> QED
    BY <2>1, <2>4 DEF Entry
<1>2. b = [i \in 1..Len(b) |-> b[i]] /\ Len(b) \in Nat
  OBVIOUS
<1> HIDE DEF S
<1>3. b \in Seq(S)
  BY <1>1, <1>2
<1> QED
  BY <1>3 DEF S

\* An append, whether it is whole or cut short.
LEMMA GrowStep ==
  ASSUME LogInv, NEW r \in Records, NEW n \in 0..Len(FrameOf(r)), Grow(r, n)
  PROVE  /\ cells' \in Seq(Nat) /\ Len(cells') = Len(cells) + n
         /\ begun' \in Seq(Entry)
         /\ LaidOut(kind, cells', begun')
<1> DEFINE f == FrameOf(r)
           q == [rec |-> r, start |-> Len(cells)]
<1>1. kind \in Kinds /\ cells \in Seq(Nat) /\ begun \in Seq(Entry) /\ LaidOut(kind, cells, begun)
  BY BegunIn DEF LogInv, TypeOK
<1>2. r \in RecordsIn(kind) /\ f = FrameIn(kind, r)
  BY DEF Records, RecordsIn, FrameOf, FrameIn
<1>3. f \in Seq(Nat) /\ n \in 0..Len(f)
  BY <1>1, <1>2, FrameIs
<1>4. cells' = cells \o SubSeq(f, 1, n)
  BY DEF Grow
<1>5. begun' = IF n = 0 THEN begun ELSE Append(begun, q)
  BY DEF Grow
<1> HIDE DEF f
<1>6. Grown(cells, cells', f, n)
  BY <1>1, <1>3, <1>4, AppendGrows
<1>7. cells' \in Seq(Nat) /\ Len(cells') = Len(cells) + n
  BY <1>6 DEF Grown
<1>8. CASE n = 0
  <2>1. Len(cells') = Len(cells) /\ \A j \in 1..Len(cells) : cells'[j] = cells[j]
    BY <1>1, <1>6, <1>8 DEF Grown
  <2>2. cells' = cells
    BY <1>1, <1>7, <2>1, SameElements
  <2> QED
    BY <1>1, <1>5, <1>7, <1>8, <2>2
<1>9. CASE n # 0
  <2>1. q \in Entry /\ q.rec = r /\ q.start = Len(cells)
    BY <1>1, <1>2 DEF Entry, RecordsIn
  <2> HIDE DEF q
  <2>2. Longer(begun, begun', q)
    BY <1>1, <1>5, <1>9, <2>1, AppendLonger
  <2>3. n \in 1..Len(FrameIn(kind, r))
    BY <1>2, <1>3, <1>9
  <2>4. LaidOut(kind, cells', begun')
    BY <1>1, <1>2, <1>6, <2>1, <2>2, <2>3, GrownIsLaidOut
  <2> QED
    BY <1>7, <2>2, <2>4 DEF Longer
<1> QED
  BY <1>8, <1>9

\* A power loss.
LEMMA PowerLossStep ==
  ASSUME LogInv, PowerLoss
  PROVE  /\ cells' \in Seq(Nat) /\ begun' \in Seq(Entry)
         /\ synced' = Len(cells')
         /\ LaidOut(kind, cells', begun')
<1>1. /\ kind \in Kinds /\ cells \in Seq(Nat) /\ begun \in Seq(Entry) /\ LaidOut(kind, cells, begun)
      /\ synced \in 0..Len(cells)
  BY BegunIn DEF LogInv, TypeOK
<1> DEFINE M(n) == Cardinality({i \in DOMAIN begun : begun[i].start < n})
<1>2. PICK n \in synced..Len(cells) :
        /\ cells' = SubSeq(cells, 1, n)
        /\ begun' = SubSeq(begun, 1, M(n))
        /\ synced' = n
  BY DEF PowerLoss
<1>3. n \in Nat /\ n \in 0..Len(cells) /\ Len(cells) \in Nat
  BY <1>1
<1>4. M(n) \in 0..Len(begun) /\ \A i \in 1..Len(begun) : begun[i].start < n <=> i <= M(n)
  BY <1>1, <1>3, BegunBefore
<1> DEFINE m == M(n)
<1> HIDE DEF M
<1>5. cells' \in Seq(Nat) /\ Len(cells') = n
  BY <1>1, <1>2, <1>3
<1>6. \A j \in 1..n : cells'[j] = cells[j]
  BY <1>1, <1>2, <1>3
<1>7. begun' \in Seq(Entry) /\ Len(begun') = m
  BY <1>1, <1>2, <1>4
<1>8. \A i \in 1..m : begun'[i] = begun[i]
  BY <1>1, <1>2, <1>4
<1> HIDE DEF m
<1>9. m \in 0..Len(begun) /\ \A i \in 1..Len(begun) : begun[i].start < n <=> i <= m
  BY <1>4 DEF m
<1>10. LaidOut(kind, cells', begun')
  <2> DEFINE d == cells'
             e == begun'
  <2>1. Len(d) = n /\ (\A j \in 1..n : d[j] = cells[j]) /\ Len(e) = m /\ \A i \in 1..m : e[i] = begun[i]
    BY <1>5, <1>6, <1>7, <1>8
  <2> HIDE DEF d, e
  <2>2. LaidOut(kind, d, e)
    BY <1>1, <1>3, <1>9, <2>1, CutIsLaidOut
  <2> QED
    BY <2>2 DEF d, e
<1> QED
  BY <1>2, <1>5, <1>7, <1>10

\* An empty file.
LEMMA EmptyLaidOut == \A k : LaidOut(k, <<>>, <<>>) /\ <<>> \in Seq(Entry)
  BY DEF LaidOut, Place

\* It starts laid out.
LEMMA LogInit == Init => LogInv
<1> SUFFICES ASSUME Init PROVE LogInv
  OBVIOUS
<1>1. kind \in Kinds /\ cells = <<>> /\ begun = <<>> /\ synced = 0 /\ up = TRUE /\ appends = 0
  BY DEF Init
<1>2. TypeOK
  BY <1>1, LogAssumption DEF TypeOK, LogAssumption
<1>3. LaidOut(kind, cells, begun)
  BY <1>1, EmptyLaidOut
<1> QED
  BY <1>2, <1>3 DEF LogInv

\* It stays laid out: appends, whole or cut short, a power loss, and the new log
\* after a flush.
LEMMA LogStep == LogInv /\ [Next]_vars => LogInv'
<1> SUFFICES ASSUME LogInv, [Next]_vars PROVE LogInv'
  OBVIOUS
<1>1. /\ kind \in Kinds /\ cells \in Seq(Nat) /\ begun \in Seq(Entry) /\ LaidOut(kind, cells, begun)
      /\ synced \in 0..Len(cells) /\ up \in BOOLEAN /\ appends \in 0..MaxAppends
      /\ MaxAppends \in Nat /\ Len(cells) \in Nat
  BY BegunIn, LogAssumption DEF LogInv, TypeOK, LogAssumption
<1>2. ASSUME kind' = kind, cells' \in Seq(Nat), begun' \in Seq(Entry), LaidOut(kind, cells', begun'),
             synced' \in 0..Len(cells'), up' \in BOOLEAN, appends' \in 0..MaxAppends
      PROVE  LogInv'
  <2>1. begun' \in Seq([rec : Writes \cup Edits, start : 0..Len(cells')])
    BY <1>2, BegunType
  <2> QED
    BY <1>1, <1>2, <2>1 DEF LogInv, TypeOK
<1>3. ASSUME NEW r \in Records, AppendRecord(r) PROVE LogInv'
  <2>1. /\ Grow(r, Len(FrameOf(r))) /\ kind' = kind /\ up' = up /\ appends < MaxAppends /\ appends' = appends + 1
        /\ synced' \in {synced, Len(cells')}
    BY <1>3 DEF AppendRecord
  <2>2. Len(FrameOf(r)) \in Nat
    BY <1>1, FrameIs DEF Records, RecordsIn, FrameOf, FrameIn
  <2>3. /\ cells' \in Seq(Nat) /\ Len(cells') = Len(cells) + Len(FrameOf(r))
        /\ begun' \in Seq(Entry) /\ LaidOut(kind, cells', begun')
    BY <2>1, <2>2, GrowStep
  <2>4. synced' \in 0..Len(cells')
    BY <1>1, <2>1, <2>2, <2>3
  <2>5. appends' \in 0..MaxAppends
    BY <1>1, <2>1
  <2> QED
    BY <1>1, <1>2, <2>1, <2>3, <2>4, <2>5
<1>4. ASSUME NEW r \in Records, AppendCut(r) PROVE LogInv'
  <2>1. /\ kind' = kind /\ up' \in BOOLEAN /\ appends < MaxAppends /\ appends' = appends + 1
        /\ synced' = synced
    BY <1>4 DEF AppendCut
  <2>2. Len(FrameOf(r)) \in Nat
    BY <1>1, FrameIs DEF Records, RecordsIn, FrameOf, FrameIn
  <2>3. PICK n \in 0..(Len(FrameOf(r)) - 1) : Grow(r, n)
    BY <1>4 DEF AppendCut
  <2>4. /\ cells' \in Seq(Nat) /\ Len(cells') = Len(cells) + n
        /\ begun' \in Seq(Entry) /\ LaidOut(kind, cells', begun')
    BY <2>2, <2>3, GrowStep
  <2>5. synced' \in 0..Len(cells')
    BY <1>1, <2>1, <2>2, <2>4
  <2>6. appends' \in 0..MaxAppends
    BY <1>1, <2>1
  <2> QED
    BY <1>1, <1>2, <2>1, <2>4, <2>5, <2>6
<1>5. CASE PowerLoss
  <2>1. kind' = kind /\ up' = FALSE /\ appends' = appends
    BY <1>5 DEF PowerLoss
  <2>2. /\ cells' \in Seq(Nat) /\ begun' \in Seq(Entry)
        /\ synced' = Len(cells') /\ LaidOut(kind, cells', begun')
    BY <1>5, PowerLossStep
  <2>3. synced' \in 0..Len(cells')
    BY <2>2
  <2> QED
    BY <1>1, <1>2, <2>1, <2>2, <2>3
<1>6. CASE Open
  <2>1. UNCHANGED <<kind, cells, begun, synced, appends>> /\ up' = TRUE
    BY <1>6 DEF Open
  <2> QED
    BY <1>1, <1>2, <2>1
<1>7. CASE Create
  <2>1. /\ cells' = <<>> /\ begun' = <<>> /\ synced' = 0
        /\ UNCHANGED <<kind, up, appends>>
    BY <1>7 DEF Create
  <2>2. cells' \in Seq(Nat) /\ synced' \in 0..Len(cells')
    BY <2>1
  <2>3. LaidOut(kind, cells', begun') /\ begun' \in Seq(Entry)
    BY <2>1, EmptyLaidOut
  <2> QED
    BY <1>1, <1>2, <2>1, <2>2, <2>3
<1>8. CASE UNCHANGED vars
  BY <1>1, <1>2, <1>8 DEF vars
<1> QED
  BY <1>3, <1>4, <1>5, <1>6, <1>7, <1>8 DEF Next

\* The file is laid out in every state.
LEMMA AlwaysLaidOut == Spec => []LogInv
<1>1. Init => LogInv
  BY LogInit
<1>2. LogInv /\ [Next]_vars => LogInv'
  BY LogStep
<1> QED
  BY <1>1, <1>2, PTL DEF Spec

\* TypeOK: Wal::append, Manifest::log, Wal::create and what a power loss leaves of
\* the file keep the history of records within it, and the synced part too.
THEOREM LogTypeCorrect == Spec => []TypeOK
<1>1. LogInv => TypeOK
  BY DEF LogInv
<1> QED
  BY <1>1, AlwaysLaidOut, PTL

-----------------------------------------------------------------------------
(* Recovery.                                                               *)

\* What recovery makes of the file from i on, when f says what it makes of it
\* from every later place.
From(type, file, f, i) ==
  LET len     == file[i + 1] + Base * file[i + 2]
      payload == SubSeq(file, i + 5, i + 4 + len)
      rest    == f[i + 4 + len]
  IN IF i + 4 > Len(file) \/ CutShort(file, i, len) THEN Ended(<<>>)
     ELSE IF Damaged(type, file, i, payload) \/ ~rest.ok THEN Corruption
     ELSE Ended(<<CHOOSE r \in Decode(type, payload) : TRUE>> \o rest.records)

\* The next place is behind this one, and within the file.
LEMMA NextPlace ==
  ASSUME NEW file \in Seq(Nat), NEW i \in 0..Len(file), i + 4 <= Len(file),
         NEW len, len = file[i + 1] + Base * file[i + 2], ~CutShort(file, i, len)
  PROVE  len \in Nat /\ i + 4 + len \in (i + 1)..Len(file)
<1>1. Len(file) \in Nat /\ i + 1 \in 1..Len(file) /\ i + 2 \in 1..Len(file)
  OBVIOUS
<1>2. file[i + 1] \in Nat /\ file[i + 2] \in Nat
  BY <1>1
<1>3. Base * file[i + 2] \in Nat
  BY <1>2, NumberCells
<1>4. len \in Nat
  BY <1>2, <1>3
<1>5. i + 4 + len <= Len(file)
  BY <1>1, <1>4 DEF CutShort
<1> QED
  BY <1>1, <1>4, <1>5

\* Only what later places hold matters.
LEMMA FromLater ==
  ASSUME NEW type, NEW file \in Seq(Nat), NEW i \in 0..Len(file), NEW f, NEW g,
         \A j \in (i + 1)..Len(file) : f[j] = g[j]
  PROVE  From(type, file, f, i) = From(type, file, g, i)
<1> DEFINE len == file[i + 1] + Base * file[i + 2]
<1>1. CASE i + 4 > Len(file) \/ CutShort(file, i, len)
  BY <1>1 DEF From
<1>2. CASE ~(i + 4 > Len(file) \/ CutShort(file, i, len))
  <2>1. i + 4 <= Len(file) /\ ~CutShort(file, i, len)
    BY <1>2
  <2>2. i + 4 + len \in (i + 1)..Len(file)
    BY <2>1, NextPlace
  <2>3. f[i + 4 + len] = g[i + 4 + len]
    BY <2>2
  <2> QED
    BY <2>3 DEF From
<1> QED
  BY <1>1, <1>2

\* The recursion of recovery is well-founded: there is a function that obeys it.
LEMMA RecoveryIs ==
  ASSUME NEW type, NEW file \in Seq(Nat)
  PROVE  Recovery(type, file) = [i \in 0..Len(file) |-> From(type, file, Recovery(type, file), i)]
<1> DEFINE L == Len(file)
           F(f, i) == From(type, file, f, i)
           Obeys(f, m) == f = [i \in m..L |-> F(f, i)]
           Bad == {n \in 0..L : ~ \E f : Obeys(f, L - n)}
<1>1. L \in Nat
  OBVIOUS
<1>2. \A i \in 0..L : \A f, g : (\A j \in (i + 1)..L : f[j] = g[j]) => F(f, i) = F(g, i)
  BY FromLater
<1> HIDE DEF L, F
<1>3. ASSUME NEW m \in 0..L, m = L \/ \E g : Obeys(g, m + 1) PROVE \E f : Obeys(f, m)
  <2>1. \E g : g = [i \in (m + 1)..L |-> F(g, i)]
    <3>1. CASE m = L
      <4>1. (m + 1)..L = {}
        BY <1>1, <3>1
      <4> DEFINE e == [i \in {} |-> F(<<>>, i)]
      <4>2. e = [i \in {} |-> F(e, i)]
        OBVIOUS
      <4> HIDE DEF e
      <4> QED
        BY <4>1, <4>2
    <3> QED
      BY <1>3, <3>1
  <2>2. PICK g : g = [i \in (m + 1)..L |-> F(g, i)]
    BY <2>1
  <2> DEFINE f == [i \in m..L |-> IF i = m THEN F(g, m) ELSE g[i]]
  <2>3. \A j \in (m + 1)..L : f[j] = g[j]
    BY <1>1
  <2>4. ASSUME NEW i \in m..L PROVE f[i] = F(f, i)
    <3>1. \A j \in (i + 1)..L : f[j] = g[j]
      BY <1>1, <2>3
    <3>2. i \in 0..L
      BY <1>1
    <3>3. F(f, i) = F(g, i)
      <4> HIDE DEF f
      <4> QED
        BY <1>2, <3>1, <3>2
    <3>4. CASE i = m
      BY <3>3, <3>4
    <3>5. CASE i # m
      <4>1. i \in (m + 1)..L
        BY <1>1, <3>5
      <4>2. g[i] = F(g, i)
        BY <2>2, <4>1
      <4> QED
        BY <2>3, <3>3, <4>1, <4>2
    <3> QED
      BY <3>4, <3>5
  <2>5. f = [i \in m..L |-> f[i]]
    OBVIOUS
  <2>6. Obeys(f, m)
    <3> HIDE DEF f
    <3> QED
      BY <2>4, <2>5
  <2> QED
    BY <2>6
<1>4. Bad = {}
  <2> SUFFICES ASSUME Bad # {} PROVE FALSE
    OBVIOUS
  <2>0. Bad \in SUBSET Nat /\ Bad # {}
    BY <1>1
  <2>1. PICK n \in Bad : \A x \in Bad : n <= x
    <3> HIDE DEF Bad
    <3> QED
      BY <2>0, Least
  <2>2. n \in 0..L /\ L - n \in 0..L /\ ~ \E f : Obeys(f, L - n)
    BY <1>1
  <2>3. L - n # L
    BY <1>3, <2>2
  <2>4. n - 1 \in 0..L /\ n - 1 \notin Bad /\ L - (n - 1) = L - n + 1
    BY <1>1, <2>1, <2>2, <2>3
  <2>5. \E g : Obeys(g, L - n + 1)
    BY <2>4
  <2> QED
    BY <1>3, <2>2, <2>5
<1>5. \E f : Obeys(f, 0)
  <2>1. L \in 0..L /\ L - L = 0
    BY <1>1
  <2>2. L \notin Bad
    BY <1>4
  <2>3. \E f : Obeys(f, L - L)
    BY <2>1, <2>2
  <2> QED
    BY <2>1, <2>3
<1>6. Recovery(type, file) = CHOOSE f : Obeys(f, 0)
  BY DEF Recovery, From, F, L
<1>7. Obeys(Recovery(type, file), 0)
  BY <1>5, <1>6
<1> QED
  BY <1>7 DEF F, L


\* What recovery may give: an error, or a sequence of records.
Found(type, file) ==
  Writes \cup Edits \cup UNION {Decode(type, SubSeq(file, x, y)) : x \in Int, y \in Int}
Outcome(type, file, s) ==
  s = Corruption \/ \E q \in Seq(Found(type, file)) : s = Ended(q)

\* A sequence with one element put in front.
LEMMA Prepend ==
  ASSUME NEW V, NEW x \in V, NEW q \in Seq(V)
  PROVE  /\ <<x>> \o q \in Seq(V) /\ Len(<<x>> \o q) = Len(q) + 1
         /\ (<<x>> \o q)[1] = x
         /\ \A j \in 2..(Len(q) + 1) : (<<x>> \o q)[j] = q[j - 1]
<1>1. <<x>> \in Seq(V) /\ Len(<<x>>) = 1 /\ <<x>>[1] = x
  OBVIOUS
<1>2. <<x>> \o q \in Seq(V) /\ Len(<<x>> \o q) = Len(q) + 1
  BY <1>1
<1>3. (<<x>> \o q)[1] = x
  BY <1>1
<1>4. \A j \in 2..(Len(q) + 1) : (<<x>> \o q)[j] = q[j - 1]
  BY <1>1
<1> QED
  BY <1>2, <1>3, <1>4

\* The fields of what recovery gives.
LEMMA OutcomeFields ==
  ASSUME NEW type, NEW file, NEW s, Outcome(type, file, s)
  PROVE  /\ s.ok \in BOOLEAN
         /\ ~s.ok <=> s = Corruption
         /\ s.ok => s.records \in Seq(Found(type, file)) /\ s = Ended(s.records)
<1>1. CASE s = Corruption
  <2>1. s.ok = FALSE
    BY <1>1 DEF Corruption
  <2> QED
    BY <1>1, <2>1
<1>2. CASE \E q \in Seq(Found(type, file)) : s = Ended(q)
  <2>1. PICK q \in Seq(Found(type, file)) : s = Ended(q)
    BY <1>2
  <2>2. s.ok = TRUE /\ s.records = q
    BY <2>1 DEF Ended
  <2>3. Corruption.ok = FALSE
    BY DEF Corruption
  <2>4. s # Corruption
    BY <2>2, <2>3
  <2> QED
    BY <2>1, <2>2, <2>4
<1> QED
  BY <1>1, <1>2 DEF Outcome

\* Recovery gives such a thing from every place, be the file laid out or not.
LEMMA RecoveryOutcome ==
  ASSUME NEW type, NEW file \in Seq(Nat)
  PROVE  \A i \in 0..Len(file) : Outcome(type, file, Recovery(type, file)[i])
<1> DEFINE L == Len(file)
           R == Recovery(type, file)
           Bad == {n \in 0..L : ~Outcome(type, file, R[L - n])}
<1>1. L \in Nat
  OBVIOUS
<1>2. \A i \in 0..L : R[i] = From(type, file, R, i)
  BY RecoveryIs
<1> HIDE DEF R
<1>3. Bad = {}
  <2> SUFFICES ASSUME Bad # {} PROVE FALSE
    OBVIOUS
  <2>1. Bad \in SUBSET Nat /\ Bad # {}
    BY <1>1
  <2>2. PICK n \in Bad : \A x \in Bad : n <= x
    <3> HIDE DEF Bad
    <3> QED
      BY <2>1, Least
  <2> DEFINE i       == L - n
             len     == file[i + 1] + Base * file[i + 2]
             payload == SubSeq(file, i + 5, i + 4 + len)
             rest    == R[i + 4 + len]
  <2>3. n \in 0..L /\ i \in 0..L /\ i \in Int /\ ~Outcome(type, file, R[i])
    BY <1>1
  <2>4. R[i] = From(type, file, R, i)
    BY <1>2, <2>3
  <2>5. i + 4 <= L /\ ~CutShort(file, i, len)
    <3> SUFFICES ASSUME i + 4 > L \/ CutShort(file, i, len) PROVE FALSE
      BY <2>3
    <3>1. R[i] = Ended(<<>>)
      BY <2>4 DEF From
    <3>2. <<>> \in Seq(Found(type, file))
      OBVIOUS
    <3> QED
      BY <2>3, <3>1, <3>2 DEF Outcome
  <2>6. len \in Nat /\ i + 4 + len \in (i + 1)..L
    BY <2>3, <2>5, NextPlace
  <2>7. ~(i + 4 > L \/ CutShort(file, i, len))
    BY <2>3, <2>5
  <2>8. ~Damaged(type, file, i, payload) /\ rest.ok
    <3> SUFFICES ASSUME Damaged(type, file, i, payload) \/ ~rest.ok PROVE FALSE
      OBVIOUS
    <3>1. R[i] = Corruption
      BY <2>4, <2>7 DEF From
    <3> QED
      BY <2>3, <3>1 DEF Outcome
  <2> DEFINE r == CHOOSE r \in Decode(type, payload) : TRUE
  <2>9. R[i] = Ended(<<r>> \o rest.records)
    BY <2>4, <2>7, <2>8 DEF From
  <2>10. r \in Found(type, file)
    <3>1. Decode(type, payload) # {}
      BY <2>8 DEF Damaged
    <3>2. r \in Decode(type, payload)
      BY <3>1
    <3>3. i + 5 \in Int /\ i + 4 + len \in Int
      BY <2>3, <2>6
    <3> HIDE DEF r, len, i
    <3> QED
      BY <3>2, <3>3 DEF Found
  <2>11. Outcome(type, file, rest)
    <3> DEFINE m == L - (i + 4 + len)
    <3>1. m \in 0..L /\ m < n /\ L - m = i + 4 + len
      <4> HIDE DEF len
      <4> QED
        BY <1>1, <2>3, <2>6
    <3>2. m \notin Bad
      <4> HIDE DEF m, Bad
      <4> QED
        BY <2>2, <2>3, <3>1
    <3> QED
      BY <3>1, <3>2
  <2> HIDE DEF r, rest
  <2>12. rest.records \in Seq(Found(type, file))
    BY <2>8, <2>11, OutcomeFields
  <2>13. <<r>> \o rest.records \in Seq(Found(type, file))
    BY <2>10, <2>12, Prepend
  <2> QED
    BY <2>3, <2>9, <2>13 DEF Outcome
<1>4. ASSUME NEW i \in 0..L PROVE Outcome(type, file, R[i])
  <2>1. L - i \in 0..L /\ L - (L - i) = i
    BY <1>1
  <2>2. L - i \notin Bad
    BY <1>3
  <2> QED
    BY <2>1, <2>2
<1> QED
  BY <1>4 DEF R

\* A record of the file that got there whole, or not.
IsWhole(k, c, b, i) == Place(c, b, i + 1) - Place(c, b, i) = Len(FrameIn(k, b[i].rec))

\* Of a record that is whole recovery makes that record, and goes on at the next.
LEMMA RecordRead ==
  ASSUME NEW k \in Kinds, NEW c \in Seq(Nat), NEW b \in Seq(Entry), LaidOut(k, c, b),
         NEW i \in 1..Len(b), IsWhole(k, c, b, i)
  PROVE  LET R == Recovery(k, c)
         IN /\ ~R[Place(c, b, i + 1)].ok => R[Place(c, b, i)] = Corruption
            /\ R[Place(c, b, i + 1)].ok =>
                 R[Place(c, b, i)] = Ended(<<b[i].rec>> \o R[Place(c, b, i + 1)].records)
<1> DEFINE R       == Recovery(k, c)
           at      == Place(c, b, i)
           to      == Place(c, b, i + 1)
           r       == b[i].rec
           f       == FrameIn(k, r)
           p       == Encode(k, r)
           len     == c[at + 1] + Base * c[at + 2]
           payload == SubSeq(c, at + 5, at + 4 + len)
<1>1. r \in RecordsIn(k) /\ \A j \in (at + 1)..to : c[j] = f[j - at]
  BY DEF LaidOut, Place
<1>2. at \in 0..Len(c) /\ to \in 0..Len(c) /\ Len(c) \in Nat
  BY PlaceType
<1>3. /\ f \in Seq(Nat) /\ Len(f) = 4 + Len(p)
      /\ f[1] + Base * f[2] = Len(p)
      /\ <<f[3], f[4]>> = Crc(p)
      /\ \A j \in 5..(4 + Len(p)) : f[j] = p[j - 4]
  BY <1>1, FrameIs
<1>4. p \in Seq(Nat) /\ Decode(k, p) = {r}
  BY <1>1, PayloadOf
<1>5. to - at = Len(f)
  BY DEF IsWhole
<1>6. R[at] = From(k, c, R, at)
  BY <1>2, RecoveryIs
<1> HIDE DEF at, to, f, p, r, R
<1>7. Len(p) \in Nat /\ to = at + 4 + Len(p)
  BY <1>2, <1>3, <1>4, <1>5
<1>8. c[at + 1] = f[1] /\ c[at + 2] = f[2] /\ c[at + 3] = f[3] /\ c[at + 4] = f[4]
  <2>1. ASSUME NEW j \in 1..(4 + Len(p)) PROVE c[at + j] = f[j]
    <3> DEFINE x == at + j
    <3>1. x \in (at + 1)..to /\ x - at = j
      BY <1>2, <1>7
    <3> HIDE DEF x
    <3>2. c[x] = f[x - at]
      BY <1>1, <3>1
    <3>3. c[x] = f[j]
      BY <3>1, <3>2
    <3> QED
      BY <3>3 DEF x
  <2>2. 1 \in 1..(4 + Len(p)) /\ 2 \in 1..(4 + Len(p)) /\ 3 \in 1..(4 + Len(p)) /\ 4 \in 1..(4 + Len(p))
    BY <1>7
  <2> QED
    BY <2>1, <2>2, Zenon
<1>9. len = Len(p) /\ at + 4 + len = to
  BY <1>3, <1>7, <1>8
<1>10. payload = p
  <2> DEFINE first == at + 5
             last  == first + Len(p) - 1
  <2>1. first \in Nat \ {0} /\ last <= Len(c) /\ last = at + 4 + len
    BY <1>2, <1>7, <1>9
  <2>2. ASSUME NEW x \in first..last PROVE c[x] = p[x - first + 1]
    <3>1. x \in (at + 1)..to /\ x - at \in 5..(4 + Len(p))
      BY <1>2, <1>7
    <3>2. x - at - 4 = x - first + 1
      BY <1>2
    <3>3. c[x] = f[x - at]
      BY <1>1, <3>1
    <3>4. f[x - at] = p[x - at - 4]
      BY <1>3, <3>1
    <3> QED
      BY <3>2, <3>3, <3>4
  <2>3. payload = SubSeq(c, first, first + Len(p) - 1)
    BY <2>1
  <2> HIDE DEF first, payload
  <2>4. Slice(c, first, Len(p)) = p
    BY <1>4, <1>7, <2>1, <2>2, SliceIs
  <2> QED
    BY <2>3, <2>4 DEF Slice
<1>11. ~(at + 4 > Len(c) \/ CutShort(c, at, len))
  <2>1. at + 4 <= Len(c)
    BY <1>2, <1>7
  <2>2. ~(at + 4 + len > Len(c))
    BY <1>2, <1>9
  <2> QED
    BY <1>2, <2>1, <2>2 DEF CutShort
<1>12. ~Damaged(k, c, at, payload)
  BY <1>3, <1>4, <1>8, <1>10 DEF Damaged
<1>13. (CHOOSE x \in Decode(k, payload) : TRUE) = r
  BY <1>4, <1>10
<1>14. R[at + 4 + len] = R[to]
  BY <1>9
<1>15. ~R[to].ok => R[at] = Corruption
  BY <1>6, <1>11, <1>14 DEF From
<1>16. R[to].ok => R[at] = Ended(<<r>> \o R[to].records)
  <2> HIDE DEF payload, len
  <2>1. R[at] = IF Damaged(k, c, at, payload) \/ ~R[at + 4 + len].ok THEN Corruption
                ELSE Ended(<<CHOOSE x \in Decode(k, payload) : TRUE>> \o R[at + 4 + len].records)
    BY <1>6, <1>11 DEF From, payload, len
  <2> QED
    BY <2>1, <1>12, <1>13, <1>14
<1> QED
  BY <1>15, <1>16 DEF at, to, r, R

\* Recovery ends at the end of the file, and at a stump that nothing follows.
LEMMA EndRead ==
  ASSUME NEW k \in Kinds, NEW c \in Seq(Nat), NEW b \in Seq(Entry), LaidOut(k, c, b),
         NEW i \in 1..(Len(b) + 1),
         i = Len(b) + 1 \/ (i = Len(b) /\ ~IsWhole(k, c, b, i))
  PROVE  Recovery(k, c)[Place(c, b, i)] = Ended(<<>>)
<1> DEFINE R   == Recovery(k, c)
           at  == Place(c, b, i)
           len == c[at + 1] + Base * c[at + 2]
<1>1. at \in 0..Len(c) /\ Len(c) \in Nat
  BY PlaceType
<1>2. R[at] = From(k, c, R, at)
  BY <1>1, RecoveryIs
<1>3. at + 4 > Len(c) \/ CutShort(c, at, len)
  <2>1. CASE i = Len(b) + 1
    <3>1. at = Len(c)
      BY <2>1 DEF Place
    <3> QED
      BY <1>1, <3>1
  <2>2. CASE i = Len(b) /\ ~IsWhole(k, c, b, i) /\ at + 4 <= Len(c)
    <3> DEFINE r == b[i].rec
               f == FrameIn(k, r)
               p == Encode(k, r)
    <3>1. i \in 1..Len(b) /\ Place(c, b, i + 1) = Len(c)
      BY <2>2 DEF Place
    <3>2. /\ r \in RecordsIn(k) /\ at < Len(c) /\ Len(c) <= at + Len(f)
          /\ \A j \in (at + 1)..Len(c) : c[j] = f[j - at]
      BY <3>1 DEF LaidOut, Place
    <3>3. Len(c) - at # Len(f)
      BY <2>2, <3>1 DEF IsWhole
    <3>4. Len(f) = 4 + Len(p) /\ f[1] + Base * f[2] = Len(p) /\ p \in Seq(Nat)
      BY <3>2, FrameIs, PayloadOf
    <3>5. at + 4 <= Len(c)
      BY <2>2
    <3> HIDE DEF at, r, f, p
    <3>6. c[at + 1] = f[1] /\ c[at + 2] = f[2]
      BY <1>1, <3>2, <3>5
    <3>7. len = Len(p)
      BY <3>4, <3>6
    <3>8. at + 4 + len > Len(c)
      <4> HIDE DEF len
      <4>1. Len(p) \in Nat
        BY <3>4
      <4>2. len \in Nat /\ Len(f) = 4 + len
        BY <3>4, <3>7, <4>1
      <4>3. Len(c) <= at + Len(f) /\ Len(c) - at # Len(f)
        BY <3>2, <3>3
      <4>4. Len(c) # at + 4 + len /\ Len(c) <= at + 4 + len
        BY <1>1, <4>2, <4>3
      <4> QED
        BY <1>1, <4>2, <4>4
    <3> QED
      BY <3>8 DEF CutShort
  <2>3. CASE at + 4 > Len(c)
    BY <2>3
  <2> QED
    BY <1>1, <2>1, <2>2, <2>3
<1> HIDE DEF at, R
<1>4. From(k, c, R, at) = Ended(<<>>)
  BY <1>3 DEF From
<1> QED
  BY <1>2, <1>4 DEF at, R

\* The sequence q begins with the records of b from i to w.
Reads(b, w, i, q) ==
  Len(q) >= w + 1 - i /\ \A j \in i..w : q[j - i + 1] = b[j].rec

\* With the record before put in front, q reads from there.
LEMMA ReadsMore ==
  ASSUME NEW V, NEW q \in Seq(V), NEW b \in Seq(Entry), NEW w \in Nat, NEW i \in 1..w,
         b[i].rec \in V, Reads(b, w, i + 1, q)
  PROVE  LET s == <<b[i].rec>> \o q
         IN s \in Seq(V) /\ Len(s) = Len(q) + 1 /\ Reads(b, w, i, s)
<1> DEFINE x == b[i].rec
           s == <<x>> \o q
<1>1. x \in V
  OBVIOUS
<1>2. Len(q) \in Nat /\ Len(q) >= w + 1 - (i + 1) /\ \A j \in (i + 1)..w : q[j - (i + 1) + 1] = b[j].rec
  BY DEF Reads
<1> HIDE DEF x
<1>3. /\ s \in Seq(V) /\ Len(s) = Len(q) + 1
      /\ s[1] = x
      /\ \A j \in 2..(Len(q) + 1) : s[j] = q[j - 1]
  BY <1>1, Prepend
<1> HIDE DEF s
<1>4. Len(s) >= w + 1 - i
  BY <1>2, <1>3
<1>5. ASSUME NEW j \in i..w PROVE s[j - i + 1] = b[j].rec
  <2>1. CASE j = i
    <3>1. j - i + 1 = 1
      BY <2>1
    <3> QED
      BY <2>1, <3>1, <1>3 DEF x
  <2>2. CASE j # i
    <3>1. j \in (i + 1)..w /\ j - i + 1 \in 2..(Len(q) + 1) /\ j - i + 1 - 1 = j - (i + 1) + 1
      BY <2>2, <1>2
    <3>2. q[j - (i + 1) + 1] = b[j].rec
      BY <1>2, <3>1
    <3>3. s[j - i + 1] = q[j - i + 1 - 1]
      BY <1>3, <3>1
    <3> QED
      BY <3>1, <3>2, <3>3
  <2> QED
    BY <2>1, <2>2
<1> QED
  BY <1>3, <1>4, <1>5 DEF Reads, s, x

\* When the first w records are whole, a recovery that succeeds yields them; and
\* it does succeed, and yields no more, when it ends at the next one.
LEMMA WholeAreRead ==
  ASSUME NEW k \in Kinds, NEW c \in Seq(Nat), NEW b \in Seq(Entry), LaidOut(k, c, b),
         NEW w \in 0..Len(b), \A i \in 1..w : IsWhole(k, c, b, i)
  PROVE  LET R == Recovery(k, c)
         IN /\ R[0].ok => Reads(b, w, 1, R[0].records)
            /\ R[Place(c, b, w + 1)] = Ended(<<>>) => R[0].ok /\ Len(R[0].records) = w
<1> DEFINE R       == Recovery(k, c)
           s(i)    == R[Place(c, b, i)]
           Ends    == s(w + 1) = Ended(<<>>)
           Good(i) == /\ s(i).ok => Reads(b, w, i, s(i).records)
                      /\ Ends => s(i).ok /\ Len(s(i).records) = w + 1 - i
           Bad     == {n \in 0..w : ~Good(w + 1 - n)}
<1>1. Len(b) \in Nat /\ w \in Nat /\ w <= Len(b)
  OBVIOUS
<1>2. ASSUME NEW i \in 1..(w + 1) PROVE Outcome(k, c, s(i))
  <2>1. i \in 1..(Len(b) + 1)
    BY <1>1
  <2>2. Place(c, b, i) \in 0..Len(c)
    BY <2>1, PlaceType
  <2> QED
    BY <2>2, RecoveryOutcome
<1>3. ASSUME NEW i \in 1..w
      PROVE  /\ b[i].rec \in Found(k, c)
             /\ ~s(i + 1).ok => s(i) = Corruption
             /\ s(i + 1).ok => s(i) = Ended(<<b[i].rec>> \o s(i + 1).records)
  <2>1. i \in 1..Len(b) /\ IsWhole(k, c, b, i)
    BY <1>1
  <2>2. b[i].rec \in Writes \cup Edits
    <3>1. b[i] \in Entry
      BY <2>1
    <3> QED
      BY <3>1 DEF Entry
  <2>3. b[i].rec \in Found(k, c)
    BY <2>2 DEF Found
  <2> QED
    BY <2>1, <2>3, RecordRead
<1> HIDE DEF s
<1>4. Good(w + 1)
  <2>1. ASSUME s(w + 1).ok PROVE Reads(b, w, w + 1, s(w + 1).records)
    <3>1. w + 1 \in 1..(w + 1)
      BY <1>1
    <3>2. s(w + 1).records \in Seq(Found(k, c))
      BY <2>1, <3>1, <1>2, OutcomeFields
    <3>3. Len(s(w + 1).records) \in Nat
      BY <3>2
    <3> QED
      BY <1>1, <3>3 DEF Reads
  <2>2. ASSUME Ends PROVE s(w + 1).ok /\ Len(s(w + 1).records) = w + 1 - (w + 1)
    <3>1. s(w + 1).ok /\ s(w + 1).records = <<>>
      BY <2>2 DEF Ended
    <3> QED
      BY <1>1, <3>1
  <2> QED
    BY <2>1, <2>2
<1>5. ASSUME NEW i \in 1..w, Good(i + 1) PROVE Good(i)
  <2> DEFINE q == s(i + 1).records
  <2>1. i + 1 \in 1..(w + 1)
    BY <1>1
  <2>2. CASE ~s(i + 1).ok
    <3>1. s(i) = Corruption /\ ~Ends
      BY <2>2, <1>3, <1>5
    <3>2. ~s(i).ok
      BY <3>1 DEF Corruption
    <3> QED
      BY <3>1, <3>2
  <2>3. CASE s(i + 1).ok
    <3>1. q \in Seq(Found(k, c)) /\ Reads(b, w, i + 1, q)
      BY <2>1, <2>3, <1>2, <1>5, OutcomeFields
    <3>2. s(i) = Ended(<<b[i].rec>> \o q)
      BY <2>3, <1>3
    <3>3. b[i].rec \in Found(k, c)
      BY <1>3
    <3> HIDE DEF q
    <3> DEFINE m == <<b[i].rec>> \o q
    <3>4. Len(m) = Len(q) + 1 /\ Reads(b, w, i, m)
      BY <1>1, <3>1, <3>3, ReadsMore
    <3>5. s(i).ok /\ s(i).records = m
      BY <3>2 DEF Ended
    <3> HIDE DEF m
    <3>6. Ends => Len(s(i).records) = w + 1 - i
      <4>1. Ends => Len(q) = w + 1 - (i + 1)
        BY <1>5 DEF q
      <4> QED
        BY <1>1, <3>4, <3>5, <4>1
    <3> QED
      BY <3>4, <3>5, <3>6
  <2> QED
    BY <2>2, <2>3
<1> HIDE DEF Good
<1>6. Bad = {}
  <2> SUFFICES ASSUME Bad # {} PROVE FALSE
    OBVIOUS
  <2>1. Bad \in SUBSET Nat /\ Bad # {}
    BY <1>1
  <2>2. PICK n \in Bad : \A x \in Bad : n <= x
    <3> HIDE DEF Bad
    <3> QED
      BY <2>1, Least
  <2>3. n \in 0..w /\ ~Good(w + 1 - n)
    OBVIOUS
  <2>4. n # 0
    <3> SUFFICES ASSUME n = 0 PROVE FALSE
      OBVIOUS
    <3>1. w + 1 - n = w + 1
      BY <1>1
    <3> QED
      BY <1>4, <2>3, <3>1
  <2>5. n - 1 \in 0..w /\ n - 1 < n /\ w + 1 - n \in 1..w /\ w + 1 - (n - 1) = (w + 1 - n) + 1
    BY <1>1, <2>3, <2>4
  <2>6. n - 1 \notin Bad
    <3> HIDE DEF Bad
    <3> QED
      BY <2>2, <2>3, <2>5
  <2>7. Good(w + 1 - (n - 1))
    BY <2>5, <2>6
  <2>8. Good((w + 1 - n) + 1)
    BY <2>5, <2>7
  <2> QED
    BY <1>5, <2>3, <2>5, <2>8
<1>7. Good(1)
  <2>1. w \in 0..w /\ w + 1 - w = 1
    BY <1>1
  <2>2. w \notin Bad
    BY <1>6
  <2> QED
    BY <2>1, <2>2
<1>8. s(1) = R[0]
  BY DEF LaidOut, s
<1>9. Ends => Len(s(1).records) = w
  <2>1. w + 1 - 1 = w
    BY <1>1
  <2> QED
    BY <1>7, <2>1 DEF Good
<1>10. s(1).ok => Reads(b, w, 1, s(1).records)
  BY <1>7 DEF Good
<1>11. Ends => s(1).ok
  BY <1>7 DEF Good
<1>12. R[0].ok => Reads(b, w, 1, R[0].records)
  BY <1>8, <1>10
<1>13. R[Place(c, b, w + 1)] = Ended(<<>>) => R[0].ok /\ Len(R[0].records) = w
  BY <1>8, <1>9, <1>11 DEF s
<1> QED
  BY <1>12, <1>13 DEF R

\* Which records are stumps, and which one is the first.
LEMMA WholeIs ==
  ASSUME LogInv
  PROVE  /\ \A i \in 1..Len(begun) : i \in Stumps <=> ~IsWhole(kind, cells, begun, i)
         /\ Whole \in 0..Len(begun)
         /\ \A i \in 1..Whole : i \notin Stumps
         /\ Whole = Len(begun) \/ Whole + 1 \in Stumps
<1> DEFINE l == Len(begun)
           S == Stumps \cup {l + 1}
<1>1. begun \in Seq(Entry) /\ cells \in Seq(Nat) /\ l \in Nat /\ DOMAIN begun = 1..l
  BY BegunIn DEF LogInv, TypeOK
<1>2. LaidOut(kind, cells, begun)
  BY DEF LogInv
<1>3. ASSUME NEW i \in 1..l PROVE i \in Stumps <=> ~IsWhole(kind, cells, begun, i)
  <2> DEFINE n == Len(FrameOf(begun[i].rec))
  <2>1. n = Len(FrameIn(kind, begun[i].rec))
    BY DEF FrameOf, FrameIn
  <2>2. Place(cells, begun, i) = begun[i].start
    BY <1>1 DEF Place
  <2>3. Place(cells, begun, i + 1) = End(i)
    <3>1. i \in 1..l /\ l \in Nat
      BY <1>1
    <3> HIDE DEF l
    <3>2. i = l => ~(i + 1 <= l)
      BY <3>1
    <3>3. i # l => i + 1 <= l
      BY <3>1
    <3> QED
      BY <3>2, <3>3 DEF Place, End, l
  <2>4. End(i) <= begun[i].start + n
    BY <1>2, <2>1, <2>3 DEF LaidOut
  <2>5. begun[i].start \in Int /\ End(i) \in Int /\ n \in Int
    <3>1. Place(cells, begun, i) \in Int /\ Place(cells, begun, i + 1) \in Int
      BY <1>1, <1>2, PlaceType
    <3>2. begun[i].rec \in RecordsIn(kind) /\ kind \in Kinds
      BY <1>2 DEF LaidOut, LogInv, TypeOK
    <3>3. FrameIn(kind, begun[i].rec) \in Seq(Nat)
      BY <3>2, FrameIs
    <3> QED
      BY <2>1, <2>2, <2>3, <3>1, <3>3
  <2>6. i \in Stumps <=> End(i) - begun[i].start < n
    BY <1>1 DEF Stumps, Stump
  <2>7. IsWhole(kind, cells, begun, i) <=> End(i) - begun[i].start = n
    BY <2>1, <2>2, <2>3 DEF IsWhole
  <2> HIDE DEF n
  <2> QED
    BY <2>4, <2>5, <2>6, <2>7
<1>4. S \in SUBSET Nat /\ S # {}
  BY <1>1 DEF Stumps
<1>5. PICK m \in S : \A x \in S : m <= x
  <2> HIDE DEF S
  <2> QED
    BY <1>4, Least
<1>6. Min(S) = m
  <2>1. \A x \in S : m <= x
    BY <1>5
  <2>2. \A y \in S : (\A x \in S : y <= x) => y = m
    <3> SUFFICES ASSUME NEW y \in S, \A x \in S : y <= x PROVE y = m
      OBVIOUS
    <3>1. y <= m /\ m <= y
      BY <1>5
    <3>2. y \in Nat /\ m \in Nat
      BY <1>4
    <3> QED
      BY <3>1, <3>2
  <2> HIDE DEF S
  <2> QED
    BY <1>5, <2>1, <2>2 DEF Min
<1>7. Whole = m - 1
  BY <1>6 DEF Whole
<1>8. m \in 1..(l + 1)
  BY <1>1, <1>5 DEF Stumps
<1>9. \A i \in 1..Whole : i \notin Stumps
  <2> SUFFICES ASSUME NEW i \in 1..Whole, i \in Stumps PROVE FALSE
    OBVIOUS
  <2>1. m <= i
    BY <1>5
  <2> QED
    BY <1>7, <1>8, <2>1
<1>10. Whole \in 0..l
  BY <1>1, <1>7, <1>8
<1>11. Whole = l \/ Whole + 1 \in Stumps
  BY <1>1, <1>5, <1>7, <1>8
<1> QED
  BY <1>3, <1>9, <1>10, <1>11

\* What recovery makes of a file that is laid out.
LEMMA RecoveryOfLaidOut ==
  ASSUME LogInv
  PROVE  LET r == Recover(kind, cells)
         IN /\ r.ok => /\ r.records \in Seq(Found(kind, cells))
                       /\ Reads(begun, Whole, 1, r.records)
            /\ ~AppendedBehindStump => r.ok /\ Len(r.records) = Whole
<1> DEFINE r == Recover(kind, cells)
           l == Len(begun)
           at == Place(cells, begun, Whole + 1)
<1>1. /\ begun \in Seq(Entry) /\ cells \in Seq(Nat) /\ l \in Nat /\ kind \in Kinds
      /\ LaidOut(kind, cells, begun)
  BY BegunIn DEF LogInv, TypeOK
<1>2. Whole \in 0..l /\ \A i \in 1..Whole : IsWhole(kind, cells, begun, i)
  <2>1. Whole \in 0..l
    BY WholeIs
  <2>2. ASSUME NEW i \in 1..Whole PROVE IsWhole(kind, cells, begun, i)
    <3>1. i \in 1..l /\ i \notin Stumps
      BY <1>1, <2>1, WholeIs
    <3> QED
      BY <3>1, WholeIs
  <2> QED
    BY <2>1, <2>2
<1>3. /\ r.ok => Reads(begun, Whole, 1, r.records)
      /\ Recovery(kind, cells)[at] = Ended(<<>>) => r.ok /\ Len(r.records) = Whole
  BY <1>1, <1>2, WholeAreRead DEF Recover
<1>4. r.ok => r.records \in Seq(Found(kind, cells))
  <2>1. 0 \in 0..Len(cells)
    BY <1>1
  <2>2. Outcome(kind, cells, r)
    BY <1>1, <2>1, RecoveryOutcome DEF Recover
  <2> QED
    BY <2>2, OutcomeFields
<1>5. ASSUME ~AppendedBehindStump PROVE Recovery(kind, cells)[at] = Ended(<<>>)
  <2>1. Whole + 1 \in 1..(l + 1)
    BY <1>1, <1>2
  <2>2. Whole + 1 = l + 1 \/ (Whole + 1 = l /\ ~IsWhole(kind, cells, begun, Whole + 1))
    <3>1. CASE Whole = l
      BY <3>1
    <3>2. CASE Whole # l
      <4>1. Whole + 1 \in Stumps /\ Whole + 1 \in 1..l
        BY <1>1, <1>2, <3>2, WholeIs
      <4>2. ~(Whole + 1 < l)
        BY <1>5, <4>1 DEF AppendedBehindStump
      <4>3. Whole + 1 = l
        BY <1>1, <4>1, <4>2
      <4>4. ~IsWhole(kind, cells, begun, Whole + 1)
        BY <4>1, WholeIs
      <4> QED
        BY <4>3, <4>4
    <3> QED
      BY <3>1, <3>2
  <2> QED
    BY <1>1, <2>1, <2>2, EndRead
<1> QED
  BY <1>3, <1>4, <1>5

\* FailsOnlyBehindStump: a single crash, at whatever byte, never leaves a file that
\* Wal::recover or Manifest::recover refuses.
THEOREM CrashedFileOpens == Spec => []FailsOnlyBehindStump
<1>1. LogInv => FailsOnlyBehindStump
  BY RecoveryOfLaidOut DEF FailsOnlyBehindStump
<1> QED
  BY <1>1, AlwaysLaidOut, PTL

\* RecoversWholeRecords: a recovery that succeeds yields what was appended before the
\* first stump, and nothing else when nothing was appended behind that one.
THEOREM RecoveryIsThePrefix == Spec => []RecoversWholeRecords
<1>1. ASSUME LogInv PROVE RecoversWholeRecords
  <2> DEFINE r == Recover(kind, cells)
             q == r.records
  <2> SUFFICES ASSUME r.ok
               PROVE  IsPrefix(Kept, q) /\ (AppendedBehindStump \/ q = Kept)
    BY DEF RecoversWholeRecords
  <2>1. q \in Seq(Found(kind, cells)) /\ Reads(begun, Whole, 1, q)
    BY <1>1, RecoveryOfLaidOut
  <2>2. ~AppendedBehindStump => Len(q) = Whole
    BY <1>1, RecoveryOfLaidOut
  <2>3. Whole \in Nat
    <3>1. Whole \in 0..Len(begun) /\ Len(begun) \in Nat
      BY <1>1, WholeIs, BegunIn DEF LogInv, TypeOK
    <3> QED
      BY <3>1
  <2> HIDE DEF q
  <2>4. Len(q) >= Whole /\ \A i \in 1..Whole : q[i] = begun[i].rec
    <3>1. Len(q) >= Whole + 1 - 1 /\ \A i \in 1..Whole : q[i - 1 + 1] = begun[i].rec
      BY <2>1 DEF Reads
    <3>2. \A i \in 1..Whole : i - 1 + 1 = i
      BY <2>3
    <3> QED
      BY <2>3, <3>1, <3>2
  <2>5. Len(q) \in Nat /\ DOMAIN q = 1..Len(q) /\ DOMAIN Kept = 1..Whole
    BY <2>1 DEF Kept
  <2>6. \A i \in 1..Whole : Kept[i] = q[i]
    BY <2>4 DEF Kept
  <2>7. Len(Kept) = Whole
    BY <2>3 DEF Kept
  <2>8. IsPrefix(Kept, q)
    BY <2>3, <2>4, <2>5, <2>6, <2>7 DEF IsPrefix
  <2>9. Len(q) = Whole => q = Kept
    <3> SUFFICES ASSUME Len(q) = Whole PROVE q = Kept
      OBVIOUS
    <3>1. q = [i \in 1..Whole |-> q[i]]
      BY <2>1, <2>5
    <3>2. Kept = [i \in 1..Whole |-> Kept[i]]
      BY DEF Kept
    <3> QED
      BY <2>6, <3>1, <3>2
  <2> QED
    BY <2>2, <2>8, <2>9
<1> QED
  BY <1>1, AlwaysLaidOut, PTL
=============================================================================
