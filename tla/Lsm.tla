-------------------------------- MODULE Lsm --------------------------------
(***************************************************************************)
(* The data of the engine and the pure functions over it: versioned        *)
(* records, sorted tables, the levels of a Version, point lookup, and one  *)
(* compaction.  No state: the modules Db and DbDisk hold it.               *)
(*                                                                         *)
(* Byte strings are abstracted to the order the code compares them by: a   *)
(* user key is a natural number, a value a model value.  A Delete record   *)
(* (ValueKind::Delete, always with an empty value) is a record whose value *)
(* is Tomb.  Every size the code counts in bytes is counted in records.    *)
(***************************************************************************)
EXTENDS Integers, Sequences, FiniteSets, FiniteSetsExt

CONSTANTS
  Keys,            \* user keys
  Vals,            \* values a put may write
  Tomb,            \* the mark of a Delete record
  MaxSeq,          \* the largest sequence number (u64::MAX in the code)
  MaxLevels,       \* Options.max_levels
  L0Trigger,       \* Options.l0_compaction_trigger
  BaseLevelBytes,  \* Options.base_level_bytes
  LevelRatio,      \* Options.level_ratio
  TargetFileSize   \* Options.target_file_size

ASSUME LsmAssumption ==
  /\ Keys \subseteq Nat
  /\ Tomb \notin Vals
  /\ MaxSeq \in Nat
  /\ MaxLevels \in Nat /\ MaxLevels >= 2   \* fewer levels panic at compact.rs:49
  /\ L0Trigger \in Nat \ {0}               \* zero stalls every write
  /\ BaseLevelBytes \in Nat
  /\ LevelRatio \in Nat \ {0}
  /\ TargetFileSize \in Nat \ {0}

Record == [key : Keys, seq : 1..MaxSeq, val : Vals \cup {Tomb}]
Table  == [num : Nat, lo : Keys, hi : Keys, recs : SUBSET Record]
Level  == 0..(MaxLevels - 1)
Levels == [Level -> SUBSET Table]

NoValue == "none"     \* what get() answers for a key that is not there

-----------------------------------------------------------------------------
(* Reading.  InternalKey sorts by key, then by descending seq, so the first *)
(* record of a key that is not above max is the newest visible one.         *)

Visible(S, k, max) == {r \in S : r.key = k /\ r.seq <= max}

Newest(S) == CHOOSE r \in S : \A q \in S : q.seq <= r.seq

\* The answer to a read that found the records in S, newest first.
Answer(S) == IF S = {} \/ Newest(S).val = Tomb THEN NoValue ELSE Newest(S).val

MkTable(num, S) ==
  [num |-> num, lo |-> Min({r.key : r \in S}), hi |-> Max({r.key : r \in S}), recs |-> S]

Covers(t, k) == t.lo <= k /\ k <= t.hi

\* SsTable::get: the range test, then the records of the key.  The bloom
\* filter has no false negative, so it never changes what is found.
TableGet(t, k, max) == IF Covers(t, k) THEN Visible(t.recs, k, max) ELSE {}

\* The order of a deeper level: by smallest key, which the ranges make strict
\* unless a crash left two tables of one range; then the older file is first.
Precedes(t, u) == t.lo < u.lo \/ (t.lo = u.lo /\ t.num <= u.num)

\* find_in_level: the first table of a sorted level whose range holds k.
FindInLevel(L, k) ==
  {t \in L : Covers(t, k) /\ \A u \in L : Covers(u, k) => Precedes(t, u)}

Hits(T, k, max) == {t \in T : TableGet(t, k, max) # {}}

\* get_with_seq: memtable, immutable memtables newest first, level 0 newest
\* first, then one table of each deeper level; the first hit ends the search.
LookupOldestImmFirst(m, im, lv, k, max) ==
  LET immHits == {i \in DOMAIN im : Visible(im[i], k, max) # {}}
      l0Hits  == Hits(lv[0], k, max)
      deeper  == {l \in Level \ {0} : Hits(FindInLevel(lv[l], k), k, max) # {}}
  IN CASE Visible(m, k, max) # {} -> Visible(m, k, max)
       [] Visible(m, k, max) = {} /\ immHits # {} -> Visible(im[Min(immHits)], k, max)
       [] Visible(m, k, max) = {} /\ immHits = {} /\ l0Hits # {} ->
            TableGet(CHOOSE t \in l0Hits : \A u \in l0Hits : u.num <= t.num, k, max)
       [] OTHER -> IF deeper = {} THEN {}
                   ELSE TableGet(CHOOSE t \in FindInLevel(lv[Min(deeper)], k) : TRUE, k, max)

Lookup(m, im, lv, k, max) ==
  LET immHits == {i \in DOMAIN im : Visible(im[i], k, max) # {}}
      l0Hits  == Hits(lv[0], k, max)
      deeper  == {l \in Level \ {0} : Hits(FindInLevel(lv[l], k), k, max) # {}}
  IN IF Visible(m, k, max) # {} THEN Visible(m, k, max)
     ELSE IF immHits # {} THEN Visible(im[Max(immHits)], k, max)
     ELSE IF l0Hits # {}
          THEN TableGet(CHOOSE t \in l0Hits : \A u \in l0Hits : u.num <= t.num, k, max)
     ELSE IF deeper # {}
          THEN TableGet(CHOOSE t \in Hits(FindInLevel(lv[Min(deeper)], k), k, max) : TRUE, k, max)
     ELSE {}

Recs(T) == UNION {t.recs : t \in T}

\* Every record of the engine: what scan_with_seq merges.
AllRecs(m, im, lv) ==
  m \cup (UNION {im[i] : i \in DOMAIN im}) \cup (UNION {Recs(lv[l]) : l \in Level})

-----------------------------------------------------------------------------
(* Compaction.                                                             *)

LevelBytes(L) == MapThenSumSet(LAMBDA t : Cardinality(t.recs), L)
LevelLimit(l) == BaseLevelBytes * LevelRatio^(l - 1)

\* The levels pick_compaction would take a job from; it takes the first.
Overfull(lv) ==
  {l \in 0..(MaxLevels - 2) :
     IF l = 0 THEN Cardinality(lv[0]) >= L0Trigger
              ELSE lv[l] # {} /\ LevelBytes(lv[l]) > LevelLimit(l)}

JobLevel(lv) == Min(Overfull(lv))

\* All of level 0, or the first table of a deeper level.
Upper(lv, l) ==
  IF l = 0 THEN lv[0] ELSE {CHOOSE t \in lv[l] : \A u \in lv[l] : Precedes(t, u)}

OverlappingStrict(L, lo, hi) == {t \in L : t.hi > lo /\ t.lo < hi}
Overlapping(L, lo, hi) == {t \in L : t.hi >= lo /\ t.lo <= hi}

Lower(lv, l) ==
  LET up == Upper(lv, l)
  IN Overlapping(lv[l + 1], Min({t.lo : t \in up}), Max({t.hi : t \in up}))

\* A tombstone may go when no open snapshot is older than it and the output
\* is the last level.
DroppableUnwatched(r, out, watermark) == r.val = Tomb /\ out + 1 >= MaxLevels
DroppableAnywhere(r, out, watermark) == r.val = Tomb /\ r.seq <= watermark
Droppable(r, out, watermark) ==
  /\ r.val = Tomb
  /\ r.seq <= watermark
  /\ out + 1 >= MaxLevels

\* The merge keeps the newest record of each key.
Survivors(S, out, watermark) ==
  {r \in S : /\ r = Newest(Visible(S, r.key, MaxSeq))
             /\ ~Droppable(r, out, watermark)}

\* The merged records are cut into files of TargetFileSize, in key order.
Rank(S, r) == Cardinality({q \in S : q.key < r.key})
Chunk(S, r) == Rank(S, r) \div TargetFileSize

Outputs(S, nf) ==
  {MkTable(nf + c, {r \in S : Chunk(S, r) = c}) : c \in {Chunk(S, r) : r \in S}}

AfterLastForgotten(T, nf) == nf
AfterLast(T, nf) == IF T = {} THEN nf ELSE Max({t.num : t \in T}) + 1

CompactedUpperKept(lv, nf, watermark) ==
  LET l    == JobLevel(lv)
      up   == Upper(lv, l)
      low  == Lower(lv, l)
      outs == Outputs(Survivors(Recs(up \cup low), l + 1, watermark), nf)
  IN [levels |-> [lv EXCEPT ![l + 1] = (@ \ low) \cup outs], nextFile |-> AfterLast(outs, nf)]

Compacted(lv, nf, watermark) ==
  LET l    == JobLevel(lv)
      up   == Upper(lv, l)
      low  == Lower(lv, l)
      outs == Outputs(Survivors(Recs(up \cup low), l + 1, watermark), nf)
  IN [levels   |-> [lv EXCEPT ![l] = @ \ up, ![l + 1] = (@ \ low) \cup outs],
      nextFile |-> AfterLast(outs, nf)]

MaybeCompact(lv, nf, watermark) ==
  IF Overfull(lv) = {} THEN [levels |-> lv, nextFile |-> nf]
                       ELSE Compacted(lv, nf, watermark)

\* What maybe_compact may leave behind: its result, or, after an I/O error,
\* nothing but the file numbers it used, and those only when the MANIFEST had
\* them already; the same numbers are given out again otherwise.
CompactOutcomes(lv, nf, watermark) ==
  LET c == MaybeCompact(lv, nf, watermark)
  IN {c} \cup [levels : {lv}, nextFile : {nf, c.nextFile}]

CompactionDone(before, after) == after # before \/ Overfull(before) = {}

-----------------------------------------------------------------------------
(* Flush: the first n immutable memtables become level-0 tables, oldest    *)
(* first.  When n is not all of them the next one failed with an I/O error *)
(* after it had taken its file number.                                     *)

FlushNewestImms(im, lv, nf, n) ==
  [imms     |-> SubSeq(im, 1, Len(im) - n),
   levels   |-> [lv EXCEPT ![0] = @ \cup {MkTable(nf + i - 1, im[Len(im) + 1 - i]) : i \in 1..n}],
   nextFile |-> nf + n + (IF n < Len(im) THEN 1 ELSE 0)]

FlushImms(im, lv, nf, n) ==
  [imms     |-> SubSeq(im, n + 1, Len(im)),
   levels   |-> [lv EXCEPT ![0] = @ \cup {MkTable(nf + i - 1, im[i]) : i \in 1..n}],
   nextFile |-> nf + n + (IF n < Len(im) THEN 1 ELSE 0)]

\* The write stall: too many frozen memtables or too many level-0 tables.
StalledOnImmsOnly(im, lv) == Len(im) >= 2
Stalled(im, lv) == Len(im) >= 2 \/ Cardinality(lv[0]) >= L0Trigger * 2

=============================================================================
