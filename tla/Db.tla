--------------------------------- MODULE Db ---------------------------------
(***************************************************************************)
(* The engine of db.rs while the process lives: writers, the background    *)
(* thread, user flushes and compactions, snapshots and close.  Everything  *)
(* below Db::inner's mutex runs to completion before the next holder, so   *)
(* one action is one critical section, every call it makes included.  The  *)
(* disk, crashes and recovery are the subject of DbDisk.                   *)
(***************************************************************************)
EXTENDS Lsm

CONSTANTS
  MemtableBytes,   \* Options.memtable_bytes
  Snapshots,       \* identities of the snapshots clients hold
  NoSnapshot,      \* a snapshot that is not open
  MaxFile          \* bound on the file numbers failing operations use up

ASSUME DbAssumption ==
  /\ MemtableBytes \in Nat
  /\ NoSnapshot \notin Nat
  /\ MaxFile \in Nat

VARIABLES
  mem,        \* active memtable: a set of records
  imms,       \* frozen memtables, oldest first
  levels,     \* the current Version
  nextSeq,    \* last sequence number given out
  nextFile,   \* next file number
  snaps,      \* the sequence number each open snapshot reads at
  stop,       \* the stop flag close() sets
  bg,         \* the background thread: "work"; at the head of its loop, "failed"
              \* when its last turn met an I/O error, else "check"; "done"; and
              \* "joined" by a close() that could not sync the log then
  closed      \* Inner.closed

vars == <<mem, imms, levels, nextSeq, nextFile, snaps, stop, bg, closed>>

TypeOK ==
  /\ mem \in SUBSET Record
  /\ imms \in Seq(SUBSET Record)
  /\ levels \in Levels
  /\ nextSeq \in 0..MaxSeq
  /\ nextFile \in Nat \ {0}
  /\ snaps \in [Snapshots -> Nat \cup {NoSnapshot}]
  /\ stop \in BOOLEAN
  /\ bg \in {"check", "failed", "work", "done", "joined"}
  /\ closed \in BOOLEAN

-----------------------------------------------------------------------------
(* What a caller can observe: get, a read at a snapshot, and scan.         *)

Get(k, max) == Answer(Lookup(mem, imms, levels, k, max))
Scan(k, max) == Answer(Visible(AllRecs(mem, imms, levels), k, max))

OpenSnaps == {s \in Snapshots : snaps[s] # NoSnapshot}

\* SnapshotTracker::watermark: the oldest open snapshot, or u64::MAX.
Watermark == IF OpenSnaps = {} THEN MaxSeq ELSE Min({snaps[s] : s \in OpenSnaps})

-----------------------------------------------------------------------------
\* Db::open of an empty directory.  What it recovers of another one is DbDisk's.
Init ==
  /\ mem = {}
  /\ imms = <<>>
  /\ levels = [l \in Level |-> {}]
  /\ nextSeq = 0
  /\ nextFile = 1
  /\ snaps = [s \in Snapshots |-> NoSnapshot]
  /\ stop = FALSE
  /\ bg = "check"
  /\ closed = FALSE

\* put and delete: take a sequence number, append to the log, insert, and
\* freeze a full memtable unless the log cannot be synced first.
WriteTakesSeqLate(k, v) ==
  /\ ~closed
  /\ ~Stalled(imms, levels)
  /\ nextSeq < MaxSeq
  /\ nextSeq' = nextSeq + 1
  /\ LET m == mem \cup {[key |-> k, seq |-> nextSeq, val |-> v]}
     IN \/ Cardinality(m) >= MemtableBytes /\ mem' = {} /\ imms' = Append(imms, m)
        \/ mem' = m /\ imms' = imms
  /\ UNCHANGED <<levels, nextFile, snaps, stop, bg, closed>>

Write(k, v) ==
  /\ ~closed
  /\ ~Stalled(imms, levels)
  /\ nextSeq < MaxSeq
  /\ nextSeq' = nextSeq + 1
  /\ LET m == mem \cup {[key |-> k, seq |-> nextSeq + 1, val |-> v]}
     IN \/ Cardinality(m) >= MemtableBytes /\ mem' = {} /\ imms' = Append(imms, m)
        \/ mem' = m /\ imms' = imms
  /\ UNCHANGED <<levels, nextFile, snaps, stop, bg, closed>>

\* A write whose append to the log fails has used up its sequence number.
WriteFails ==
  /\ ~closed
  /\ ~Stalled(imms, levels)
  /\ nextSeq < MaxSeq
  /\ nextSeq' = nextSeq + 1
  /\ UNCHANGED <<mem, imms, levels, nextFile, snaps, stop, bg, closed>>

Frozen == IF mem = {} THEN imms ELSE Append(imms, mem)

\* The caller's flush(): freeze what there is and flush n frozen memtables.
\* It looks neither at the stall condition nor at closed.
Flush(n) ==
  /\ n \in 0..Len(Frozen)
  /\ n < Len(Frozen) => nextFile < MaxFile
  /\ LET f == FlushImms(Frozen, levels, nextFile, n)
     IN imms' = f.imms /\ levels' = f.levels /\ nextFile' = f.nextFile
  /\ mem' = {}
  /\ UNCHANGED <<nextSeq, snaps, stop, bg, closed>>

\* The outcomes of a compaction this model follows.
Outcomes(lv, nf) ==
  {c \in CompactOutcomes(lv, nf, Watermark) : c.levels = lv => c.nextFile \in {nf} \cup 0..MaxFile}

\* One turn of the loop of the caller's compact().  A thread may reach it at
\* any time, having flushed earlier and been preempted since.
Compact ==
  /\ \E c \in Outcomes(levels, nextFile) : levels' = c.levels /\ nextFile' = c.nextFile
  /\ UNCHANGED <<mem, imms, nextSeq, snaps, stop, bg, closed>>

BgCheckForgetsStop ==
  /\ bg \in {"check", "failed"}
  /\ bg' = "work"
  /\ UNCHANGED <<mem, imms, levels, nextSeq, nextFile, snaps, stop, closed>>

\* The background thread looks at the stop flag outside the lock.
BgCheck ==
  /\ bg \in {"check", "failed"}
  /\ bg' = IF stop THEN "done" ELSE "work"
  /\ UNCHANGED <<mem, imms, levels, nextSeq, nextFile, snaps, stop, closed>>

BgWorkFlushOnly(n) ==
  /\ bg = "work"
  /\ n \in 0..Len(imms)
  /\ n < Len(imms) => nextFile < MaxFile
  /\ \E f \in {FlushImms(imms, levels, nextFile, n)} :
       imms' = f.imms /\ levels' = f.levels /\ nextFile' = f.nextFile
  /\ bg' = IF n = Len(imms) THEN "check" ELSE "failed"
  /\ UNCHANGED <<mem, nextSeq, snaps, stop, closed>>

BgWorkIdle(n) ==
  /\ bg = "work"
  /\ n \in 0..Len(imms)
  /\ n < Len(imms) => nextFile < MaxFile
  /\ \E f \in {FlushImms(imms, levels, nextFile, n)} :
     \E c \in IF imms = <<>> THEN {f} ELSE Outcomes(f.levels, f.nextFile) :
       /\ imms' = f.imms /\ levels' = c.levels /\ nextFile' = c.nextFile
       /\ bg' = IF n = Len(imms) /\ (imms = <<>> \/ CompactionDone(f.levels, c.levels))
               THEN "check" ELSE "failed"
  /\ UNCHANGED <<mem, nextSeq, snaps, stop, closed>>

\* Its turn under the lock: flush, whatever became of that maybe compact,
\* then wait for the notification or the timeout.
BgWork(n) ==
  /\ bg = "work"
  /\ n \in 0..Len(imms)
  /\ n < Len(imms) => nextFile < MaxFile
  /\ \E f \in {FlushImms(imms, levels, nextFile, n)} :
     \E c \in Outcomes(f.levels, f.nextFile) :
       /\ imms' = f.imms /\ levels' = c.levels /\ nextFile' = c.nextFile
       /\ bg' = IF n = Len(imms) /\ CompactionDone(f.levels, c.levels) THEN "check" ELSE "failed"
  /\ UNCHANGED <<mem, nextSeq, snaps, stop, closed>>

TakeSnapshotEarly(s) ==
  /\ ~closed
  /\ snaps[s] = NoSnapshot
  /\ snaps' = [snaps EXCEPT ![s] = IF nextSeq = 0 THEN 0 ELSE nextSeq - 1]
  /\ UNCHANGED <<mem, imms, levels, nextSeq, nextFile, stop, bg, closed>>

TakeSnapshot(s) ==
  /\ ~closed
  /\ snaps[s] = NoSnapshot
  /\ snaps' = [snaps EXCEPT ![s] = nextSeq]
  /\ UNCHANGED <<mem, imms, levels, nextSeq, nextFile, stop, bg, closed>>

DropSnapshot(s) ==
  /\ snaps[s] # NoSnapshot
  /\ snaps' = [snaps EXCEPT ![s] = NoSnapshot]
  /\ UNCHANGED <<mem, imms, levels, nextSeq, nextFile, stop, bg, closed>>

\* close(): raise the flag, join the thread, sync the log, then refuse further
\* calls.
CloseStart ==
  /\ ~stop
  /\ stop' = TRUE
  /\ UNCHANGED <<mem, imms, levels, nextSeq, nextFile, snaps, bg, closed>>

CloseFinish ==
  /\ stop /\ bg \in {"done", "joined"} /\ ~closed
  /\ closed' = TRUE
  /\ UNCHANGED <<mem, imms, levels, nextSeq, nextFile, snaps, stop, bg>>

\* An error of the sync is returned, and nothing says then that the database is
\* closed.  Whoever calls close() again has no thread to join.
CloseFails ==
  /\ stop /\ bg = "done" /\ ~closed
  /\ bg' = "joined"
  /\ UNCHANGED <<mem, imms, levels, nextSeq, nextFile, snaps, stop, closed>>

Client ==
  \/ \E k \in Keys, v \in Vals \cup {Tomb} : Write(k, v)
  \/ WriteFails
  \/ \E n \in 0..(Len(imms) + 1) : Flush(n)
  \/ Compact
  \/ \E s \in Snapshots : TakeSnapshot(s) \/ DropSnapshot(s)
  \/ CloseStart
  \/ CloseFinish
  \/ CloseFails

Background == BgCheck \/ \E n \in 0..Len(imms) : BgWork(n)

Next == Client \/ Background

Spec == Init /\ [][Next]_vars

(* The threads run: the background loop wakes at least every 50 ms, its     *)
(* I/O does not fail every time, and a close() that was called goes on; but *)
(* nobody need call it again.                                              *)

\* A turn of the background thread that met no I/O error.
FullTurn == bg = "work" /\ bg' = "check"

CloseReturns == bg = "done" /\ (CloseFinish \/ CloseFails)

FairSpec ==
  /\ Spec
  /\ WF_vars(BgCheck)
  /\ SF_<<bg>>(FullTurn)
  /\ WF_vars(CloseReturns)

-----------------------------------------------------------------------------
(* Safety.                                                                 *)

\* S is above T: for every key, what S holds was written after what T holds.
Above(S, T) == \A r \in S, q \in T : r.key = q.key => r.seq > q.seq

\* A lookup stops at the first place that answers.  That is right only while
\* the places it visits hold ever older versions of every key, across
\* freezes, flushes by two threads, and compactions out of any level.
NewestFirst ==
  /\ \A i \in DOMAIN imms : Above(mem, imms[i])
  /\ \A i, j \in DOMAIN imms : i < j => Above(imms[j], imms[i])
  /\ \A l \in Level : /\ Above(mem, Recs(levels[l]))
                      /\ \A i \in DOMAIN imms : Above(imms[i], Recs(levels[l]))
  /\ \A t, u \in levels[0] : t.num > u.num => Above(t.recs, u.recs)
  /\ \A l, m \in Level : l < m => Above(Recs(levels[l]), Recs(levels[m]))

\* find_in_level opens one table per level, so below level 0 the key ranges
\* of the tables of a level never meet, whatever was compacted into it.
LevelsDisjoint ==
  \A l \in Level \ {0} : \A t, u \in levels[l] : t = u \/ t.hi < u.lo \/ u.hi < t.lo

\* get and scan take different paths (one ends at the first hit, the other
\* merges every table) and give the same answer at every sequence number.
GetMatchesScan ==
  \A k \in Keys, max \in 0..MaxSeq : Get(k, max) = Scan(k, max)

\* The write stall bounds what waits for the background thread: two frozen
\* memtables, and in level 0 one table over the stall point, counting what
\* the memtables will become; flush() calls, which never stall, included.
Waiting == Len(imms) + IF mem = {} THEN 0 ELSE 1
Backpressure ==
  /\ Waiting <= 2
  /\ Cardinality(levels[0]) + Waiting <= 2 * L0Trigger + 1

\* Numbers name files: no number at or above the next one is in use, and no
\* two tables of the Version share a number.
FileNumbers ==
  \A l, m \in Level : \A t \in levels[l], u \in levels[m] :
    t.num < nextFile /\ (t.num = u.num => l = m /\ t = u)

-----------------------------------------------------------------------------
(* What callers see: get, at the present, is the map of KVStore, and the   *)
(* sequence numbers number its writes.                                     *)

KV == INSTANCE KVStore WITH kv <- [k \in Keys |-> Get(k, MaxSeq)], writes <- nextSeq

\* Writes are the only steps a reader can tell: no freeze, flush, compaction
\* or failed flush loses a value, brings back an old one, or shows a deleted
\* key again, and a write changes its own key only.
ImplementsKVStore == KV!Spec

Everything == AllRecs(mem, imms, levels)

\* A record goes only when nobody can miss it at the present: a newer one of its
\* key stays; or its key was deleted, every open snapshot is at or after the
\* tombstone, and nothing the tombstone hid is left anywhere to come back.
DiscardsAreDead ==
  [][\A r \in Everything \ Everything' : \E d \in Everything :
       /\ d.key = r.key /\ d.seq >= r.seq
       /\ \/ d \in Everything' /\ d # r
          \/ /\ d.val = Tomb /\ \A s \in OpenSnaps : d.seq <= snaps[s]
             /\ \A q \in Everything' : q.key = d.key => q.seq > d.seq]_vars

\* A snapshot sees, from the moment it is taken, what get sees then of every
\* key, the last write before it included, wherever the records lie: no record
\* has a number that snapshot() does not reach.
SnapshotIsPresent ==
  [][\A s \in Snapshots : snaps[s] = NoSnapshot /\ snaps'[s] # NoSnapshot =>
       \A k \in Keys : Get(k, snaps[s])' = Get(k, MaxSeq)]_vars

\* The keys that have no record newer than snapshot s.
Unwritten(s) ==
  {k \in Keys : \A r \in Everything : r.key = k => r.seq <= snaps[s]}

\* A snapshot keeps the answers it gave, for as long as it is open, for every
\* key not written since it was taken: neither a newer record of another key
\* nor the dropping of tombstones in a compaction may change them.
SnapshotKeepsUnwritten ==
  [][\A s \in OpenSnaps : snaps'[s] = snaps[s] =>
       \A k \in Unwritten(s) : Get(k, snaps[s])' = Get(k, snaps[s])]_vars

\* For every key, rewritten ones included, what an open snapshot reads changes
\* only when a compaction discards a version: writes, freezes, flushes and
\* the moves of tables between levels cannot change it.
SnapshotStableWhileNothingLost ==
  [][Everything \subseteq Everything' =>
       \A s \in OpenSnaps : snaps'[s] = snaps[s] =>
         \A k \in Keys : Get(k, snaps[s])' = Get(k, snaps[s])]_vars

\* What docs/LSM_GUIDE.md and tests/integration.rs say of a snapshot: its reads
\* are fixed while it is open, because the watermark holds back what a
\* compaction may discard.  run_compaction keeps one version per key whatever
\* the watermark is, so this does not hold.
SnapshotStable ==
  [][\A s \in OpenSnaps : snaps'[s] = snaps[s] =>
       \A k \in Keys : Get(k, snaps[s])' = Get(k, snaps[s])]_vars

-----------------------------------------------------------------------------
(* Progress.                                                               *)

\* What lies at place p or above it: 0 is the memtable, 1 the frozen ones,
\* l + 2 level l.
DownTo(m, im, lv, p) ==
  m \cup (IF p = 0 THEN {} ELSE UNION {im[i] : i \in DOMAIN im})
    \cup UNION {Recs(lv[l]) : l \in {x \in Level : x + 2 <= p}}

\* The places the records still stand above, or at: what is left to do.
Work(m, im, lv) ==
  {w \in AllRecs(m, im, lv) \X (0..(MaxLevels + 1)) : w[1] \in DownTo(m, im, lv, w[2])}

WorkShrinks ==
  /\ Work(mem, imms, levels)' \subseteq Work(mem, imms, levels)
  /\ Work(mem, imms, levels)' # Work(mem, imms, levels)

\* Maintenance comes to an end: of the steps that write nothing, every one that
\* moves a record, the flushes of two threads and the compactions out of any
\* level, whatever fails, leaves strictly less to do.  None undoes another.
MaintenanceSinks ==
  [][nextSeq' = nextSeq /\ <<mem, imms, levels>>' # <<mem, imms, levels>> => WorkShrinks]_vars

\* A turn of the background thread that met no I/O error is never in vain while
\* a memtable is frozen or a level overfull, as in every state of a stall.
TurnsDoWork ==
  [][FullTurn /\ (imms # <<>> \/ Overfull(levels) # {} \/ Stalled(imms, levels))
       => WorkShrinks]_vars

\* A stalled writer is not stalled for ever: it gets to write, or is told that
\* the database is closed; unless a close() has ended the thread and failed.
StallEnds == Stalled(imms, levels) ~> (closed \/ bg = "joined" \/ ~Stalled(imms, levels))

\* Once writes end, the background thread works every overfull level off.
EventuallyCompacted == <>[](stop \/ Overfull(levels) = {})

\* close() returns, if only with an error: the background thread sees the flag
\* and ends.
CloseEnds == stop ~> (closed \/ bg = "joined")

=============================================================================
