------------------------------- MODULE Merge -------------------------------
(***************************************************************************)
(* The loops that merge sorted streams of records: run_compaction, the     *)
(* MergeIterator behind scan, and the one that writes a memtable to its    *)
(* table.  Lsm states their results as sets (Survivors, Outputs, Answer);  *)
(* here they are computed the way the code does, one turn per action, and  *)
(* the tables they build are read back block by block.                     *)
(***************************************************************************)
EXTENDS Table, SequencesExt

CONSTANTS
  Sources,   \* how many tables or memtables meet
  NoKey      \* last_user before the first record

ASSUME MergeAssumption ==
  /\ Sources \in Nat \ {0}
  /\ NoKey \notin Nat
  /\ NoValue \notin Vals

VARIABLES
  sources,   \* the records of each source
  job,       \* what the loop is for, see Jobs
  rest,      \* what the stream of each source has still to give
  heap,      \* the heads: a record and its source
  lastUser,  \* the key of the last record taken
  builder,   \* the records of the table being built
  size,      \* current_size
  out,       \* the tables finished, or the rows found
  done

vars == <<sources, job, rest, heap, lastUser, builder, size, out, done>>

\* A compaction into a level with a watermark; a scan of memtables and then
\* tables, from a bound, at a sequence number; a flush.
Jobs ==
  [kind : {"compact"}, level : Level \ {0}, watermark : 0..MaxSeq]
    \cup [kind : {"scan"}, mems : 1..Sources, max : 0..MaxSeq,
          start : {<<"Unbounded">>} \cup ({"Included", "Excluded"} \X Keys)]
    \cup [kind : {"flush"}]

-----------------------------------------------------------------------------
(* The streams.                                                            *)

Sorted(S) ==
  CHOOSE s \in Bijection(1..Cardinality(S), S) : \A i, j \in DOMAIN s : i < j => Before(s[i], s[j])

InRange(k, start) ==
  CASE start[1] = "Unbounded" -> TRUE
    [] start[1] = "Included"  -> k >= start[2]
    [] start[1] = "Excluded"  -> k > start[2]

\* MemTableIter: the newest visible record of each key in range.
MemStream(S, start, max) ==
  {r \in S : InRange(r.key, start) /\ r.seq <= max /\ r = Newest(Visible(S, r.key, max))}

\* iter_all, and what scan retains of it.
TableStream(S, start, max) ==
  {r \in {Decoded(q) : q \in S} : r.seq <= max /\ InRange(r.key, start)}

Stream(j, i, S) ==
  CASE j.kind = "scan"    -> IF i <= j.mems THEN MemStream(S, j.start, j.max)
                             ELSE TableStream(S, j.start, j.max)
    [] j.kind = "compact" -> {Decoded(q) : q \in S}
    [] j.kind = "flush"   -> IF i = 1 THEN S ELSE {}

\* Records are written once each, and a source may hold what another one has:
\* after a crash the log is replayed beside the table that was flushed.
Pools ==
  {S \in SUBSET Record : \A r, q \in S : r.seq = q.seq => r = q}

Init ==
  /\ \E S \in Pools : sources \in [1..Sources -> SUBSET S] /\ UNION Range(sources) = S
  /\ job \in Jobs
  /\ \E streams \in {[i \in 1..Sources |-> Sorted(Stream(job, i, sources[i]))]} :
       /\ rest = [i \in 1..Sources |-> IF streams[i] = <<>> THEN <<>> ELSE Tail(streams[i])]
       /\ heap = {[rec |-> Head(streams[i]), source |-> i] :
                    i \in {n \in 1..Sources : streams[n] # <<>>}}
  /\ lastUser = NoKey
  /\ builder = {} /\ size = 0 /\ out = <<>> /\ done = FALSE

-----------------------------------------------------------------------------
(* One turn.                                                               *)

\* HeapItem::cmp: the least internal key, of equal ones that of the lowest
\* source.  BinaryHeap pops its greatest item, so the comparison is reversed.
LeastOfKeys(h) ==
  CHOOSE x \in h : \A y \in h :
    x.rec.key < y.rec.key \/ (x.rec.key = y.rec.key /\ x.source <= y.source)
Least(h) ==
  CHOOSE x \in h : \A y \in h :
    Before(x.rec, y.rec) \/ (~Before(y.rec, x.rec) /\ x.source <= y.source)

\* Take the least head and refill the heap from its stream.
Pop(x) ==
  LET more == rest[x.source]
  IN /\ heap' = (heap \ {x}) \cup
                  (IF more = <<>> THEN {} ELSE {[rec |-> Head(more), source |-> x.source]})
     /\ rest' = IF more = <<>> THEN rest ELSE [rest EXCEPT ![x.source] = Tail(more)]

\* The row of a record, which a tombstone has none of.
Row(r) == IF r.val = Tomb THEN <<>> ELSE <<[key |-> r.key, val |-> r.val]>>

\* MergeIterator::next, one turn of its loop.
ScanTurn ==
  /\ job.kind = "scan" /\ heap # {}
  /\ LET x == Least(heap)
     IN /\ Pop(x)
        /\ lastUser' = x.rec.key
        /\ out' = IF lastUser = x.rec.key THEN out ELSE out \o Row(x.rec)
  /\ UNCHANGED <<sources, job, builder, size, done>>

\* One turn of run_compaction: an older record of a key and a tombstone that
\* may go are passed over; a builder that is full becomes a table.
AddToBuilderTooLong(r) ==
  LET current == IF builder = {} THEN 1 ELSE size + 1
  IN /\ size' = current
     /\ IF current > TargetFileSize
        THEN out' = Append(out, builder \cup {r}) /\ builder' = {}
        ELSE out' = out /\ builder' = builder \cup {r}
AddToBuilder(r) ==
  LET current == IF builder = {} THEN 1 ELSE size + 1
  IN /\ size' = current
     /\ IF current >= TargetFileSize
        THEN out' = Append(out, builder \cup {r}) /\ builder' = {}
        ELSE out' = out /\ builder' = builder \cup {r}

CompactTurn ==
  /\ job.kind = "compact" /\ heap # {}
  /\ LET x == Least(heap)
     IN /\ Pop(x)
        /\ lastUser' = x.rec.key
        /\ IF lastUser = x.rec.key \/ Droppable(x.rec, job.level, job.watermark)
           THEN UNCHANGED <<builder, size, out>>
           ELSE AddToBuilder(x.rec)
  /\ UNCHANGED <<sources, job, done>>

\* One turn of the loop of flush_imms: every record goes into the table.
FlushTurn ==
  /\ job.kind = "flush" /\ heap # {}
  /\ LET x == Least(heap) IN Pop(x) /\ builder' = builder \cup {x.rec}
  /\ UNCHANGED <<sources, job, lastUser, size, out, done>>

\* The streams are at their end: what is in the builder becomes a table.
Finish ==
  /\ heap = {} /\ ~done
  /\ out' = IF builder = {} THEN out ELSE Append(out, builder)
  /\ builder' = {}
  /\ done' = TRUE
  /\ UNCHANGED <<sources, job, rest, heap, lastUser, size>>

Next == ScanTurn \/ CompactTurn \/ FlushTurn \/ Finish

Spec == Init /\ [][Next]_vars

-----------------------------------------------------------------------------
(* Safety.                                                                 *)

TypeOK ==
  /\ sources \in [1..Sources -> SUBSET Record]
  /\ job \in Jobs
  /\ rest \in [1..Sources -> Seq(Record)]
  /\ heap \subseteq [rec : Record, source : 1..Sources]
  /\ lastUser \in Keys \cup {NoKey}
  /\ builder \subseteq Record
  /\ size \in 0..TargetFileSize
  /\ out \in Seq(IF job.kind = "scan" THEN [key : Keys, val : Vals] ELSE SUBSET Record)
  /\ done \in BOOLEAN

All == UNION Range(sources)
Ahead == {x.rec : x \in heap} \cup UNION {Range(rest[i]) : i \in 1..Sources}

\* Every turn takes, of all that is still to come in any of the streams, the
\* record of the least key and of its versions the newest, and everything else
\* is still to come after it: the turns hand out the records of all streams in
\* the order of their internal keys and lose none.
MergeOrder ==
  [][heap # {} =>
       \E r \in Ahead : /\ \A q \in Ahead : q = r \/ Before(r, q)
                        /\ Ahead' \cup {r} = Ahead
                        /\ job.kind # "flush" => lastUser' = r.key]_vars

\* A finished compaction wrote the tables Lsm says: the newest record of each
\* key, tombstones dropped as the watermark and the level allow, cut in key
\* order into files of the target size.
CompactionIsSurvivors ==
  done /\ job.kind = "compact" =>
    {MkTable(i, out[i]) : i \in DOMAIN out} = Outputs(Survivors(All, job.level, job.watermark), 1)

\* A finished scan lists, in the order of the keys, what a lookup at its
\* sequence number answers for each key in range.
ScanIsLookup ==
  done /\ job.kind = "scan" =>
    LET found == {k \in Keys : InRange(k, job.start) /\ Answer(Visible(All, k, job.max)) # NoValue}
    IN /\ \A i, j \in DOMAIN out : i < j => out[i].key < out[j].key
       /\ Range(out) = {[key |-> k, val |-> Answer(Visible(All, k, job.max))] : k \in found}

\* Every table a flush or compaction wrote, read through filter, index and
\* blocks, answers as its records say; a flush's are those of its memtable.
BuiltTablesAnswer ==
  done /\ job.kind # "scan" =>
    /\ \A i \in DOMAIN out : NoFalseNegative(out[i]) /\ FindsNewest(MkTable(i, out[i]))
    /\ job.kind = "flush" => UNION Range(out) = sources[1]

=============================================================================
