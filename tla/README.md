# jadedb in TLA+

jadedb is a log-structured merge tree in Rust (`src/src/`, 18 files). This
directory holds its specification: TLA+ modules that follow the code, TLC
configurations that check them on small instances, and TLAPS proofs for every
value of the constants. Line numbers below are of the files in `src/src/`.

## 1. The system

| component | state | operations | how it meets the others |
|---|---|---|---|
| engine, `db.rs` | `Inner` under one mutex: memtable, frozen memtables, version, log, next sequence and file numbers, manifest, closed; outside it: stop flag, condition variable, thread handle | open, put, delete, get, scan, snapshot, sync, flush, compact, close; `bg_loop`, `flush_imms`, `maybe_compact` | calls all others; client threads and the background thread share `Inner` |
| memtable, `memtable.rs` | ordered map of versioned records, byte count | put, get, range | filled by write, read by get, scan and flush |
| write-ahead log, `wal.rs` | the file, `pending` bytes | create, open_append, append, sync, recover | append before insert; sync before a freeze; recreated by flush; replayed by open |
| manifest, `manifest.rs` | the file | log, recover, apply_edit | written by flush and compaction, read by open |
| version, `version.rs` | tables per level | from_metas, get_sstables_for_key | replaced by flush and compaction |
| compaction, `compact.rs` | none | pick_compaction, run_compaction | reads a version and the snapshot watermark, returns edits |
| snapshots, `snapshot.rs` | the open sequence numbers | create, release, watermark | shared with handles that clients drop at any time |
| tables, `sstable/builder.rs`, `block.rs`, `reader.rs` | immutable files of blocks with an index | add, finish, get, find_block, iter_all | written by flush and compaction; get reads them without the mutex, block by block |
| bloom filter, `sstable/bloom.rs` | bits of the keys of one table | build, may_contain, encode, decode | part of a table file; asked before its blocks are read |
| block cache, `sstable/reader.rs` | file number and block to bytes | get, insert | shared by all tables of a database, never invalidated |
| scan merge, `iter.rs` | a heap over sorted streams | next | scan; flush and compaction go through streams the same way |
| internal key, `key.rs` | none | order, encode, decode | everywhere |

What makes each correct: *engine*: reads see the latest write, flushes and
compactions are invisible, numbers are never given out twice, stalls and closes
end. *Log and manifest*: whatever the moment of a crash, a reopen gives back
what was promised. *Version and compaction*: deeper levels are sorted and
disjoint, age grows with depth, no tombstone goes too early. *Snapshots*: reads
at a snapshot do not change. *Tables*: what was added is found, through filter,
index and blocks, and a listed file is never rewritten. *Cache*: a block in it
is the one in the file. *Scan merge*: newest version first, each key once.

The hard behaviours: flush and compaction run on two kinds of threads and are
cut short by I/O errors; a crash may come between any two disk steps; the two
logs and the directory have separate fsyncs; a lookup stops at the first hit and
therefore depends on the order of the layers; recovery accepts prefixes.
`PROJECT.json` lists them one by one, with the line where each bites.

## 2. The modules

| module | what it models |
|---|---|
| `Lsm` | records, tables, levels, lookup, one flush, one compaction, as operators; no state. Parameters are the fields of `Options` |
| `KVStore` | the abstract specification: a map changed by numbered writes only |
| `Db` | the live process: one action per critical section of `db.rs` |
| `DbDisk` | the process and its disk: one action per disk step, I/O errors, crashes, power losses, reopening |
| `Table` | the inside of a table: encoded keys, filter, blocks, index, and the walk of `SsTable::get` |
| `Readers` | `Db` with the table files, the block cache and gets that have let go of the mutex |
| `Merge` | the loops that merge sorted streams: compaction, scan, flush, one turn per action |
| `LogFile` | the format the log and the MANIFEST share, byte by byte where a cut can tell |
| `MCDb`, `MCDbDisk`, `MCReaders`, `MCMerge`, `MCLogFile` | the instances TLC checks |
| `LsmProofs` | lemmas about `Lsm`'s operators and the order of versions |
| `DbProofs` | types and backpressure of `Db`, what its readers see, the refinement |
| `TableProofs` | a table finds what was put into it |
| `ReadersProofs` | gets beside the engine answer as at their unlock |
| `MergeProofs` | the merge loops compute what `Lsm` says |
| `DiskState` | types of `DbDisk`, the plans that `todo` can hold, and what a memory or a recovery serves |
| `DiskProofs` | what readers and reopens of `DbDisk` see, the refinement |
| `LogProofs` | what a recovery makes of a file whose appends were cut short |

`Db` and `DbDisk` both extend `Lsm`, so the flush and the compaction whose
invariants are checked (and proved about) in one are those whose disk steps are
interrupted in the other. Both are shown to implement `KVStore`. What they take
for granted is shown by the modules around them:

| taken for granted | shown in |
|---|---|
| a table answers with its newest visible record (`TableGet`) | `Table`, proved in `TableProofs` |
| a get that reads its tables after the unlock is one step (`Db!Get`) | `Readers`, proved in `ReadersProofs` |
| a merge yields `Survivors` cut into `Outputs`, a scan `Answer` for each key | `Merge`, proved in `MergeProofs` |
| a recovery yields the records before the first stump (`BeforeStump`) | `LogFile`, proved in `LogProofs` |

### Abstractions

A user key is a natural number (only the order matters), a value a model value,
a `Delete` record one whose value is `Tomb`. A memtable and a table are sets of
records: the order of the code is by key and descending sequence number, so
"first visible record of the key" is `Newest(Visible(..))`. Sizes are counted in
records instead of bytes (`MemtableBytes`, `TargetFileSize`, `BaseLevelBytes`,
`BatchBytes`). A level is a set of tables; the positions that matter (level 0 by
number, deeper levels by smallest key) are recovered with `Precedes` and
comparisons of `num`. `TableGet` is the result of the walk that `Table` has in
full. The two hashes of a key are constants, any functions into a word that
wraps.

### Db

`mem`, `imms`, `levels`, `nextSeq`, `nextFile`, `closed` are the fields of
`Inner`; `snaps` the snapshots clients hold; `stop` the flag; `bg` the place of
the background thread. All reads and writes of `Inner` are under its mutex, so
one critical section is one action: `Write` (put, delete), `WriteFails` (append
returned an error), `Flush(n)`, `Compact` (one turn of the caller's loop, which
unlocks between turns), `BgCheck` and `BgWork(n)`, `TakeSnapshot`,
`DropSnapshot`, `CloseStart`, `CloseFinish`, `CloseFails` (the sync at the end
of close returned an error, and the thread is gone: `bg = "joined"`). In `Flush(n)` and `BgWork(n)` the
first `n` frozen memtables are flushed and, if that is not all, the next one
failed with an I/O error after its number was taken; the background thread goes
on to compact all the same. A compaction may fail too: `CompactOutcomes` has its
result, and the old version with or without the file numbers it used, for
`next_file_num` is stored only after the MANIFEST was written (`db.rs:430`).
`bg = "failed"` says that the last turn met an error; only fairness looks at it.
A full memtable is frozen or, when the sync before
the freeze fails, is not. `Flush`, `Compact` and dropping a snapshot go on after
`close()`, as in the code.

### DbDisk

The mutex is held through a flush or a compaction, so what its holder has still
to do is one list, `todo`: table file, sync_dir, manifest edits, manifest
fsync, new version, removal of inputs or of the log. Each step is an action and
`Crash` (the process dies, files stay) or `PowerLoss` (the machine dies: each
log keeps a prefix that covers what was fsynced) may come before any of them, or
`IoError` end the operation there, after which it is tried again. A write that
fails (`WriteFails`) leaves nothing, a stump, or its whole record in the log,
according to where it failed. `Open` is `Db::open`. History variables: `acked`,
the writes that returned Ok (minus those in an unsynced tail that a power loss
took); `safe`, those of them a sync, a freeze or the mode made durable; `doubt`,
the records that writes returning an error left behind, which a reader may see
or not; `struck`, the mishaps there have been.

The log and the MANIFEST are the records appended, `wal` and `man`, and `stumps`
names those that end in a record cut short. Recovery stops before a stump and
nothing takes it away from the file (`WalFile`, `ManFile` are what a reader and
an append find), so what is appended next lies behind it: that is struck as
`behind`, and the stump becomes a part of the log. A flush that empties memory
before the next write gets rid of a stump in the log with the log; the MANIFEST
keeps its own for ever.

The edits of a `Manifest::log` are in the order of the code, which a crash between
two of them tells apart: the inputs of a compaction are deleted in the order of the
`Version`, level 0 newest first and a deeper level by smallest key (`InLevel`).

`Faults` names which mishaps may happen at all: `midlog` (a crash between two
edits of one `Manifest::log`), `torn` (a crash, a power loss or an error inside one record),
`direntry` (a power loss takes an unsynced directory entry), `iowrite` and
`iotable` (I/O errors in writes to the log and in flushes or compactions). Some
of them break the promises of the code (section 4), so `DurableOnGoodDisk` and
`FreshSeqs` speak of the behaviours in which nothing but crashes, failed log
writes and records cut short happened, and nothing was appended behind a stump
(`GoodDisk`); what they say of a reopen they say with and without a further
stump (`Tails`) behind each log. `LiveReads`, of the process that runs, holds
with every I/O error up to the next crash. A file of the MANIFEST, of a
table or of the log once created keeps its content: a failing fsync loses
nothing that is in the page cache as long as the machine runs.

### Table

A table's records stand in the order `Before`. `Pos` is the place of a record,
`BlockNo` its block, `Separator` the index entry of a block (its last key),
`FindBlock` the index search, `BlockPlan` the blocks `SsTable::get` looks into:
the one the index names, then all from the first. `BloomOf` is the filter as it
is read back, with its exact number of bits; `Decoded` what the tag keeps of a
sequence number.

### Readers

The variables of `Db` with `files`, `doomed` (files the holder of the mutex has
still to unlink), `cache` and `gets`. A get has a list of tables to go, `TablesFor`
(the `Candidates` in the order `Sooner`: by level, and level 0 newest first), and
the blocks to go of the first of them; `ReadOn` takes up the next table, `Continue`
ends with a hit or goes on. `Locked` is a critical section of `Db`: new tables get
files, replaced ones are doomed; `Unlink` removes one and nobody gets the mutex
before they are gone. `GetStart` is a get up to its unlock, for a key no
memtable answers; `ReadHit`, `ReadMiss` and `Insert` are one block each: between
the miss and the insert the cache is not locked. `LockedRead` stands for
compactions and scans, which use the same cache. `expect` records what the get
would have answered at its unlock.

### Merge

`Init` draws records with numbers of their own, spread over `Sources` streams, two of
which may hold the same record (after a recovery the log is replayed beside the
table that was flushed), and a job: a compaction into a level with a watermark, a
scan of `mems` memtables and then tables, from a bound at a sequence number, or a flush. `CompactTurn`, `ScanTurn` and
`FlushTurn` take the least head of the heap, `Finish` closes the last builder.

### LogFile

A file is a sequence of cells: bytes, or integers the program writes whole; a length and
a checksum keep two cells, for a cut may come inside them. Appends may be cut
at any cell, by a crash or by an I/O error after which the process goes on at
the end of the file as it is; a power loss keeps any prefix that covers what was
synced. `Recover` is the loop of `Wal::recover` and `Manifest::recover`, with
the decoding of both. It is defined from every place of the file (`Recovery`),
as a recursive function. The checksum is any function (`Crc`); TLC has one that
is narrower than CRC-32, on an instance small enough to meet no collision. One thing is
here that `DbDisk` leaves out: bytes appended behind a stump may by chance be those it
lacks, and its record is then read after all. `MakesUpNothing` says that this
is the worst that can come behind a stump.

## 3. What the runs show

| run | instance | properties |
|---|---|---|
| `db_safety` | 3 keys, 4 writes, 3 levels, tables of two records | `TypeOK`, `NewestFirst`, `LevelsDisjoint`, `GetMatchesScan`, `Backpressure` |
| `db_snapshots` | 2 keys, 3 writes, one snapshot opened and dropped | `DiscardsAreDead`, `SnapshotIsPresent`, `SnapshotKeepsUnwritten`, `SnapshotStableWhileNothingLost` |
| `db_live` | 2 keys, 2 values, 3 writes, failing flushes and compactions, fairness | `FileNumbers`, `MaintenanceSinks`, `TurnsDoWork`, `StallEnds`, `EventuallyCompacted`, `CloseEnds`, `ImplementsKVStore` |
| `disk_batch` | 1 key, 3 writes, mode Batch, failing log writes, one other mishap of any kind but `midlog` | `DurableOnGoodDisk`, `LiveReads`, `FreshSeqs` |
| `disk_kv` | 1 key, 2 writes, mode Always, two crashes or power losses | `TypeOK`, `FilesIntact`, `ImmutableFiles`, `DiskImplementsKVStore` |
| `readers` | 2 keys, 3 writes, one get beside the engine, a cache of one block, blocks of one record | `ReadersTypeOK`, `GetIsAtomic`, `FailsOnlyIfReplaced`, `FilesPresent`, `CacheCurrent` |
| `merge` | 3 keys, 3 records, 2 streams, tables and blocks of two records | `TypeOK`, `MergeOrder`, `CompactionIsSurvivors`, `ScanIsLookup`, `BuiltTablesAnswer` |
| `log_file` | 3 appends, to the log or the MANIFEST, of every kind of record | `TypeOK`, `RecoversWholeRecords`, `MakesUpNothing`, `FailsOnlyBehindStump` |

Four more runs end in a counterexample (section 4).

**Bounds.** `MaxSeq` bounds the writes, `MaxFile` the file numbers that failing
flushes and compactions use up (`Next` would otherwise run for ever failing; 0
leaves those that use one up out), `MaxMishaps` the crashes, power losses and I/O errors
of flushes and compactions, `MaxAppends` those of `LogFile`. Level 0 compacts at
one table and `BaseLevelBytes` is 0 or 1, so two or three writes already travel
through all levels and meet the last one, where tombstones are dropped; a table
needs two keys for ranges to be nested and three to overlap without being nested
(`db_safety`). Four writes with the stall at two tables exceed the bound of
`Backpressure` if the stall is wrong. Two crashes let a second recovery read
what the first one wrote; a third adds no new kind of step. One get is enough
in `readers`: gets share only the cache, and `LockedRead` fills that too. Three
records are one version more than there are streams and, with a tombstone among
them, meet every branch of the merge loops; the versions of one key then also
straddle two blocks. In `log_file` the values
hold bytes that can be taken for a length, so that a stump swallows what comes
behind it; the third append shows what is behind that. No symmetry is used: keys
are ordered and values too few.

**Deadlock.** It is checked in all runs but two. `Flush` and `Compact` are always
possible in `Db`, the starting steps and `Open` in `DbDisk`, and `Readers` has
`Db`. `Merge` ends with its job, and a log that fails its checksum is never
opened again: `merge` and `log_file` say CHECK_DEADLOCK FALSE.

**Fairness** (`db_live`, `FairSpec`). Weak fairness of `BgCheck` and
`CloseReturns`: the thread is scheduled, wakes at the latest after 50 ms
(`db.rs:360`) and a caller of close goes on after the join, to a sync of the log
that succeeds or fails; nobody has to call it again. Strong fairness of
`FullTurn`, a turn under the lock that met no I/O error: the mutex is
released after every operation, and I/O that fails now and then does not fail
for ever. None is assumed of writers, of user flushes and compactions, or of
the user calling close. `StallEnds` allows that the database is closed instead,
because then a stalled writer is told so, and that a close has failed, because
then it may wait for ever (section 4). `EventuallyCompacted` allows that
close was called, since the thread then ends with levels overfull.

**Refinement.** A step that loses a value could pass for a delete, so `KVStore`
numbers its writes. In `Db` the number is `nextSeq`; in `DbDisk` it is the count
of acknowledged writes, and the map is what a reopen would read from the disk
in that very state, so the refinement says that every disk step is atomic for
recovery.

Every property of a passing run has a mutant (the definitions named after what
they get wrong, next to the ones they replace) that a run of TLC catches.

## 4. Where the code and its documentation part

Each has a run that TLC ends with a counterexample.

| run | what happens | the promise |
|---|---|---|
| `db_snapshot_gc` | put, snapshot, put or delete, compact: the snapshot finds nothing, since `compact.rs:168` keeps one version per key | `docs/LSM_GUIDE.md:37`: snapshots hold back the garbage collection |
| `disk_half_logged` | a crash between the two `DeleteFile` edits of a compaction that dropped a tombstone: the deleted key is back | `docs/LSM_GUIDE.md:329`: recovery gives the state before the crash |
| `disk_torn_tail` | writes after a recovery are appended behind a torn record and lost at the next one | `docs/LSM_GUIDE.md:339`: a truncated record is cut cleanly |
| `disk_io_retry` | `Manifest::log` fails half way through a compaction; `next_file_num` was not stored, so the next flush writes its table over a listed one | `docs/LSM_GUIDE.md:54`: a table file is immutable |

The proofs say how far the first one goes: what an open snapshot reads changes
only in a step in which a compaction discards a version
(`SnapshotsStableWhileNothingLost`), and never for a key not written since
(`SnapshotsKeepUnwritten`). What it discards can be missed by such a snapshot only:
`DiscardsAlwaysDead` says that a record goes either because a newer one of its key stays,
or under a tombstone that every open snapshot sees and of which nothing older is left
anywhere.

Other ways to lose something that the model has, or that turned up while it was
written, and that no document promises against:

- A power loss before the first sync_dir takes the log's name (`direntry`), and
  a `Wal::create` that fails after the unlink (`db.rs:411`) leaves the process
  acknowledging synced writes into a file without one. Both break `Durable`.
- A crash between `AddFile` and `SetNextFileNum` (`midlog`) has the effect of
  `disk_io_retry` through a reopen.
- When `from_metas` fails after the MANIFEST was written, it lists outputs that
  the running version does not have; a flush whose `Manifest::log` fails is done
  again under a new number and leaves its table listed twice. Neither is wrong
  for readers (`LiveReads`).
- A write to the log that fails half way leaves a stump in the running process,
  and what it acknowledges afterwards has the fate of `disk_torn_tail`.
- A `close()` whose last sync fails (`db.rs:323`) has ended the background
  thread but not closed the database: a writer that meets the stall is neither let
  go on nor told (`bg = "joined"` in `StallEnds`).
- A get that meets the unlinking of a table a compaction replaced returns an I/O
  error although the database is sound; `FailsOnlyIfReplaced` says that nothing else makes
  it fail.

## 5. What is proved

The theorems hold for every value of the constants, from `LsmAssumption`,
`DbAssumption`, (`TableProofs`, `ReadersProofs`, `MergeProofs`)
`TableAssumption`, (`ReadersProofs`) `ReadersAssumption` and (`MergeProofs`) `MergeAssumption` only;
those of `LogProofs` from `LogAssumption` and `PayloadAssumption`. TLC evaluates all of
these in the runs.

**Types** (`DbProofs`). `TypeCorrect`: `Spec => []TypeOK`. `TypeOK` is not
inductive: that the tables a compaction writes are tables needs that their
records are finitely many (`Min`, `Max`, `Cardinality` and the ranks that cut
the outputs mean nothing otherwise) and that the job's inputs exist. `TypeInv`
adds: memtables are finite, frozen ones not empty (`Batch`), every table is
built from such a set with the range of its keys (`Built`), and each level is
finite (`Sound`).

**Backpressure** (`DbProofs`). `BackpressureHolds`, the bound of the write
stall, relative to `TypeInv`: a write is the only step that adds to what waits,
and the stall condition leaves room for it; a flush moves memtables to level 0
one for one; a compaction never adds to level 0.

**What readers see** (`DbProofs`, on lemmas of `LsmProofs`). `OrderInv` is `TypeInv` and

- `Layered`: memtables, frozen memtables, level 0 by number and the deeper
  levels hold ever older versions of every key;
- `Disjoint`: below level 0 the ranges of the tables of a level do not meet;
- `Numbered`: the tables' file numbers are unique and below the next one;
- every record has its own sequence number, at most the last one given out, and
  no open snapshot is above that.

None of the first three is inductive without the others. A compaction out of
level 0 moves the outputs under what stays there, which is nothing, and beside
what it does not overlap, so `Disjoint` after it needs `Disjoint` before and the
key order of the outputs (`OutputsApart`, `KeptBeside`). That the outputs are
older than the level above needs `Disjoint`, for a key of theirs is in no table
left behind in the job's level (`KeptAbove`). `Layered` of level 0 after a flush
needs `Numbered`, since the new table has the highest number. `OrderNext` has a
case for a write (`WriteAdds`), for flush, compaction and the background turn,
which are `Hidden` steps (they keep `OrderInv`'s parts and the answer of every
lookup at the present, and discard only what another record lets go, `LetsGo`),
and for the rest.

From `OrderInv` follow `NewestFirstAlways`, `DisjointAlways`,
`FileNumbersUnique`, and by `LookupFindsNewest` (a lookup that stops at the
first hit has the newest visible record of all there are) `GetAgreesWithScan`.
`DiscardsAlwaysDead` adds what a compaction may drop for good. A tombstone below
the watermark, which is at most every open snapshot (`WatermarkIsOldest`), goes only into
the last level, which has no deeper one; what it hid lay below it (`Layered`), so in
that level and among the job's inputs, and nothing older of its key is left
(`DroppedHidesNothing`, `CompactDiscardsDead`). `SnapshotsAreThePresent` holds because no
record has a number at or above `nextSeq`: a snapshot reads what `get` reads
when it is taken. The other snapshot theorems compare two states: `QuietStep` for keys nothing newer
than the snapshot was written to, where a dropped tombstone has nothing below it
to uncover (`CompactKeepsAnswers`), `LosslessStep` for steps in which no record
disappears. `EngineImplementsKVStore` is the refinement: `Init` maps to `Init`, a
write to `Put` or `Delete` of its own key (`WriteReads`), a failed write to
`Failed`, every other step to a stutter.

**Progress** (`DbProofs`). Liveness itself is out of the prover's reach, but not
the argument behind it. `Work` counts, for every record, the places between it
and the last level; it is finite. `MaintenanceAlwaysSinks`: only a write adds to
it, and a freeze, flush or compaction that moves anything takes some away, for
the records it moves were at no higher place before (`Layered`) and in no other
table of their level (`Disjoint`), and what the lower level gave rises nowhere.
`TurnsAlwaysDoWork`: a turn of the background thread without an I/O error is
such a step while there is anything to flush or to compact, and there is in
every stall. With the fairness of `FullTurn` this is why `StallEnds` and
`EventuallyCompacted` hold beyond the instance of `db_live`.

**Inside a table** (`TableProofs`). `TableFindsNewest`: versions of a key are
contiguous in the file, newest first (`PlacesOrdered`, `BlocksContiguous`), the
index never names a block behind the first one with a version of the key
(`IndexNotTooFar`), and if that one has no visible version the walk from the
first block finds the first that has. `EngineTablesAnswer` (in `ReadersProofs`)
applies it to every table `Db` ever has, with `OncePerSeq` from `OrderInv`.

**The merge loops** (`MergeProofs`). `MergeInv` has three layers:

- `StreamsFit`: the heap has the head of every stream that goes on, and each
  stream is sorted; hence the least head comes before all that is ahead
  (`LeastIs`), and taking it keeps this so and loses no other (`PopIs`). This is
  `MergeInOrder`: every turn takes the first, by key and descending number, of all that
  is ahead in any stream, so the newest version of a key comes first wherever it lies;
- `OrderFits`: keys that were passed are done with. With it a turn either meets
  another version of the key just taken or takes the newest record of the next one
  (`TurnIs`), so that what was taken is `Chosen`, a set given by `lastUser` alone;
- what was made of it: `ScanFits` (the rows are those of `Chosen`), `CutFits` (the
  tables are the first chunks of the survivors and the builder the rest, which
  does not fill a table; the next record falls into the chunk of the
  builder because its rank is the number of those kept), `FlushFits`.

At the end `Chosen` is the newest record of every key. In a scan that is the
newest visible one although memtables give only one record for each key
(`ScanFirsts`). The number of streams is arbitrary.

**Readers** (`ReadersProofs`). `ReadersInv` is `OrderInv`, for the engine is `Db`
as it stands, and

- `FilesFit`: every table of the version has its file, and none of these is doomed;
- `ReadableFits`: among the tables someone may still read, those of the version
  and those on the lists of gets, equal numbers mean equal records;
- `CacheFits`: whatever the cache has of such a table is the block of its file;
- `GetsFit`: a get in progress is `OnCourse` (what the blocks and tables it has
  still to go say, the first that says anything, is what it would have answered
  at its unlock), one between miss and insert has the right block in hand, one that
  failed did so at a table that is `Gone`.

All numbers that occur are below `nextFile`, and no step puts a table into the
version whose number is below and was not there before (`StepFresh`). That
alone is why a cache from which nothing is ever dropped stays right, and why `doomed`
may be a set of numbers. `OnCourse` holds at the unlock because the list is in
the order of `Layered` and `Disjoint` leaves one table of each deeper level
(`TablesForAnswer`), and it is kept from block to block by `TableFindsNewest`,
which is about the same walk. Nothing is assumed of the number of threads, the
capacity of the cache or the entry that a full cache loses.

**Plans** (`DiskState`). `DiskTypeOK`, under every fault. `TypeOK` needs
`PlanInv`: what the holder of the mutex has still to do is the rest of a flush
or of a compaction of what is in memory now, so that no step installs, logs or
removes what is not there any more. The plans are described stage by stage
(`FlushTable`, `FlushDir`, `FlushLog`, .., `CompactTables`, .., `RemovePlans`),
and `Steps` says what a due step reveals about the stage.

**The disk** (`DiskState`, `DiskProofs`). A write can be in three places, and
`DiskInv` relates them:

- the *history*: one sequence number per record (`History`), `safe` in `acked`;
- the *memory* serves it (`LiveOK`): `Serves` is `Layered`, `Disjoint`, and for
  every key the answer of the acknowledged writes and some of the doubtful ones;
- the *disk* does (`DiskOK`): at every mark at which a crash or a power loss may
  cut the log, and at every mark of the MANIFEST, what a recovery would make of
  it serves the history without the lost records (`Recoverable`). Two recoveries
  are covered by the same clause as one, because recovery is applied to prefixes
  of what is on the disk now.
- `Stage` ties memory and disk: for each step of a flush or a compaction it says
  which version the MANIFEST lists, which files are written and whether the
  MANIFEST is synced. Without it nothing would follow about the disk from the
  unlinking of the log (which needs that the flushed tables are listed and
  synced, and the memory empty) or of the inputs of a compaction.

The records come from any set in `LsmProofs` (the parameter `X` of `Newer`
and `Layered`): in `Db` from the present state, here from `Record`. TLC
checked `DiskInv` on the instances of section 3 before it was proved. From it
follow `DiskLiveReads`, `DiskDurable`, `DiskFreshSeqs`, `DiskSurvivesCrash`,
`DiskKeepsFiles`, `DiskNeverRewrites` and the refinement `DiskIsKVStore`. That a
stump costs nothing until something is appended behind it is part of each
(`StumpNotReplayed`, `StumpNotListed`).
Their hypotheses are the faults the code does not withstand:

| hypothesis | because |
|---|---|
| `"midlog" \notin Faults` (all but `DiskTypeOK`) | runs `disk_half_logged`; with it a MANIFEST may end within a group of edits, and the stages above say nothing of such a one |
| `Fsync # "Never"` (`DiskDurable`, `DiskFreshSeqs`) | in that mode nothing is synced, and a MANIFEST may be cut before the table for which the log was dropped. `DiskSurvivesCrash` is what remains |
| `Faults \subseteq {"iowrite"}` (`DiskFilesIntact`, `DiskImmutableFiles`) | run `disk_io_retry`; `FilesIntact` and `ImmutableFiles` do not have `GoodDisk` as a guard, as `DiskKeepsFiles` and `DiskNeverRewrites` do |
| `Fsync = "Always"`, `Faults = {}` (`DiskIsKVStore`) | else an unsynced tail may go, or a failed write may have taken effect |

`torn`, `direntry` and `iotable` are allowed in the first two rows. A `torn`
record may be there and be recovered from. Of the other two, and of appends
behind a stump, the properties say nothing (`GoodDisk`), except for
`LiveReads`, which holds of the process up to the next crash: its proof covers a
flush or a compaction that an I/O error ends at any step and that is tried again.

**The bytes of the logs** (`LogProofs`), for any keys, values and checksum. `LogInv` is
`TypeOK` and `LaidOut`: the file holds the records of `begun`, one behind the
other from its start, each a nonempty beginning of its frame. Appends keep this
whole or cut short (`GrownIsLaidOut`), and so does a power loss, since the
records that begin before the cut are the first ones (`CutIsLaidOut`). What
recovery makes of such a file takes three steps:

- `RecoveryIs`: the recursion is well-founded (each place depends on later ones
  only), so a function that obeys it exists and `Recovery` is one. This is an
  induction over places, written out as a smallest counterexample (`Least`)
  because the induction theorems of the library cannot be used;
- `RecordRead`: of a whole record recovery makes that record and goes on at the
  next, because decoding undoes encoding (`WriteDecodes`, `EditDecodes`: texts
  of any length) and the length is read back from its two cells (`LengthCells`);
  `EndRead`: it ends at the end and at a stump that nothing follows;
- `WholeAreRead`, from the first stump back to the start of the file.

`CrashedFileOpens` and `RecoveryIsThePrefix` follow, and `LogTypeCorrect`. That the checksum tells
anything apart is not needed for them: it is what `MakesUpNothing` is about.

**Only model-checked**: liveness (fairness and ENABLED are beyond the prover), and
`MakesUpNothing`, which no checksum of finite width guarantees.

## 6. Not modelled, and the plan

Next, in the order of their importance:

1. Snapshots and `close` in `DbDisk`; a scan in `Readers`.
2. A table file cut short by a power loss in mode `Never`, with the checks of
   the footer in `SsTable::open`.

Left out, and why:

- *Other programs*: the command line (`bin/jade.rs`), the benches, the error
  enum, metrics (`stats`, write amplification); `compare_encoded` and
  `from_mem_and_sst` have no caller.
- *Two processes on one directory*: nothing stops them; the model has one.
- *Reopening with other `Options`*: fewer `max_levels` drop deeper tables
  silently (`version.rs:39`). The constants are fixed for a behaviour.
- *Quantities*: the log that grows under steady writes (`db.rs:408`), `u64`
  level limits that wrap, sequence numbers above 2^56 (`TableAssumption` excludes
  them), records of 4 GiB or more (`PayloadAssumption`).
- *Mode `Never` under a power loss*, which promises nothing.
- *Disks that do worse than lose a tail*: zero-filled tails, sectors out of
  order, an fsync that fails and drops the pages.
- *A crash in the very first open*: `Init` is a database just created. A
  MANIFEST cut short there reads as that of an empty one.
- *Errors while a Version is built*: `path.exists()` is false also when the file cannot
  be looked at (`version.rs:28`), and then a listed table is left out without a word;
  and `SsTable::open` may fail. In `DbDisk` a table is absent only when its file
  is, and an I/O error there keeps the version there was.
- *An `Open` that fails*: behind a stump the checksum of the log or of the MANIFEST may
  not fit, and recovery returns an error (`wal.rs:102`, `manifest.rs:83`). `LogFile`
  has that (`FailsOnlyBehindStump`); in `DbDisk` those states are `behind`. `Db` begins
  with the open of an empty directory, every other open is `DbDisk`'s.
- *A table file cut short*: `finish()` syncs it before the MANIFEST lists it.
