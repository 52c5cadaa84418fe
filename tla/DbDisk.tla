------------------------------- MODULE DbDisk -------------------------------
(***************************************************************************)
(* The engine on its disk: the write-ahead log, the MANIFEST, the table    *)
(* files, and what open() makes of them after a crash.                     *)
(*                                                                         *)
(* The mutex is held through a whole flush or compaction, so no client     *)
(* sees the middle of one; a crash does.  The operation that holds the     *)
(* mutex is the list of the disk steps it has still to take, todo, and a   *)
(* crash may come between any two of them.                                 *)
(*                                                                         *)
(* The faults the model may meet are named in Faults: every run says which *)
(* of them it assumes away.                                                *)
(***************************************************************************)
EXTENDS Lsm, SequencesExt

CONSTANTS
  MemtableBytes,   \* Options.memtable_bytes
  Fsync,           \* Options.fsync: "Always", "Batch" or "Never"
  BatchBytes,      \* Wal.batch_bytes, in records
  Faults,          \* which of AllFaults may happen
  MaxMishaps       \* bound on crashes, power losses and I/O errors in operations

\* midlog:   a crash between two edits of one Manifest::log call
\* torn:     a crash, a power loss or an I/O error inside the append of one
\*           record to the log or the MANIFEST
\* direntry: a power loss takes a directory entry that was not synced
\* iowrite:  an I/O error in a write to the log
\* iotable:  an I/O error in a step of a flush or compaction
AllFaults == {"midlog", "torn", "direntry", "iowrite", "iotable"}

ASSUME DiskAssumption ==
  /\ MemtableBytes \in Nat
  /\ Fsync \in {"Always", "Batch", "Never"}
  /\ BatchBytes \in Nat \ {0}
  /\ Faults \subseteq AllFaults
  /\ MaxMishaps \in Nat

Torn == [key |-> -1]      \* the stump of a record: no Record is equal to it

VARIABLES
  \* the disk
  wal,        \* CURRENT.log: the records appended, in order
  walSynced,  \* how many of them an fsync has covered
  walEntry,   \* whether a sync_dir has covered the name CURRENT.log
  man,        \* MANIFEST: the edits appended, in order
  manSynced,  \* how many of them an fsync has covered
  stumps,     \* which of the two, "wal" and "man", end in the stump of a record
  sst,        \* the table files: number -> records
  \* the process
  up,         \* whether it runs
  linked,     \* whether Inner.wal writes to the file named CURRENT.log
  pending,    \* Wal.pending, which only mode Batch reads: 0 in the others
  mem, imms, levels, nextSeq, nextFile,   \* as in Db
  todo,       \* the disk steps the holder of the mutex has still to take
  \* the history
  acked,      \* the records of the writes that returned Ok and were not lost
  safe,       \* those of them that a sync, a freeze or the mode made durable
  doubt,      \* the records that writes returning an error left in the log
  mishaps,    \* how many crashes, power losses and I/O errors there were
  struck      \* what has happened so far: of AllFaults, "crash", and "behind",
              \* an append behind a stump

disk == <<wal, walSynced, walEntry, man, manSynced, stumps, sst>>
memory == <<linked, pending, mem, imms, levels, nextSeq, nextFile>>
history == <<acked, safe, doubt, mishaps, struck>>
vars == <<disk, up, memory, todo, history>>

-----------------------------------------------------------------------------
(* The MANIFEST.  An edit adds a file to a level or deletes it, or records *)
(* the next file number or the last sequence number.                       *)

Meta(t) == [num |-> t.num, lo |-> t.lo, hi |-> t.hi]
AddFile(l, t)      == [op |-> "AddFile", level |-> l, meta |-> Meta(t)]
DeleteFile(l, num) == [op |-> "DeleteFile", level |-> l, num |-> num]
SetNextFileNum(n)  == [op |-> "SetNextFileNum", n |-> n]
SetLastSeq(s)      == [op |-> "SetLastSeq", s |-> s]

\* The two files as a reader finds them, and as an append does: a stump that
\* something is appended to becomes a part of the log.
Stump(log) == IF log \in stumps THEN <<Torn>> ELSE <<>>
WalFile == wal \o Stump("wal")
ManFile == man \o Stump("man")
Behind(log) == IF log \in stumps THEN {"behind"} ELSE {}

\* Both recoveries stop at the first record that a crash cut short.  Bytes
\* appended behind a stump are taken for the rest of its record: at best
\* recovery stops there (as here), at worst the checksum fails and open()
\* returns an error.
BeforeStump(log) == 1..(Min({i \in DOMAIN log : log[i] = Torn} \cup {Len(log) + 1}) - 1)

Ops(edits, op) == {i \in BeforeStump(edits) : edits[i].op = op}

\* Manifest::recover and apply_edit: an AddFile counts unless a later
\* DeleteFile names its level and number; of the Set edits the last counts.
Live(edits, l) ==
  LET deletions == Ops(edits, "DeleteFile")
  IN {edits[i].meta : i \in
        {j \in Ops(edits, "AddFile") :
           /\ edits[j].level = l
           /\ \A d \in deletions :
                d > j => edits[d].level # l \/ edits[d].num # edits[j].meta.num}}
LastNextFileNum(edits) ==
  LET I == Ops(edits, "SetNextFileNum") IN IF I = {} THEN 1 ELSE edits[Max(I)].n
LastSeq(edits) ==
  LET I == Ops(edits, "SetLastSeq") IN IF I = {} THEN 0 ELSE edits[Max(I)].s

\* Version::from_metas: open each file that exists, skip one that does not.  An
\* error of the test whether it exists, which counts as absence there, and one of
\* SsTable::open are left out; IoError at the install has the latter's effect.
Opened(metas, files) ==
  {[num |-> m.num, lo |-> m.lo, hi |-> m.hi, recs |-> files[m.num]] :
     m \in {x \in metas : x.num \in DOMAIN files}}
Version(edits, files) == [l \in Level |-> Opened(Live(edits, l), files)]

Replayed(log) == {log[i] : i \in BeforeStump(log)}

RecoveredSeq(log, edits) == Max({LastSeq(edits)} \cup {r.seq : r \in Replayed(log)})

\* What a get answers after a reopen.
ReopenGet(log, edits, files, k) ==
  Answer(Lookup(Replayed(log), <<>>, Version(edits, files), k, MaxSeq))

-----------------------------------------------------------------------------
(* A database just created: open() on an empty directory.                  *)

NewManifest == <<SetNextFileNum(1), SetLastSeq(0)>>
Synced(n) == IF Fsync = "Never" THEN 0 ELSE n

Init ==
  /\ wal = <<>> /\ walSynced = 0 /\ walEntry = FALSE
  /\ man = NewManifest /\ manSynced = Synced(Len(NewManifest))
  /\ stumps = {} /\ sst = <<>>
  /\ up = TRUE /\ linked = TRUE /\ pending = 0
  /\ mem = {} /\ imms = <<>> /\ levels = [l \in Level |-> {}]
  /\ nextSeq = 0 /\ nextFile = 1
  /\ todo = <<>>
  /\ acked = {} /\ safe = {} /\ doubt = {} /\ mishaps = 0 /\ struck = {}

Idle == up /\ todo = <<>>

-----------------------------------------------------------------------------
(* Writers.                                                                *)

\* Inner.wal may be a file that has lost its name.
Logged(r) == IF linked THEN Append(WalFile, r) ELSE wal

\* put and delete: append to the log, sync as the mode says, insert, and
\* freeze a full memtable behind another sync.  A process that dies after the
\* append and before the caller has its Ok died after the write.
WriteTakesSeqLate(k, v) ==
  /\ Idle
  /\ ~Stalled(imms, levels)
  /\ nextSeq < MaxSeq
  /\ nextSeq' = nextSeq + 1
  /\ mem' = mem \cup {[key |-> k, seq |-> nextSeq, val |-> v]}
  /\ UNCHANGED <<disk, up, linked, pending, imms, levels, nextFile, todo, history>>

Write(k, v) ==
  LET r      == [key |-> k, seq |-> nextSeq + 1, val |-> v]
      m      == mem \cup {r}
      full   == Cardinality(m) >= MemtableBytes
      synced == \/ Fsync = "Always"
                \/ Fsync = "Batch" /\ (pending + 1 >= BatchBytes \/ full)
  IN /\ Idle
     /\ ~Stalled(imms, levels)
     /\ nextSeq < MaxSeq
     /\ nextSeq' = nextSeq + 1
     /\ wal' = Logged(r) /\ stumps' = stumps \ {"wal"}
     /\ struck' = struck \cup Behind("wal")
     /\ walSynced' = IF synced THEN Len(wal') ELSE walSynced
     /\ pending' = IF synced \/ Fsync # "Batch" THEN 0 ELSE pending + 1
     /\ IF full THEN mem' = {} /\ imms' = Append(imms, m)
                ELSE mem' = m /\ imms' = imms
     /\ acked' = acked \cup {r}
     /\ safe' = IF synced THEN acked' ELSE safe
     /\ UNCHANGED <<walEntry, man, manSynced, sst, up, linked, levels, nextFile, todo,
                    doubt, mishaps>>

\* A write that returns an error has used up its sequence number.  Nothing of
\* it is in the log, or a part, behind which the next write will append; or
\* all of it, when the sync of the append failed; or it is in the memtable
\* too, when the sync before the freeze did.
WriteFails(k, v) ==
  LET r    == [key |-> k, seq |-> nextSeq + 1, val |-> v]
      full == Cardinality(mem \cup {r}) >= MemtableBytes
      due  == Fsync = "Always" \/ (Fsync = "Batch" /\ pending + 1 >= BatchBytes)
  IN /\ "iowrite" \in Faults
     /\ Idle
     /\ ~Stalled(imms, levels)
     /\ nextSeq < MaxSeq
     /\ nextSeq' = nextSeq + 1
     /\ \/ /\ struck' = struck \cup {"iowrite"}
           /\ UNCHANGED <<wal, walSynced, stumps, pending, mem, doubt>>
        \/ /\ "torn" \in Faults /\ linked
           /\ wal' = WalFile /\ stumps' = stumps \cup {"wal"}
           /\ struck' = struck \cup {"iowrite", "torn"} \cup Behind("wal")
           /\ UNCHANGED <<walSynced, pending, mem, doubt>>
        \/ /\ due
           /\ wal' = Logged(r) /\ stumps' = stumps \ {"wal"} /\ doubt' = doubt \cup {r}
           /\ pending' = IF Fsync = "Batch" THEN pending + 1 ELSE 0
           /\ struck' = struck \cup {"iowrite"} \cup Behind("wal")
           /\ UNCHANGED <<walSynced, mem>>
        \/ /\ full /\ Fsync # "Never"
           /\ wal' = Logged(r) /\ stumps' = stumps \ {"wal"} /\ doubt' = doubt \cup {r}
           /\ mem' = mem \cup {r}
           /\ IF due THEN walSynced' = Len(wal') /\ pending' = 0
                     ELSE walSynced' = walSynced /\ pending' = pending + 1
           /\ struck' = struck \cup {"iowrite"} \cup Behind("wal")
     /\ UNCHANGED <<walEntry, man, manSynced, sst, up, linked, imms, levels, nextFile, todo,
                    acked, safe, mishaps>>

\* Db::sync: whatever was acknowledged is durable when it returns.
Sync ==
  /\ Idle
  /\ Fsync # "Never"
  /\ walSynced' = Len(wal) /\ pending' = 0
  /\ safe' = acked
  /\ UNCHANGED <<wal, walEntry, man, manSynced, stumps, sst, up, linked, mem, imms, levels,
                 nextSeq, nextFile, todo, acked, doubt, mishaps, struck>>

-----------------------------------------------------------------------------
(* Flush and compaction, one disk step at a time.                          *)

Step(op) == [op |-> op]
WriteSst(t) == [op |-> "sst", num |-> t.num, recs |-> t.recs]
LogEdits(edits) == [op |-> "log", edits |-> edits]
Install(edits) == [op |-> "install", edits |-> edits]
RemoveSst(nums) == [op |-> "remove", nums |-> nums]

\* The log is needed no more once the last frozen memtable is in a table and
\* nothing was written since.
WalResetIgnoresMem ==
  IF Len(imms) = 1 THEN <<Step("unlink"), Step("create")>> ELSE <<>>
WalReset ==
  IF Len(imms) = 1 /\ mem = {} THEN <<Step("unlink"), Step("create")>> ELSE <<>>

FlushEditsWithoutSeq(t) == <<AddFile(0, t), SetNextFileNum(t.num + 1)>>
FlushEdits(t) == <<AddFile(0, t), SetNextFileNum(t.num + 1), SetLastSeq(nextSeq)>>

\* flush_imms, one turn of its loop: table file, MANIFEST, version, log.
FlushPlan ==
  LET t == MkTable(nextFile, Head(imms))
  IN <<WriteSst(t), Step("syncdir"), LogEdits(FlushEdits(t)), Step("syncman"),
       Step("flushed")>> \o WalReset \o <<Step("flush")>>

\* The tables of T in the order of their numbers.
ByNum(T) ==
  CHOOSE s \in Bijection(1..Cardinality(T), T) :
    \A i, j \in DOMAIN s : i < j => s[i].num <= s[j].num
Additions(T, l) == [i \in DOMAIN ByNum(T) |-> AddFile(l, ByNum(T)[i])]

\* The tables of T, of level l, as they stand in the Version: level 0 by number,
\* deeper levels by smallest key.
ByKey(T) ==
  CHOOSE s \in Bijection(1..Cardinality(T), T) :
    \A i, j \in DOMAIN s : i < j => Precedes(s[i], s[j])
InLevel(T, l) == IF l = 0 THEN ByNum(T) ELSE ByKey(T)
Deletions(T, l) == [i \in DOMAIN InLevel(T, l) |-> DeleteFile(l, InLevel(T, l)[i].num)]

CompactEditsWrongLevel(l, upper, lower, outs) ==
  Additions(outs, l + 1) \o Deletions(upper \cup lower, l + 1)
    \o <<SetNextFileNum(AfterLast(outs, nextFile))>>
CompactEditsForgetNumber(l, upper, lower, outs) ==
  Additions(outs, l + 1) \o Deletions(upper, l) \o Deletions(lower, l + 1)
    \o <<SetNextFileNum(nextFile)>>
CompactEdits(l, upper, lower, outs) ==
  Additions(outs, l + 1) \o Deletions(upper, l) \o Deletions(lower, l + 1)
    \o <<SetNextFileNum(AfterLast(outs, nextFile))>>

\* What follows the output files: MANIFEST, version, and last the inputs go.
CommitStepsRemoveFirst(edits, inputs) ==
  <<RemoveSst(inputs), LogEdits(edits), Step("syncman"), Install(edits)>>
CommitSteps(edits, inputs) ==
  <<LogEdits(edits), Step("syncman"), Install(edits), RemoveSst(inputs)>>

\* maybe_compact.  No snapshot outlives the process that took it: a crash
\* closes them all, and here none is open (Db has them).
CompactPlan ==
  LET l     == JobLevel(levels)
      upper == Upper(levels, l)
      lower == Lower(levels, l)
      outs  == Outputs(Survivors(Recs(upper \cup lower), l + 1, MaxSeq), nextFile)
  IN [i \in DOMAIN ByNum(outs) |-> WriteSst(ByNum(outs)[i])]
       \o <<Step("syncdir")>>
       \o CommitSteps(CompactEdits(l, upper, lower, outs), {t.num : t \in upper \cup lower})

\* The caller's flush(): freeze behind a sync of the log, then flush.
StartFlush ==
  /\ Idle
  /\ IF mem = {} THEN UNCHANGED <<imms, walSynced, pending, safe>>
     ELSE /\ imms' = Append(imms, mem)
          /\ walSynced' = IF Fsync = "Never" THEN walSynced ELSE Len(wal)
          /\ pending' = IF Fsync = "Never" THEN pending ELSE 0
          /\ safe' = IF Fsync = "Never" THEN safe ELSE acked
  /\ mem' = {}
  /\ todo' = <<Step("flush")>>
  /\ UNCHANGED <<wal, walEntry, man, manSynced, stumps, sst, up, linked, levels, nextSeq,
                 nextFile, acked, doubt, mishaps, struck>>

\* A turn of the caller's compact(), and one of the background thread.
StartCompact ==
  /\ Idle
  /\ todo' = <<Step("compact")>>
  /\ UNCHANGED <<disk, up, memory, history>>
StartBackground ==
  /\ Idle
  /\ todo' = <<Step("flush"), Step("compact")>>
  /\ UNCHANGED <<disk, up, memory, history>>

Now(op) == up /\ todo # <<>> /\ Head(todo).op = op
Rest == Tail(todo)

PlanFlush ==
  /\ Now("flush")
  /\ IF imms = <<>> THEN todo' = Rest /\ nextFile' = nextFile
                    ELSE todo' = FlushPlan \o Rest /\ nextFile' = nextFile + 1
  /\ UNCHANGED <<disk, up, linked, pending, mem, imms, levels, nextSeq, history>>

PlanCompact ==
  /\ Now("compact")
  /\ todo' = (IF Overfull(levels) = {} THEN <<>> ELSE CompactPlan) \o Rest
  /\ UNCHANGED <<disk, up, memory, history>>

\* The builder's finish(), which truncates a file that is already there and
\* syncs what it wrote.
WriteTable ==
  /\ Now("sst")
  /\ sst' = [n \in DOMAIN sst \cup {Head(todo).num} |->
               IF n = Head(todo).num THEN Head(todo).recs ELSE sst[n]]
  /\ todo' = Rest
  /\ UNCHANGED <<wal, walSynced, walEntry, man, manSynced, stumps, up, memory, history>>

\* sync_dir covers every name in the directory, that of the log included.
SyncDir ==
  /\ Now("syncdir")
  /\ walEntry' = linked
  /\ todo' = Rest
  /\ UNCHANGED <<wal, walSynced, man, manSynced, stumps, sst, up, memory, history>>

\* Manifest::log appends its edits one write at a time.
LogManifest ==
  /\ Now("log")
  /\ \E n \in 1..Len(Head(todo).edits) :
       LET edits == Head(todo).edits
       IN /\ n = IF "midlog" \in Faults THEN 1 ELSE Len(edits)
          /\ man' = ManFile \o SubSeq(edits, 1, n)
          /\ todo' = IF n = Len(edits) THEN Rest
                     ELSE <<LogEdits(SubSeq(edits, n + 1, Len(edits)))>> \o Rest
  /\ stumps' = stumps \ {"man"} /\ struck' = struck \cup Behind("man")
  /\ UNCHANGED <<wal, walSynced, walEntry, manSynced, sst, up, memory, acked, safe, doubt,
                 mishaps>>

SyncManifest ==
  /\ Now("syncman")
  /\ manSynced' = IF Fsync = "Never" THEN manSynced ELSE Len(man)
  /\ todo' = Rest
  /\ UNCHANGED <<wal, walSynced, walEntry, man, stumps, sst, up, memory, history>>

\* The flushed memtable, the oldest, becomes a table of the version.
InstallFlushDropsNewest ==
  /\ Now("flushed")
  /\ levels' = [levels EXCEPT ![0] = @ \cup {MkTable(nextFile - 1, Head(imms))}]
  /\ imms' = Front(imms)
  /\ todo' = Rest
  /\ UNCHANGED <<disk, up, linked, pending, mem, nextSeq, nextFile, history>>

InstallFlush ==
  /\ Now("flushed")
  /\ levels' = [levels EXCEPT ![0] = @ \cup {MkTable(nextFile - 1, Head(imms))}]
  /\ imms' = Tail(imms)
  /\ todo' = Rest
  /\ UNCHANGED <<disk, up, linked, pending, mem, nextSeq, nextFile, history>>

\* The version is rebuilt from the files it had and the compaction's edits,
\* whose deletions follow its additions.
InstallCompaction ==
  /\ Now("install")
  /\ LET edits == Head(todo).edits
         added(l) == {edits[i].meta : i \in {j \in Ops(edits, "AddFile") : edits[j].level = l}}
         gone(l)  == {edits[i].num : i \in {j \in Ops(edits, "DeleteFile") : edits[j].level = l}}
         kept(l)  == {m \in {Meta(t) : t \in levels[l]} \cup added(l) : m.num \notin gone(l)}
     IN /\ levels' = [l \in Level |-> Opened(kept(l), sst)]
        /\ nextFile' = LastNextFileNum(edits)
  /\ todo' = Rest
  /\ UNCHANGED <<disk, up, linked, pending, mem, imms, nextSeq, history>>

RemoveInputs ==
  /\ Now("remove")
  /\ sst' = Restrict(sst, DOMAIN sst \ Head(todo).nums)
  /\ todo' = Rest
  /\ UNCHANGED <<wal, walSynced, walEntry, man, manSynced, stumps, up, memory, history>>

\* The log is recreated in two steps.
UnlinkWal ==
  /\ Now("unlink")
  /\ wal' = <<>> /\ walSynced' = 0 /\ walEntry' = FALSE /\ stumps' = stumps \ {"wal"}
  /\ linked' = FALSE
  /\ todo' = Rest
  /\ UNCHANGED <<man, manSynced, sst, up, pending, mem, imms, levels, nextSeq, nextFile,
                 history>>
CreateWal ==
  /\ Now("create")
  /\ linked' = TRUE /\ pending' = 0
  /\ todo' = Rest
  /\ UNCHANGED <<disk, up, mem, imms, levels, nextSeq, nextFile, history>>

\* An I/O error ends the operation at its next disk step.  A caller gets the
\* error; the background thread goes on to compact whatever became of its
\* flush.  What is left behind: a part of what log() should write, the file
\* numbers of a compaction whose version could not be built, a log without a
\* name when Wal::create fails.  (A table file cut short is not modelled:
\* nothing lists it.)
GivenUp == IF Last(todo).op = "compact" THEN <<Last(todo)>> ELSE <<>>

IoError ==
  /\ "iotable" \in Faults /\ mishaps < MaxMishaps
  /\ \/ /\ Now("sst") \/ Now("syncdir") \/ Now("syncman") \/ Now("flushed") \/ Now("create")
        /\ UNCHANGED <<man, stumps, nextFile>>
     \/ /\ Now("log")
        /\ \E n \in 0..(Len(Head(todo).edits) - 1) :
             man' = ManFile \o SubSeq(Head(todo).edits, 1, n)
        /\ \/ stumps' = stumps \ {"man"}
           \/ "torn" \in Faults /\ stumps' = stumps \cup {"man"}
        /\ nextFile' = nextFile
     \/ /\ Now("install")
        /\ nextFile' = LastNextFileNum(Head(todo).edits)
        /\ UNCHANGED <<man, stumps>>
  /\ todo' = GivenUp
  /\ mishaps' = mishaps + 1 /\ struck' = struck \cup {"iotable"}
  /\ UNCHANGED <<wal, walSynced, walEntry, manSynced, sst, up, linked, pending, mem, imms,
                 levels, nextSeq, acked, safe, doubt>>

-----------------------------------------------------------------------------
(* Crashes and recovery.                                                   *)

Forget ==
  /\ up' = FALSE /\ linked' = FALSE /\ pending' = 0
  /\ mem' = {} /\ imms' = <<>> /\ levels' = [l \in Level |-> {}]
  /\ nextSeq' = 0 /\ nextFile' = 1
  /\ todo' = <<>>

\* The process dies: what it wrote is in the files, synced or not.
Crash ==
  /\ up /\ mishaps < MaxMishaps
  /\ mishaps' = mishaps + 1
  /\ Forget
  /\ \/ struck' = struck \cup {"crash"} /\ UNCHANGED <<wal, man, stumps>>
     \/ /\ "torn" \in Faults
        /\ \/ /\ Idle /\ linked
              /\ wal' = WalFile /\ man' = man /\ stumps' = stumps \cup {"wal"}
              /\ struck' = struck \cup {"crash", "torn"} \cup Behind("wal")
           \/ /\ Now("log")
              /\ man' = ManFile /\ wal' = wal /\ stumps' = stumps \cup {"man"}
              /\ struck' = struck \cup {"crash", "torn"} \cup Behind("man")
  /\ UNCHANGED <<walSynced, walEntry, manSynced, sst, acked, safe, doubt>>

\* What a power loss may leave of the two logs: a prefix that holds all that
\* was synced; of the MANIFEST, whole calls of log() unless Faults says more.
WalPrefixes == walSynced..Len(wal)
ManPrefixes == IF "midlog" \in Faults THEN manSynced..Len(man) ELSE {manSynced, Len(man)}
LostRecords(n) == {wal[i] : i \in (n + 1)..Len(wal)}

\* The logs that it may cut inside a record: the first that is lost, or one
\* that was being appended.
Tearable(n, m) ==
  {log \in {"wal", "man"} :
     /\ "torn" \in Faults
     /\ \/ log \in stumps
        \/ log = "wal" /\ (n < Len(wal) \/ (Idle /\ linked))
        \/ log = "man" /\ (m < Len(man) \/ Now("log"))}
Cut(logs) == IF logs = {} THEN {} ELSE {"torn"}

\* The machine dies.  In mode Never the table files themselves are unsynced
\* and nothing is promised; the mode is not modelled here.
PowerLoss ==
  /\ up /\ mishaps < MaxMishaps
  /\ Fsync # "Never"
  /\ mishaps' = mishaps + 1
  /\ Forget
  /\ \E n \in WalPrefixes, m \in ManPrefixes : \E torn \in SUBSET Tearable(n, m) :
       /\ man' = SubSeq(man, 1, m) /\ manSynced' = m
       /\ \/ /\ wal' = SubSeq(wal, 1, n) /\ walSynced' = n /\ walEntry' = TRUE
             /\ acked' = acked \ LostRecords(n) /\ doubt' = doubt \ LostRecords(n)
             /\ stumps' = torn
             /\ struck' = struck \cup {"crash"} \cup Cut(torn)
          \/ /\ "direntry" \in Faults /\ ~walEntry
             /\ wal' = <<>> /\ walSynced' = 0 /\ walEntry' = FALSE
             /\ stumps' = torn \ {"wal"}
             /\ struck' = struck \cup {"crash", "direntry"} \cup Cut(torn)
             /\ UNCHANGED <<acked, doubt>>
  /\ UNCHANGED <<sst, safe>>

\* open(): MANIFEST, table files, log replay; then both logs are opened for
\* appending as they are.
Open ==
  /\ ~up
  /\ up' = TRUE /\ linked' = TRUE /\ pending' = 0
  /\ mem' = Replayed(WalFile) /\ imms' = <<>>
  /\ levels' = Version(ManFile, sst)
  /\ nextSeq' = RecoveredSeq(WalFile, ManFile)
  /\ nextFile' = LastNextFileNum(ManFile)
  /\ todo' = <<>>
  /\ UNCHANGED <<disk, history>>

Next ==
  \/ \E k \in Keys, v \in Vals \cup {Tomb} : Write(k, v)
  \/ \E k \in Keys, v \in Vals \cup {Tomb} : WriteFails(k, v)
  \/ Sync
  \/ StartFlush
  \/ StartCompact
  \/ StartBackground
  \/ PlanFlush
  \/ PlanCompact
  \/ WriteTable
  \/ SyncDir
  \/ LogManifest
  \/ SyncManifest
  \/ InstallFlush
  \/ InstallCompaction
  \/ RemoveInputs
  \/ UnlinkWal
  \/ CreateWal
  \/ IoError
  \/ Crash
  \/ PowerLoss
  \/ Open

Spec == Init /\ [][Next]_vars

-----------------------------------------------------------------------------
(* Safety.                                                                 *)

TypeOK ==
  /\ wal \in Seq(Record \cup {Torn}) /\ walSynced \in 0..Len(wal)
  /\ walEntry \in BOOLEAN /\ up \in BOOLEAN /\ linked \in BOOLEAN
  /\ manSynced \in 0..Len(man) /\ stumps \subseteq {"wal", "man"}
  /\ \A n \in DOMAIN sst : n \in Nat /\ sst[n] \in SUBSET Record
  /\ pending \in Nat
  /\ mem \in SUBSET Record
  /\ imms \in Seq(SUBSET Record)
  /\ levels \in Levels
  /\ nextSeq \in 0..MaxSeq
  /\ nextFile \in Nat \ {0}
  /\ acked \in SUBSET Record /\ safe \in SUBSET Record /\ doubt \in SUBSET Record
  /\ mishaps \in 0..MaxMishaps /\ struck \subseteq AllFaults \cup {"crash", "behind"}

Written(S, k) == Answer(Visible(S, k, MaxSeq))

\* What a read of k may answer when the writes of S took effect and any of
\* those in doubt may have.
MayRead(S, k) == {Written(S \cup D, k) : D \in SUBSET doubt}

\* At the end of what a crash leaves of a log there may be a stump.
Tails == IF "torn" \in Faults THEN {<<>>, <<Torn>>} ELSE {<<>>}

\* At every moment, whichever disk step was the last: after a reopen every key
\* reads as the acknowledged writes say, the tail of them that a power loss
\* may take excepted, and none that was made safe is in that tail.
Durable ==
  \A n \in WalPrefixes, m \in ManPrefixes :
    /\ safe \cap LostRecords(n) = {}
    /\ \A k \in Keys, s, t \in Tails :
         ReopenGet(SubSeq(wal, 1, n) \o s, SubSeq(man, 1, m) \o t, sst, k)
           \in MayRead(acked \ LostRecords(n), k)

\* The disk took every step of the operations that was not cut short: crashes
\* may have come between any two steps or inside the append of a record, and
\* writes to the log may have failed, but nothing was appended behind a stump.
GoodDisk == struck \subseteq {"crash", "iowrite", "torn"}
DurableOnGoodDisk == GoodDisk => Durable

\* While the process runs, reads see the acknowledged writes: nothing is lost
\* between log, memtables and tables in the middle of an operation, after any
\* number of recoveries, nor, as long as there is none, by an operation that
\* an I/O error ended and that is tried again.
LiveReads ==
  up /\ (GoodDisk \/ "crash" \notin struck) =>
    \A k \in Keys : Answer(Lookup(mem, imms, levels, k, MaxSeq)) \in MayRead(acked, k)

\* from_metas skips a file that is missing and does not look into the others,
\* so every file the MANIFEST lists must be there, with the range it lists.
FilesIntact ==
  \A m \in ManPrefixes, l \in Level : \A f \in Live(SubSeq(man, 1, m), l) :
    f.num \in DOMAIN sst /\ f = Meta(MkTable(f.num, sst[f.num]))

\* An SSTable is immutable: no step rewrites a file that the MANIFEST lists
\* (create() truncates, so that takes a number given out twice).
ImmutableFiles ==
  [][\A l \in Level : \A f \in Live(man, l) :
       f.num \in DOMAIN sst \cap DOMAIN sst' => sst'[f.num] = sst[f.num]]_vars

\* No sequence number of a write that survives is given out again: the later
\* write would not be newer.
FreshSeqs ==
  GoodDisk => \A n \in WalPrefixes, m \in ManPrefixes, s, t \in Tails :
    \A r \in (acked \cup doubt) \ LostRecords(n) :
      r.seq <= RecoveredSeq(SubSeq(wal, 1, n) \o s, SubSeq(man, 1, m) \o t)

\* In mode Always the disk, as a reopen would read it, is the map of KVStore:
\* each acknowledged write is one step of it, and flushes, compactions,
\* crashes and recoveries are none.
KV == INSTANCE KVStore WITH
        kv <- [k \in Keys |-> ReopenGet(wal, man, sst, k)],
        writes <- Cardinality(acked)
DiskImplementsKVStore == KV!Spec

=============================================================================
