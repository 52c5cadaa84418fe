----------------------------- MODULE DiskProofs -----------------------------
(***************************************************************************)
(* Theorems about the engine on its disk, for any keys, options and        *)
(* bounds: no read and no reopen misses a write, no number is given out    *)
(* twice, the files that the manifest lists are there and never rewritten, *)
(* and with Fsync = "Always" on a disk that never fails the engine is the  *)
(* map that KVStore specifies.  Each theorem names the faults it allows;   *)
(* those about the answers allow all but a crash within one Manifest::log. *)
(*                                                                         *)
(* The inductive invariant relates the three places a write can be in, the *)
(* history, the memory and the disk.  The memory serves the writes of the  *)
(* history as long as it can be trusted; so does what recovery would make  *)
(* of the disk, at every mark at which a crash or a power loss may cut the *)
(* logs, the writes lost behind the mark excepted; and Stage says, for     *)
(* each step of a flush or a compaction, how far the disk is ahead of the  *)
(* memory.                                                                 *)
(***************************************************************************)
EXTENDS DiskState

\* The records of the log up to a mark, and the marks at which a crash or a
\* power loss may cut the logs.
LogRecs(n) == {wal[i] : i \in 1..n}
WalMarks == IF Fsync = "Never" THEN {Len(wal)} ELSE WalPrefixes
ManMarks == IF Fsync = "Never" THEN {Len(man)} ELSE {manSynced, Len(man)}

\* Replaying R over the tables that the edits list serves the writes of K, and
\* perhaps some of D, and gives out fresh file and sequence numbers.
Recovers(R, edits, files, K, D) ==
  LET lv == Version(edits, files)
  IN  /\ Lists(edits, files, lv) /\ Numbered(lv, LastNextFileNum(edits))
      /\ Serves(R, <<>>, lv, K, D)
      /\ \A r \in K \cup D : r \in R \/ r.seq <= LastSeq(edits)

LogOK ==
  /\ \A i, j \in 1..Len(wal) : wal[i] = wal[j] => i = j
  /\ \A i \in 1..Len(wal) : wal[i] \in acked \cup doubt
  /\ \A n \in WalMarks : safe \cap LostRecords(n) = {}
ManOK ==
  /\ man \in Seq(Edit)
  /\ \A m \in ManMarks : LastNextFileNum(SubSeq(man, 1, m)) <= LastNextFileNum(man)
Recoverable ==
  \A n \in WalMarks, m \in ManMarks :
    Recovers(LogRecs(n), SubSeq(man, 1, m), sst, acked \ LostRecords(n), doubt \ LostRecords(n))
DiskOK == LogOK /\ ManOK /\ Recoverable

\* The memory is right as long as the disk was when it was last read.
Trusted == GoodDisk \/ "crash" \notin struck

History == OncePerSeq(acked \cup doubt) /\ safe \subseteq acked

LiveOK ==
  /\ Serves(mem, imms, levels, acked, doubt)
  /\ FilesIn(levels, sst)
  /\ \A r \in acked \cup doubt : r.seq <= nextSeq

\* Whatever a flush will take out of memory is in the log.
MemOK ==
  /\ linked \/ todo \in CreatePlans
  /\ mem \subseteq LogRecs(Len(wal))
  /\ \A i \in DOMAIN imms : \A n \in WalMarks : imms[i] \subseteq LogRecs(n)

\* A good disk lists the tables of lv and has given out the numbers below nf.
OnDisk(lv, nf) == GoodDisk => Lists(man, sst, lv) /\ LastNextFileNum(man) = nf
ManIsSynced == GoodDisk => Fsync = "Never" \/ manSynced = Len(man)
SeqIsListed == GoodDisk => LastSeq(man) = nextSeq

WithTable(lv, t) == [lv EXCEPT ![0] = @ \cup {t}]
JobDone == MaybeCompact(levels, nextFile, MaxSeq)

\* How far the holder of the mutex is.
Resting ==
  /\ todo \in Idling \/ (todo \in CreatePlans /\ mem = {} /\ imms = <<>>)
  /\ Numbered(levels, nextFile) /\ OnDisk(levels, nextFile)
LogNotNeeded ==
  /\ todo \in UnlinkPlans /\ mem = {} /\ imms = <<>>
  /\ Numbered(levels, nextFile) /\ OnDisk(levels, nextFile)
  /\ ManIsSynced /\ SeqIsListed
Flushing == imms # <<>> /\ nextFile > 1 /\ Numbered(levels, nextFile - 1)
FlushUnlisted ==
  /\ Flushing /\ OnDisk(levels, nextFile - 1)
  /\ \/ todo \in FlushTable(NewTable, NewEdits, LastOne)
     \/ todo \in FlushDir(NewEdits, LastOne) \cup FlushLog(NewEdits, LastOne) /\ Filed(NewTable, sst)
FlushListed0 ==
  /\ Flushing /\ OnDisk(WithTable(levels, NewTable), nextFile) /\ SeqIsListed
  /\ Filed(NewTable, sst)
  /\ \/ todo \in FlushSync(LastOne)
     \/ todo \in FlushInstall(LastOne) /\ ManIsSynced
Compacting == Overfull(levels) # {} /\ Numbered(levels, nextFile)
JobWriting ==
  /\ Compacting /\ OnDisk(levels, nextFile)
  /\ \E ws \in Seq({WriteSst(t) : t \in JobOuts}), z \in CompactDir(JobEdits, JobFiles) :
       /\ todo = ws \o z
       /\ \A t \in JobOuts : Filed(t, sst) \/ \E i \in 1..Len(ws) : ws[i] = WriteSst(t)
JobUnlisted ==
  /\ Compacting /\ OnDisk(levels, nextFile) /\ (\A t \in JobOuts : Filed(t, sst))
  /\ todo \in CompactLog(JobEdits, JobFiles)
JobIsListed ==
  /\ Compacting /\ OnDisk(JobDone.levels, JobDone.nextFile) /\ (\A t \in JobOuts : Filed(t, sst))
  /\ \/ todo \in CompactSync(JobEdits, JobFiles)
     \/ todo \in CompactInstall(JobEdits, JobFiles) /\ ManIsSynced
Removing ==
  /\ \E N \in SUBSET Nat : /\ todo = <<RemoveSst(N)>>
                           /\ \A l \in Level : \A t \in levels[l] : t.num \notin N
  /\ Numbered(levels, nextFile) /\ OnDisk(levels, nextFile) /\ ManIsSynced
Stage ==
  \/ Resting \/ LogNotNeeded \/ FlushUnlisted \/ FlushListed0
  \/ JobWriting \/ JobUnlisted \/ JobIsListed \/ Removing

DiskInv ==
  /\ ~up => "crash" \in struck
  /\ GoodDisk => DiskOK
  /\ Trusted => History
  /\ Trusted /\ up => LiveOK /\ Stage
  /\ GoodDisk /\ up => MemOK

-----------------------------------------------------------------------------
(* Recovery after more writes, more files and more edits.                  *)

\* A record appended to the log is recovered, as a write that took effect or as one in doubt.
LEMMA RecoversWrite ==
  ASSUME NEW R, NEW edits, NEW files, NEW K \in SUBSET Record, NEW D \in SUBSET Record,
         Recovers(R, edits, files, K, D), OncePerSeq(K \cup D),
         NEW r \in Record, \A q \in K \cup D : q.seq < r.seq
  PROVE  /\ Recovers(R \cup {r}, edits, files, K \cup {r}, D)
         /\ Recovers(R \cup {r}, edits, files, K, D \cup {r})
<1> DEFINE lv == Version(edits, files)
<1>1. /\ Lists(edits, files, lv) /\ Numbered(lv, LastNextFileNum(edits))
      /\ Serves(R, <<>>, lv, K, D)
      /\ \A q \in K \cup D : q \in R \/ q.seq <= LastSeq(edits)
  BY DEF Recovers
<1> HIDE DEF lv
<1>2. Serves(R \cup {r}, <<>>, lv, K \cup {r}, D)
  BY <1>1, ServesWrite
<1>3. Serves(R \cup {r}, <<>>, lv, K, D \cup {r})
  BY <1>1, ServesDoubt
<1> QED
  BY <1>1, <1>2, <1>3 DEF Recovers, lv

\* Files that nothing lists may come and go.
LEMMA RecoversFiles ==
  ASSUME NEW R, NEW edits, NEW f, NEW g, NEW K, NEW D, Recovers(R, edits, f, K, D),
         \A l \in Level : \A t \in Version(edits, f)[l] : t.num \in DOMAIN g /\ g[t.num] = f[t.num]
  PROVE  Recovers(R, edits, g, K, D)
<1> DEFINE lv == Version(edits, f)
<1>1. /\ Lists(edits, f, lv) /\ Numbered(lv, LastNextFileNum(edits)) /\ Serves(R, <<>>, lv, K, D)
      /\ \A q \in K \cup D : q \in R \/ q.seq <= LastSeq(edits)
  BY DEF Recovers
<1>2. \A l \in Level : \A t \in lv[l] : t.num \in DOMAIN g /\ g[t.num] = f[t.num]
  OBVIOUS
<1> HIDE DEF lv
<1>3. Lists(edits, g, lv)
  BY <1>1, <1>2, ListsKept
<1>4. lv \in [Level -> SUBSET Stock]
  BY <1>1, SoundStored DEF Serves, Stored
<1>5. Version(edits, g) = lv
  BY <1>3, <1>4, ListsVersion
<1> QED
  BY <1>1, <1>3, <1>5 DEF Recovers

\* Logging a flushed table changes nothing that is recovered.
LEMMA RecoversFlush ==
  ASSUME NEW R, NEW old \in Seq(Edit), NEW files, NEW lv, NEW K, NEW D,
         Recovers(R, old, files, K, D), Lists(old, files, lv), Sound(lv),
         NEW nf \in Nat \ {0}, LastNextFileNum(old) = nf, NEW S \in Batch, S \subseteq R,
         \A l \in Level : Newer(Record, S, Recs(lv[l])),
         Filed(MkTable(nf, S), files), nextSeq \in 0..MaxSeq, \A r \in K \cup D : r.seq <= nextSeq
  PROVE  Recovers(R, old \o FlushEdits(MkTable(nf, S)), files, K, D)
<1> DEFINE t   == MkTable(nf, S)
           w   == WithTable(lv, t)
           new == old \o FlushEdits(t)
           im  == <<S>>
<1>1. lv \in [Level -> SUBSET Stock]
  BY SoundStored DEF Stored
<1>2. Version(old, files) = lv
  BY <1>1, ListsVersion
<1>3. Numbered(lv, nf) /\ Serves(R, <<>>, lv, K, D)
  BY <1>2 DEF Recovers
<1>4. t \in Built /\ t.num = nf
  BY MkTableBuilt
<1>5. im \in Seq(Batch) /\ im # <<>> /\ Head(im) = S /\ Tail(im) = <<>>
  OBVIOUS
<1>6. Serves(R, im, lv, K, D)
  BY <1>3, ServesLogged
<1>7. Serves(R, <<>>, w, K, D) /\ Numbered(w, nf + 1)
  <2> HIDE DEF im
  <2> DEFINE x == [lv EXCEPT ![0] = @ \cup {MkTable(nf, Head(im))}]
  <2>1. Serves(R, Tail(im), x, K, D) /\ Numbered(x, nf + 1)
    BY <1>3, <1>5, <1>6, ServesFlush
  <2>2. x = w
    BY <1>5 DEF WithTable
  <2> QED
    BY <1>5, <2>1, <2>2
<1>8. Lists(new, files, w)
  BY <1>4, FlushListed DEF WithTable
<1>9. LastNextFileNum(new) = nf + 1 /\ LastSeq(new) = nextSeq
  BY <1>4, FlushLogged
<1> HIDE DEF t, w, new, im
<1>10. w \in [Level -> SUBSET Stock]
  BY <1>7, SoundStored DEF Serves, Stored
<1>11. Version(new, files) = w
  BY <1>8, <1>10, ListsVersion
<1> QED
  BY <1>7, <1>8, <1>9, <1>11 DEF Recovers, new, t

\* Logging a compaction changes nothing that is recovered.
LEMMA RecoversJob ==
  ASSUME NEW R \in SUBSET Record, NEW old \in Seq(Edit), NEW files, NEW K \in SUBSET Record,
         NEW D \in SUBSET Record, Recovers(R, old, files, K, D), OncePerSeq(K \cup D),
         Lists(old, files, levels), Sound(levels), nextFile \in Nat \ {0}, Numbered(levels, nextFile),
         Overfull(levels) # {}, \A t \in JobOuts : Filed(t, files)
  PROVE  Recovers(R, old \o JobEdits, files, K, D)
<1> DEFINE c   == JobDone
           new == old \o JobEdits
           im  == <<>>
<1>1. levels \in [Level -> SUBSET Stock]
  BY SoundStored DEF Stored
<1>2. Version(old, files) = levels
  BY <1>1, ListsVersion
<1>3. Serves(R, im, levels, K, D) /\ \A q \in K \cup D : q \in R \/ q.seq <= LastSeq(old)
  BY <1>2 DEF Recovers
<1>4. im \in Seq(Batch)
  OBVIOUS
<1>5. Serves(R, im, c.levels, K, D)
  <2> HIDE DEF im
  <2> QED
    BY <1>3, <1>4, ServesCompact DEF JobDone
<1>6. Numbered(c.levels, c.nextFile)
  BY CompactKeepsNumbers DEF JobDone
<1>7. /\ Lists(new, files, c.levels)
      /\ LastNextFileNum(new) = c.nextFile /\ LastSeq(new) = LastSeq(old)
  BY JobListed DEF JobDone
<1> HIDE DEF c, new
<1>8. c.levels \in [Level -> SUBSET Stock]
  BY <1>5, SoundStored DEF Serves, Stored
<1>9. Version(new, files) = c.levels
  BY <1>7, <1>8, ListsVersion
<1> QED
  BY <1>3, <1>5, <1>6, <1>7, <1>9 DEF Recovers, new

-----------------------------------------------------------------------------
(* Steps that leave something alone.                                       *)

\* What has struck is not forgotten.
LEMMA Hindsight ==
  ASSUME struck \subseteq struck'
  PROVE  (GoodDisk' => GoodDisk) /\ (Trusted' => Trusted)
BY DEF GoodDisk, Trusted

\* The marks are marks of the logs, the ends among them, and a whole log loses nothing.
LEMMA WalMarksAre ==
  ASSUME DiskType
  PROVE  /\ WalMarks \subseteq 0..Len(wal) /\ Len(wal) \in WalMarks /\ Len(wal) \in Nat
         /\ ManMarks \subseteq 0..Len(man) /\ Len(man) \in ManMarks /\ Len(man) \in Nat
         /\ LostRecords(Len(wal)) = {}
<1>1. Len(wal) \in Nat /\ Len(man) \in Nat /\ walSynced \in 0..Len(wal) /\ manSynced \in 0..Len(man)
  BY DEF DiskType
<1> DEFINE n == Len(wal)
<1>2. LostRecords(n) = {}
  <2>1. (n + 1)..n = {}
    BY <1>1
  <2> QED
    BY <2>1 DEF LostRecords
<1>3. WalMarks \subseteq 0..n /\ n \in WalMarks
  BY <1>1 DEF WalMarks, WalPrefixes
<1>4. ManMarks \subseteq 0..Len(man) /\ Len(man) \in ManMarks
  BY <1>1 DEF ManMarks
<1> QED
  BY <1>1, <1>2, <1>3, <1>4

\* A manifest that is synced is cut nowhere.
LEMMA SynchronizedMarks ==
  ASSUME DiskType
  PROVE  Fsync = "Never" \/ manSynced = Len(man) => ManMarks = {Len(man)}
BY DEF ManMarks

\* With fewer marks, as after a sync, the disk still serves.
LEMMA MarksFewer ==
  ASSUME UNCHANGED <<wal, man, sst, acked, doubt>>, DiskOK,
         WalMarks' \subseteq WalMarks, ManMarks' \subseteq ManMarks,
         \A n \in WalMarks' : safe' \cap LostRecords(n) = {}
  PROVE  DiskOK'
<1>1. /\ \A n : LogRecs(n)' = LogRecs(n)
      /\ \A n : LostRecords(n)' = LostRecords(n)
  BY DEF LogRecs, LostRecords
<1>2. LogOK'
  BY <1>1 DEF DiskOK, LogOK
<1>3. ManOK'
  BY DEF DiskOK, ManOK
<1>4. Recoverable'
  <2> SUFFICES ASSUME NEW n \in WalMarks', NEW m \in ManMarks'
               PROVE  Recovers(LogRecs(n), SubSeq(man, 1, m), sst, acked \ LostRecords(n), doubt \ LostRecords(n))'
    BY DEF Recoverable
  <2>1. Recovers(LogRecs(n), SubSeq(man, 1, m), sst, acked \ LostRecords(n), doubt \ LostRecords(n))
    BY DEF DiskOK, Recoverable
  <2> QED
    BY <1>1, <2>1
<1> QED
  BY <1>2, <1>3, <1>4 DEF DiskOK

\* What does not touch the disk and the history leaves them in agreement.
LEMMA DiskStays ==
  ASSUME UNCHANGED <<wal, walSynced, man, manSynced, sst, acked, safe, doubt>>, DiskOK
  PROVE  DiskOK'
<1>1. WalMarks' = WalMarks /\ ManMarks' = ManMarks
  BY DEF WalMarks, ManMarks, WalPrefixes
<1>2. \A n \in WalMarks : safe' \cap LostRecords(n) = {}
  BY DEF DiskOK, LogOK
<1> QED
  BY <1>1, <1>2, MarksFewer

\* A history that does not change is one.
LEMMA HistoryStays ==
  ASSUME UNCHANGED <<acked, safe, doubt>>, History
  PROVE  History'
BY DEF History

\* What does not touch the memory and the log leaves them in agreement.
LEMMA MemStays ==
  ASSUME UNCHANGED <<wal, walSynced, linked, mem, imms>>, MemOK,
         linked \/ todo' \in CreatePlans
  PROVE  MemOK'
<1>1. WalMarks' = WalMarks /\ \A n : LogRecs(n)' = LogRecs(n)
  BY DEF WalMarks, WalPrefixes, LogRecs
<1> QED
  BY <1>1 DEF MemOK

\* The log with one record more.
LEMMA LogGrows ==
  ASSUME NEW S, wal \in Seq(S), NEW r \in S, wal' = Append(wal, r)
  PROVE  /\ Len(wal) \in Nat /\ Len(wal') = Len(wal) + 1
         /\ wal'[Len(wal) + 1] = r /\ \A i \in 1..Len(wal) : wal'[i] = wal[i]
         /\ \A n \in 0..Len(wal) : LogRecs(n)' = LogRecs(n) /\ LostRecords(n)' = LostRecords(n) \cup {r}
         /\ \A n : n = Len(wal) + 1 =>
              LogRecs(n)' = LogRecs(Len(wal)) \cup {r} /\ LostRecords(n)' = {}
<1> DEFINE N == Len(wal)
           v == wal'
<1>1. /\ N \in Nat /\ Len(v) = N + 1 /\ v[N + 1] = r /\ \A i \in 1..N : v[i] = wal[i]
  OBVIOUS
<1>2. ASSUME NEW n \in 0..N
      PROVE  LogRecs(n)' = LogRecs(n) /\ LostRecords(n)' = LostRecords(n) \cup {r}
  <2> HIDE DEF N
  <2>1. \A i \in 1..n : v[i] = wal[i]
    BY <1>1
  <2>2. LogRecs(n)' = LogRecs(n)
    BY <2>1 DEF LogRecs, v
  <2>3. LostRecords(n) = {wal[i] : i \in (n + 1)..N} /\ LostRecords(n)' = {v[i] : i \in (n + 1)..(N + 1)}
    <3>1. Len(v) = Len(wal) + 1
      BY <1>1 DEF N
    <3> QED
      BY <3>1 DEF LostRecords, v, N
  <2>4. \A i \in (n + 1)..(N + 1) : i \in (n + 1)..N \/ i = N + 1
    BY <1>1
  <2>5. \A i \in (n + 1)..N : i \in (n + 1)..(N + 1) /\ v[i] = wal[i]
    BY <1>1
  <2>6. N + 1 \in (n + 1)..(N + 1)
    BY <1>1
  <2> HIDE DEF v
  <2>7. {v[i] : i \in (n + 1)..(N + 1)} = {wal[i] : i \in (n + 1)..N} \cup {r}
    <3>1. \A x : x \in {v[i] : i \in (n + 1)..(N + 1)} => x \in {wal[i] : i \in (n + 1)..N} \cup {r}
      BY <1>1, <2>4, <2>5
    <3>2. \A x : x \in {wal[i] : i \in (n + 1)..N} \cup {r} => x \in {v[i] : i \in (n + 1)..(N + 1)}
      BY <1>1, <2>5, <2>6
    <3> QED
      BY <3>1, <3>2
  <2> QED
    BY <2>2, <2>3, <2>7
<1>3. ASSUME NEW n, n = N + 1
      PROVE  LogRecs(n)' = LogRecs(N) \cup {r} /\ LostRecords(n)' = {}
  <2> HIDE DEF N
  <2>1. LogRecs(n)' = {v[i] : i \in 1..(N + 1)} /\ LogRecs(N) = {wal[i] : i \in 1..N}
    BY <1>3 DEF LogRecs, v
  <2>2. LostRecords(n)' = {}
    <3>1. (n + 1)..Len(v) = {}
      BY <1>1, <1>3
    <3> QED
      BY <3>1 DEF LostRecords, v
  <2>3. \A i \in 1..(N + 1) : i \in 1..N \/ i = N + 1
    BY <1>1
  <2>4. \A i \in 1..N : i \in 1..(N + 1) /\ v[i] = wal[i]
    BY <1>1
  <2>5. N + 1 \in 1..(N + 1)
    BY <1>1
  <2> HIDE DEF v
  <2>6. \A x : x \in {v[i] : i \in 1..(N + 1)} => x \in {wal[i] : i \in 1..N} \cup {r}
    BY <1>1, <2>3, <2>4
  <2>7. \A x : x \in {wal[i] : i \in 1..N} \cup {r} => x \in {v[i] : i \in 1..(N + 1)}
    BY <1>1, <2>4, <2>5
  <2> QED
    BY <2>1, <2>2, <2>6, <2>7
<1> QED
  BY <1>1, <1>2, <1>3 DEF v

-----------------------------------------------------------------------------
(* How far the holder of the mutex is, by what its plan begins with.       *)

\* An output file is written, or the directory is synced once all are.
LEMMA JobFirst ==
  ASSUME TypeInv, JobWriting
  PROVE  /\ Compacting /\ OnDisk(levels, nextFile) /\ todo # <<>>
         /\ \/ /\ Head(todo).op = "syncdir" /\ Tail(todo) \in CompactLog(JobEdits, JobFiles)
               /\ \A t \in JobOuts : Filed(t, sst)
            \/ /\ Head(todo).op = "sst"
               /\ \E t \in JobOuts : Head(todo) = WriteSst(t)
               /\ \E ws \in Seq({WriteSst(t) : t \in JobOuts}), z \in CompactDir(JobEdits, JobFiles) :
                    /\ Tail(todo) = ws \o z
                    /\ \A t \in JobOuts : \/ Filed(t, sst) \/ Head(todo) = WriteSst(t)
                                          \/ \E i \in 1..Len(ws) : ws[i] = WriteSst(t)
<1> DEFINE W == {WriteSst(t) : t \in JobOuts}
<1>1. PICK ws \in Seq(W), z \in CompactDir(JobEdits, JobFiles) :
        /\ todo = ws \o z
        /\ \A t \in JobOuts : Filed(t, sst) \/ \E i \in 1..Len(ws) : ws[i] = WriteSst(t)
  BY DEF JobWriting
<1>2. todo \in Seq(Op)
  BY PlanTyped DEF TypeInv
<1>3. z \in Seq(Op) /\ z # <<>> /\ Head(z).op = "syncdir" /\ Tail(z) \in CompactLog(JobEdits, JobFiles)
  BY CompactPlans
<1>4. \A x \in W : x.op = "sst"
  BY DEF WriteSst
<1> HIDE DEF W
<1>5. \/ ws = <<>> /\ todo = z
      \/ /\ todo # <<>> /\ ws # <<>> /\ Head(todo) \in W /\ Head(todo) = Head(ws)
         /\ Tail(ws) \in Seq(W) /\ Tail(todo) = Tail(ws) \o z /\ Tail(todo) \in Seq(Op)
  <2>1. Joined(todo, ws, z)
    BY <1>1 DEF Joined
  <2>2. \/ ws = <<>> /\ todo = z
        \/ /\ todo # <<>> /\ ws # <<>> /\ Head(todo) \in W /\ Head(todo) = Head(ws)
           /\ Tail(ws) \in Seq(W) /\ Joined(Tail(todo), Tail(ws), z) /\ Tail(todo) \in Seq(Op)
    BY <1>2, <1>3, <2>1, TablesFirst
  <2> QED
    BY <2>2 DEF Joined
<1>6. Compacting /\ OnDisk(levels, nextFile)
  BY DEF JobWriting
<1>7. CASE ws = <<>> /\ todo = z
  <2>1. 1..Len(ws) = {}
    BY <1>7
  <2> QED
    BY <1>1, <1>3, <1>6, <1>7, <2>1
<1>8. CASE /\ todo # <<>> /\ ws # <<>> /\ Head(todo) \in W /\ Head(todo) = Head(ws)
           /\ Tail(ws) \in Seq(W) /\ Tail(todo) = Tail(ws) \o z /\ Tail(todo) \in Seq(Op)
  <2> DEFINE v == Tail(ws)
  <2>1. \A i \in 1..Len(ws) : ws[i] = Head(ws) \/ \E j \in 1..Len(v) : v[j] = ws[i]
    <3> SUFFICES ASSUME NEW i \in 1..Len(ws), i # 1 PROVE \E j \in 1..Len(v) : v[j] = ws[i]
      BY <1>8
    <3>1. i - 1 \in 1..Len(v) /\ v[i - 1] = ws[i]
      BY <1>8
    <3> QED
      BY <3>1
  <2> HIDE DEF v
  <2>2. \A t \in JobOuts : \/ Filed(t, sst) \/ Head(todo) = WriteSst(t)
                           \/ \E i \in 1..Len(v) : v[i] = WriteSst(t)
    BY <1>1, <1>8, <2>1
  <2>3. v \in Seq(W) /\ Tail(todo) = v \o z
    BY <1>8 DEF v
  <2>4. Head(todo).op = "sst" /\ \E t \in JobOuts : Head(todo) = WriteSst(t)
    BY <1>4, <1>8 DEF W
  <2> QED
    BY <1>6, <1>8, <2>2, <2>3, <2>4 DEF W
<1> QED
  BY <1>5, <1>7, <1>8

\* The plan of removing the inputs, and that no level holds them.
LEMMA RemovingFirst ==
  ASSUME Removing
  PROVE  /\ todo # <<>> /\ Head(todo).op = "remove" /\ Tail(todo) = <<>>
         /\ \A l \in Level : \A t \in levels[l] : t.num \notin Head(todo).nums
<1>1. PICK N \in SUBSET Nat : todo = <<RemoveSst(N)>> /\ \A l \in Level : \A t \in levels[l] : t.num \notin N
  BY DEF Removing
<1>2. RemoveSst(N).op = "remove" /\ RemoveSst(N).nums = N
  BY DEF RemoveSst
<1>3. todo # <<>> /\ Head(todo) = RemoveSst(N) /\ Tail(todo) = <<>>
  <2> DEFINE x == RemoveSst(N)
  <2>1. todo = <<x>>
    BY <1>1
  <2> HIDE DEF x
  <2>2. todo # <<>> /\ Head(todo) = x /\ Tail(todo) = <<>>
    BY <2>1
  <2> QED
    BY <2>2 DEF x
<1> QED
  BY <1>1, <1>2, <1>3

\* Between operations, and when one decides to flush or to compact.
LEMMA StageAtRest ==
  ASSUME TypeInv, Stage, todo = <<>> \/ Now("flush") \/ Now("compact")
  PROVE  /\ Numbered(levels, nextFile) /\ OnDisk(levels, nextFile)
         /\ Now("flush") => todo \in Loop /\ Rest \in {<<>>, <<Step("compact")>>}
         /\ Now("compact") => Rest = <<>>
<1>1. CASE Resting
  <2>1. CASE todo \in Idling
    BY <1>1, <2>1, PlanHeads DEF Resting, Now, Rest
  <2>2. CASE todo \in CreatePlans
    BY <1>1, <2>2, PlanHeads DEF Resting, Now, Rest
  <2> QED
    BY <1>1, <2>1, <2>2 DEF Resting
<1>2. ASSUME LogNotNeeded PROVE FALSE
  BY <1>2, PlanHeads DEF LogNotNeeded, Now
<1>3. ASSUME FlushUnlisted PROVE FALSE
  BY <1>3, PlanHeads DEF FlushUnlisted, Now
<1>4. ASSUME FlushListed0 PROVE FALSE
  BY <1>4, PlanHeads DEF FlushListed0, Now
<1>5. ASSUME JobWriting PROVE FALSE
  BY <1>5, JobFirst DEF Now
<1>6. ASSUME JobUnlisted PROVE FALSE
  BY <1>6, PlanHeads DEF JobUnlisted, Now
<1>7. ASSUME JobIsListed PROVE FALSE
  BY <1>7, PlanHeads DEF JobIsListed, Now
<1>8. ASSUME Removing PROVE FALSE
  BY <1>8, RemovingFirst DEF Now
<1> QED
  BY <1>1, <1>2, <1>3, <1>4, <1>5, <1>6, <1>7, <1>8 DEF Stage

\* What is on disk and in the manifest when a step of each kind is due.
LEMMA StageSteps ==
  ASSUME TypeInv, Stage, "midlog" \notin Faults
  PROVE  /\ Now("sst") =>
              \/ /\ Flushing /\ OnDisk(levels, nextFile - 1) /\ Head(todo) = WriteSst(NewTable)
                 /\ Rest \in FlushDir(NewEdits, LastOne)
              \/ /\ Compacting /\ OnDisk(levels, nextFile)
                 /\ \E t \in JobOuts : Head(todo) = WriteSst(t)
                 /\ \E ws \in Seq({WriteSst(t) : t \in JobOuts}), z \in CompactDir(JobEdits, JobFiles) :
                      /\ Rest = ws \o z
                      /\ \A t \in JobOuts : \/ Filed(t, sst) \/ Head(todo) = WriteSst(t)
                                            \/ \E i \in 1..Len(ws) : ws[i] = WriteSst(t)
         /\ Now("syncdir") =>
              \/ /\ Flushing /\ OnDisk(levels, nextFile - 1) /\ Filed(NewTable, sst)
                 /\ Rest \in FlushLog(NewEdits, LastOne)
              \/ /\ Compacting /\ OnDisk(levels, nextFile) /\ \A t \in JobOuts : Filed(t, sst)
                 /\ Rest \in CompactLog(JobEdits, JobFiles)
         /\ Now("log") =>
              \/ /\ Flushing /\ OnDisk(levels, nextFile - 1) /\ Filed(NewTable, sst)
                 /\ Head(todo).edits = NewEdits /\ Rest \in FlushSync(LastOne)
              \/ /\ Compacting /\ OnDisk(levels, nextFile) /\ \A t \in JobOuts : Filed(t, sst)
                 /\ Head(todo).edits = JobEdits /\ Rest \in CompactSync(JobEdits, JobFiles)
         /\ Now("syncman") =>
              \/ /\ Flushing /\ OnDisk(WithTable(levels, NewTable), nextFile) /\ SeqIsListed
                 /\ Filed(NewTable, sst) /\ Rest \in FlushInstall(LastOne)
              \/ /\ Compacting /\ OnDisk(JobDone.levels, JobDone.nextFile)
                 /\ \A t \in JobOuts : Filed(t, sst)
                 /\ Rest \in CompactInstall(JobEdits, JobFiles)
         /\ Now("flushed") =>
              /\ Flushing /\ OnDisk(WithTable(levels, NewTable), nextFile) /\ SeqIsListed /\ ManIsSynced
              /\ Filed(NewTable, sst) /\ Rest \in IF LastOne THEN UnlinkPlans ELSE Loop
         /\ Now("install") =>
              /\ Compacting /\ OnDisk(JobDone.levels, JobDone.nextFile) /\ ManIsSynced
              /\ \A t \in JobOuts : Filed(t, sst)
              /\ Head(todo).edits = JobEdits /\ Rest = <<RemoveSst(JobFiles)>>
         /\ Now("remove") =>
              /\ Numbered(levels, nextFile) /\ OnDisk(levels, nextFile) /\ ManIsSynced /\ Rest = <<>>
              /\ \A l \in Level : \A t \in levels[l] : t.num \notin Head(todo).nums
         /\ Now("unlink") =>
              /\ mem = {} /\ imms = <<>> /\ Numbered(levels, nextFile) /\ OnDisk(levels, nextFile)
              /\ ManIsSynced /\ SeqIsListed /\ Rest \in CreatePlans
         /\ Now("create") =>
              Numbered(levels, nextFile) /\ OnDisk(levels, nextFile) /\ Rest \in Loop
<1>1. CASE Resting
  BY <1>1, PlanHeads DEF Resting, Now, Rest
<1>2. CASE LogNotNeeded
  BY <1>2, PlanHeads DEF LogNotNeeded, Now, Rest
<1>3. CASE FlushUnlisted
  BY <1>3, PlanHeads DEF FlushUnlisted, Now, Rest, Unlogged
<1>4. CASE FlushListed0
  BY <1>4, PlanHeads DEF FlushListed0, Now, Rest
<1>5. CASE JobWriting
  BY <1>5, JobFirst DEF Now, Rest
<1>6. CASE JobUnlisted
  BY <1>6, PlanHeads DEF JobUnlisted, Now, Rest, Unlogged
<1>7. CASE JobIsListed
  BY <1>7, PlanHeads DEF JobIsListed, Now, Rest
<1>8. CASE Removing
  BY <1>8, RemovingFirst DEF Now, Rest, Removing
<1> QED
  BY <1>1, <1>2, <1>3, <1>4, <1>5, <1>6, <1>7, <1>8 DEF Stage

-----------------------------------------------------------------------------
(* Writers.                                                                *)

\* A record more in the log, newer than all of the history.
LEMMA DiskAppends ==
  ASSUME TypeInv, DiskOK, History,
         NEW r \in Record, \A q \in acked \cup doubt : q.seq < r.seq,
         wal' = Append(wal, r), UNCHANGED <<man, manSynced, sst>>,
         WalMarks' \subseteq WalMarks \cup {Len(wal) + 1},
         \/ acked' = acked \cup {r} /\ doubt' = doubt
         \/ acked' = acked /\ doubt' = doubt \cup {r},
         safe' = safe \/ WalMarks' = {Len(wal) + 1}
  PROVE  DiskOK'
<1> DEFINE N == Len(wal)
<1>1. /\ wal \in Seq(Record \cup {Torn}) /\ acked \in SUBSET Record /\ doubt \in SUBSET Record
      /\ WalMarks \subseteq 0..N /\ N \in WalMarks /\ N \in Nat /\ LostRecords(N) = {}
  BY WalMarksAre DEF TypeInv, DiskType, HistoryType
<1>2. /\ Len(wal') = N + 1 /\ wal'[N + 1] = r /\ \A i \in 1..N : wal'[i] = wal[i]
      /\ \A n \in 0..N : LogRecs(n)' = LogRecs(n) /\ LostRecords(n)' = LostRecords(n) \cup {r}
      /\ \A n : n = N + 1 => LogRecs(n)' = LogRecs(N) \cup {r} /\ LostRecords(n)' = {}
  <2>1. r \in Record \cup {Torn}
    OBVIOUS
  <2> QED
    BY <1>1, <2>1, LogGrows
<1>3. r \notin acked \cup doubt
  BY <1>1 DEF Record
<1>4. safe \subseteq acked /\ OncePerSeq(acked \cup doubt)
  BY DEF History
<1> HIDE DEF N
<1>5. \A n \in WalMarks' : n \in WalMarks \/ n = N + 1
  BY DEF N
<1>6. LogOK'
  <2>1. \A i \in 1..N : wal[i] \in acked \cup doubt
    BY DEF DiskOK, LogOK, N
  <2>2. \A i \in 1..(N + 1) : i \in 1..N \/ i = N + 1
    BY <1>1
  <2>3. \A i, j \in 1..(N + 1) : wal'[i] = wal'[j] => i = j
    <3>1. \A i, j \in 1..N : wal[i] = wal[j] => i = j
      BY DEF DiskOK, LogOK, N
    <3>2. \A i \in 1..N : wal'[i] # r
      BY <1>2, <1>3, <2>1
    <3> QED
      BY <1>2, <2>2, <3>1, <3>2
  <2>4. \A i \in 1..(N + 1) : wal'[i] \in acked' \cup doubt'
    BY <1>2, <2>1, <2>2
  <2>5. ASSUME NEW n \in WalMarks' PROVE safe' \cap LostRecords(n)' = {}
    <3>1. CASE n \in WalMarks /\ safe' = safe
      <4>1. safe \cap LostRecords(n) = {} /\ LostRecords(n)' = LostRecords(n) \cup {r}
        BY <1>1, <1>2, <3>1 DEF DiskOK, LogOK
      <4> QED
        BY <1>3, <1>4, <3>1, <4>1
    <3>2. CASE n = N + 1
      BY <1>2, <3>2
    <3> QED
      BY <1>5, <3>1, <3>2 DEF N
  <2> QED
    BY <1>2, <2>3, <2>4, <2>5 DEF LogOK
<1>7. ManMarks' = ManMarks
  BY DEF ManMarks
<1>8. ManOK'
  BY <1>7 DEF ManOK, DiskOK
<1>9. ASSUME NEW n \in WalMarks', NEW m \in ManMarks
      PROVE  Recovers(LogRecs(n)', SubSeq(man, 1, m), sst, acked' \ LostRecords(n)', doubt' \ LostRecords(n)')
  <2>1. CASE n \in WalMarks
    <3>1. Recovers(LogRecs(n), SubSeq(man, 1, m), sst, acked \ LostRecords(n), doubt \ LostRecords(n))
      BY <2>1 DEF DiskOK, Recoverable
    <3>2. LogRecs(n)' = LogRecs(n) /\ LostRecords(n)' = LostRecords(n) \cup {r}
      BY <1>1, <1>2, <2>1
    <3>3. /\ acked' \ LostRecords(n)' = acked \ LostRecords(n)
          /\ doubt' \ LostRecords(n)' = doubt \ LostRecords(n)
      BY <1>3, <3>2
    <3> QED
      BY <3>1, <3>2, <3>3
  <2>2. CASE n = N + 1
    <3>1. Recovers(LogRecs(N), SubSeq(man, 1, m), sst, acked \ LostRecords(N), doubt \ LostRecords(N))
      BY <1>1 DEF DiskOK, Recoverable
    <3>2. acked \ LostRecords(N) = acked /\ doubt \ LostRecords(N) = doubt
      BY <1>1
    <3>3. LogRecs(n)' = LogRecs(N) \cup {r} /\ acked' \ LostRecords(n)' = acked' /\ doubt' \ LostRecords(n)' = doubt'
      BY <1>2, <2>2
    <3>4. /\ Recovers(LogRecs(N) \cup {r}, SubSeq(man, 1, m), sst, acked \cup {r}, doubt)
          /\ Recovers(LogRecs(N) \cup {r}, SubSeq(man, 1, m), sst, acked, doubt \cup {r})
      <4>1. Recovers(LogRecs(N), SubSeq(man, 1, m), sst, acked, doubt)
        BY <3>1, <3>2
      <4>2. acked \in SUBSET Record /\ doubt \in SUBSET Record /\ OncePerSeq(acked \cup doubt)
        BY <1>1, <1>4
      <4> QED
        BY <4>1, <4>2, RecoversWrite
    <3> QED
      BY <3>3, <3>4
  <2> QED
    BY <1>5, <2>1, <2>2
<1>10. Recoverable'
  <2> SUFFICES ASSUME NEW n \in WalMarks', NEW m \in ManMarks'
               PROVE  Recovers(LogRecs(n), SubSeq(man, 1, m), sst, acked \ LostRecords(n), doubt \ LostRecords(n))'
    BY DEF Recoverable
  <2>1. Recovers(LogRecs(n)', SubSeq(man, 1, m), sst, acked' \ LostRecords(n)', doubt' \ LostRecords(n)')
    BY <1>7, <1>9
  <2> QED
    BY <2>1
<1> QED
  BY <1>6, <1>8, <1>10 DEF DiskOK

\* What is in memory is still in the log.
LEMMA MemAppends ==
  ASSUME TypeInv, MemOK, NEW r \in Record, wal' = Append(wal, r),
         WalMarks' \subseteq WalMarks \cup {Len(wal) + 1}
  PROVE  /\ mem \cup {r} \subseteq LogRecs(Len(wal))'
         /\ \A i \in DOMAIN imms : \A n \in WalMarks' : imms[i] \subseteq LogRecs(n)'
<1> DEFINE N == Len(wal)
<1>1. /\ wal \in Seq(Record \cup {Torn}) /\ r \in Record \cup {Torn}
      /\ WalMarks \subseteq 0..N /\ N \in WalMarks /\ N \in Nat
  BY WalMarksAre DEF TypeInv, DiskType
<1>2. /\ Len(wal') = N + 1
      /\ \A n \in 0..N : LogRecs(n)' = LogRecs(n)
      /\ \A n : n = N + 1 => LogRecs(n)' = LogRecs(N) \cup {r}
  BY <1>1, LogGrows
<1>3. \A n \in WalMarks' : n \in WalMarks \/ n = N + 1
  OBVIOUS
<1>4. mem \subseteq LogRecs(N) /\ \A i \in DOMAIN imms : \A n \in WalMarks : imms[i] \subseteq LogRecs(n)
  BY DEF MemOK
<1> HIDE DEF N
<1>5. LogRecs(Len(wal))' = LogRecs(N) \cup {r}
  BY <1>2
<1>6. \A i \in DOMAIN imms : \A n \in WalMarks' : imms[i] \subseteq LogRecs(n)'
  <2> SUFFICES ASSUME NEW i \in DOMAIN imms, NEW n \in WalMarks' PROVE imms[i] \subseteq LogRecs(n)'
    OBVIOUS
  <2>1. CASE n \in WalMarks
    <3>1. imms[i] \subseteq LogRecs(n) /\ LogRecs(n)' = LogRecs(n)
      BY <1>1, <1>2, <1>4, <2>1
    <3> QED
      BY <3>1
  <2>2. CASE n = N + 1
    <3>1. imms[i] \subseteq LogRecs(N) /\ LogRecs(n)' = LogRecs(N) \cup {r}
      BY <1>1, <1>2, <1>4, <2>2
    <3> QED
      BY <3>1
  <2> QED
    BY <1>3, <2>1, <2>2
<1> QED
  BY <1>4, <1>5, <1>6

\* A newer write, acknowledged or in doubt, extends the history.
LEMMA HistoryAppends ==
  ASSUME TypeInv, History, NEW r \in Record, \A q \in acked \cup doubt : q.seq < r.seq,
         \/ acked' = acked \cup {r} /\ doubt' = doubt
         \/ acked' = acked /\ doubt' = doubt \cup {r},
         safe' = safe \/ safe' = acked'
  PROVE  History'
<1>1. acked \in SUBSET Record /\ doubt \in SUBSET Record
  BY DEF TypeInv, HistoryType
<1>2. acked' \cup doubt' = (acked \cup doubt) \cup {r}
  OBVIOUS
<1>3. \A q \in acked \cup doubt : q.seq # r.seq
  BY <1>1 DEF Record
<1>4. OncePerSeq((acked \cup doubt) \cup {r})
  BY <1>3 DEF History, OncePerSeq
<1> QED
  BY <1>2, <1>4 DEF History

\* The next write is newer than all before it.
LEMMA NextIsNewer ==
  ASSUME TypeInv, LiveOK, nextSeq < MaxSeq, NEW k \in Keys, NEW v \in Vals \cup {Tomb}
  PROVE  LET r == [key |-> k, seq |-> nextSeq + 1, val |-> v]
         IN  /\ r \in Record
             /\ \A q \in acked \cup doubt : q.seq < r.seq
             /\ \A q \in acked \cup doubt \cup {r} : q.seq <= nextSeq + 1
<1> DEFINE r == [key |-> k, seq |-> nextSeq + 1, val |-> v]
<1>1. r \in Record /\ r.seq = nextSeq + 1
  BY NextRecord
<1>2. acked \in SUBSET Record /\ doubt \in SUBSET Record /\ nextSeq \in Nat
  BY DEF TypeInv, HistoryType, MemoryType
<1>3. \A q \in acked \cup doubt : q.seq <= nextSeq /\ q.seq \in Nat
  BY <1>2 DEF LiveOK, Record
<1> HIDE DEF r
<1> QED
  BY <1>1, <1>2, <1>3 DEF r

\* An engine at rest whose levels and disk do not change stays at rest.
LEMMA StaysAtRest ==
  ASSUME Numbered(levels, nextFile), OnDisk(levels, nextFile), UNCHANGED <<man, sst, levels, nextFile>>,
         GoodDisk' => GoodDisk, todo' \in Idling
  PROVE  Stage'
<1>1. todo' \in Idling'
  BY DEF Idling, Loop, Step
<1>2. Numbered(levels, nextFile)' /\ OnDisk(levels, nextFile)'
  BY DEF OnDisk
<1> QED
  BY <1>1, <1>2 DEF Stage, Resting

\* A write keeps the invariant.
LEMMA KeepsWrite ==
  ASSUME TypeInv, DiskInv, NEW k \in Keys, NEW v \in Vals \cup {Tomb}, Write(k, v)
  PROVE  DiskInv'
<1> DEFINE r      == [key |-> k, seq |-> nextSeq + 1, val |-> v]
           m      == mem \cup {r}
           full   == Cardinality(m) >= MemtableBytes
           synced == \/ Fsync = "Always"
                     \/ Fsync = "Batch" /\ (pending + 1 >= BatchBytes \/ full)
           N      == Len(wal)
<1>1. /\ up /\ todo = <<>> /\ nextSeq < MaxSeq /\ nextSeq' = nextSeq + 1
      /\ wal' = Logged(r)
      /\ walSynced' = IF synced THEN Len(wal') ELSE walSynced
      /\ IF full THEN mem' = {} /\ imms' = Append(imms, m) ELSE mem' = m /\ imms' = imms
      /\ acked' = acked \cup {r} /\ safe' = IF synced THEN acked' ELSE safe
      /\ UNCHANGED <<man, manSynced, sst, up, linked, levels, nextFile, todo, doubt>>
      /\ struck' = struck \cup Behind("wal")
  BY DEF Write, Idle
<1>2. (GoodDisk' => GoodDisk) /\ (Trusted' => Trusted) /\ (GoodDisk' => "wal" \notin stumps)
  <2>1. struck \subseteq struck' /\ ("wal" \in stumps => "behind" \in struck')
    BY <1>1 DEF Behind
  <2>2. (GoodDisk' => GoodDisk) /\ (Trusted' => Trusted)
    BY <2>1, Hindsight
  <2> QED
    BY <2>1, <2>2 DEF GoodDisk
<1>3. wal \in Seq(Record \cup {Torn}) /\ N \in Nat /\ walSynced \in 0..N
      /\ imms \in Seq(Batch) /\ acked \in SUBSET Record /\ doubt \in SUBSET Record
  BY WalMarksAre DEF TypeInv, DiskType, MemoryType, HistoryType
<1>4. Trusted => /\ LiveOK /\ Stage /\ History /\ r \in Record
                 /\ \A q \in acked \cup doubt : q.seq < r.seq
                 /\ \A q \in acked \cup doubt \cup {r} : q.seq <= nextSeq + 1
  BY <1>1, NextIsNewer DEF DiskInv
<1>5. GoodDisk => Trusted
  BY DEF Trusted
<1>6. GoodDisk' => /\ DiskOK /\ MemOK /\ linked /\ wal' = Append(wal, r)
  <2>1. <<>> \notin CreatePlans
    BY DEF CreatePlans, Then
  <2>2. "wal" \notin stumps => WalFile = wal
    BY LogFiles DEF TypeInv
  <2> QED
    BY <1>1, <1>2, <2>1, <2>2 DEF DiskInv, MemOK, Logged
<1>7. GoodDisk' => /\ Len(wal') = N + 1
                   /\ WalMarks' \subseteq WalMarks \cup {N + 1}
                   /\ synced \/ Fsync = "Never" => WalMarks' = {N + 1}
  <2> SUFFICES ASSUME GoodDisk'
               PROVE  /\ Len(wal') = N + 1
                      /\ WalMarks' \subseteq WalMarks \cup {N + 1}
                      /\ synced \/ Fsync = "Never" => WalMarks' = {N + 1}
    OBVIOUS
  <2>1. Len(wal') = N + 1
    BY <1>3, <1>6
  <2> HIDE DEF synced, N
  <2>2. CASE Fsync = "Never"
    BY <2>1, <2>2 DEF WalMarks
  <2>3. CASE Fsync # "Never" /\ synced
    <3>1. walSynced' = N + 1
      BY <1>1, <2>1, <2>3
    <3>2. WalMarks' = (N + 1)..(N + 1)
      BY <2>1, <2>3, <3>1 DEF WalMarks, WalPrefixes
    <3> QED
      BY <1>3, <2>1, <3>2
  <2>4. CASE Fsync # "Never" /\ ~synced
    <3>1. walSynced' = walSynced
      BY <1>1, <2>4
    <3>2. WalMarks' = walSynced..(N + 1) /\ WalMarks = walSynced..N
      BY <2>1, <2>4, <3>1 DEF WalMarks, WalPrefixes, N
    <3> QED
      BY <1>3, <2>1, <2>4, <3>2
  <2> QED
    BY <2>2, <2>3, <2>4
<1> HIDE DEF r, m, synced, N
<1>8. GoodDisk' => DiskOK'
  <2> SUFFICES ASSUME GoodDisk' PROVE DiskOK'
    OBVIOUS
  <2>1. /\ DiskOK /\ History /\ r \in Record /\ \A q \in acked \cup doubt : q.seq < r.seq
        /\ wal' = Append(wal, r)
    BY <1>2, <1>4, <1>5, <1>6
  <2>2. WalMarks' \subseteq WalMarks \cup {Len(wal) + 1}
    BY <1>7 DEF N
  <2>3. safe' = safe \/ WalMarks' = {Len(wal) + 1}
    BY <1>1, <1>7 DEF N
  <2>4. UNCHANGED <<man, manSynced, sst>> /\ acked' = acked \cup {r} /\ doubt' = doubt
    BY <1>1
  <2> QED
    BY <2>1, <2>2, <2>3, <2>4, DiskAppends
<1>9. Trusted' => History'
  <2> SUFFICES ASSUME Trusted PROVE History'
    BY <1>2
  <2>1. History /\ r \in Record /\ \A q \in acked \cup doubt : q.seq < r.seq
    BY <1>4
  <2>2. acked' = acked \cup {r} /\ doubt' = doubt /\ (safe' = safe \/ safe' = acked')
    BY <1>1
  <2> QED
    BY <2>1, <2>2, HistoryAppends
<1>10. Trusted => LiveOK'
  <2> SUFFICES ASSUME Trusted PROVE LiveOK'
    OBVIOUS
  <2>1. /\ Serves(mem, imms, levels, acked, doubt) /\ OncePerSeq(acked \cup doubt) /\ FilesIn(levels, sst)
        /\ r \in Record /\ \A q \in acked \cup doubt : q.seq < r.seq
    BY <1>4 DEF LiveOK, History
  <2>2. Serves(m, imms, levels, acked \cup {r}, doubt)
    BY <1>3, <2>1, ServesWrite DEF m
  <2>3. Serves({}, Append(imms, m), levels, acked \cup {r}, doubt)
    BY <1>3, <2>2, ServesFreeze
  <2>4. Serves(mem', imms', levels, acked \cup {r}, doubt)
    BY <1>1, <2>2, <2>3
  <2>5. Serves(mem', imms', levels', acked', doubt')
    BY <1>1, <2>4
  <2>6. \A q \in acked' \cup doubt' : q.seq <= nextSeq'
    BY <1>1, <1>4
  <2>7. FilesIn(levels', sst')
    BY <1>1, <2>1
  <2> QED
    BY <2>5, <2>6, <2>7 DEF LiveOK
<1>11. Trusted => Stage'
  <2> SUFFICES ASSUME Trusted PROVE Stage'
    OBVIOUS
  <2>1. Numbered(levels, nextFile) /\ OnDisk(levels, nextFile)
    BY <1>1, <1>4, StageAtRest
  <2>2. todo' \in Idling /\ UNCHANGED <<man, sst, levels, nextFile>>
    BY <1>1 DEF Idling
  <2> QED
    BY <1>2, <2>1, <2>2, StaysAtRest
<1>12. GoodDisk' => MemOK'
  <2> SUFFICES ASSUME GoodDisk' PROVE MemOK'
    OBVIOUS
  <2>1. MemOK /\ linked /\ wal' = Append(wal, r) /\ r \in Record
    BY <1>2, <1>4, <1>5, <1>6
  <2>2. /\ m \subseteq LogRecs(Len(wal))'
        /\ \A i \in DOMAIN imms : \A n \in WalMarks' : imms[i] \subseteq LogRecs(n)'
    BY <1>7, <2>1, MemAppends DEF N, m
  <2>3. CASE full
    <3>1. mem' = {} /\ imms' = Append(imms, m)
      BY <1>1, <2>3
    <3>2. synced \/ Fsync = "Never"
      BY <2>3, DiskAssumption DEF synced, DiskAssumption
    <3>3. \A n \in WalMarks' : m \subseteq LogRecs(n)'
      <4>1. \A n \in WalMarks' : n = Len(wal')
        BY <1>7, <3>2
      <4> QED
        BY <2>2, <4>1
    <3>4. \A i \in DOMAIN imms' : imms'[i] = m \/ (i \in DOMAIN imms /\ imms'[i] = imms[i])
      BY <1>3, <3>1
    <3>5. \A i \in DOMAIN imms' : \A n \in WalMarks' : imms'[i] \subseteq LogRecs(n)'
      BY <2>2, <3>3, <3>4
    <3> QED
      BY <1>1, <2>1, <3>1, <3>5 DEF MemOK
  <2>4. CASE ~full
    BY <1>1, <2>1, <2>2, <2>4 DEF MemOK
  <2> QED
    BY <2>3, <2>4
<1> QED
  BY <1>1, <1>2, <1>5, <1>8, <1>9, <1>10, <1>11, <1>12 DEF DiskInv

\* A write that returns an error has left nothing, or a stump, or its record in
\* the log, and perhaps in the memtable; behind a stump the disk is no longer good.
LEMMA KeepsWriteFails ==
  ASSUME TypeInv, DiskInv, NEW k \in Keys, NEW v \in Vals \cup {Tomb}, WriteFails(k, v)
  PROVE  DiskInv'
<1> DEFINE r == [key |-> k, seq |-> nextSeq + 1, val |-> v]
           N == Len(wal)
<1>1. /\ up /\ todo = <<>> /\ nextSeq < MaxSeq /\ nextSeq' = nextSeq + 1
      /\ UNCHANGED <<man, manSynced, sst, up, linked, imms, levels, nextFile, todo, acked, safe>>
      /\ \/ /\ struck' = struck \cup {"iowrite"}
            /\ UNCHANGED <<wal, walSynced, mem, doubt>>
         \/ /\ wal' = WalFile /\ struck' = struck \cup {"iowrite", "torn"} \cup Behind("wal")
            /\ UNCHANGED <<walSynced, mem, doubt>>
         \/ /\ wal' = Logged(r) /\ doubt' = doubt \cup {r}
            /\ struck' = struck \cup {"iowrite"} \cup Behind("wal") /\ Fsync # "Never"
            /\ mem' = mem \/ mem' = mem \cup {r}
            /\ walSynced' = walSynced \/ walSynced' = Len(wal')
         \/ /\ wal' = Logged(r) /\ doubt' = doubt \cup {r}
            /\ struck' = struck \cup {"iowrite"} \cup Behind("wal") /\ UNCHANGED <<walSynced, mem>>
  BY DEF WriteFails, Idle
<1>2. (GoodDisk' => GoodDisk) /\ (Trusted' => Trusted)
  BY <1>1, Hindsight
<1>3. wal \in Seq(Record \cup {Torn}) /\ N \in Nat /\ walSynced \in 0..N
      /\ imms \in Seq(Batch) /\ acked \in SUBSET Record /\ doubt \in SUBSET Record
  BY WalMarksAre DEF TypeInv, DiskType, MemoryType, HistoryType
<1>4. Trusted => /\ LiveOK /\ Stage /\ History /\ r \in Record
                 /\ \A q \in acked \cup doubt : q.seq < r.seq
                 /\ \A q \in acked \cup doubt \cup {r} : q.seq <= nextSeq + 1
  BY <1>1, NextIsNewer DEF DiskInv
<1>5. GoodDisk => Trusted
  BY DEF Trusted
<1>6. GoodDisk => DiskOK /\ MemOK /\ linked
  <2>1. <<>> \notin CreatePlans
    BY DEF CreatePlans, Then
  <2> QED
    BY <1>1, <2>1 DEF DiskInv, MemOK
<1> HIDE DEF r, N
<1>7. GoodDisk' => \/ UNCHANGED <<wal, walSynced, mem, doubt>>
                   \/ /\ wal' = Append(wal, r) /\ doubt' = doubt \cup {r}
                      /\ mem' = mem \/ mem' = mem \cup {r}
                      /\ WalMarks' \subseteq WalMarks \cup {N + 1}
  <2> SUFFICES ASSUME GoodDisk', ~UNCHANGED <<wal, walSynced, mem, doubt>>
               PROVE  /\ wal' = Append(wal, r) /\ doubt' = doubt \cup {r}
                      /\ mem' = mem \/ mem' = mem \cup {r}
                      /\ WalMarks' \subseteq WalMarks \cup {N + 1}
    OBVIOUS
  <2>1. "behind" \notin struck' /\ ("wal" \notin stumps => WalFile = wal)
    BY LogFiles DEF GoodDisk, TypeInv
  <2>2. /\ wal' = Append(wal, r) /\ doubt' = doubt \cup {r}
        /\ mem' = mem \/ mem' = mem \cup {r}
        /\ walSynced' = walSynced \/ walSynced' = Len(wal')
    BY <1>1, <1>2, <1>6, <2>1 DEF Logged, Behind
  <2>3. Len(wal') = N + 1
    BY <1>3, <2>2 DEF N
  <2>4. ASSUME Fsync = "Never" PROVE WalMarks' \subseteq WalMarks \cup {N + 1}
    BY <2>3, <2>4 DEF WalMarks
  <2>5. ASSUME Fsync # "Never" PROVE WalMarks' \subseteq WalMarks \cup {N + 1}
    <3>1. WalMarks' = walSynced'..(N + 1) /\ WalMarks = walSynced..N
      BY <2>3, <2>5 DEF WalMarks, WalPrefixes, N
    <3> QED
      BY <1>3, <2>2, <2>3, <3>1
  <2> QED
    BY <2>2, <2>4, <2>5
<1>8. GoodDisk' => DiskOK'
  <2> SUFFICES ASSUME GoodDisk' PROVE DiskOK'
    OBVIOUS
  <2>1. CASE UNCHANGED <<wal, walSynced, mem, doubt>>
    BY <1>1, <1>2, <1>6, <2>1, DiskStays
  <2>2. CASE /\ wal' = Append(wal, r) /\ doubt' = doubt \cup {r}
             /\ WalMarks' \subseteq WalMarks \cup {N + 1}
    <3>1. DiskOK /\ History /\ r \in Record /\ \A q \in acked \cup doubt : q.seq < r.seq
      BY <1>2, <1>4, <1>5, <1>6
    <3>2. UNCHANGED <<man, manSynced, sst>> /\ acked' = acked /\ safe' = safe
      BY <1>1
    <3>3. WalMarks' \subseteq WalMarks \cup {Len(wal) + 1}
      BY <2>2 DEF N
    <3> QED
      BY <2>2, <3>1, <3>2, <3>3, DiskAppends
  <2> QED
    BY <1>7, <2>1, <2>2
<1>9. Trusted' => History'
  <2> SUFFICES ASSUME Trusted PROVE History'
    BY <1>2
  <2>1. History /\ r \in Record /\ \A q \in acked \cup doubt : q.seq < r.seq
    BY <1>4
  <2>2. acked' = acked /\ safe' = safe /\ (doubt' = doubt \/ doubt' = doubt \cup {r})
    BY <1>1
  <2>3. CASE doubt' = doubt
    BY <2>1, <2>2, <2>3, HistoryStays
  <2>4. CASE doubt' = doubt \cup {r}
    BY <2>1, <2>2, <2>4, HistoryAppends
  <2> QED
    BY <2>2, <2>3, <2>4
<1>10. Trusted => LiveOK'
  <2> SUFFICES ASSUME Trusted PROVE LiveOK'
    OBVIOUS
  <2>1. /\ Serves(mem, imms, levels, acked, doubt) /\ OncePerSeq(acked \cup doubt) /\ FilesIn(levels, sst)
        /\ r \in Record /\ \A q \in acked \cup doubt : q.seq < r.seq
    BY <1>4 DEF LiveOK, History
  <2>2. /\ Serves(mem, imms, levels, acked, doubt \cup {r})
        /\ Serves(mem \cup {r}, imms, levels, acked, doubt \cup {r})
    BY <1>3, <2>1, ServesDoubt
  <2>3. \/ mem' = mem /\ doubt' = doubt
        \/ mem' = mem /\ doubt' = doubt \cup {r}
        \/ mem' = mem \cup {r} /\ doubt' = doubt \cup {r}
    BY <1>1
  <2>4. Serves(mem', imms, levels, acked, doubt')
    BY <2>1, <2>2, <2>3
  <2>5. Serves(mem', imms', levels', acked', doubt')
    BY <1>1, <2>4
  <2>6. \A q \in acked' \cup doubt' : q.seq <= nextSeq'
    BY <1>1, <1>4
  <2>7. FilesIn(levels', sst')
    BY <1>1, <2>1
  <2> QED
    BY <2>5, <2>6, <2>7 DEF LiveOK
<1>11. Trusted => Stage'
  <2> SUFFICES ASSUME Trusted PROVE Stage'
    OBVIOUS
  <2>1. Numbered(levels, nextFile) /\ OnDisk(levels, nextFile)
    BY <1>1, <1>4, StageAtRest
  <2>2. todo' \in Idling /\ UNCHANGED <<man, sst, levels, nextFile>>
    BY <1>1 DEF Idling
  <2> QED
    BY <1>2, <2>1, <2>2, StaysAtRest
<1>12. GoodDisk' => MemOK'
  <2> SUFFICES ASSUME GoodDisk' PROVE MemOK'
    OBVIOUS
  <2>1. CASE UNCHANGED <<wal, walSynced, mem, doubt>>
    BY <1>1, <1>2, <1>6, <2>1, MemStays
  <2>2. CASE /\ wal' = Append(wal, r)
             /\ mem' = mem \/ mem' = mem \cup {r}
             /\ WalMarks' \subseteq WalMarks \cup {N + 1}
    <3>1. MemOK /\ r \in Record /\ linked
      BY <1>2, <1>4, <1>5, <1>6
    <3>2. /\ mem \cup {r} \subseteq LogRecs(Len(wal))'
          /\ \A i \in DOMAIN imms : \A n \in WalMarks' : imms[i] \subseteq LogRecs(n)'
      BY <2>2, <3>1, MemAppends DEF N
    <3> QED
      BY <1>1, <2>2, <3>1, <3>2 DEF MemOK
  <2> QED
    BY <1>7, <2>1, <2>2
<1> QED
  BY <1>1, <1>2, <1>8, <1>9, <1>10, <1>11, <1>12 DEF DiskInv

\* The history is synced, and nothing before the end of the log is a mark.
LEMMA SyncedHistory ==
  ASSUME TypeInv, walSynced' = Len(wal), wal' = wal
  PROVE  WalMarks' = {Len(wal)} /\ LostRecords(Len(wal)) = {} /\ Len(wal) \in WalMarks
<1>1. Len(wal) \in Nat /\ LostRecords(Len(wal)) = {} /\ Len(wal) \in WalMarks
  BY WalMarksAre DEF TypeInv
<1>2. CASE Fsync = "Never"
  BY <1>1, <1>2 DEF WalMarks
<1>3. CASE Fsync # "Never"
  <2>1. WalMarks' = Len(wal)..Len(wal)
    BY <1>3 DEF WalMarks, WalPrefixes
  <2> QED
    BY <1>1, <2>1
<1> QED
  BY <1>1, <1>2, <1>3

\* With fewer marks the memory still agrees with the log.
LEMMA MemMarksFewer ==
  ASSUME UNCHANGED <<wal, linked, mem, imms>>, WalMarks' \subseteq WalMarks, MemOK,
         linked \/ todo' \in CreatePlans
  PROVE  MemOK'
<1>1. \A n : LogRecs(n)' = LogRecs(n)
  BY DEF LogRecs
<1>2. todo' \in CreatePlans => todo' \in CreatePlans'
  BY DEF CreatePlans, Then, Loop, Step, Op
<1> QED
  BY <1>1, <1>2 DEF MemOK

\* A sync of the log keeps the invariant.
LEMMA KeepsSync ==
  ASSUME TypeInv, DiskInv, Sync
  PROVE  DiskInv'
<1>1. /\ up /\ todo = <<>> /\ walSynced' = Len(wal) /\ safe' = acked
      /\ UNCHANGED <<wal, man, manSynced, sst, up, linked, mem, imms, levels, nextSeq, nextFile, todo,
                     acked, doubt, struck>>
  BY DEF Sync, Idle
<1>2. (GoodDisk' => GoodDisk) /\ (Trusted' => Trusted) /\ (GoodDisk => Trusted)
  BY <1>1, Hindsight DEF Trusted
<1>3. WalMarks' = {Len(wal)} /\ LostRecords(Len(wal)) = {} /\ Len(wal) \in WalMarks
  BY <1>1, SyncedHistory
<1>4. GoodDisk => DiskOK'
  <2>1. ManMarks' = ManMarks
    BY <1>1 DEF ManMarks
  <2>2. WalMarks' \subseteq WalMarks /\ \A n \in WalMarks' : safe' \cap LostRecords(n) = {}
    BY <1>3
  <2> QED
    BY <1>1, <2>1, <2>2, MarksFewer DEF DiskInv
<1>5. Trusted => History' /\ LiveOK'
  BY <1>1 DEF DiskInv, History, LiveOK
<1>6. Trusted => Stage'
  <2> SUFFICES ASSUME Trusted PROVE Stage'
    OBVIOUS
  <2>1. Numbered(levels, nextFile) /\ OnDisk(levels, nextFile)
    BY <1>1, StageAtRest DEF DiskInv
  <2>2. todo' \in Idling
    BY <1>1 DEF Idling
  <2> QED
    BY <1>1, <1>2, <2>1, <2>2, StaysAtRest
<1>7. GoodDisk => MemOK'
  <2>1. <<>> \notin CreatePlans
    BY DEF CreatePlans, Then
  <2>2. WalMarks' \subseteq WalMarks
    BY <1>3
  <2>3. GoodDisk => MemOK /\ linked
    BY <1>1, <2>1 DEF DiskInv, MemOK
  <2> QED
    BY <1>1, <2>2, <2>3, MemMarksFewer
<1> QED
  BY <1>1, <1>2, <1>4, <1>5, <1>6, <1>7 DEF DiskInv

\* Freezing the memtable for a flush keeps the invariant.
LEMMA KeepsStartFlush ==
  ASSUME TypeInv, DiskInv, StartFlush
  PROVE  DiskInv'
<1>1. /\ up /\ todo = <<>> /\ mem' = {} /\ todo' = <<Step("flush")>>
      /\ UNCHANGED <<wal, man, manSynced, sst, up, linked, levels, nextSeq, nextFile, acked, doubt, struck>>
      /\ \/ mem = {} /\ UNCHANGED <<imms, walSynced, safe>>
         \/ /\ mem # {} /\ imms' = Append(imms, mem)
            /\ \/ Fsync = "Never" /\ UNCHANGED <<walSynced, safe>>
               \/ Fsync # "Never" /\ walSynced' = Len(wal) /\ safe' = acked
  BY DEF StartFlush, Idle
<1>2. (GoodDisk' => GoodDisk) /\ (Trusted' => Trusted) /\ (GoodDisk => Trusted)
  BY <1>1, Hindsight DEF Trusted
<1>3. imms \in Seq(Batch) /\ todo' \in Idling
  BY <1>1 DEF TypeInv, MemoryType, Idling, Loop
<1>4. mem # {} => WalMarks' = {Len(wal)}
  <2>1. CASE Fsync = "Never"
    BY <1>1, <2>1 DEF WalMarks
  <2>2. CASE Fsync # "Never"
    BY <1>1, <2>2, SyncedHistory
  <2> QED
    BY <2>1, <2>2
<1>5. mem = {} => WalMarks' = WalMarks
  BY <1>1 DEF WalMarks, WalPrefixes
<1>6. WalMarks' \subseteq WalMarks /\ ManMarks' = ManMarks
  <2>1. Len(wal) \in WalMarks
    BY WalMarksAre DEF TypeInv
  <2> QED
    BY <1>1, <1>4, <1>5, <2>1 DEF ManMarks
<1>7. GoodDisk => DiskOK'
  <2> SUFFICES ASSUME GoodDisk PROVE DiskOK'
    OBVIOUS
  <2>1. DiskOK
    BY DEF DiskInv
  <2>2. \A n \in WalMarks' : safe' \cap LostRecords(n) = {}
    <3>1. CASE safe' = safe
      BY <1>6, <2>1, <3>1 DEF DiskOK, LogOK
    <3>2. CASE safe' # safe
      <4>1. WalMarks' = {Len(wal)}
        BY <1>1, <1>4, <3>2
      <4>2. LostRecords(Len(wal)) = {}
        BY WalMarksAre DEF TypeInv
      <4> QED
        BY <4>1, <4>2
    <3> QED
      BY <3>1, <3>2
  <2> QED
    BY <1>1, <1>6, <2>1, <2>2, MarksFewer
<1>8. Trusted => History'
  BY <1>1 DEF DiskInv, History
<1>9. Trusted => LiveOK'
  <2> SUFFICES ASSUME Trusted PROVE LiveOK'
    OBVIOUS
  <2>1. LiveOK
    BY <1>1 DEF DiskInv
  <2>2. Serves({}, Append(imms, mem), levels, acked, doubt)
    BY <1>3, <2>1, ServesFreeze DEF LiveOK
  <2>3. Serves(mem', imms', levels, acked, doubt)
    BY <1>1, <2>1, <2>2 DEF LiveOK
  <2> QED
    BY <1>1, <2>1, <2>3 DEF LiveOK
<1>10. Trusted => Stage'
  <2> SUFFICES ASSUME Trusted PROVE Stage'
    OBVIOUS
  <2>1. Numbered(levels, nextFile) /\ OnDisk(levels, nextFile)
    BY <1>1, StageAtRest DEF DiskInv
  <2> QED
    BY <1>1, <1>2, <1>3, <2>1, StaysAtRest
<1>11. GoodDisk => MemOK'
  <2> SUFFICES ASSUME GoodDisk PROVE MemOK'
    OBVIOUS
  <2>1. <<>> \notin CreatePlans
    BY DEF CreatePlans, Then
  <2>2. MemOK /\ linked
    BY <1>1, <2>1 DEF DiskInv, MemOK
  <2>3. \A n : LogRecs(n)' = LogRecs(n)
    BY <1>1 DEF LogRecs
  <2>4. ASSUME NEW i \in DOMAIN imms', NEW n \in WalMarks'
        PROVE  imms'[i] \subseteq LogRecs(n)
    <3>1. CASE i \in DOMAIN imms /\ imms'[i] = imms[i]
      BY <1>6, <2>2, <2>4, <3>1 DEF MemOK
    <3>2. CASE imms'[i] = mem /\ mem # {}
      BY <1>4, <2>2, <2>4, <3>2 DEF MemOK
    <3>3. \/ i \in DOMAIN imms /\ imms'[i] = imms[i]
          \/ imms'[i] = mem /\ mem # {}
      BY <1>1, <1>3, <2>4
    <3> QED
      BY <3>1, <3>2, <3>3
  <2> QED
    BY <1>1, <2>2, <2>3, <2>4 DEF MemOK
<1> QED
  BY <1>1, <1>2, <1>7, <1>8, <1>9, <1>10, <1>11 DEF DiskInv

\* Starting a compaction or the thread keeps the invariant.
LEMMA KeepsStart ==
  ASSUME TypeInv, DiskInv, StartCompact \/ StartBackground
  PROVE  DiskInv'
<1>1. /\ up /\ todo = <<>> /\ todo' \in Idling
      /\ UNCHANGED <<wal, walSynced, man, manSynced, sst, up, linked, mem, imms, levels, nextSeq, nextFile,
                     acked, safe, doubt, struck>>
  BY DEF StartCompact, StartBackground, Idle, Idling, Loop, disk, memory, history
<1>2. (GoodDisk' => GoodDisk) /\ (Trusted' => Trusted) /\ (GoodDisk => Trusted)
  BY <1>1, Hindsight DEF Trusted
<1>3. GoodDisk => DiskOK'
  BY <1>1, DiskStays DEF DiskInv
<1>4. Trusted => History' /\ LiveOK'
  BY <1>1 DEF DiskInv, History, LiveOK
<1>5. Trusted => Stage'
  <2> SUFFICES ASSUME Trusted PROVE Stage'
    OBVIOUS
  <2>1. Numbered(levels, nextFile) /\ OnDisk(levels, nextFile)
    BY <1>1, StageAtRest DEF DiskInv
  <2> QED
    BY <1>1, <1>2, <2>1, StaysAtRest
<1>6. GoodDisk => MemOK'
  <2>1. <<>> \notin CreatePlans
    BY DEF CreatePlans, Then
  <2>2. GoodDisk => MemOK /\ linked
    BY <1>1, <2>1 DEF DiskInv, MemOK
  <2> QED
    BY <1>1, <2>2, MemStays
<1> QED
  BY <1>1, <1>2, <1>3, <1>4, <1>5, <1>6 DEF DiskInv

-----------------------------------------------------------------------------
(* Flush and compaction, one disk step at a time.                          *)

\* The log file is in its place unless it is about to be created.
LEMMA LinkedNow ==
  ASSUME MemOK, todo # <<>>, Head(todo).op # "create"
  PROVE  linked
BY PlanHeads DEF MemOK

\* A step that the log, the MANIFEST and the memory do not notice.
LEMMA KeepsRest ==
  ASSUME DiskInv, up, todo # <<>>, Head(todo).op # "create",
         UNCHANGED <<wal, walSynced, man, manSynced, sst, up, linked, mem, imms, levels, nextSeq,
                     acked, safe, doubt, struck>>,
         Trusted => Stage'
  PROVE  DiskInv'
<1>1. (GoodDisk' => GoodDisk) /\ (Trusted' => Trusted)
  BY Hindsight
<1>2. GoodDisk => DiskOK'
  BY DiskStays DEF DiskInv
<1>3. Trusted => History' /\ LiveOK'
  BY DEF DiskInv, History, LiveOK
<1>4. GoodDisk => MemOK'
  BY LinkedNow, MemStays DEF DiskInv
<1> QED
  BY <1>1, <1>2, <1>3, <1>4 DEF DiskInv

\* Planning a flush keeps the invariant.
LEMMA KeepsPlanFlush ==
  ASSUME TypeInv, DiskInv, PlanFlush
  PROVE  DiskInv'
<1>1. /\ Now("flush") /\ up /\ todo # <<>> /\ Head(todo).op # "create"
      /\ UNCHANGED <<wal, walSynced, man, manSynced, sst, up, linked, mem, imms, levels, nextSeq,
                     acked, safe, doubt, struck>>
      /\ IF imms = <<>> THEN todo' = Rest /\ nextFile' = nextFile
                        ELSE todo' = FlushPlan \o Rest /\ nextFile' = nextFile + 1
  BY DEF PlanFlush, Now, disk, history
<1>2. Trusted => Stage'
  <2> SUFFICES ASSUME Trusted PROVE Stage'
    OBVIOUS
  <2>1. Numbered(levels, nextFile) /\ OnDisk(levels, nextFile) /\ Rest \in {<<>>, <<Step("compact")>>}
    BY <1>1, StageAtRest DEF DiskInv
  <2>2. GoodDisk' => GoodDisk
    BY <1>1, Hindsight
  <2>3. CASE imms = <<>>
    <3>1. todo' \in Idling /\ UNCHANGED <<man, sst, levels, nextFile>>
      BY <1>1, <2>1, <2>3 DEF Idling
    <3> QED
      BY <2>1, <2>2, <3>1, StaysAtRest
  <2>4. CASE imms # <<>>
    <3> DEFINE t == MkTable(nextFile, Head(imms))
    <3>1. todo' = FlushPlan \o Rest /\ nextFile' = nextFile + 1
      BY <1>1, <2>4
    <3>2. nextFile' > 1 /\ nextFile' - 1 = nextFile
      BY <3>1 DEF TypeInv, MemoryType
    <3>3. FlushPlan \o Rest \in FlushTable(t, FlushEdits(t), LastOne)
      BY <2>1, <2>4, FlushPlanIs
    <3>4. NewTable' = t
      BY <1>1, <3>2 DEF NewTable
    <3>5. NewEdits' = FlushEdits(t)
      BY <1>1, <3>4 DEF NewEdits, FlushEdits
    <3>6. LastOne' = LastOne
      BY <1>1 DEF LastOne
    <3>7. Flushing'
      BY <1>1, <2>1, <2>4, <3>2 DEF Flushing
    <3>8. OnDisk(levels, nextFile - 1)'
      BY <1>1, <2>1, <2>2, <3>2 DEF OnDisk
    <3> HIDE DEF t
    <3>9. todo' \in FlushTable(NewTable', NewEdits', LastOne')
      BY <3>1, <3>3, <3>4, <3>5, <3>6
    <3>10. FlushUnlisted'
      BY <3>7, <3>8, <3>9 DEF FlushUnlisted
    <3> QED
      BY <3>10 DEF Stage
  <2> QED
    BY <2>3, <2>4
<1> QED
  BY <1>1, <1>2, KeepsRest

\* Planning a compaction keeps the invariant.
LEMMA KeepsPlanCompact ==
  ASSUME TypeInv, DiskInv, PlanCompact
  PROVE  DiskInv'
<1>1. /\ Now("compact") /\ up /\ todo # <<>> /\ Head(todo).op # "create"
      /\ UNCHANGED <<wal, walSynced, man, manSynced, sst, up, linked, mem, imms, levels, nextSeq, nextFile,
                     acked, safe, doubt, struck>>
      /\ todo' = (IF Overfull(levels) = {} THEN <<>> ELSE CompactPlan) \o Rest
  BY DEF PlanCompact, Now, disk, memory, history
<1>2. Trusted => Stage'
  <2> SUFFICES ASSUME Trusted PROVE Stage'
    OBVIOUS
  <2>1. Numbered(levels, nextFile) /\ OnDisk(levels, nextFile) /\ Rest = <<>>
    BY <1>1, StageAtRest DEF DiskInv
  <2>2. GoodDisk' => GoodDisk
    BY <1>1, Hindsight
  <2>3. CASE Overfull(levels) = {}
    <3>1. todo' \in Idling
      BY <1>1, <2>1, <2>3 DEF Idling
    <3> QED
      BY <1>1, <2>1, <2>2, <3>1, StaysAtRest
  <2>4. CASE Overfull(levels) # {}
    <3> DEFINE W == {WriteSst(t) : t \in JobOuts}
    <3>1. CompactPlan \in Seq(Op)
      BY <2>4, CompactPlanIs
    <3>2. PICK ws \in Seq(W), z \in CompactDir(JobEdits, JobFiles) :
            CompactPlan = ws \o z /\ \A t \in JobOuts : \E i \in 1..Len(ws) : ws[i] = WriteSst(t)
      BY <2>4, CompactPlanIs
    <3>3. todo' = CompactPlan
      BY <1>1, <2>1, <2>4, <3>1, ConcatEmpty
    <3>4. JobOuts' = JobOuts /\ JobEdits' = JobEdits /\ JobFiles' = JobFiles
      BY <1>1, SameWork
    <3>5. Compacting' /\ OnDisk(levels, nextFile)'
      BY <1>1, <2>1, <2>2, <2>4 DEF Compacting, OnDisk
    <3>6. JobWriting'
      <4>1. todo' = ws \o z /\ \A t \in JobOuts : Filed(t, sst)' \/ \E i \in 1..Len(ws) : ws[i] = WriteSst(t)
        BY <3>2, <3>3
      <4> QED
        BY <3>4, <3>5, <4>1 DEF JobWriting
    <3> QED
      BY <3>6 DEF Stage
  <2> QED
    BY <2>3, <2>4
<1> QED
  BY <1>1, <1>2, KeepsRest

\* Syncing the directory keeps the invariant.
LEMMA KeepsSyncDir ==
  ASSUME TypeInv, DiskInv, "midlog" \notin Faults, SyncDir
  PROVE  DiskInv'
<1>1. /\ Now("syncdir") /\ up /\ todo # <<>> /\ Head(todo).op # "create" /\ todo' = Rest
      /\ UNCHANGED <<wal, walSynced, man, manSynced, sst, up, linked, mem, imms, levels, nextSeq, nextFile,
                     acked, safe, doubt, struck>>
  BY DEF SyncDir, Now, memory, history
<1>2. Trusted => Stage'
  <2> SUFFICES ASSUME Trusted PROVE Stage'
    OBVIOUS
  <2>1. \/ /\ Flushing /\ OnDisk(levels, nextFile - 1) /\ Filed(NewTable, sst)
           /\ Rest \in FlushLog(NewEdits, LastOne)
        \/ /\ Compacting /\ OnDisk(levels, nextFile) /\ \A t \in JobOuts : Filed(t, sst)
           /\ Rest \in CompactLog(JobEdits, JobFiles)
    BY <1>1, StageSteps DEF DiskInv
  <2>2. GoodDisk' = GoodDisk
    BY <1>1 DEF GoodDisk
  <2>3. /\ NewTable' = NewTable /\ NewEdits' = NewEdits /\ LastOne' = LastOne
        /\ JobOuts' = JobOuts /\ JobEdits' = JobEdits /\ JobFiles' = JobFiles
    BY <1>1, SameWork
  <2>4. CASE /\ Flushing /\ OnDisk(levels, nextFile - 1) /\ Filed(NewTable, sst)
             /\ Rest \in FlushLog(NewEdits, LastOne)
    <3>1. Flushing' /\ OnDisk(levels, nextFile - 1)' /\ Filed(NewTable, sst)'
      BY <1>1, <2>2, <2>3, <2>4 DEF Flushing, OnDisk
    <3>2. todo' \in FlushLog(NewEdits', LastOne')
      BY <1>1, <2>3, <2>4
    <3>3. FlushUnlisted'
      BY <3>1, <3>2 DEF FlushUnlisted
    <3> QED
      BY <3>3 DEF Stage
  <2>5. CASE /\ Compacting /\ OnDisk(levels, nextFile) /\ \A t \in JobOuts : Filed(t, sst)
             /\ Rest \in CompactLog(JobEdits, JobFiles)
    <3>1. Compacting' /\ OnDisk(levels, nextFile)' /\ \A t \in JobOuts' : Filed(t, sst')
      BY <1>1, <2>2, <2>3, <2>5 DEF Compacting, OnDisk
    <3>2. todo' \in CompactLog(JobEdits', JobFiles')
      BY <1>1, <2>3, <2>5
    <3>3. JobUnlisted'
      BY <3>1, <3>2 DEF JobUnlisted
    <3> QED
      BY <3>3 DEF Stage
  <2> QED
    BY <2>1, <2>4, <2>5
<1> QED
  BY <1>1, <1>2, KeepsRest

\* Files that neither the MANIFEST nor the version lists may come and go.
LEMMA OtherFiles ==
  ASSUME DiskOK, UNCHANGED <<wal, walSynced, man, manSynced, acked, safe, doubt>>,
         NEW N, \A x \in DOMAIN sst \ N : x \in DOMAIN sst' /\ sst'[x] = sst[x],
         \A m \in ManMarks : \A l \in Level : \A t \in Version(SubSeq(man, 1, m), sst)[l] : t.num \notin N
  PROVE  DiskOK'
<1>1. WalMarks' = WalMarks /\ ManMarks' = ManMarks
  BY DEF WalMarks, ManMarks, WalPrefixes
<1>2. /\ \A n : LogRecs(n)' = LogRecs(n)
      /\ \A n : LostRecords(n)' = LostRecords(n)
  BY DEF LogRecs, LostRecords
<1>3. LogOK'
  BY <1>1, <1>2 DEF DiskOK, LogOK
<1>4. ManOK'
  BY <1>1 DEF DiskOK, ManOK
<1>5. ASSUME NEW n \in WalMarks, NEW m \in ManMarks
      PROVE  Recovers(LogRecs(n), SubSeq(man, 1, m), sst', acked \ LostRecords(n), doubt \ LostRecords(n))
  <2> DEFINE e == SubSeq(man, 1, m)
             R == LogRecs(n)
             K == acked \ LostRecords(n)
             D == doubt \ LostRecords(n)
  <2>1. Recovers(R, e, sst, K, D)
    BY DEF DiskOK, Recoverable
  <2>2. \A l \in Level : \A t \in Version(e, sst)[l] : t.num \notin N
    OBVIOUS
  <2> HIDE DEF e, R, K, D
  <2>3. \A l \in Level : \A t \in Version(e, sst)[l] : t.num \in DOMAIN sst
    BY <2>1 DEF Recovers, Lists, FilesIn, Filed
  <2>4. \A l \in Level : \A t \in Version(e, sst)[l] : t.num \in DOMAIN sst' /\ sst'[t.num] = sst[t.num]
    BY <2>2, <2>3
  <2>5. Recovers(R, e, sst', K, D)
    BY <2>1, <2>4, RecoversFiles
  <2> QED
    BY <2>5 DEF e, R, K, D
<1>6. Recoverable'
  <2> SUFFICES ASSUME NEW n \in WalMarks', NEW m \in ManMarks'
               PROVE  Recovers(LogRecs(n), SubSeq(man, 1, m), sst, acked \ LostRecords(n), doubt \ LostRecords(n))'
    BY DEF Recoverable
  <2>1. Recovers(LogRecs(n), SubSeq(man, 1, m), sst', acked \ LostRecords(n), doubt \ LostRecords(n))
    BY <1>1, <1>5
  <2> QED
    BY <1>2, <2>1
<1> QED
  BY <1>3, <1>4, <1>6 DEF DiskOK

\* Changing files that no level holds changes neither what is listed nor what is held.
LEMMA OtherFilesListed ==
  ASSUME NEW edits, NEW f, NEW g, NEW lv, FilesIn(lv, f),
         NEW N, \A x \in DOMAIN f \ N : x \in DOMAIN g /\ g[x] = f[x],
         \A l \in Level : \A t \in lv[l] : t.num \notin N
  PROVE  FilesIn(lv, g) /\ (Lists(edits, f, lv) => Lists(edits, g, lv))
<1>1. FilesIn(lv, g)
  BY DEF FilesIn, Filed
<1> QED
  BY <1>1 DEF Lists

\* The output files of a compaction have numbers of their own.
LEMMA JobNumbers ==
  ASSUME Sound(levels), nextFile \in Nat \ {0}, Overfull(levels) # {}
  PROVE  \A t, u \in JobOuts : t.num = u.num => t = u
<1> DEFINE S == Survivors(Merged(levels), JobLevel(levels) + 1, MaxSeq)
<1>1. S \in SUBSET Record /\ IsFiniteSet(S)
  BY CompactParts
<1>2. JobOuts = Outputs(S, nextFile)
  BY DEF JobOuts, JobUpper, JobLower, Merged
<1> HIDE DEF S
<1> QED
  BY <1>1, <1>2, OutputsApart

\* The number of a table about to be written is above all numbers in use.
LEMMA NewFileNumber ==
  ASSUME TypeInv, DiskInv, "midlog" \notin Faults, Now("sst"), Trusted
  PROVE  LET k == Head(todo).num
         IN  /\ LiveOK /\ k \in Nat
             /\ \A l \in Level : \A t \in levels[l] : t.num < k /\ t.num \in Nat
             /\ GoodDisk => LastNextFileNum(man) <= k
<1> DEFINE k == Head(todo).num
<1> SUFFICES /\ LiveOK /\ k \in Nat
             /\ \A l \in Level : \A t \in levels[l] : t.num < k /\ t.num \in Nat
             /\ GoodDisk => LastNextFileNum(man) <= k
  OBVIOUS
<1>1. up
  BY DEF Now
<1>2. \/ Flushing /\ OnDisk(levels, nextFile - 1) /\ Head(todo) = WriteSst(NewTable)
      \/ /\ Compacting /\ OnDisk(levels, nextFile)
         /\ \E t \in JobOuts : Head(todo) = WriteSst(t)
  BY <1>1, StageSteps DEF DiskInv
<1>3. \A t : Head(todo) = WriteSst(t) => k = t.num
  BY DEF WriteSst
<1>4. nextFile \in Nat \ {0} /\ imms \in Seq(Batch)
  BY DEF TypeInv, MemoryType
<1> HIDE DEF k
<1>5. LiveOK /\ Sound(levels)
  BY <1>1 DEF DiskInv, LiveOK, Serves
<1>6. \A l \in Level : \A t \in levels[l] : t.num \in Nat
  BY <1>5, BuiltIsStock DEF Sound
<1>7. CASE Flushing /\ OnDisk(levels, nextFile - 1) /\ Head(todo) = WriteSst(NewTable)
  <2>1. k = nextFile - 1
    <3>1. imms # <<>> /\ nextFile > 1
      BY <1>7 DEF Flushing
    <3>2. NewTable.num = nextFile - 1
      BY <3>1, WorkTyped
    <3> QED
      BY <1>3, <1>7, <3>2
  <2>2. \A l \in Level : \A t \in levels[l] : t.num < k
    BY <1>7, <2>1 DEF Flushing, Numbered
  <2>3. GoodDisk => LastNextFileNum(man) = k
    BY <1>7, <2>1 DEF OnDisk
  <2> QED
    BY <1>4, <1>5, <1>6, <1>7, <2>1, <2>2, <2>3 DEF Flushing
<1>8. CASE Compacting /\ OnDisk(levels, nextFile) /\ \E t \in JobOuts : Head(todo) = WriteSst(t)
  <2>1. PICK t \in JobOuts : Head(todo) = WriteSst(t)
    BY <1>8
  <2>2. JobOuts \subseteq Built /\ t.num >= nextFile
    BY <1>4, <1>5, <1>8, JobParts DEF Compacting
  <2>3. k = t.num /\ k \in Nat
    BY <1>3, <2>1, <2>2, BuiltIsStock
  <2>4. \A l \in Level : \A u \in levels[l] : u.num < nextFile
    BY <1>8 DEF Compacting, Numbered
  <2>5. \A l \in Level : \A u \in levels[l] : u.num < k /\ u.num \in Nat
    BY <1>4, <1>6, <2>2, <2>3, <2>4
  <2>6. GoodDisk => LastNextFileNum(man) = nextFile
    BY <1>8 DEF OnDisk
  <2> QED
    BY <1>4, <1>5, <2>2, <2>3, <2>5, <2>6
<1> QED
  BY <1>2, <1>7, <1>8 DEF k

\* Writing a table file keeps the invariant.
LEMMA KeepsWriteTable ==
  ASSUME TypeInv, DiskInv, "midlog" \notin Faults, WriteTable
  PROVE  DiskInv'
<1> DEFINE k == Head(todo).num
<1>1. /\ Now("sst") /\ up /\ todo # <<>> /\ Head(todo).op # "create" /\ todo' = Rest
      /\ UNCHANGED <<wal, walSynced, man, manSynced, up, linked, mem, imms, levels, nextSeq, nextFile,
                     acked, safe, doubt, struck>>
      /\ sst' = [n \in DOMAIN sst \cup {k} |-> IF n = k THEN Head(todo).recs ELSE sst[n]]
  BY DEF WriteTable, Now, memory, history
<1>2. k \in DOMAIN sst' /\ sst'[k] = Head(todo).recs
      /\ \A x \in DOMAIN sst \ {k} : x \in DOMAIN sst' /\ sst'[x] = sst[x]
  BY <1>1
<1>3. (GoodDisk' = GoodDisk) /\ (Trusted' = Trusted) /\ (GoodDisk => Trusted)
  BY <1>1 DEF GoodDisk, Trusted
<1>4. Trusted =>
        \/ /\ Flushing /\ OnDisk(levels, nextFile - 1) /\ Head(todo) = WriteSst(NewTable)
           /\ Rest \in FlushDir(NewEdits, LastOne)
        \/ /\ Compacting /\ OnDisk(levels, nextFile)
           /\ \E t \in JobOuts : Head(todo) = WriteSst(t)
           /\ \E ws \in Seq({WriteSst(t) : t \in JobOuts}), z \in CompactDir(JobEdits, JobFiles) :
                /\ Rest = ws \o z
                /\ \A t \in JobOuts : \/ Filed(t, sst) \/ Head(todo) = WriteSst(t)
                                      \/ \E i \in 1..Len(ws) : ws[i] = WriteSst(t)
  BY <1>1, StageSteps DEF DiskInv
<1>5. nextFile \in Nat \ {0} /\ DiskType
  BY DEF TypeInv, MemoryType
<1>6. \A t : Head(todo) = WriteSst(t) => k = t.num /\ Filed(t, sst')
  BY <1>2 DEF WriteSst, Filed
<1> HIDE DEF k
<1>7. Trusted => /\ LiveOK /\ k \in Nat
                 /\ \A l \in Level : \A t \in levels[l] : t.num < k /\ t.num \in Nat
                 /\ GoodDisk => LastNextFileNum(man) <= k
  BY <1>1, NewFileNumber DEF k
<1>8. Trusted => FilesIn(levels, sst') /\ (Lists(man, sst, levels) => Lists(man, sst', levels))
  <2> SUFFICES ASSUME Trusted PROVE FilesIn(levels, sst') /\ (Lists(man, sst, levels) => Lists(man, sst', levels))
    OBVIOUS
  <2>1. FilesIn(levels, sst)
    BY <1>7 DEF LiveOK
  <2>2. \A l \in Level : \A t \in levels[l] : t.num \notin {k}
    BY <1>7
  <2> QED
    BY <1>2, <2>1, <2>2, OtherFilesListed
<1>9. GoodDisk => DiskOK'
  <2> SUFFICES ASSUME GoodDisk PROVE DiskOK'
    OBVIOUS
  <2>1. DiskOK /\ LastNextFileNum(man) <= k /\ k \in Nat
    BY <1>3, <1>7 DEF DiskInv
  <2>2. ASSUME NEW m \in ManMarks, NEW l \in Level, NEW t \in Version(SubSeq(man, 1, m), sst)[l]
        PROVE  t.num # k
    <3> DEFINE e == SubSeq(man, 1, m)
    <3>1. Len(wal) \in WalMarks /\ ManMarks \subseteq 0..Len(man)
      BY <1>5, WalMarksAre
    <3>2. Numbered(Version(e, sst), LastNextFileNum(e)) /\ Sound(Version(e, sst))
      BY <2>1, <3>1 DEF DiskOK, Recoverable, Recovers, Serves
    <3>3. LastNextFileNum(e) <= LastNextFileNum(man)
      BY <2>1 DEF DiskOK, ManOK
    <3>4. e \in Seq(Edit)
      <4>1. man \in Seq(Edit) /\ m \in 0..Len(man)
        BY <2>1, <3>1 DEF DiskOK, ManOK
      <4> QED
        BY <4>1, LogParts
    <3>5. LastNextFileNum(e) \in Nat /\ LastNextFileNum(man) \in Nat
      <4>1. e \in Seq(Edit \cup {Torn}) /\ man \in Seq(Edit \cup {Torn})
        BY <1>5, <3>4, Widen DEF DiskType
      <4> QED
        BY <4>1, ManifestNumbers
    <3> HIDE DEF e
    <3>6. t \in Version(e, sst)[l]
      BY DEF e
    <3>7. t.num \in Nat /\ t.num < LastNextFileNum(e)
      BY <3>2, <3>6, BuiltIsStock DEF Sound, Numbered
    <3> QED
      BY <2>1, <3>3, <3>5, <3>7
  <2>3. \A m \in ManMarks : \A l \in Level : \A t \in Version(SubSeq(man, 1, m), sst)[l] : t.num \notin {k}
    BY <2>2
  <2> QED
    BY <1>1, <1>2, <2>1, <2>3, OtherFiles
<1>10. Trusted => History' /\ LiveOK'
  BY <1>1, <1>8 DEF DiskInv, History, LiveOK
<1>11. Trusted => Stage'
  <2> SUFFICES ASSUME Trusted PROVE Stage'
    OBVIOUS
  <2>1. /\ NewTable' = NewTable /\ NewEdits' = NewEdits /\ LastOne' = LastOne
        /\ JobOuts' = JobOuts /\ JobEdits' = JobEdits /\ JobFiles' = JobFiles
    BY <1>1, SameWork
  <2>2. \A nf : OnDisk(levels, nf) => (GoodDisk' => Lists(man', sst', levels') /\ LastNextFileNum(man') = nf)
    BY <1>1, <1>3, <1>8 DEF OnDisk
  <2>3. CASE /\ Flushing /\ OnDisk(levels, nextFile - 1) /\ Head(todo) = WriteSst(NewTable)
             /\ Rest \in FlushDir(NewEdits, LastOne)
    <3>1. Flushing' /\ OnDisk(levels, nextFile - 1)' /\ Filed(NewTable', sst')
      BY <1>1, <1>6, <2>1, <2>2, <2>3 DEF Flushing, OnDisk
    <3>2. todo' \in FlushDir(NewEdits', LastOne')
      BY <1>1, <2>1, <2>3
    <3>3. FlushUnlisted'
      BY <3>1, <3>2 DEF FlushUnlisted
    <3> QED
      BY <3>3 DEF Stage
  <2>4. CASE /\ Compacting /\ OnDisk(levels, nextFile)
             /\ \E t \in JobOuts : Head(todo) = WriteSst(t)
             /\ \E ws \in Seq({WriteSst(t) : t \in JobOuts}), z \in CompactDir(JobEdits, JobFiles) :
                  /\ Rest = ws \o z
                  /\ \A t \in JobOuts : \/ Filed(t, sst) \/ Head(todo) = WriteSst(t)
                                        \/ \E i \in 1..Len(ws) : ws[i] = WriteSst(t)
    <3> DEFINE W == {WriteSst(t) : t \in JobOuts}
    <3>1. Compacting' /\ OnDisk(levels, nextFile)'
      BY <1>1, <2>2, <2>4 DEF Compacting, OnDisk
    <3>2. PICK ws \in Seq(W), z \in CompactDir(JobEdits, JobFiles) :
            /\ Rest = ws \o z
            /\ \A t \in JobOuts : \/ Filed(t, sst) \/ Head(todo) = WriteSst(t)
                                  \/ \E i \in 1..Len(ws) : ws[i] = WriteSst(t)
      BY <2>4
    <3>3. PICK u \in JobOuts : Head(todo) = WriteSst(u)
      BY <2>4
    <3>4. k = u.num /\ Filed(u, sst')
      BY <1>6, <3>3
    <3>5. \A t \in JobOuts : t.num = u.num => t = u
      BY <1>5, <1>7, <2>4, JobNumbers DEF LiveOK, Serves, Compacting
    <3>6. ASSUME NEW t \in JobOuts PROVE Filed(t, sst') \/ \E i \in 1..Len(ws) : ws[i] = WriteSst(t)
      <4>1. CASE Filed(t, sst) /\ t.num # k
        BY <1>2, <4>1 DEF Filed
      <4>2. CASE t.num = k
        BY <3>4, <3>5, <4>2
      <4>3. CASE Head(todo) = WriteSst(t)
        BY <1>6, <4>3
      <4> QED
        BY <3>2, <4>1, <4>2, <4>3
    <3>7. JobWriting'
      <4>1. todo' = ws \o z /\ \A t \in JobOuts : Filed(t, sst') \/ \E i \in 1..Len(ws) : ws[i] = WriteSst(t)
        BY <1>1, <3>2, <3>6
      <4> QED
        BY <2>1, <3>1, <4>1 DEF JobWriting
    <3> QED
      BY <3>7 DEF Stage
  <2> QED
    BY <1>4, <2>3, <2>4
<1>12. GoodDisk => MemOK'
  BY <1>1, LinkedNow, MemStays DEF DiskInv
<1> QED
  BY <1>1, <1>3, <1>9, <1>10, <1>11, <1>12 DEF DiskInv

\* The MANIFEST with the edits of one log() call more.
LEMMA ManifestGrows ==
  ASSUME TypeInv, DiskOK, NEW e \in Seq(Edit), man' = man \o e,
         UNCHANGED <<wal, walSynced, manSynced, sst, acked, safe, doubt>>,
         LastNextFileNum(man) <= LastNextFileNum(man'),
         \A n \in WalMarks : Recovers(LogRecs(n), man', sst, acked \ LostRecords(n), doubt \ LostRecords(n))
  PROVE  DiskOK'
<1> DEFINE N == Len(man)
<1>1. man \in Seq(Edit) /\ N \in Nat /\ manSynced \in 0..N /\ man \in Seq(Edit \cup {Torn})
  BY DEF DiskOK, ManOK, TypeInv, DiskType
<1>2. man' \in Seq(Edit) /\ Len(man') \in Nat /\ Len(man') >= N /\ \A i \in 1..N : man'[i] = man[i]
  <2>1. /\ man \o e \in Seq(Edit) /\ Len(man \o e) = Len(man) + Len(e)
        /\ \A i \in 1..Len(man) : (man \o e)[i] = man[i]
    BY <1>1, Concat
  <2>2. Len(e) \in Nat
    OBVIOUS
  <2> QED
    BY <1>1, <2>1, <2>2
<1> HIDE DEF N
<1>3. WalMarks' = WalMarks
  BY DEF WalMarks, WalPrefixes
<1>4. /\ \A n : LogRecs(n)' = LogRecs(n)
      /\ \A n : LostRecords(n)' = LostRecords(n)
  BY DEF LogRecs, LostRecords
<1>5. \A m \in ManMarks' : m = Len(man') \/ (m = manSynced /\ m \in ManMarks)
  BY DEF ManMarks
<1>6. SubSeq(man', 1, Len(man')) = man'
  BY <1>2
<1>7. SubSeq(man', 1, manSynced) = SubSeq(man, 1, manSynced)
  <2> DEFINE v == man'
             a == SubSeq(v, 1, manSynced)
             b == SubSeq(man, 1, manSynced)
  <2>1. manSynced \in 0..Len(v) /\ manSynced \in 0..Len(man) /\ v \in Seq(Edit) /\ manSynced \in 0..N
    BY <1>1, <1>2 DEF N
  <2>2. \A i \in 1..manSynced : v[i] = man[i]
    BY <1>1, <1>2
  <2> HIDE DEF v
  <2>3. a \in Seq(Edit) /\ Len(a) = manSynced /\ \A i \in 1..manSynced : a[i] = v[i]
    BY <2>1, LogParts
  <2>4. b \in Seq(Edit) /\ Len(b) = manSynced /\ \A i \in 1..manSynced : b[i] = man[i]
    BY <1>1, <2>1, LogParts
  <2> HIDE DEF a, b
  <2>5. Len(a) = Len(b) /\ \A i \in 1..Len(a) : a[i] = b[i]
    BY <2>2, <2>3, <2>4
  <2>6. a = b
    BY <2>3, <2>4, <2>5
  <2> QED
    BY <2>6 DEF a, b, v
<1>8. ASSUME NEW m \in ManMarks', m # Len(man')
      PROVE  m \in ManMarks /\ SubSeq(man', 1, m) = SubSeq(man, 1, m)
  BY <1>5, <1>7, <1>8
<1>9. ManOK'
  <2>1. ASSUME NEW m \in ManMarks' PROVE LastNextFileNum(SubSeq(man', 1, m)) <= LastNextFileNum(man')
    <3> DEFINE p == LastNextFileNum(SubSeq(man', 1, m))
               q == LastNextFileNum(man)
               z == LastNextFileNum(man')
    <3>1. q \in Nat /\ z \in Nat /\ q <= z
      <4>1. man' \in Seq(Edit \cup {Torn})
        BY <1>2, Widen
      <4> QED
        BY <1>1, <4>1, ManifestNumbers
    <3> SUFFICES p <= z
      OBVIOUS
    <3>2. CASE m = Len(man')
      <4>1. p = z
        BY <1>6, <3>2
      <4> HIDE DEF p, z
      <4> QED
        BY <3>1, <4>1
    <3>3. CASE m # Len(man')
      <4>1. m \in ManMarks /\ SubSeq(man', 1, m) = SubSeq(man, 1, m)
        BY <1>8, <3>3
      <4>2. p <= q
        BY <4>1 DEF DiskOK, ManOK
      <4>3. p \in Nat
        <5>1. m \in 0..Len(man)
          BY <4>1, WalMarksAre DEF TypeInv
        <5>2. SubSeq(man, 1, m) \in Seq(Edit \cup {Torn})
          BY <1>1, <5>1, LogParts
        <5> QED
          BY <4>1, <5>2, ManifestNumbers
      <4> HIDE DEF p, q, z
      <4> QED
        BY <3>1, <4>2, <4>3
    <3> QED
      BY <3>2, <3>3
  <2> QED
    BY <1>2, <2>1 DEF ManOK
<1>10. LogOK'
  BY <1>3, <1>4 DEF DiskOK, LogOK
<1>11. Recoverable'
  <2> SUFFICES ASSUME NEW n \in WalMarks', NEW m \in ManMarks'
               PROVE  Recovers(LogRecs(n), SubSeq(man, 1, m), sst, acked \ LostRecords(n), doubt \ LostRecords(n))'
    BY DEF Recoverable
  <2>1. CASE m = Len(man')
    <3>1. Recovers(LogRecs(n), man', sst, acked \ LostRecords(n), doubt \ LostRecords(n))
      BY <1>3
    <3> QED
      BY <1>4, <1>6, <2>1, <3>1
  <2>2. CASE m # Len(man')
    <3>1. m \in ManMarks /\ SubSeq(man', 1, m) = SubSeq(man, 1, m)
      BY <1>8, <2>2
    <3>2. Recovers(LogRecs(n), SubSeq(man, 1, m), sst, acked \ LostRecords(n), doubt \ LostRecords(n))
      BY <1>3, <3>1 DEF DiskOK, Recoverable
    <3> QED
      BY <1>4, <3>1, <3>2
  <2> QED
    BY <2>1, <2>2
<1> QED
  BY <1>9, <1>10, <1>11 DEF DiskOK

\* Nothing of the MANIFEST but the whole is a mark when all is recovered.
LEMMA WholeRecovers ==
  ASSUME TypeInv, DiskOK, NEW n \in WalMarks
  PROVE  /\ man \in Seq(Edit)
         /\ Recovers(LogRecs(n), man, sst, acked \ LostRecords(n), doubt \ LostRecords(n))
<1>1. man \in Seq(Edit) /\ Len(man) \in ManMarks
  BY WalMarksAre DEF TypeInv, DiskOK, ManOK
<1>2. SubSeq(man, 1, Len(man)) = man
  BY <1>1
<1> QED
  BY <1>1, <1>2 DEF DiskOK, Recoverable

\* What the log holds up to a mark are records.
LEMMA LogRecsType ==
  ASSUME TypeInv, LogOK, NEW n \in WalMarks
  PROVE  LogRecs(n) \in SUBSET Record
<1>1. n \in 0..Len(wal) /\ Len(wal) \in Nat
  BY WalMarksAre DEF TypeInv
<1>2. \A i \in 1..n : i \in 1..Len(wal)
  BY <1>1
<1>3. acked \in SUBSET Record /\ doubt \in SUBSET Record
  BY DEF TypeInv, HistoryType
<1> QED
  BY <1>2, <1>3 DEF LogOK, LogRecs

\* Manifest::log keeps the invariant.
LEMMA KeepsLogManifest ==
  ASSUME TypeInv, DiskInv, "midlog" \notin Faults, LogManifest
  PROVE  DiskInv'
<1> DEFINE e == Head(todo).edits
<1>1. /\ Now("log") /\ up /\ todo # <<>> /\ Head(todo).op # "create"
      /\ UNCHANGED <<wal, walSynced, manSynced, sst, up, linked, mem, imms, levels, nextSeq, nextFile,
                     acked, safe, doubt>>
      /\ man' = ManFile \o SubSeq(e, 1, Len(e)) /\ todo' = Rest
      /\ struck' = struck \cup Behind("man")
  BY DEF LogManifest, Now, memory
<1>2. /\ (GoodDisk' => GoodDisk) /\ (Trusted' => Trusted) /\ (GoodDisk => Trusted)
      /\ GoodDisk' => ManFile = man
  <2>1. struck \subseteq struck' /\ ("man" \in stumps => "behind" \in struck')
    BY <1>1 DEF Behind
  <2>2. (GoodDisk' => GoodDisk) /\ (Trusted' => Trusted)
    BY <2>1, Hindsight
  <2>3. "man" \notin stumps => ManFile = man
    BY LogFiles DEF TypeInv
  <2> QED
    BY <2>1, <2>2, <2>3 DEF GoodDisk, Trusted
<1>3. Trusted =>
        \/ /\ Flushing /\ OnDisk(levels, nextFile - 1) /\ Filed(NewTable, sst)
           /\ e = NewEdits /\ Rest \in FlushSync(LastOne)
        \/ /\ Compacting /\ OnDisk(levels, nextFile) /\ \A t \in JobOuts : Filed(t, sst)
           /\ e = JobEdits /\ Rest \in CompactSync(JobEdits, JobFiles)
  BY <1>1, StageSteps DEF DiskInv
<1>4. /\ nextFile \in Nat \ {0} /\ imms \in Seq(Batch) /\ nextSeq \in 0..MaxSeq
      /\ acked \in SUBSET Record /\ doubt \in SUBSET Record
  BY DEF TypeInv, MemoryType, HistoryType
<1>5. /\ NewTable' = NewTable /\ NewEdits' = NewEdits /\ LastOne' = LastOne
      /\ JobOuts' = JobOuts /\ JobEdits' = JobEdits /\ JobFiles' = JobFiles
  BY <1>1, SameWork
<1>6. Flushing => /\ NewTable \in Built /\ NewEdits \in Seq(Edit) /\ NewTable.num = nextFile - 1
                  /\ nextFile - 1 \in Nat \ {0} /\ Head(imms) \in Batch /\ 1 \in DOMAIN imms /\ Head(imms) = imms[1]
  <2>1. Flushing => imms # <<>> /\ nextFile > 1
    BY DEF Flushing
  <2> QED
    BY <1>4, <2>1, WorkTyped
<1>7. Compacting => JobEdits \in Seq(Edit)
  BY WorkTyped DEF Compacting
<1> HIDE DEF e
<1>8. GoodDisk' => \A x \in Seq(Edit) : e = x => man' = man \o x
  <2> SUFFICES ASSUME GoodDisk', NEW x \in Seq(Edit), e = x PROVE man' = man \o x
    OBVIOUS
  <2>1. SubSeq(x, 1, Len(x)) = x
    OBVIOUS
  <2> QED
    BY <1>1, <1>2, <2>1
<1>9. ASSUME GoodDisk', Flushing, OnDisk(levels, nextFile - 1), Filed(NewTable, sst), e = NewEdits
      PROVE  /\ DiskOK' /\ Lists(man', sst, WithTable(levels, NewTable))
             /\ LastNextFileNum(man') = nextFile /\ LastSeq(man') = nextSeq
  <2> DEFINE nf == nextFile - 1
             S  == Head(imms)
  <2>1. /\ DiskOK /\ LiveOK /\ MemOK /\ Lists(man, sst, levels) /\ LastNextFileNum(man) = nf
        /\ man \in Seq(Edit)
    BY <1>1, <1>2, <1>9 DEF DiskInv, OnDisk, DiskOK, ManOK
  <2>2. man' = man \o FlushEdits(NewTable) /\ NewTable = MkTable(nf, S)
    BY <1>6, <1>8, <1>9 DEF NewEdits, NewTable
  <2>3. Sound(levels) /\ \A l \in Level : Newer(Record, S, Recs(levels[l]))
    BY <1>6, <1>9, <2>1 DEF LiveOK, Serves, Layered
  <2>4. Lists(man', sst, WithTable(levels, NewTable))
    BY <1>4, <1>6, <1>9, <2>1, <2>2, <2>3, FlushListed DEF WithTable
  <2>5. LastNextFileNum(man') = nextFile /\ LastSeq(man') = nextSeq
    <3>1. LastNextFileNum(man') = NewTable.num + 1 /\ LastSeq(man') = nextSeq
      BY <1>4, <1>6, <1>9, <2>1, <2>2, FlushLogged
    <3> QED
      BY <1>4, <1>6, <1>9, <3>1
  <2>6. ASSUME NEW n \in WalMarks
        PROVE  Recovers(LogRecs(n), man', sst, acked \ LostRecords(n), doubt \ LostRecords(n))
    <3> DEFINE R == LogRecs(n)
               K == acked \ LostRecords(n)
               D == doubt \ LostRecords(n)
    <3>1. Recovers(R, man, sst, K, D)
      BY <2>1, WholeRecovers
    <3>2. S \subseteq R
      BY <1>6, <1>9, <2>1 DEF MemOK
    <3>3. \A r \in K \cup D : r.seq <= nextSeq
      BY <2>1 DEF LiveOK
    <3>4. nf \in Nat \ {0} /\ S \in Batch /\ LastNextFileNum(man) = nf /\ Filed(MkTable(nf, S), sst)
      BY <1>6, <1>9, <2>1, <2>2
    <3> HIDE DEF R, K, D, nf, S
    <3>5. Recovers(R, man \o FlushEdits(MkTable(nf, S)), sst, K, D)
      BY <1>4, <2>1, <2>3, <3>1, <3>2, <3>3, <3>4, RecoversFlush
    <3> QED
      BY <2>2, <3>5 DEF R, K, D
  <2>7. LastNextFileNum(man) <= LastNextFileNum(man')
    BY <1>4, <2>1, <2>5
  <2>8. DiskOK'
    BY <1>1, <1>6, <1>8, <1>9, <2>1, <2>6, <2>7, ManifestGrows
  <2> QED
    BY <2>4, <2>5, <2>8
<1>10. ASSUME GoodDisk', Compacting, OnDisk(levels, nextFile), \A t \in JobOuts : Filed(t, sst), e = JobEdits
       PROVE  /\ DiskOK' /\ Lists(man', sst, JobDone.levels)
              /\ LastNextFileNum(man') = JobDone.nextFile
  <2>1. /\ DiskOK /\ LiveOK /\ Lists(man, sst, levels) /\ LastNextFileNum(man) = nextFile
        /\ man \in Seq(Edit) /\ History
    BY <1>1, <1>2, <1>10 DEF DiskInv, OnDisk, DiskOK, ManOK
  <2>2. man' = man \o JobEdits
    BY <1>7, <1>8, <1>10
  <2>3. Sound(levels) /\ Overfull(levels) # {} /\ Numbered(levels, nextFile)
    BY <1>10, <2>1 DEF LiveOK, Serves, Compacting
  <2>4. Lists(man', sst, JobDone.levels) /\ LastNextFileNum(man') = JobDone.nextFile
    BY <1>4, <1>10, <2>1, <2>2, <2>3, JobListed DEF JobDone
  <2>5. ASSUME NEW n \in WalMarks
        PROVE  Recovers(LogRecs(n), man', sst, acked \ LostRecords(n), doubt \ LostRecords(n))
    <3> DEFINE R == LogRecs(n)
               K == acked \ LostRecords(n)
               D == doubt \ LostRecords(n)
    <3>1. Recovers(R, man, sst, K, D)
      BY <2>1, WholeRecovers
    <3>2. R \in SUBSET Record
      BY <2>1, LogRecsType DEF DiskOK
    <3>3. K \in SUBSET Record /\ D \in SUBSET Record /\ OncePerSeq(K \cup D)
      BY <1>4, <2>1 DEF History, OncePerSeq
    <3> HIDE DEF R, K, D
    <3>4. Recovers(R, man \o JobEdits, sst, K, D)
      BY <1>4, <1>10, <2>1, <2>3, <3>1, <3>2, <3>3, RecoversJob
    <3> QED
      BY <2>2, <3>4 DEF R, K, D
  <2>6. LastNextFileNum(man) <= LastNextFileNum(man')
    <3>1. JobDone.nextFile >= nextFile /\ JobDone.nextFile \in Nat
      BY <1>4, <2>3, CompactKeepsNumbers DEF JobDone
    <3> QED
      BY <1>4, <2>1, <2>4, <3>1
  <2>7. DiskOK'
    BY <1>1, <1>7, <1>10, <2>1, <2>2, <2>5, <2>6, ManifestGrows
  <2> QED
    BY <2>4, <2>7
<1>11. GoodDisk' => DiskOK'
  BY <1>2, <1>3, <1>9, <1>10
<1>12. Trusted => History' /\ LiveOK'
  BY <1>1 DEF DiskInv, History, LiveOK
<1>13. Trusted => Stage'
  <2> SUFFICES ASSUME Trusted PROVE Stage'
    OBVIOUS
  <2>1. CASE /\ Flushing /\ OnDisk(levels, nextFile - 1) /\ Filed(NewTable, sst)
             /\ e = NewEdits /\ Rest \in FlushSync(LastOne)
    <3>1. Flushing' /\ Filed(NewTable, sst)'
      BY <1>1, <1>5, <2>1 DEF Flushing
    <3>2. OnDisk(WithTable(levels, NewTable), nextFile)' /\ SeqIsListed'
      BY <1>1, <1>2, <1>5, <1>9, <2>1 DEF OnDisk, SeqIsListed, WithTable
    <3>3. todo' \in FlushSync(LastOne')
      BY <1>1, <1>5, <2>1
    <3>4. FlushListed0'
      BY <3>1, <3>2, <3>3 DEF FlushListed0
    <3> QED
      BY <3>4 DEF Stage
  <2>2. CASE /\ Compacting /\ OnDisk(levels, nextFile) /\ \A t \in JobOuts : Filed(t, sst)
             /\ e = JobEdits /\ Rest \in CompactSync(JobEdits, JobFiles)
    <3>1. Compacting' /\ \A t \in JobOuts' : Filed(t, sst')
      BY <1>1, <1>5, <2>2 DEF Compacting
    <3>2. OnDisk(JobDone.levels, JobDone.nextFile)'
      BY <1>1, <1>2, <1>10, <2>2 DEF OnDisk, JobDone
    <3>3. todo' \in CompactSync(JobEdits', JobFiles')
      BY <1>1, <1>5, <2>2
    <3>4. JobIsListed'
      BY <3>1, <3>2, <3>3 DEF JobIsListed
    <3> QED
      BY <3>4 DEF Stage
  <2> QED
    BY <1>3, <2>1, <2>2
<1>14. GoodDisk => MemOK'
  BY <1>1, LinkedNow, MemStays DEF DiskInv
<1> QED
  BY <1>1, <1>2, <1>11, <1>12, <1>13, <1>14 DEF DiskInv

\* Syncing the manifest keeps the invariant.
LEMMA KeepsSyncManifest ==
  ASSUME TypeInv, DiskInv, "midlog" \notin Faults, SyncManifest
  PROVE  DiskInv'
<1>1. /\ Now("syncman") /\ up /\ todo # <<>> /\ Head(todo).op # "create" /\ todo' = Rest
      /\ UNCHANGED <<wal, walSynced, man, sst, up, linked, mem, imms, levels, nextSeq, nextFile,
                     acked, safe, doubt, struck>>
      /\ manSynced' = IF Fsync = "Never" THEN manSynced ELSE Len(man)
  BY DEF SyncManifest, Now, memory, history
<1>2. (GoodDisk' = GoodDisk) /\ (Trusted' = Trusted) /\ (GoodDisk => Trusted)
  BY <1>1 DEF GoodDisk, Trusted
<1>3. GoodDisk => DiskOK'
  <2> SUFFICES ASSUME GoodDisk PROVE DiskOK'
    OBVIOUS
  <2>1. DiskOK
    BY DEF DiskInv
  <2>2. WalMarks' = WalMarks /\ ManMarks' = {Len(man)}
    BY <1>1 DEF WalMarks, WalPrefixes, ManMarks
  <2>3. Len(man) \in ManMarks
    BY WalMarksAre DEF TypeInv
  <2>4. \A n \in WalMarks' : safe' \cap LostRecords(n) = {}
    BY <1>1, <2>1, <2>2 DEF DiskOK, LogOK
  <2> QED
    BY <1>1, <2>1, <2>2, <2>3, <2>4, MarksFewer
<1>4. Trusted => History' /\ LiveOK'
  BY <1>1 DEF DiskInv, History, LiveOK
<1>5. ManIsSynced'
  BY <1>1 DEF ManIsSynced
<1>6. Trusted => Stage'
  <2> SUFFICES ASSUME Trusted PROVE Stage'
    OBVIOUS
  <2>1. \/ /\ Flushing /\ OnDisk(WithTable(levels, NewTable), nextFile) /\ SeqIsListed
           /\ Filed(NewTable, sst) /\ Rest \in FlushInstall(LastOne)
        \/ /\ Compacting /\ OnDisk(JobDone.levels, JobDone.nextFile)
           /\ \A t \in JobOuts : Filed(t, sst)
           /\ Rest \in CompactInstall(JobEdits, JobFiles)
    BY <1>1, StageSteps DEF DiskInv
  <2>2. /\ NewTable' = NewTable /\ NewEdits' = NewEdits /\ LastOne' = LastOne
        /\ JobOuts' = JobOuts /\ JobEdits' = JobEdits /\ JobFiles' = JobFiles
    BY <1>1, SameWork
  <2>3. CASE /\ Flushing /\ OnDisk(WithTable(levels, NewTable), nextFile) /\ SeqIsListed
             /\ Filed(NewTable, sst) /\ Rest \in FlushInstall(LastOne)
    <3>1. Flushing' /\ Filed(NewTable, sst)' /\ SeqIsListed'
      BY <1>1, <1>2, <2>2, <2>3 DEF Flushing, SeqIsListed
    <3>2. OnDisk(WithTable(levels, NewTable), nextFile)'
      BY <1>1, <1>2, <2>2, <2>3 DEF OnDisk, WithTable
    <3>3. todo' \in FlushInstall(LastOne')
      BY <1>1, <2>2, <2>3
    <3>4. FlushListed0'
      BY <1>5, <3>1, <3>2, <3>3 DEF FlushListed0
    <3> QED
      BY <3>4 DEF Stage
  <2>4. CASE /\ Compacting /\ OnDisk(JobDone.levels, JobDone.nextFile)
             /\ \A t \in JobOuts : Filed(t, sst)
             /\ Rest \in CompactInstall(JobEdits, JobFiles)
    <3>1. Compacting' /\ \A t \in JobOuts' : Filed(t, sst')
      BY <1>1, <2>2, <2>4 DEF Compacting
    <3>2. OnDisk(JobDone.levels, JobDone.nextFile)'
      BY <1>1, <1>2, <2>4 DEF OnDisk, JobDone
    <3>3. todo' \in CompactInstall(JobEdits', JobFiles')
      BY <1>1, <2>2, <2>4
    <3>4. JobIsListed'
      BY <1>5, <3>1, <3>2, <3>3 DEF JobIsListed
    <3> QED
      BY <3>4 DEF Stage
  <2> QED
    BY <2>1, <2>3, <2>4
<1>7. GoodDisk => MemOK'
  BY <1>1, LinkedNow, MemStays DEF DiskInv
<1> QED
  BY <1>1, <1>2, <1>3, <1>4, <1>6, <1>7 DEF DiskInv

\* The flushed memtable is read from its table.
LEMMA KeepsInstallFlush ==
  ASSUME TypeInv, DiskInv, "midlog" \notin Faults, InstallFlush
  PROVE  DiskInv'
<1>1. /\ Now("flushed") /\ up /\ todo # <<>> /\ Head(todo).op # "create" /\ todo' = Rest
      /\ UNCHANGED <<wal, walSynced, man, manSynced, sst, up, linked, mem, nextSeq, nextFile,
                     acked, safe, doubt, struck>>
      /\ levels' = WithTable(levels, NewTable) /\ imms' = Tail(imms)
  BY DEF InstallFlush, Now, disk, history, WithTable, NewTable
<1>2. (GoodDisk' = GoodDisk) /\ (Trusted' = Trusted) /\ (GoodDisk => Trusted)
  BY <1>1 DEF GoodDisk, Trusted
<1>3. Trusted =>
        /\ Flushing /\ OnDisk(WithTable(levels, NewTable), nextFile) /\ SeqIsListed /\ ManIsSynced
        /\ Filed(NewTable, sst) /\ Rest \in IF LastOne THEN UnlinkPlans ELSE Loop
  BY <1>1, StageSteps DEF DiskInv
<1>4. nextFile \in Nat \ {0} /\ imms \in Seq(Batch)
  BY DEF TypeInv, MemoryType
<1>5. GoodDisk => DiskOK'
  BY <1>1, DiskStays DEF DiskInv
<1>6. Trusted => /\ Serves(mem, imms', levels', acked, doubt) /\ Numbered(levels', nextFile)
                 /\ FilesIn(levels', sst)
  <2> SUFFICES ASSUME Trusted
               PROVE  /\ Serves(mem, imms', levels', acked, doubt) /\ Numbered(levels', nextFile)
                      /\ FilesIn(levels', sst)
    OBVIOUS
  <2> DEFINE nf == nextFile - 1
             w  == [levels EXCEPT ![0] = @ \cup {MkTable(nf, Head(imms))}]
  <2>1. Serves(mem, imms, levels, acked, doubt) /\ FilesIn(levels, sst)
    BY <1>1 DEF DiskInv, LiveOK
  <2>2. imms # <<>> /\ nf \in Nat \ {0} /\ Numbered(levels, nf) /\ nf + 1 = nextFile /\ Filed(NewTable, sst)
    BY <1>3, <1>4 DEF Flushing
  <2>3. levels' = w
    BY <1>1 DEF WithTable, NewTable
  <2> HIDE DEF nf
  <2>4. Serves(mem, Tail(imms), w, acked, doubt) /\ Numbered(w, nf + 1)
    BY <1>4, <2>1, <2>2, ServesFlush
  <2>5. levels \in [Level -> SUBSET Stock]
    BY <2>1, SoundStored DEF Serves, Stored
  <2>6. \A l \in Level : \A t \in levels'[l] : t \in levels[l] \/ t = NewTable
    BY <1>1, <2>5 DEF WithTable
  <2>7. FilesIn(levels', sst)
    BY <2>1, <2>2, <2>6 DEF FilesIn
  <2> HIDE DEF w
  <2> QED
    BY <1>1, <2>2, <2>3, <2>4, <2>7
<1>7. Trusted => History' /\ LiveOK'
  BY <1>1, <1>6 DEF DiskInv, History, LiveOK
<1>8. Trusted => Stage'
  <2> SUFFICES ASSUME Trusted PROVE Stage'
    OBVIOUS
  <2>1. Numbered(levels, nextFile)' /\ OnDisk(levels, nextFile)'
    BY <1>1, <1>2, <1>3, <1>6 DEF OnDisk
  <2>2. SeqIsListed' /\ ManIsSynced'
    BY <1>1, <1>2, <1>3 DEF SeqIsListed, ManIsSynced
  <2>3. CASE LastOne
    <3>1. mem' = {} /\ imms' = <<>>
      BY <1>1, <1>4, <2>3 DEF LastOne
    <3>2. todo' \in UnlinkPlans
      BY <1>1, <1>3, <2>3
    <3>3. LogNotNeeded'
      BY <2>1, <2>2, <3>1, <3>2 DEF LogNotNeeded
    <3> QED
      BY <3>3 DEF Stage
  <2>4. CASE ~LastOne
    <3>1. todo' \in Idling
      BY <1>1, <1>3, <2>4 DEF Idling
    <3>2. Resting'
      BY <2>1, <3>1 DEF Resting
    <3> QED
      BY <3>2 DEF Stage
  <2> QED
    BY <2>3, <2>4
<1>9. GoodDisk => MemOK'
  <2> SUFFICES ASSUME GoodDisk PROVE MemOK'
    OBVIOUS
  <2>1. MemOK /\ linked /\ imms # <<>>
    BY <1>1, <1>2, <1>3, LinkedNow DEF DiskInv, Flushing
  <2>2. WalMarks' = WalMarks /\ \A n : LogRecs(n)' = LogRecs(n)
    BY <1>1 DEF WalMarks, WalPrefixes, LogRecs
  <2>3. \A i \in DOMAIN imms' : i + 1 \in DOMAIN imms /\ imms'[i] = imms[i + 1]
    BY <1>1, <1>4, <2>1
  <2>4. \A i \in DOMAIN imms' : \A n \in WalMarks : imms'[i] \subseteq LogRecs(n)
    BY <2>1, <2>3 DEF MemOK
  <2> QED
    BY <1>1, <2>1, <2>2, <2>4 DEF MemOK
<1> QED
  BY <1>1, <1>2, <1>5, <1>7, <1>8, <1>9 DEF DiskInv

\* The version is that of the output files, and the inputs are in it no more.
LEMMA KeepsInstallCompaction ==
  ASSUME TypeInv, DiskInv, "midlog" \notin Faults, InstallCompaction
  PROVE  DiskInv'
<1>1. /\ Now("install") /\ up /\ todo # <<>> /\ Head(todo).op # "create" /\ todo' = Rest
      /\ UNCHANGED <<wal, walSynced, man, manSynced, sst, up, linked, mem, imms, nextSeq,
                     acked, safe, doubt, struck>>
  BY DEF InstallCompaction, Now, disk, history
<1>2. (GoodDisk' = GoodDisk) /\ (Trusted' = Trusted) /\ (GoodDisk => Trusted)
  BY <1>1 DEF GoodDisk, Trusted
<1>3. Trusted =>
        /\ Compacting /\ OnDisk(JobDone.levels, JobDone.nextFile) /\ ManIsSynced
        /\ \A t \in JobOuts : Filed(t, sst)
        /\ Head(todo).edits = JobEdits /\ Rest = <<RemoveSst(JobFiles)>>
  BY <1>1, StageSteps DEF DiskInv
<1>4. /\ nextFile \in Nat \ {0} /\ imms \in Seq(Batch) /\ mem \in SUBSET Record
      /\ acked \in SUBSET Record /\ doubt \in SUBSET Record
  BY DEF TypeInv, MemoryType, HistoryType
<1>5. GoodDisk => DiskOK'
  BY <1>1, DiskStays DEF DiskInv
<1>6. Trusted =>
        /\ levels' = JobDone.levels /\ nextFile' = JobDone.nextFile /\ Numbered(levels', nextFile')
        /\ Serves(mem, imms, levels', acked, doubt) /\ FilesIn(levels', sst)
        /\ JobFiles \in SUBSET Nat /\ \A l \in Level : \A t \in levels'[l] : t.num \notin JobFiles
  <2> SUFFICES ASSUME Trusted
               PROVE  /\ levels' = JobDone.levels /\ nextFile' = JobDone.nextFile /\ Numbered(levels', nextFile')
                      /\ Serves(mem, imms, levels', acked, doubt) /\ FilesIn(levels', sst)
                      /\ JobFiles \in SUBSET Nat /\ \A l \in Level : \A t \in levels'[l] : t.num \notin JobFiles
    OBVIOUS
  <2>1. /\ Serves(mem, imms, levels, acked, doubt) /\ FilesIn(levels, sst) /\ OncePerSeq(acked \cup doubt)
        /\ Sound(levels)
    BY <1>1 DEF DiskInv, LiveOK, History, Serves
  <2>2. Overfull(levels) # {} /\ Numbered(levels, nextFile)
    BY <1>3 DEF Compacting
  <2>3. levels' = JobDone.levels /\ nextFile' = JobDone.nextFile
    BY <1>3, <1>4, <2>1, <2>2, JobInstalled DEF JobDone
  <2>4. Numbered(JobDone.levels, JobDone.nextFile)
    BY <1>4, <2>1, <2>2, CompactKeepsNumbers DEF JobDone
  <2>5. Serves(mem, imms, JobDone.levels, acked, doubt)
    BY <1>4, <2>1, ServesCompact DEF JobDone
  <2> DEFINE l == JobLevel(levels)
  <2>6. /\ l \in Level /\ l + 1 \in Level /\ l \in Nat
        /\ JobUpper \subseteq levels[l] /\ JobLower \subseteq levels[l + 1]
        /\ JobDone.levels[l] = levels[l] \ JobUpper
        /\ JobDone.levels[l + 1] = (levels[l + 1] \ JobLower) \cup JobOuts
        /\ \A x \in Level \ {l, l + 1} : JobDone.levels[x] = levels[x]
        /\ \A t \in JobOuts : t.num >= nextFile
    BY <1>4, <2>1, <2>2, JobParts DEF JobDone
  <2>7. JobFiles \in SUBSET Nat
    BY <2>2, WorkTyped
  <2> HIDE DEF l
  <2>8. l # l + 1
    BY <2>6
  <2>9. \A x \in Level : \A t \in JobDone.levels[x] :
          \/ t \in JobOuts
          \/ t \in levels[x] /\ (x = l => t \notin JobUpper) /\ (x = l + 1 => t \notin JobLower)
    BY <2>6, <2>8
  <2>10. FilesIn(JobDone.levels, sst)
    BY <1>3, <2>1, <2>9 DEF FilesIn
  <2>11. ASSUME NEW x \in Level, NEW t \in JobDone.levels[x], t.num \in JobFiles
         PROVE  FALSE
    <3>1. PICK u \in JobUpper \cup JobLower : t.num = u.num
      BY <2>11 DEF JobFiles
    <3>2. \/ u \in JobUpper /\ u \in levels[l]
          \/ u \in JobLower /\ u \in levels[l + 1]
      BY <2>6
    <3>3. u.num < nextFile
      BY <2>2, <2>6, <3>2 DEF Numbered
    <3>4. CASE t \in JobOuts
      <4>1. t.num >= nextFile /\ t.num \in Nat
        BY <2>6, <2>7, <2>11, <3>4
      <4> QED
        BY <1>4, <3>1, <3>3, <4>1
    <3>5. CASE t \in levels[x] /\ (x = l => t \notin JobUpper) /\ (x = l + 1 => t \notin JobLower)
      <4>1. CASE u \in JobUpper /\ u \in levels[l]
        <5>1. x = l /\ t = u
          BY <2>2, <2>6, <3>1, <3>5, <4>1 DEF Numbered
        <5> QED
          BY <3>5, <4>1, <5>1
      <4>2. CASE u \in JobLower /\ u \in levels[l + 1]
        <5>1. x = l + 1 /\ t = u
          BY <2>2, <2>6, <3>1, <3>5, <4>2 DEF Numbered
        <5> QED
          BY <3>5, <4>2, <5>1
      <4> QED
        BY <3>2, <4>1, <4>2
    <3> QED
      BY <2>9, <2>11, <3>4, <3>5
  <2> QED
    BY <2>3, <2>4, <2>5, <2>7, <2>10, <2>11
<1>7. Trusted => History' /\ LiveOK'
  BY <1>1, <1>6 DEF DiskInv, History, LiveOK
<1>8. Trusted => Stage'
  <2> SUFFICES ASSUME Trusted PROVE Stage'
    OBVIOUS
  <2>1. Numbered(levels, nextFile)' /\ OnDisk(levels, nextFile)'
    BY <1>1, <1>2, <1>3, <1>6 DEF OnDisk
  <2>2. ManIsSynced'
    BY <1>1, <1>2, <1>3 DEF ManIsSynced
  <2> DEFINE N == JobFiles
  <2>3. todo' = <<RemoveSst(N)>> /\ N \in SUBSET Nat /\ \A l \in Level : \A t \in levels'[l] : t.num \notin N
    BY <1>1, <1>3, <1>6
  <2> HIDE DEF N
  <2>4. Removing'
    BY <2>1, <2>2, <2>3 DEF Removing
  <2> QED
    BY <2>4 DEF Stage
<1>9. GoodDisk => MemOK'
  BY <1>1, LinkedNow, MemStays DEF DiskInv
<1> QED
  BY <1>1, <1>2, <1>5, <1>7, <1>8, <1>9 DEF DiskInv

\* The inputs of a compaction go once the MANIFEST lists them no more.
LEMMA KeepsRemoveInputs ==
  ASSUME TypeInv, DiskInv, "midlog" \notin Faults, RemoveInputs
  PROVE  DiskInv'
<1> DEFINE N == Head(todo).nums
<1>1. /\ Now("remove") /\ up /\ todo # <<>> /\ Head(todo).op # "create" /\ todo' = Rest
      /\ UNCHANGED <<wal, walSynced, man, manSynced, up, linked, mem, imms, levels, nextSeq, nextFile,
                     acked, safe, doubt, struck>>
      /\ sst' = [n \in DOMAIN sst \ N |-> sst[n]]
  BY DEF RemoveInputs, Restrict, Now, memory, history
<1>2. (GoodDisk' = GoodDisk) /\ (Trusted' = Trusted) /\ (GoodDisk => Trusted)
  BY <1>1 DEF GoodDisk, Trusted
<1>3. Trusted =>
        /\ Numbered(levels, nextFile) /\ OnDisk(levels, nextFile) /\ ManIsSynced /\ Rest = <<>>
        /\ \A l \in Level : \A t \in levels[l] : t.num \notin N
  BY <1>1, StageSteps DEF DiskInv
<1>4. \A x \in DOMAIN sst \ N : x \in DOMAIN sst' /\ sst'[x] = sst[x]
  BY <1>1
<1> HIDE DEF N
<1>5. Trusted => FilesIn(levels, sst') /\ (Lists(man, sst, levels) => Lists(man, sst', levels))
  <2>1. Trusted => FilesIn(levels, sst)
    BY <1>1 DEF DiskInv, LiveOK
  <2> QED
    BY <1>3, <1>4, <2>1, OtherFilesListed
<1>6. GoodDisk => DiskOK'
  <2> SUFFICES ASSUME GoodDisk PROVE DiskOK'
    OBVIOUS
  <2>1. DiskOK /\ man \in Seq(Edit) /\ Lists(man, sst, levels) /\ ManIsSynced
    BY <1>2, <1>3 DEF DiskInv, DiskOK, ManOK, OnDisk
  <2>2. ManMarks = {Len(man)}
    BY <2>1, SynchronizedMarks DEF ManIsSynced, TypeInv
  <2>3. SubSeq(man, 1, Len(man)) = man
    BY <2>1
  <2>4. Version(man, sst) = levels
    <3>1. levels \in [Level -> SUBSET Stock]
      BY DEF TypeInv, MemoryType, Stored
    <3> QED
      BY <2>1, <3>1, ListsVersion
  <2>5. \A m \in ManMarks : \A l \in Level : \A t \in Version(SubSeq(man, 1, m), sst)[l] : t.num \notin N
    BY <1>2, <1>3, <2>2, <2>3, <2>4
  <2> QED
    BY <1>1, <1>4, <2>1, <2>5, OtherFiles
<1>7. Trusted => History' /\ LiveOK'
  BY <1>1, <1>5 DEF DiskInv, History, LiveOK
<1>8. Trusted => Stage'
  <2> SUFFICES ASSUME Trusted PROVE Stage'
    OBVIOUS
  <2>1. Numbered(levels, nextFile)' /\ OnDisk(levels, nextFile)'
    BY <1>1, <1>2, <1>3, <1>5 DEF OnDisk
  <2>2. todo' \in Idling
    BY <1>1, <1>3 DEF Idling
  <2>3. Resting'
    BY <2>1, <2>2 DEF Resting
  <2> QED
    BY <2>3 DEF Stage
<1>9. GoodDisk => MemOK'
  BY <1>1, LinkedNow, MemStays DEF DiskInv
<1> QED
  BY <1>1, <1>2, <1>6, <1>7, <1>8, <1>9 DEF DiskInv

\* The log goes when the tables hold all of the history.
LEMMA KeepsUnlinkWal ==
  ASSUME TypeInv, DiskInv, "midlog" \notin Faults, UnlinkWal
  PROVE  DiskInv'
<1>1. /\ Now("unlink") /\ up /\ todo' = Rest /\ wal' = <<>> /\ walSynced' = 0
      /\ UNCHANGED <<man, manSynced, sst, up, mem, imms, levels, nextSeq, nextFile,
                     acked, safe, doubt, struck>>
  BY DEF UnlinkWal, Now, history
<1>2. (GoodDisk' = GoodDisk) /\ (Trusted' = Trusted) /\ (GoodDisk => Trusted)
  BY <1>1 DEF GoodDisk, Trusted
<1>3. Trusted => /\ mem = {} /\ imms = <<>> /\ Numbered(levels, nextFile) /\ OnDisk(levels, nextFile)
                 /\ ManIsSynced /\ SeqIsListed /\ Rest \in CreatePlans
  BY <1>1, StageSteps DEF DiskInv
<1>4. Len(wal') = 0 /\ WalMarks' = {0} /\ ManMarks' = ManMarks
  <2>1. Len(wal') = 0
    BY <1>1
  <2>2. 0..0 = {0}
    OBVIOUS
  <2> QED
    BY <1>1, <2>1, <2>2 DEF WalMarks, WalPrefixes, ManMarks
<1>5. LogRecs(0)' = {} /\ LostRecords(0)' = {}
  BY <1>4 DEF LogRecs, LostRecords
<1>6. GoodDisk => DiskOK'
  <2> SUFFICES ASSUME GoodDisk PROVE DiskOK'
    OBVIOUS
  <2>1. DiskOK /\ LiveOK /\ man \in Seq(Edit) /\ Lists(man, sst, levels) /\ LastNextFileNum(man) = nextFile
    BY <1>1, <1>2, <1>3 DEF DiskInv, DiskOK, ManOK, OnDisk
  <2>2. ManMarks = {Len(man)} /\ SubSeq(man, 1, Len(man)) = man
    BY <1>2, <1>3, <2>1, SynchronizedMarks DEF ManIsSynced, TypeInv
  <2>3. Version(man, sst) = levels
    <3>1. levels \in [Level -> SUBSET Stock]
      BY DEF TypeInv, MemoryType, Stored
    <3> QED
      BY <2>1, <3>1, ListsVersion
  <2>4. Serves({}, <<>>, levels, acked, doubt) /\ \A r \in acked \cup doubt : r.seq <= LastSeq(man)
    BY <1>2, <1>3, <2>1 DEF LiveOK, SeqIsListed
  <2>5. Recovers({}, man, sst, acked, doubt)
    BY <1>2, <1>3, <2>1, <2>3, <2>4 DEF Recovers
  <2>6. LogOK'
    <3>1. 1..0 = {}
      OBVIOUS
    <3> QED
      BY <1>4, <1>5, <3>1 DEF LogOK
  <2>7. ManOK'
    BY <1>1, <1>4, <2>1 DEF DiskOK, ManOK
  <2>8. Recoverable'
    <3> SUFFICES ASSUME NEW n \in WalMarks', NEW m \in ManMarks'
                 PROVE  Recovers(LogRecs(n), SubSeq(man, 1, m), sst, acked \ LostRecords(n), doubt \ LostRecords(n))'
      BY DEF Recoverable
    <3>1. n = 0 /\ SubSeq(man, 1, m) = man
      BY <1>4, <2>2
    <3>2. acked \ LostRecords(n)' = acked /\ doubt \ LostRecords(n)' = doubt /\ LogRecs(n)' = {}
      BY <1>5, <3>1
    <3> QED
      BY <1>1, <2>5, <3>1, <3>2
  <2> QED
    BY <2>6, <2>7, <2>8 DEF DiskOK
<1>7. Trusted => History' /\ LiveOK'
  BY <1>1 DEF DiskInv, History, LiveOK
<1>8. Trusted => Stage'
  <2> SUFFICES ASSUME Trusted PROVE Stage'
    OBVIOUS
  <2>1. Numbered(levels, nextFile)' /\ OnDisk(levels, nextFile)'
    BY <1>1, <1>2, <1>3 DEF OnDisk
  <2>2. todo' \in CreatePlans /\ mem' = {} /\ imms' = <<>>
    BY <1>1, <1>3
  <2>3. Resting'
    BY <2>1, <2>2 DEF Resting
  <2> QED
    BY <2>3 DEF Stage
<1>9. GoodDisk => MemOK'
  <2> SUFFICES ASSUME GoodDisk PROVE MemOK'
    OBVIOUS
  <2>1. todo' \in CreatePlans /\ mem' = {} /\ imms' = <<>>
    BY <1>1, <1>2, <1>3
  <2>2. DOMAIN imms' = {}
    BY <2>1
  <2> QED
    BY <2>1, <2>2 DEF MemOK
<1> QED
  BY <1>1, <1>2, <1>6, <1>7, <1>8, <1>9 DEF DiskInv

\* Creating the new log keeps the invariant.
LEMMA KeepsCreateWal ==
  ASSUME TypeInv, DiskInv, "midlog" \notin Faults, CreateWal
  PROVE  DiskInv'
<1>1. /\ Now("create") /\ up /\ todo' = Rest /\ linked' = TRUE
      /\ UNCHANGED <<wal, walSynced, man, manSynced, sst, up, mem, imms, levels, nextSeq, nextFile,
                     acked, safe, doubt, struck>>
  BY DEF CreateWal, Now, disk, history
<1>2. (GoodDisk' = GoodDisk) /\ (Trusted' = Trusted) /\ (GoodDisk => Trusted)
  BY <1>1 DEF GoodDisk, Trusted
<1>3. Trusted => Numbered(levels, nextFile) /\ OnDisk(levels, nextFile) /\ Rest \in Loop
  BY <1>1, StageSteps DEF DiskInv
<1>4. GoodDisk => DiskOK'
  BY <1>1, DiskStays DEF DiskInv
<1>5. Trusted => History' /\ LiveOK'
  BY <1>1 DEF DiskInv, History, LiveOK
<1>6. Trusted => Stage'
  <2>1. Trusted => todo' \in Idling
    BY <1>1, <1>3 DEF Idling
  <2> QED
    BY <1>1, <1>2, <1>3, <2>1, StaysAtRest
<1>7. GoodDisk => MemOK'
  <2>1. WalMarks' = WalMarks /\ \A n : LogRecs(n)' = LogRecs(n)
    BY <1>1 DEF WalMarks, WalPrefixes, LogRecs
  <2> QED
    BY <1>1, <2>1 DEF DiskInv, MemOK
<1> QED
  BY <1>1, <1>2, <1>4, <1>5, <1>6, <1>7 DEF DiskInv

-----------------------------------------------------------------------------
(* I/O errors, crashes and recovery.                                       *)

\* After an I/O error the disk is no longer good, but the memory is as right
\* as it was.
LEMMA KeepsIoError ==
  ASSUME TypeInv, DiskInv, "midlog" \notin Faults, IoError
  PROVE  DiskInv'
<1>1. /\ up /\ todo # <<>> /\ todo \in Seq(Op) /\ todo' = GivenUp /\ struck' = struck \cup {"iotable"}
      /\ UNCHANGED <<wal, walSynced, sst, up, linked, mem, imms, levels, nextSeq, acked, safe, doubt>>
      /\ \/ /\ Now("sst") \/ Now("syncdir") \/ Now("syncman") \/ Now("flushed") \/ Now("create") \/ Now("log")
            /\ nextFile' = nextFile
         \/ Now("install") /\ nextFile' = LastNextFileNum(Head(todo).edits)
  BY PlanTyped DEF IoError, Now, TypeInv
<1>2. ~GoodDisk' /\ (Trusted' => Trusted)
  BY <1>1, Hindsight DEF GoodDisk
<1>3. Trusted => History' /\ LiveOK'
  BY <1>1 DEF DiskInv, History, LiveOK
<1>4. todo' \in Idling
  <2>1. Last(todo) \in Op
    BY <1>1 DEF Last
  <2>2. Last(todo).op = "compact" => Last(todo) = Step("compact")
    BY <2>1 DEF Op, Step
  <2> QED
    BY <1>1, <2>2 DEF GivenUp, Idling
<1>5. Trusted => Numbered(levels, nextFile')
  <2> SUFFICES ASSUME Trusted PROVE Numbered(levels, nextFile')
    OBVIOUS
  <2>1. Stage /\ Sound(levels) /\ Stored(levels) /\ nextFile \in Nat \ {0}
    BY <1>1 DEF DiskInv, LiveOK, Serves, TypeInv, MemoryType
  <2>2. \A l \in Level : \A t \in levels[l] : t.num \in Nat
    BY <2>1, BuiltIsStock DEF Sound
  <2>3. \A nf \in Nat, n \in Nat : Numbered(levels, nf) /\ nf <= n => Numbered(levels, n)
    <3> SUFFICES ASSUME NEW nf \in Nat, NEW n \in Nat, Numbered(levels, nf), nf <= n PROVE Numbered(levels, n)
      OBVIOUS
    <3>1. \A l \in Level : \A t \in levels[l] : t.num < n
      BY <2>2 DEF Numbered
    <3> QED
      BY <3>1 DEF Numbered
  <2>4. Flushing => Numbered(levels, nextFile)
    <3>1. Flushing => nextFile - 1 \in Nat /\ nextFile - 1 <= nextFile /\ Numbered(levels, nextFile - 1)
      BY <2>1 DEF Flushing
    <3> QED
      BY <2>1, <2>3, <3>1
  <2>5. CASE nextFile' = nextFile
    <3>1. Numbered(levels, nextFile)
      BY <2>1, <2>4 DEF Stage, Resting, LogNotNeeded, FlushUnlisted, FlushListed0, Compacting,
                        JobWriting, JobUnlisted, JobIsListed, Removing
    <3> QED
      BY <2>5, <3>1
  <2>6. CASE Now("install") /\ nextFile' = LastNextFileNum(Head(todo).edits)
    <3>1. Compacting /\ Head(todo).edits = JobEdits
      BY <2>1, <2>6, StageSteps
    <3>2. Numbered(levels, nextFile) /\ Overfull(levels) # {}
      BY <3>1 DEF Compacting
    <3> DEFINE e == JobEdits
               n == AfterLast(JobOuts, nextFile)
    <3>3. Len(e) \in 1..Len(e) /\ e[Len(e)] = SetNextFileNum(n)
      BY <2>1, <3>2, JobEditsAre
    <3>4. e \in Seq(Edit)
      BY <3>2, WorkTyped
    <3>5. n = JobDone.nextFile /\ n >= nextFile /\ n \in Nat
      BY <2>1, <3>2, JobParts, CompactKeepsNumbers DEF JobDone
    <3> HIDE DEF e, n
    <3>6. e[Len(e)].op = "SetNextFileNum" /\ e[Len(e)].n = n
      BY <3>3 DEF SetNextFileNum
    <3>7. LastNextFileNum(e) = n
      BY <3>3, <3>4, <3>6, NumberAppend
    <3>8. nextFile' = n
      BY <2>6, <3>1, <3>7 DEF e
    <3> QED
      BY <2>1, <2>3, <3>2, <3>5, <3>8
  <2> QED
    BY <1>1, <2>5, <2>6
<1>6. Trusted => Stage'
  <2>1. Trusted => Numbered(levels, nextFile)' /\ OnDisk(levels, nextFile)'
    BY <1>1, <1>2, <1>5 DEF OnDisk
  <2>2. todo' \in Idling'
    BY <1>4 DEF Idling, Loop, Step
  <2> QED
    BY <2>1, <2>2 DEF Stage, Resting
<1> QED
  BY <1>1, <1>2, <1>3, <1>6 DEF DiskInv

\* A crash keeps the invariant.
LEMMA KeepsCrash ==
  ASSUME TypeInv, DiskInv, Crash
  PROVE  DiskInv'
<1>1. /\ up' = FALSE /\ "crash" \in struck' /\ struck \subseteq struck'
      /\ UNCHANGED <<walSynced, manSynced, sst, acked, safe, doubt>>
      /\ wal' = wal \/ (wal' = WalFile /\ ("wal" \in stumps => "behind" \in struck'))
      /\ man' = man \/ (man' = ManFile /\ ("man" \in stumps => "behind" \in struck'))
  BY DEF Crash, Forget, Behind
<1>2. (GoodDisk' => GoodDisk) /\ (Trusted' => Trusted)
  BY <1>1, Hindsight
<1>3. GoodDisk' => DiskOK'
  <2> SUFFICES ASSUME GoodDisk' PROVE DiskOK'
    OBVIOUS
  <2>1. "behind" \notin struck'
    BY DEF GoodDisk
  <2>2. wal' = wal /\ man' = man
    BY <1>1, <2>1, LogFiles DEF TypeInv
  <2> QED
    BY <1>1, <1>2, <2>2, DiskStays DEF DiskInv
<1>4. Trusted' => History'
  BY <1>1, <1>2, HistoryStays DEF DiskInv
<1> QED
  BY <1>1, <1>3, <1>4 DEF DiskInv

\* A power loss cuts the logs at two of the marks, and with the log the
\* history.
LEMMA KeepsPowerLoss ==
  ASSUME TypeInv, DiskInv, "midlog" \notin Faults, PowerLoss
  PROVE  DiskInv'
<1>1. PICK n \in WalPrefixes, m \in ManPrefixes :
        /\ man' = SubSeq(man, 1, m) /\ manSynced' = m
        /\ \/ /\ wal' = SubSeq(wal, 1, n) /\ walSynced' = n
              /\ acked' = acked \ LostRecords(n) /\ doubt' = doubt \ LostRecords(n)
           \/ "direntry" \in struck'
        /\ struck \subseteq struck' /\ "crash" \in struck'
  BY DEF PowerLoss
<1>2. up' = FALSE /\ Fsync # "Never" /\ UNCHANGED <<sst, safe>>
  BY DEF PowerLoss, Forget
<1>3. "crash" \in struck' /\ (GoodDisk' => GoodDisk) /\ (Trusted' <=> GoodDisk')
  <2>1. "crash" \in struck' /\ struck \subseteq struck'
    BY <1>1
  <2> QED
    BY <2>1, Hindsight DEF Trusted
<1>4. n \in WalMarks /\ m \in ManMarks /\ n \in 0..Len(wal) /\ m \in 0..Len(man) /\ Len(wal) \in Nat
  <2>1. n \in WalMarks /\ m \in ManMarks
    BY <1>2 DEF WalMarks, ManMarks, ManPrefixes
  <2> QED
    BY <2>1, WalMarksAre DEF TypeInv
<1> SUFFICES ASSUME GoodDisk' PROVE DiskOK' /\ History'
  BY <1>2, <1>3 DEF DiskInv
<1>5. /\ wal' = SubSeq(wal, 1, n) /\ walSynced' = n
      /\ acked' = acked \ LostRecords(n) /\ doubt' = doubt \ LostRecords(n)
  BY <1>1 DEF GoodDisk
<1>6. DiskOK /\ History /\ safe \cap LostRecords(n) = {} /\ man \in Seq(Edit)
  BY <1>3, <1>4 DEF DiskInv, Trusted, DiskOK, LogOK, ManOK
<1>7. History'
  BY <1>2, <1>5, <1>6 DEF History, OncePerSeq
<1>8. Len(wal') = n /\ \A i \in 1..n : wal'[i] = wal[i]
  <2>1. wal \in Seq(Record \cup {Torn})
    BY DEF TypeInv, DiskType
  <2> QED
    BY <1>4, <1>5, <2>1, LogParts
<1>9. Len(man') = m /\ man' \in Seq(Edit) /\ SubSeq(man', 1, m) = man'
  <2>1. Len(man') = m /\ man' \in Seq(Edit)
    BY <1>1, <1>4, <1>6, LogParts
  <2> DEFINE v == man'
  <2>2. v \in Seq(Edit) /\ Len(v) = m
    BY <2>1
  <2> HIDE DEF v
  <2>3. SubSeq(v, 1, Len(v)) = v
    BY <2>2
  <2> QED
    BY <2>1, <2>2, <2>3 DEF v
<1>10. WalMarks' = {n} /\ ManMarks' = {m}
  <2>1. n..n = {n}
    BY <1>4
  <2> QED
    BY <1>1, <1>2, <1>5, <1>8, <1>9, <2>1 DEF WalMarks, WalPrefixes, ManMarks
<1>11. LogRecs(n)' = LogRecs(n) /\ LostRecords(n)' = {}
  <2>1. (n + 1)..n = {}
    BY <1>4
  <2> QED
    BY <1>8, <2>1 DEF LogRecs, LostRecords
<1>12. LogOK'
  <2>1. \A i \in 1..n : i \in 1..Len(wal)
    BY <1>4
  <2>2. \A i \in 1..n : wal[i] \notin LostRecords(n)
    <3>1. ASSUME NEW i \in 1..n, NEW j \in (n + 1)..Len(wal) PROVE wal[i] # wal[j]
      <4>1. j \in 1..Len(wal) /\ i \in 1..Len(wal) /\ i # j
        BY <1>4
      <4> QED
        BY <1>6, <4>1 DEF DiskOK, LogOK
    <3> QED
      BY <3>1 DEF LostRecords
  <2>3. \A i \in 1..n : wal'[i] \in acked' \cup doubt'
    BY <1>5, <1>6, <1>8, <2>1, <2>2 DEF DiskOK, LogOK
  <2>4. \A i, j \in 1..n : wal'[i] = wal'[j] => i = j
    BY <1>6, <1>8, <2>1 DEF DiskOK, LogOK
  <2> QED
    BY <1>8, <1>10, <1>11, <2>3, <2>4 DEF LogOK
<1>13. ManOK'
  <2>1. LastNextFileNum(man') \in Nat
    <3>1. man' \in Seq(Edit \cup {Torn})
      BY <1>9, Widen
    <3> QED
      BY <3>1, ManifestNumbers
  <2> DEFINE p == LastNextFileNum(SubSeq(man', 1, m))
             q == LastNextFileNum(man')
  <2>2. p = q /\ q \in Nat
    BY <1>9, <2>1
  <2>3. p <= q
    <3> HIDE DEF p, q
    <3> QED
      BY <2>2
  <2> QED
    BY <1>9, <1>10, <2>3 DEF ManOK
<1>14. Recoverable'
  <2>1. Recovers(LogRecs(n), SubSeq(man, 1, m), sst, acked \ LostRecords(n), doubt \ LostRecords(n))
    BY <1>4, <1>6 DEF DiskOK, Recoverable
  <2>2. acked' \ LostRecords(n)' = acked \ LostRecords(n) /\ doubt' \ LostRecords(n)' = doubt \ LostRecords(n)
    BY <1>5, <1>11
  <2>3. Recovers(LogRecs(n)', SubSeq(man', 1, m), sst', acked' \ LostRecords(n)', doubt' \ LostRecords(n)')
    BY <1>1, <1>2, <1>9, <1>11, <2>1, <2>2
  <2> QED
    BY <1>10, <2>3 DEF Recoverable
<1> QED
  BY <1>7, <1>12, <1>13, <1>14 DEF DiskOK

\* What open() makes of a good disk serves the history.
LEMMA KeepsOpen ==
  ASSUME TypeInv, DiskInv, Open
  PROVE  DiskInv'
<1>1. /\ ~up /\ up' = TRUE /\ linked' = TRUE /\ mem' = Replayed(WalFile) /\ imms' = <<>>
      /\ levels' = Version(ManFile, sst) /\ nextSeq' = RecoveredSeq(WalFile, ManFile)
      /\ nextFile' = LastNextFileNum(ManFile) /\ todo' = <<>>
      /\ UNCHANGED <<wal, walSynced, man, manSynced, sst, acked, safe, doubt, struck>>
  BY DEF Open, disk, history
<1>2. (GoodDisk' = GoodDisk) /\ (Trusted' = Trusted) /\ (Trusted => GoodDisk)
  BY <1>1 DEF GoodDisk, Trusted, DiskInv
<1>3. GoodDisk => DiskOK'
  BY <1>1, DiskStays DEF DiskInv
<1>4. Trusted => History'
  BY <1>1, HistoryStays DEF DiskInv
<1> SUFFICES ASSUME GoodDisk PROVE LiveOK' /\ Stage' /\ MemOK'
  BY <1>1, <1>2, <1>3, <1>4 DEF DiskInv
<1> DEFINE N == Len(wal)
<1>5. /\ DiskOK /\ N \in WalMarks /\ LostRecords(N) = {} /\ N \in Nat
      /\ wal \in Seq(Record \cup {Torn}) /\ man \in Seq(Edit \cup {Torn})
      /\ acked \in SUBSET Record /\ doubt \in SUBSET Record
  BY WalMarksAre DEF DiskInv, TypeInv, DiskType, HistoryType
<1>6. mem' = LogRecs(N) /\ WalFile \in Seq(Record \cup {Torn})
  <2>1. \A i \in 1..N : wal[i] \in Record
    BY <1>5 DEF DiskOK, LogOK
  <2>2. wal \in Seq(Record) /\ Stump("wal") \in {<<>>, <<Torn>>}
    BY <1>5, <2>1 DEF Stump
  <2> QED
    BY <1>1, <2>2, StumpNotReplayed DEF WalFile, LogRecs
<1>7. /\ levels' = Version(man, sst) /\ nextFile' = LastNextFileNum(man)
      /\ LastSeq(ManFile) = LastSeq(man) /\ ManFile \in Seq(Edit \cup {Torn})
  <2>1. man \in Seq(Edit) /\ Stump("man") \in {<<>>, <<Torn>>}
    BY <1>5 DEF DiskOK, ManOK, Stump
  <2> QED
    BY <1>1, <2>1, StumpNotListed DEF ManFile
<1>8. Recovers(LogRecs(N), man, sst, acked, doubt)
  <2>1. Recovers(LogRecs(N), man, sst, acked \ LostRecords(N), doubt \ LostRecords(N))
    BY <1>5, WholeRecovers
  <2>2. acked \ LostRecords(N) = acked /\ doubt \ LostRecords(N) = doubt
    BY <1>5
  <2> QED
    BY <2>1, <2>2
<1>9. /\ Lists(man, sst, levels') /\ Numbered(levels', nextFile')
      /\ Serves(mem', <<>>, levels', acked, doubt)
      /\ \A r \in acked \cup doubt : r \in mem' \/ r.seq <= LastSeq(man)
  BY <1>6, <1>8, <1>7 DEF Recovers
<1>10. ASSUME NEW r \in acked \cup doubt PROVE r.seq <= nextSeq'
  <2>1. /\ nextSeq' \in 0..MaxSeq /\ LastSeq(man) <= nextSeq' /\ LastSeq(man) \in 0..MaxSeq
        /\ \A q \in mem' : q.seq <= nextSeq'
    BY <1>1, <1>5, <1>6, <1>7, RecoveredSeqIs, ManifestNumbers
  <2>2. r.seq \in Nat /\ MaxSeq \in Nat
    BY <1>5, LsmAssumption DEF Record, LsmAssumption
  <2>3. CASE r \in mem'
    BY <2>1, <2>3
  <2>4. CASE r.seq <= LastSeq(man)
    BY <2>1, <2>2, <2>4
  <2> QED
    BY <1>9, <2>3, <2>4
<1> HIDE DEF N
<1>11. LiveOK'
  BY <1>1, <1>9, <1>10 DEF LiveOK, Lists
<1>12. Stage'
  <2>1. Numbered(levels, nextFile)' /\ OnDisk(levels, nextFile)'
    BY <1>1, <1>9, <1>7 DEF OnDisk
  <2>2. todo' \in Idling'
    BY <1>1 DEF Idling
  <2> QED
    BY <2>1, <2>2 DEF Stage, Resting
<1>13. MemOK'
  <2>1. LogRecs(Len(wal))' = LogRecs(N)
    BY <1>1 DEF LogRecs, N
  <2>2. DOMAIN imms' = {}
    BY <1>1
  <2> QED
    BY <1>1, <1>6, <2>1, <2>2 DEF MemOK
<1> QED
  BY <1>11, <1>12, <1>13

-----------------------------------------------------------------------------
(* The invariant.                                                          *)

\* The invariant holds of a new database.
LEMMA DiskAtFirst == Init => DiskInv
<1> SUFFICES ASSUME Init PROVE DiskInv
  OBVIOUS
<1>1. /\ wal = <<>> /\ walSynced = 0 /\ man = NewManifest /\ manSynced = Synced(Len(NewManifest)) /\ sst = <<>>
      /\ up = TRUE /\ linked = TRUE /\ mem = {} /\ imms = <<>> /\ levels = [l \in Level |-> {}]
      /\ nextSeq = 0 /\ nextFile = 1 /\ todo = <<>>
      /\ acked = {} /\ safe = {} /\ doubt = {} /\ struck = {}
  BY DEF Init
<1>2. NewManifest \in Seq(Edit) /\ Len(NewManifest) = 2
      /\ NewManifest[1] = SetNextFileNum(1) /\ NewManifest[2] = SetLastSeq(0)
  <2> DEFINE a == SetNextFileNum(1)
             b == SetLastSeq(0)
  <2>1. a \in Edit /\ b \in Edit
    BY LsmAssumption DEF Edit, SetNextFileNum, SetLastSeq, LsmAssumption
  <2> HIDE DEF a, b
  <2>2. <<a, b>> \in Seq(Edit) /\ Len(<<a, b>>) = 2 /\ <<a, b>>[1] = a /\ <<a, b>>[2] = b
    BY <2>1
  <2> QED
    BY <2>2 DEF NewManifest, a, b
<1>3. /\ \A i \in 1..2 : NewManifest[i].op # "AddFile"
      /\ NewManifest[1].op = "SetNextFileNum" /\ NewManifest[1].n = 1
      /\ NewManifest[2].op = "SetLastSeq" /\ NewManifest[2].s = 0
  BY <1>2 DEF SetNextFileNum, SetLastSeq
<1>4. \A l : Live(NewManifest, l) = {}
  BY <1>2, <1>3, LiveIs
<1>5. LastNextFileNum(NewManifest) = 1 /\ LastSeq(NewManifest) = 0
  <2> DEFINE w == NewManifest
  <2>1. w \in Seq(Edit) /\ Len(w) = 2
    BY <1>2
  <2>2. Ops(w, "SetNextFileNum") # {} /\ Max(Ops(w, "SetNextFileNum")) = 1
    <3>1. \A j \in 1..Len(w) : w[j].op = "SetNextFileNum" => j <= 1
      BY <1>2, <1>3
    <3>2. 1 \in 1..Len(w) /\ w[1].op = "SetNextFileNum"
      BY <1>2, <1>3
    <3>3. LastOf(w, "SetNextFileNum", 1)
      BY <3>1, <3>2 DEF LastOf
    <3> HIDE DEF w
    <3> QED
      BY <2>1, <3>3, LastOfKind
  <2>3. Ops(w, "SetLastSeq") # {} /\ Max(Ops(w, "SetLastSeq")) = 2
    <3>1. \A j \in 1..Len(w) : w[j].op = "SetLastSeq" => j <= 2
      BY <1>2, <1>3
    <3>2. 2 \in 1..Len(w) /\ w[2].op = "SetLastSeq"
      BY <1>2, <1>3
    <3>3. LastOf(w, "SetLastSeq", 2)
      BY <3>1, <3>2 DEF LastOf
    <3> HIDE DEF w
    <3> QED
      BY <2>1, <3>3, LastOfKind
  <2> HIDE DEF w
  <2>4. w[1].n = 1 /\ w[2].s = 0
    BY <1>3 DEF w
  <2> QED
    BY <2>2, <2>3, <2>4 DEF LastNextFileNum, LastSeq, w
<1> DEFINE empty == [l \in Level |-> {}]
<1>6. /\ Sound(empty) /\ Disjoint(empty) /\ Numbered(empty, 1) /\ FilesIn(empty, <<>>)
      /\ Layered(Record, {}, <<>>, empty) /\ AllRecs({}, <<>>, empty) = {}
  <2>1. Sound(empty) /\ Disjoint(empty) /\ Numbered(empty, 1) /\ FilesIn(empty, <<>>)
    BY FS_EmptySet DEF Sound, Disjoint, Numbered, FilesIn
  <2>2. \A l \in Level : Recs(empty[l]) = {}
    BY DEF Recs
  <2>3. Layered(Record, {}, <<>>, empty)
    <3>1. DOMAIN <<>> = {} /\ 0 \in Level
      BY LsmAssumption DEF Level, LsmAssumption
    <3> HIDE DEF empty
    <3>2. empty[0] = {}
      BY <3>1 DEF empty
    <3> QED
      BY <2>2, <3>1, <3>2 DEF Layered, Newer
  <2>4. AllRecs({}, <<>>, empty) = {}
    <3>1. ASSUME NEW q PROVE q \notin AllRecs({}, <<>>, empty)
      BY AllRecsAre
    <3> QED
      BY <3>1
  <2> QED
    BY <2>1, <2>3, <2>4
<1> HIDE DEF empty
<1>7. Serves({}, <<>>, empty, {}, {})
  <2>1. \A k \in Keys : Written({}, k) = Written({} \cup {}, k)
    OBVIOUS
  <2> QED
    BY <1>6, <2>1 DEF Serves
<1>8. Lists(man, sst, levels) /\ Version(man, sst) = levels /\ levels = empty
  <2>1. Lists(man, sst, levels)
    BY <1>1, <1>4, <1>6 DEF Lists, empty
  <2>2. levels \in [Level -> SUBSET Stock]
    BY <1>1
  <2> QED
    BY <1>1, <2>1, <2>2, ListsVersion DEF empty
<1>9. WalMarks = {0} /\ ManMarks = {2} /\ SubSeq(man, 1, 2) = man /\ Len(wal) = 0
  <2>1. 0..0 = {0} /\ Len(wal) = 0
    BY <1>1
  <2>2. WalMarks = {0}
    BY <1>1, <2>1 DEF WalMarks, WalPrefixes
  <2>3. ManMarks = {2}
    BY <1>1, <1>2 DEF ManMarks, Synced
  <2> QED
    BY <1>1, <1>2, <2>1, <2>2, <2>3
<1>10. LogRecs(0) = {} /\ LostRecords(0) = {} /\ DOMAIN wal = {}
  BY <1>1, <1>9 DEF LogRecs, LostRecords
<1>11. Recovers({}, man, sst, {}, {})
  BY <1>1, <1>5, <1>6, <1>7, <1>8 DEF Recovers
<1>12. DiskOK
  <2>1. LogOK
    BY <1>1, <1>9, <1>10 DEF LogOK
  <2>2. ManOK
    <3>1. LastNextFileNum(SubSeq(man, 1, 2)) = 1 /\ LastNextFileNum(man) = 1
      BY <1>1, <1>5, <1>9
    <3>2. LastNextFileNum(SubSeq(man, 1, 2)) <= LastNextFileNum(man)
      BY <3>1
    <3> QED
      BY <1>1, <1>2, <1>9, <3>2 DEF ManOK
  <2>3. Recoverable
    BY <1>1, <1>9, <1>10, <1>11 DEF Recoverable
  <2> QED
    BY <2>1, <2>2, <2>3 DEF DiskOK
<1>13. History /\ LiveOK
  BY <1>1, <1>6, <1>7, <1>8 DEF History, OncePerSeq, LiveOK
<1>14. Stage
  BY <1>1, <1>5, <1>6, <1>8 DEF Stage, Resting, OnDisk, Idling
<1>15. MemOK
  BY <1>1 DEF MemOK
<1> QED
  BY <1>1, <1>12, <1>13, <1>14, <1>15 DEF DiskInv

\* Every step of the engine and of its disk keeps the invariant.
LEMMA DiskNext ==
  ASSUME TypeInv, DiskInv, "midlog" \notin Faults, [Next]_vars
  PROVE  DiskInv'
<1>1. CASE UNCHANGED vars
  <2>1. /\ UNCHANGED <<wal, walSynced, man, manSynced, sst, acked, safe, doubt>>
        /\ UNCHANGED <<mem, imms, levels, nextSeq, nextFile>>
        /\ UNCHANGED <<up, linked, todo, struck>>
    BY <1>1 DEF vars, disk, memory, history
  <2>2. (GoodDisk' <=> GoodDisk) /\ (Trusted' <=> Trusted)
    BY <2>1 DEF GoodDisk, Trusted
  <2>3. GoodDisk' => DiskOK'
    BY <2>1, <2>2, DiskStays DEF DiskInv
  <2>4. Trusted' => History'
    BY <2>1, <2>2, HistoryStays DEF DiskInv
  <2>5. LiveOK => LiveOK'
    BY <2>1 DEF LiveOK
  <2>6. Stage => Stage'
    <3>1. JobDone' = JobDone
      BY <2>1 DEF JobDone
    <3>2. \A lv, nf : OnDisk(lv, nf) => OnDisk(lv, nf)'
      BY <2>1, <2>2 DEF OnDisk
    <3> QED
      BY <2>1, <2>2, <3>1, SameWork
      DEF Stage, Resting, LogNotNeeded, FlushUnlisted, FlushListed0, JobWriting, JobUnlisted,
          JobIsListed, Removing, Flushing, Compacting, OnDisk, ManIsSynced, SeqIsListed
  <2>7. MemOK => MemOK'
    BY <2>1 DEF MemOK, LogRecs, WalMarks, WalPrefixes
  <2> QED
    BY <2>1, <2>2, <2>3, <2>4, <2>5, <2>6, <2>7 DEF DiskInv
<1>2. CASE \E k \in Keys, v \in Vals \cup {Tomb} : Write(k, v)
  BY <1>2, KeepsWrite
<1>3. CASE \E k \in Keys, v \in Vals \cup {Tomb} : WriteFails(k, v)
  BY <1>3, KeepsWriteFails
<1>4. CASE Sync
  BY <1>4, KeepsSync
<1>5. CASE StartFlush
  BY <1>5, KeepsStartFlush
<1>6. CASE StartCompact \/ StartBackground
  BY <1>6, KeepsStart
<1>7. CASE PlanFlush
  BY <1>7, KeepsPlanFlush
<1>8. CASE PlanCompact
  BY <1>8, KeepsPlanCompact
<1>9. CASE WriteTable
  BY <1>9, KeepsWriteTable
<1>10. CASE SyncDir
  BY <1>10, KeepsSyncDir
<1>11. CASE LogManifest
  BY <1>11, KeepsLogManifest
<1>12. CASE SyncManifest
  BY <1>12, KeepsSyncManifest
<1>13. CASE InstallFlush
  BY <1>13, KeepsInstallFlush
<1>14. CASE InstallCompaction
  BY <1>14, KeepsInstallCompaction
<1>15. CASE RemoveInputs
  BY <1>15, KeepsRemoveInputs
<1>16. CASE UnlinkWal
  BY <1>16, KeepsUnlinkWal
<1>17. CASE CreateWal
  BY <1>17, KeepsCreateWal
<1>18. CASE IoError
  BY <1>18, KeepsIoError
<1>19. CASE Crash
  BY <1>19, KeepsCrash
<1>20. CASE PowerLoss
  BY <1>20, KeepsPowerLoss
<1>21. CASE Open
  BY <1>21, KeepsOpen
<1> QED
  BY <1>1, <1>2, <1>3, <1>4, <1>5, <1>6, <1>7, <1>8, <1>9, <1>10, <1>11, <1>12, <1>13, <1>14, <1>15,
     <1>16, <1>17, <1>18, <1>19, <1>20, <1>21 DEF Next

\* The inductive invariant of the engine on its disk, for any faults but a
\* crash inside one Manifest::log call: whatever is written is in the history,
\* in memory and on the disk as the stage of the running operation says.
THEOREM DiskOrderInv ==
  ASSUME "midlog" \notin Faults
  PROVE  Spec => [](TypeInv /\ DiskInv)
<1>1. Init => TypeInv /\ DiskInv
  BY TypesAtFirst, DiskAtFirst
<1>2. TypeInv /\ DiskInv /\ [Next]_vars => (TypeInv /\ DiskInv)'
  BY TypesNext, DiskNext
<1> QED
  BY <1>1, <1>2, PTL DEF Spec

-----------------------------------------------------------------------------
(* What the invariant means for a reader, and for a reopen.                *)

\* Whatever the stage, no number was given out twice.
LEMMA StageNumbers ==
  ASSUME TypeInv, Stage
  PROVE  \E nf \in Nat : Numbered(levels, nf)
<1>1. nextFile \in Nat \ {0}
  BY DEF TypeInv, MemoryType
<1>2. nextFile \in Nat /\ nextFile - 1 \in Nat
  BY <1>1
<1>3. Numbered(levels, nextFile) \/ Numbered(levels, nextFile - 1)
  BY DEF Stage, Resting, LogNotNeeded, FlushUnlisted, FlushListed0, JobWriting, JobUnlisted,
         JobIsListed, Removing, Flushing, Compacting
<1> QED
  BY <1>2, <1>3

\* LiveReads: between any two disk steps of a flush or a compaction, after
\* crashes, power losses and failed writes, and after I/O errors as long as
\* the process lives, a get answers as the acknowledged writes say.
THEOREM DiskLiveReads ==
  ASSUME "midlog" \notin Faults
  PROVE  Spec => []LiveReads
<1>1. TypeInv /\ DiskInv => LiveReads
  <2> SUFFICES ASSUME TypeInv, DiskInv, up, GoodDisk \/ "crash" \notin struck, NEW k \in Keys
               PROVE  Answer(Lookup(mem, imms, levels, k, MaxSeq)) \in MayRead(acked, k)
    BY DEF LiveReads
  <2>1. LiveOK /\ Stage /\ History
    BY DEF DiskInv, Trusted
  <2>2. PICK nf \in Nat : Numbered(levels, nf)
    BY <2>1, StageNumbers
  <2>3. /\ mem \in SUBSET Record /\ imms \in Seq(Batch)
        /\ acked \in SUBSET Record /\ doubt \in SUBSET Record
    BY DEF TypeInv, MemoryType, HistoryType
  <2>4. Serves(mem, imms, levels, acked, doubt) /\ OncePerSeq(acked \cup doubt)
    BY <2>1 DEF LiveOK, History
  <2>5. Answer(Lookup(mem, imms, levels, k, MaxSeq)) \in MayAnswer(acked, doubt, k)
    BY <2>2, <2>3, <2>4, ServesReads
  <2> QED
    BY <2>5 DEF MayRead, MayAnswer
<1> QED
  BY <1>1, DiskOrderInv, PTL

\* What is recovered reads as the writes that took effect say.
LEMMA RecoversReads ==
  ASSUME NEW R \in SUBSET Record, NEW edits \in Seq(Edit), NEW files,
         NEW K \in SUBSET Record, NEW D \in SUBSET Record,
         Recovers(R, edits, files, K, D), OncePerSeq(K \cup D), NEW k \in Keys
  PROVE  Answer(Lookup(R, <<>>, Version(edits, files), k, MaxSeq)) \in MayAnswer(K, D, k)
<1> DEFINE lv == Version(edits, files)
           nf == LastNextFileNum(edits)
           im == <<>>
<1>1. Serves(R, im, lv, K, D) /\ Numbered(lv, nf)
  BY DEF Recovers
<1>2. nf \in Nat
  <2>1. edits \in Seq(Edit \cup {Torn})
    BY Widen
  <2> QED
    BY <2>1, ManifestNumbers
<1>3. im \in Seq(Batch)
  OBVIOUS
<1> HIDE DEF lv, nf, im
<1>4. Answer(Lookup(R, im, lv, k, MaxSeq)) \in MayAnswer(K, D, k)
  BY <1>1, <1>2, <1>3, ServesReads
<1> QED
  BY <1>4 DEF im, lv

\* What a crash leaves of a log is replayed up to the mark, stump or none.
LEMMA ReplayedLog ==
  ASSUME TypeInv, DiskInv, GoodDisk, NEW n \in WalMarks, NEW m \in ManMarks,
         NEW s \in {<<>>, <<Torn>>}
  PROVE  /\ SubSeq(wal, 1, n) \o s \in Seq(Record \cup {Torn})
         /\ Replayed(SubSeq(wal, 1, n) \o s) = LogRecs(n)
         /\ SubSeq(man, 1, m) \in Seq(Edit) /\ SubSeq(man, 1, m) \in Seq(Edit \cup {Torn})
<1> DEFINE lg == SubSeq(wal, 1, n)
           e  == SubSeq(man, 1, m)
<1>1. e \in Seq(Edit)
  <2>1. man \in Seq(Edit) /\ m \in 0..Len(man)
    BY WalMarksAre DEF TypeInv, DiskInv, DiskOK, ManOK
  <2> QED
    BY <2>1, LogParts
<1>2. e \in Seq(Edit \cup {Torn})
  BY <1>1, Widen
<1>3. wal \in Seq(Record \cup {Torn}) /\ n \in 0..Len(wal)
  BY WalMarksAre DEF TypeInv, DiskType
<1>4. lg \in Seq(Record \cup {Torn}) /\ Len(lg) = n /\ \A i \in 1..n : lg[i] = wal[i]
  BY <1>3, LogParts
<1>5. \A i \in 1..n : wal[i] \in Record
  BY LogRecsType DEF DiskInv, DiskOK, LogRecs
<1>6. lg \in Seq(Record)
  <2> HIDE DEF lg
  <2> QED
    BY <1>4, <1>5
<1> HIDE DEF lg, e
<1>7. lg \o s \in Seq(Record \cup {Torn}) /\ Replayed(lg \o s) = {lg[i] : i \in 1..n}
  BY <1>4, <1>6, StumpNotReplayed
<1>8. {lg[i] : i \in 1..n} = LogRecs(n)
  BY <1>4 DEF LogRecs
<1> QED
  BY <1>1, <1>2, <1>7, <1>8 DEF lg, e

\* What a reopen reads from the log up to a mark and from the MANIFEST up to
\* another, with or without a stump behind them.
LEMMA ReopenReads ==
  ASSUME TypeInv, DiskInv, GoodDisk, NEW n \in WalMarks, NEW m \in ManMarks, NEW k \in Keys,
         NEW s \in {<<>>, <<Torn>>}, NEW t \in {<<>>, <<Torn>>}
  PROVE  ReopenGet(SubSeq(wal, 1, n) \o s, SubSeq(man, 1, m) \o t, sst, k)
           \in MayAnswer(acked \ LostRecords(n), doubt \ LostRecords(n), k)
<1> DEFINE K  == acked \ LostRecords(n)
           D  == doubt \ LostRecords(n)
           e  == SubSeq(man, 1, m)
           lg == SubSeq(wal, 1, n)
           lv == Version(e, sst)
           R  == LogRecs(n)
           im == <<>>
<1>1. Recovers(R, e, sst, K, D)
  BY DEF DiskInv, DiskOK, Recoverable
<1>2. OncePerSeq(acked \cup doubt)
  BY DEF DiskInv, Trusted, History
<1>3. R \in SUBSET Record
  BY LogRecsType DEF DiskInv, DiskOK
<1>4. acked \in SUBSET Record /\ doubt \in SUBSET Record
  BY DEF TypeInv, HistoryType
<1>5. K \in SUBSET Record /\ D \in SUBSET Record /\ OncePerSeq(K \cup D)
  BY <1>2, <1>4 DEF OncePerSeq
<1>6. e \in Seq(Edit) /\ Replayed(lg \o s) = R
  BY ReplayedLog
<1>7. Answer(Lookup(R, <<>>, lv, k, MaxSeq)) \in MayAnswer(K, D, k)
  <2> HIDE DEF K, D, R, e
  <2> QED
    BY <1>1, <1>3, <1>5, <1>6, RecoversReads
<1>8. Version(e \o t, sst) = lv
  <2> HIDE DEF e
  <2> QED
    BY <1>6, StumpNotListed
<1> QED
  BY <1>6, <1>7, <1>8 DEF ReopenGet

\* A prefix that is the whole.
LEMMA WholePrefix ==
  ASSUME NEW S, NEW log \in Seq(S)
  PROVE  SubSeq(log, 1, Len(log)) = log
<1> DEFINE p == SubSeq(log, 1, Len(log))
<1>1. Len(log) \in 0..Len(log)
  OBVIOUS
<1>2. p \in Seq(S) /\ Len(p) = Len(log) /\ \A i \in 1..Len(log) : p[i] = log[i]
  BY <1>1, LogParts
<1> HIDE DEF p
<1>3. p = log
  BY <1>2
<1> QED
  BY <1>3 DEF p

\* DurableOnGoodDisk: whichever disk step was the last, after a crash or a
\* power loss at that moment every key reads as the acknowledged writes say,
\* the tail of them that is not yet synced excepted, and none that a sync, a
\* freeze or the mode made safe is in that tail.
THEOREM DiskDurable ==
  ASSUME "midlog" \notin Faults, Fsync # "Never"
  PROVE  Spec => []DurableOnGoodDisk
<1>1. WalPrefixes = WalMarks /\ ManPrefixes = ManMarks
  BY DEF WalMarks, ManMarks, ManPrefixes
<1>2. TypeInv /\ DiskInv => DurableOnGoodDisk
  <2> SUFFICES ASSUME TypeInv, DiskInv, GoodDisk, NEW n \in WalMarks, NEW m \in ManMarks
               PROVE  /\ safe \cap LostRecords(n) = {}
                      /\ \A k \in Keys, s, t \in Tails :
                           ReopenGet(SubSeq(wal, 1, n) \o s, SubSeq(man, 1, m) \o t, sst, k)
                             \in MayRead(acked \ LostRecords(n), k)
    BY <1>1 DEF DurableOnGoodDisk, Durable
  <2>1. safe \cap LostRecords(n) = {}
    BY DEF DiskInv, DiskOK, LogOK
  <2>2. ASSUME NEW k \in Keys, NEW s \in Tails, NEW t \in Tails
        PROVE  ReopenGet(SubSeq(wal, 1, n) \o s, SubSeq(man, 1, m) \o t, sst, k)
                 \in MayRead(acked \ LostRecords(n), k)
    <3>1. ReopenGet(SubSeq(wal, 1, n) \o s, SubSeq(man, 1, m) \o t, sst, k)
            \in MayAnswer(acked \ LostRecords(n), doubt \ LostRecords(n), k)
      <4>1. s \in {<<>>, <<Torn>>} /\ t \in {<<>>, <<Torn>>}
        BY DEF Tails
      <4> QED
        BY <4>1, ReopenReads
    <3>2. MayAnswer(acked \ LostRecords(n), doubt \ LostRecords(n), k)
            \subseteq MayRead(acked \ LostRecords(n), k)
      <4> DEFINE K == acked \ LostRecords(n)
                 D == doubt \ LostRecords(n)
      <4>1. SUBSET D \subseteq SUBSET doubt
        OBVIOUS
      <4> HIDE DEF K, D
      <4>2. MayAnswer(K, D, k) \subseteq MayRead(K, k)
        BY <4>1 DEF MayAnswer, MayRead
      <4> QED
        BY <4>2 DEF K, D
    <3> QED
      BY <3>1, <3>2
  <2> QED
    BY <2>1, <2>2
<1> QED
  BY <1>1, <1>2, DiskOrderInv, PTL

\* A reopen after the death of the process alone reads every write that
\* returned Ok, synced or not, though the death may cut a last append short.
CrashLosesNothing ==
  GoodDisk => \A k \in Keys, s, t \in {<<>>, <<Torn>>} :
    ReopenGet(wal \o s, man \o t, sst, k) \in MayRead(acked, k)

\* At every moment the disk, with its logs whole, holds the acknowledged writes.
LEMMA CrashKeepsAll == TypeInv /\ DiskInv => CrashLosesNothing
<1> SUFFICES ASSUME TypeInv, DiskInv, GoodDisk, NEW k \in Keys,
                    NEW s \in {<<>>, <<Torn>>}, NEW t \in {<<>>, <<Torn>>}
             PROVE  ReopenGet(wal \o s, man \o t, sst, k) \in MayRead(acked, k)
  BY DEF CrashLosesNothing
<1> DEFINE n == Len(wal)
           m == Len(man)
<1>1. n \in WalMarks /\ m \in ManMarks /\ LostRecords(n) = {}
  BY WalMarksAre DEF TypeInv
<1>2. SubSeq(wal, 1, n) = wal /\ SubSeq(man, 1, m) = man
  BY WholePrefix DEF TypeInv, DiskType
<1> HIDE DEF n, m
<1>3. ReopenGet(SubSeq(wal, 1, n) \o s, SubSeq(man, 1, m) \o t, sst, k)
        \in MayAnswer(acked \ LostRecords(n), doubt \ LostRecords(n), k)
  BY <1>1, ReopenReads
<1>4. acked \ LostRecords(n) = acked /\ doubt \ LostRecords(n) = doubt
  BY <1>1
<1> QED
  BY <1>2, <1>3, <1>4 DEF MayAnswer, MayRead

\* The death of the process (but no power loss) loses nothing, in any mode, the
\* mode Never included, in which DurableOnGoodDisk promises nothing.
THEOREM DiskSurvivesCrash ==
  ASSUME "midlog" \notin Faults
  PROVE  Spec => []CrashLosesNothing
BY CrashKeepsAll, DiskOrderInv, PTL

\* FreshSeqs: after recovery the next write gets a sequence number above those
\* of all writes that survived, so it is newer than each of them.
THEOREM DiskFreshSeqs ==
  ASSUME "midlog" \notin Faults, Fsync # "Never"
  PROVE  Spec => []FreshSeqs
<1>1. WalPrefixes = WalMarks /\ ManPrefixes = ManMarks
  BY DEF WalMarks, ManMarks, ManPrefixes
<1>2. TypeInv /\ DiskInv => FreshSeqs
  <2> SUFFICES ASSUME TypeInv, DiskInv, GoodDisk, NEW n \in WalMarks, NEW m \in ManMarks,
                      NEW s \in Tails, NEW t \in Tails,
                      NEW r \in (acked \cup doubt) \ LostRecords(n)
               PROVE  r.seq <= RecoveredSeq(SubSeq(wal, 1, n) \o s, SubSeq(man, 1, m) \o t)
    BY <1>1 DEF FreshSeqs
  <2> DEFINE lg == SubSeq(wal, 1, n) \o s
             p  == SubSeq(man, 1, m)
             e  == p \o t
             x  == RecoveredSeq(lg, e)
  <2>1. /\ lg \in Seq(Record \cup {Torn}) /\ e \in Seq(Edit \cup {Torn})
        /\ Replayed(lg) = LogRecs(n) /\ LastSeq(e) = LastSeq(p)
    <3>1. s \in {<<>>, <<Torn>>} /\ t \in {<<>>, <<Torn>>}
      BY DEF Tails
    <3>2. lg \in Seq(Record \cup {Torn}) /\ Replayed(lg) = LogRecs(n) /\ p \in Seq(Edit)
      BY <3>1, ReplayedLog
    <3> HIDE DEF lg, p
    <3> QED
      BY <3>1, <3>2, StumpNotListed
  <2>2. r \in LogRecs(n) \/ r.seq <= LastSeq(e)
    <3>1. r \in LogRecs(n) \/ r.seq <= LastSeq(p)
      BY DEF DiskInv, DiskOK, Recoverable, Recovers
    <3> QED
      BY <2>1, <3>1
  <2>3. /\ x \in 0..MaxSeq /\ LastSeq(e) <= x
        /\ \A q \in LogRecs(n) : q.seq <= x
    BY <2>1, RecoveredSeqIs
  <2>4. LastSeq(e) \in Nat /\ x \in Nat /\ r.seq \in Nat
    <3>1. LastSeq(e) \in 0..MaxSeq
      BY <2>1, ManifestNumbers
    <3>2. r \in Record
      BY DEF TypeInv, HistoryType
    <3> QED
      BY <2>3, <3>1, <3>2, LsmAssumption DEF Record, LsmAssumption
  <2> HIDE DEF lg, p, e, x
  <2>5. CASE r \in LogRecs(n)
    <3>1. r.seq <= x
      BY <2>3, <2>5
    <3> QED
      BY <3>1 DEF x, lg, e, p
  <2>6. CASE r.seq <= LastSeq(e)
    <3>1. r.seq <= x
      BY <2>3, <2>4, <2>6
    <3> QED
      BY <3>1 DEF x, lg, e, p
  <2> QED
    BY <2>2, <2>5, <2>6
<1> QED
  BY <1>1, <1>2, DiskOrderInv, PTL

-----------------------------------------------------------------------------
(* The table files.                                                        *)

\* What the MANIFEST lists is listed under a number given out before.
LEMMA ListedNumbers ==
  ASSUME TypeInv, DiskInv, GoodDisk, NEW l \in Level, NEW f \in Live(man, l)
  PROVE  f.num \in Nat /\ f.num < LastNextFileNum(man)
<1> DEFINE n  == Len(wal)
           lv == Version(man, sst)
<1>1. n \in WalMarks
  BY WalMarksAre DEF TypeInv
<1>2. Recovers(LogRecs(n), man, sst, acked \ LostRecords(n), doubt \ LostRecords(n))
  BY <1>1, WholeRecovers DEF DiskInv
<1>3. Lists(man, sst, lv) /\ Numbered(lv, LastNextFileNum(man)) /\ Sound(lv)
  BY <1>2 DEF Recovers, Serves
<1> HIDE DEF lv
<1>4. PICK t \in lv[l] : f = Meta(t)
  BY <1>3 DEF Lists
<1>5. f.num = t.num /\ t.num \in Nat
  BY <1>3, <1>4, BuiltIsStock DEF Sound
<1>6. t.num < LastNextFileNum(man)
  BY <1>3 DEF Numbered
<1> QED
  BY <1>5, <1>6

\* No step rewrites a file that the manifest lists.
LEMMA ListedNotRewritten ==
  ASSUME TypeInv, DiskInv, GoodDisk, "midlog" \notin Faults, [Next]_vars,
         NEW l \in Level, NEW f \in Live(man, l), f.num \in DOMAIN sst \cap DOMAIN sst'
  PROVE  sst'[f.num] = sst[f.num]
<1>1. CASE WriteTable
  <2> DEFINE k == Head(todo).num
  <2>1. Now("sst") /\ sst' = [n \in DOMAIN sst \cup {k} |-> IF n = k THEN Head(todo).recs ELSE sst[n]]
    BY <1>1 DEF WriteTable
  <2>2. k \in Nat /\ LastNextFileNum(man) <= k
    BY <2>1, NewFileNumber DEF GoodDisk, Trusted
  <2>3. LastNextFileNum(man) \in Nat
    BY ManifestNumbers DEF TypeInv, DiskType
  <2>4. f.num \in Nat /\ f.num < LastNextFileNum(man)
    BY ListedNumbers
  <2> HIDE DEF k
  <2>5. f.num # k
    <3> DEFINE x == LastNextFileNum(man)
    <3>1. x \in Nat /\ x <= k /\ f.num < x
      BY <2>2, <2>3, <2>4
    <3> HIDE DEF x
    <3> QED
      BY <2>2, <2>4, <3>1
  <2> QED
    BY <2>1, <2>5
<1>2. CASE RemoveInputs
  BY <1>2 DEF RemoveInputs, Restrict
<1>3. CASE sst' = sst
  BY <1>3
<1> QED
  BY <1>1, <1>2, <1>3
  DEF Next, vars, disk, Write, WriteFails, Sync, StartFlush, StartCompact, StartBackground, PlanFlush,
      PlanCompact, SyncDir, LogManifest, SyncManifest, InstallFlush, InstallCompaction, UnlinkWal,
      CreateWal, IoError, Crash, PowerLoss, Open

\* Every file that a surviving MANIFEST may list is there, with the range that
\* it lists.
LEMMA FilesIntactNow ==
  ASSUME TypeInv, DiskInv, GoodDisk, NEW m \in ManMarks, NEW l \in Level,
         NEW f \in Live(SubSeq(man, 1, m), l)
  PROVE  f.num \in DOMAIN sst /\ f = Meta(MkTable(f.num, sst[f.num]))
<1> DEFINE n  == Len(wal)
           e  == SubSeq(man, 1, m)
           lv == Version(e, sst)
<1>1. n \in WalMarks
  BY WalMarksAre DEF TypeInv
<1>2. Recovers(LogRecs(n), e, sst, acked \ LostRecords(n), doubt \ LostRecords(n))
  BY <1>1 DEF DiskInv, DiskOK, Recoverable
<1>3. Lists(e, sst, lv) /\ Sound(lv)
  BY <1>2 DEF Recovers, Serves
<1> HIDE DEF lv
<1>4. PICK t \in lv[l] : f = Meta(t)
  BY <1>3 DEF Lists
<1>5. f.num = t.num /\ t = MkTable(t.num, t.recs)
  BY <1>3, <1>4, BuiltIsStock DEF Sound
<1>6. t.num \in DOMAIN sst /\ sst[t.num] = t.recs
  BY <1>3 DEF Lists, FilesIn, Filed
<1> QED
  BY <1>4, <1>5, <1>6

-----------------------------------------------------------------------------
(* With no fault but failing writes to the log, the disk stays good.       *)

StruckInv == struck \subseteq Faults \cup {"crash"} /\ stumps = {}

\* Nothing strikes but a crash and the faults that the model allows.
LEMMA StruckNext ==
  ASSUME "torn" \notin Faults, StruckInv, [Next]_vars
  PROVE  StruckInv'
<1>1. CASE \E k \in Keys, v \in Vals \cup {Tomb} : Write(k, v)
  BY <1>1 DEF Write, Behind, StruckInv
<1>2. CASE \E k \in Keys, v \in Vals \cup {Tomb} : WriteFails(k, v)
  BY <1>2 DEF WriteFails, Behind, StruckInv
<1>3. CASE LogManifest
  BY <1>3 DEF LogManifest, Behind, StruckInv
<1>4. CASE IoError
  BY <1>4 DEF IoError, StruckInv
<1>5. CASE Crash
  BY <1>5 DEF Crash, StruckInv
<1>6. CASE PowerLoss
  <2>1. \A n, m : \A torn \in SUBSET Tearable(n, m) : torn = {} /\ Cut(torn) = {}
    BY DEF Tearable, Cut
  <2> QED
    BY <1>6, <2>1 DEF PowerLoss, StruckInv
<1>7. CASE UnlinkWal
  BY <1>7 DEF UnlinkWal, history, StruckInv
<1>8. CASE UNCHANGED <<struck, stumps>>
  BY <1>8 DEF StruckInv
<1> QED
  BY <1>1, <1>2, <1>3, <1>4, <1>5, <1>6, <1>7, <1>8
  DEF Next, vars, disk, history, Sync, StartFlush, StartCompact, StartBackground, PlanFlush,
      PlanCompact, WriteTable, SyncDir, SyncManifest, InstallFlush, InstallCompaction,
      RemoveInputs, CreateWal, Open

\* No mishap but a failing log append spoils the disk.
LEMMA DiskStaysGood ==
  ASSUME Faults \subseteq {"iowrite"}
  PROVE  Spec => []GoodDisk
<1>1. Init => StruckInv
  BY DEF Init, StruckInv
<1>2. StruckInv /\ [Next]_vars => StruckInv'
  <2>1. "torn" \notin Faults
    OBVIOUS
  <2> QED
    BY <2>1, StruckNext
<1>3. StruckInv => GoodDisk
  BY DEF StruckInv, GoodDisk
<1> QED
  BY <1>1, <1>2, <1>3, PTL DEF Spec

\* In mode Never no MANIFEST is synced.
NeverSynced == Fsync = "Never" => manSynced = 0

\* With Fsync = "Never" the manifest is never synced.
LEMMA NeverSyncedNext ==
  ASSUME NeverSynced, [Next]_vars
  PROVE  NeverSynced'
<1>1. CASE SyncManifest
  BY <1>1 DEF SyncManifest, NeverSynced
<1>2. CASE PowerLoss
  BY <1>2 DEF PowerLoss, NeverSynced
<1>3. CASE UNCHANGED manSynced
  BY <1>3 DEF NeverSynced
<1> QED
  BY <1>1, <1>2, <1>3
  DEF Next, vars, disk, Write, WriteFails, Sync, StartFlush, StartCompact, StartBackground, PlanFlush,
      PlanCompact, WriteTable, SyncDir, LogManifest, InstallFlush, InstallCompaction, RemoveInputs,
      UnlinkWal, CreateWal, IoError, Crash, Open

\* Nothing is listed before the first edit.
LEMMA NothingListed ==
  ASSUME man \in Seq(Edit \cup {Torn}), NEW l
  PROVE  Live(SubSeq(man, 1, 0), l) = {}
<1> DEFINE e == SubSeq(man, 1, 0)
<1>1. e \in Seq(Edit \cup {Torn}) /\ Len(e) = 0
  BY LogParts
<1> HIDE DEF e
<1>2. Ops(e, "AddFile") = {}
  <2>1. Ops(e, "AddFile") \subseteq 1..Len(e)
    BY <1>1, OpsAre
  <2> QED
    BY <1>1, <2>1
<1>3. Live(e, l) = {}
  BY <1>2 DEF Live
<1> QED
  BY <1>3 DEF e

\* FilesIntact and ImmutableFiles as long as the disk does its steps: whatever
\* crashes, power losses, failed writes and records cut short there were.
FilesIntactOnGoodDisk == GoodDisk => FilesIntact
ImmutableOnGoodDisk ==
  [][GoodDisk => \A l \in Level : \A f \in Live(man, l) :
       f.num \in DOMAIN sst \cap DOMAIN sst' => sst'[f.num] = sst[f.num]]_vars

\* Whichever prefix of the MANIFEST a crash or a power loss leaves, the files
\* it lists are there and hold the range it lists, so that from_metas, which
\* looks at neither, opens what was flushed.
THEOREM DiskKeepsFiles ==
  ASSUME "midlog" \notin Faults
  PROVE  Spec => []FilesIntactOnGoodDisk
<1>1. Init => NeverSynced
  BY DEF Init, Synced, NeverSynced
<1>2. NeverSynced /\ [Next]_vars => NeverSynced'
  BY NeverSyncedNext
<1>3. TypeInv /\ DiskInv /\ NeverSynced => FilesIntactOnGoodDisk
  <2> SUFFICES ASSUME TypeInv, DiskInv, GoodDisk, NeverSynced,
                      NEW m \in ManPrefixes, NEW l \in Level, NEW f \in Live(SubSeq(man, 1, m), l)
               PROVE  f.num \in DOMAIN sst /\ f = Meta(MkTable(f.num, sst[f.num]))
    BY DEF FilesIntactOnGoodDisk, FilesIntact
  <2>1. m \in ManMarks \/ (Fsync = "Never" /\ m = 0)
    BY DEF ManPrefixes, ManMarks, NeverSynced
  <2>2. CASE m \in ManMarks
    BY <2>2, FilesIntactNow
  <2>3. CASE m = 0
    BY <2>3, NothingListed DEF TypeInv, DiskType
  <2> QED
    BY <2>1, <2>2, <2>3
<1> QED
  BY <1>1, <1>2, <1>3, DiskOrderInv, PTL DEF Spec

\* No step rewrites a table that the MANIFEST lists, since no file number is
\* given out twice, whatever recoveries there were.
THEOREM DiskNeverRewrites ==
  ASSUME "midlog" \notin Faults
  PROVE  Spec => ImmutableOnGoodDisk
<1> DEFINE A == GoodDisk => \A l \in Level : \A f \in Live(man, l) :
                  f.num \in DOMAIN sst \cap DOMAIN sst' => sst'[f.num] = sst[f.num]
<1>1. TypeInv /\ DiskInv /\ [Next]_vars => [A]_vars
  BY ListedNotRewritten
<1> HIDE DEF A
<1>2. Spec => [][A]_vars
  BY <1>1, DiskOrderInv, PTL DEF Spec
<1> QED
  BY <1>2 DEF A, ImmutableOnGoodDisk

\* FilesIntact of a disk that never fails, in any mode.
THEOREM DiskFilesIntact ==
  ASSUME Faults \subseteq {"iowrite"}
  PROVE  Spec => []FilesIntact
<1>1. "midlog" \notin Faults
  OBVIOUS
<1>2. GoodDisk /\ FilesIntactOnGoodDisk => FilesIntact
  BY DEF FilesIntactOnGoodDisk
<1> QED
  BY <1>1, <1>2, DiskKeepsFiles, DiskStaysGood, PTL

\* ImmutableFiles of a disk that never fails, in any mode.
THEOREM DiskImmutableFiles ==
  ASSUME Faults \subseteq {"iowrite"}
  PROVE  Spec => ImmutableFiles
<1> DEFINE A == \A l \in Level : \A f \in Live(man, l) :
                  f.num \in DOMAIN sst \cap DOMAIN sst' => sst'[f.num] = sst[f.num]
<1>1. "midlog" \notin Faults
  OBVIOUS
<1>2. Spec => [][GoodDisk => A]_vars
  BY <1>1, DiskNeverRewrites DEF ImmutableOnGoodDisk
<1> HIDE DEF A
<1>3. Spec => [][A]_vars
  BY <1>2, DiskStaysGood, PTL
<1> QED
  BY <1>3 DEF A, ImmutableFiles

-----------------------------------------------------------------------------
(* In mode Always, on a disk that never fails, the disk as a reopen reads  *)
(* it is the map of KVStore.                                               *)

\* Nothing is in doubt, and nothing waits for a sync.
SyncedInv == doubt = {} /\ walSynced = Len(wal)

\* With Fsync = "Always" the log is synced after every step, and only a write adds to the history.
LEMMA SyncedNext ==
  ASSUME Fsync = "Always", Faults = {}, TypeInv, SyncedInv, [Next]_vars
  PROVE  SyncedInv' /\ (\/ \E k \in Keys, v \in Vals \cup {Tomb} : Write(k, v)
                        \/ acked' = acked)
<1>1. LostRecords(Len(wal)) = {} /\ Len(wal) \in Nat /\ SubSeq(wal, 1, Len(wal)) = wal
  BY WalMarksAre, WholePrefix DEF TypeInv, DiskType
<1>2. CASE \E k \in Keys, v \in Vals \cup {Tomb} : Write(k, v)
  BY <1>2 DEF Write, SyncedInv
<1>3. CASE Sync \/ StartFlush
  BY <1>3 DEF Sync, StartFlush, SyncedInv
<1>4. CASE UnlinkWal
  BY <1>4 DEF UnlinkWal, SyncedInv, history
<1>5. CASE Crash
  BY <1>5 DEF Crash, SyncedInv
<1>6. CASE PowerLoss
  <2>1. PICK n \in WalPrefixes : wal' = SubSeq(wal, 1, n) /\ walSynced' = n
                                /\ acked' = acked \ LostRecords(n) /\ doubt' = doubt \ LostRecords(n)
    BY <1>6 DEF PowerLoss
  <2>2. n = Len(wal)
    BY <1>1 DEF SyncedInv, WalPrefixes
  <2> QED
    BY <1>1, <2>1, <2>2 DEF SyncedInv
<1>7. CASE IoError \/ \E k \in Keys, v \in Vals \cup {Tomb} : WriteFails(k, v)
  BY <1>7 DEF WriteFails, IoError
<1>8. CASE UNCHANGED <<wal, walSynced, acked, doubt>>
  BY <1>8 DEF SyncedInv
<1> QED
  BY <1>2, <1>3, <1>4, <1>5, <1>6, <1>7, <1>8
  DEF Next, vars, disk, history, StartCompact, StartBackground, PlanFlush, PlanCompact, WriteTable,
      SyncDir, LogManifest, SyncManifest, InstallFlush, InstallCompaction, RemoveInputs, CreateWal, Open

\* Then a reopen reads the acknowledged writes and nothing else.
ReadsAcked == \A k \in Keys : ReopenGet(wal, man, sst, k) = Written(acked, k)

\* A reopen reads exactly the acknowledged writes.
LEMMA DiskReadsAcked == TypeInv /\ DiskInv /\ GoodDisk /\ SyncedInv => ReadsAcked
<1> SUFFICES ASSUME TypeInv, DiskInv, GoodDisk, SyncedInv, NEW k \in Keys
             PROVE  ReopenGet(wal, man, sst, k) = Written(acked, k)
  BY DEF ReadsAcked
<1>1. ReopenGet(wal, man, sst, k) \in MayRead(acked, k)
  <2>1. ReopenGet(wal \o <<>>, man \o <<>>, sst, k) \in MayRead(acked, k)
    BY CrashKeepsAll DEF CrashLosesNothing
  <2>2. wal \o <<>> = wal /\ man \o <<>> = man
    BY DEF TypeInv, DiskType
  <2> QED
    BY <2>1, <2>2
<1>2. MayRead(acked, k) = {Written(acked, k)}
  <2>1. \A D : D \in SUBSET doubt <=> D = {}
    BY DEF SyncedInv
  <2>2. acked \cup {} = acked
    OBVIOUS
  <2> QED
    BY <2>1, <2>2 DEF MayRead
<1> QED
  BY <1>1, <1>2

\* An acknowledged write is the newest of its key and of no other.
LEMMA WriteIsRead ==
  ASSUME TypeInv, DiskInv, GoodDisk, SyncedInv, NEW k \in Keys, NEW v \in Vals \cup {Tomb}, Write(k, v)
  PROVE  /\ Cardinality(acked') = Cardinality(acked) + 1
         /\ Written(acked', k) = IF v = Tomb THEN NoValue ELSE v
         /\ \A j \in Keys : j # k => Written(acked', j) = Written(acked, j)
<1> DEFINE r == [key |-> k, seq |-> nextSeq + 1, val |-> v]
<1>1. up /\ nextSeq < MaxSeq /\ acked' = acked \cup {r}
  BY DEF Write, Idle
<1>2. LiveOK /\ OncePerSeq(acked \cup doubt)
  BY <1>1 DEF DiskInv, Trusted, History
<1>3. r \in Record /\ \A q \in acked \cup doubt : q.seq < r.seq
  BY <1>1, <1>2, NextIsNewer
<1>4. r.key = k /\ r.val = v
  OBVIOUS
<1> HIDE DEF r
<1>5. acked \in SUBSET Record /\ IsFiniteSet(acked)
  BY DEF TypeInv, HistoryType
<1>6. \A q \in Record : q.seq \in Nat
  BY LsmAssumption DEF Record, LsmAssumption
<1>7. r \notin acked
  BY <1>3, <1>6
<1>8. Cardinality(acked') = Cardinality(acked) + 1
  BY <1>1, <1>5, <1>7, FS_AddElement
<1>9. Written(acked', k) = IF v = Tomb THEN NoValue ELSE v
  <2> DEFINE S == acked \cup {r}
  <2>1. S \in SUBSET Record /\ r \in S
    BY <1>3, <1>5
  <2>2. OncePerSeq(S)
    <3>1. \A q \in acked : q.seq # r.seq
      BY <1>3, <1>5, <1>6
    <3> QED
      BY <1>2, <3>1 DEF OncePerSeq
  <2>3. \A q \in S : q.seq <= r.seq
    BY <1>3, <1>5, <1>6
  <2> HIDE DEF S
  <2>4. Written(S, r.key) = IF r.val = Tomb THEN NoValue ELSE r.val
    BY <1>4, <2>1, <2>2, <2>3, NewestWritten
  <2> QED
    BY <1>1, <1>4, <2>4 DEF S
<1>10. \A j \in Keys : j # k => Written(acked', j) = Written(acked, j)
  BY <1>1, <1>4, OtherKeyWritten
<1> QED
  BY <1>8, <1>9, <1>10

\* A new database is an empty store.
LEMMA DiskRefinesInit ==
  ASSUME ReadsAcked, Init
  PROVE  KV!Init
<1>1. acked = {} /\ Cardinality(acked) = 0
  BY FS_EmptySet DEF Init
<1>2. ASSUME NEW k \in Keys PROVE ReopenGet(wal, man, sst, k) = NoValue
  <2>1. Visible(acked, k, MaxSeq) = {}
    BY <1>1 DEF Visible
  <2>2. Written(acked, k) = NoValue
    BY <2>1 DEF Written, Answer
  <2> QED
    BY <2>2 DEF ReadsAcked
<1> QED
  BY <1>1, <1>2 DEF KV!Init

\* Every step is a put or a delete of the store, or leaves it as it is.
LEMMA DiskRefinesNext ==
  ASSUME Fsync = "Always", Faults = {}, TypeInv, DiskInv, GoodDisk, SyncedInv,
         ReadsAcked, ReadsAcked', [Next]_vars
  PROVE  [KV!Next]_<<[k \in Keys |-> ReopenGet(wal, man, sst, k)], Cardinality(acked)>>
<1> DEFINE now  == [k \in Keys |-> Written(acked, k)]
           next == [k \in Keys |-> Written(acked', k)]
<1>1. (\E k \in Keys, v \in Vals \cup {Tomb} : Write(k, v)) \/ acked' = acked
  BY SyncedNext
<1>2. [k \in Keys |-> ReopenGet(wal, man, sst, k)] = now
  BY DEF ReadsAcked
<1>3. [k \in Keys |-> ReopenGet(wal, man, sst, k)]' = next
  BY DEF ReadsAcked
<1>4. CASE acked' = acked
  BY <1>2, <1>3, <1>4
<1>5. ASSUME NEW k \in Keys, NEW v \in Vals \cup {Tomb}, Write(k, v)
      PROVE  KV!Next
  <2>1. Cardinality(acked') = Cardinality(acked) + 1
    BY <1>5, WriteIsRead
  <2>2. next = [now EXCEPT ![k] = IF v = Tomb THEN NoValue ELSE v]
    <3>1. \A j \in Keys : next[j] = IF j # k THEN now[j] ELSE IF v = Tomb THEN NoValue ELSE v
      BY <1>5, WriteIsRead
    <3> HIDE DEF next
    <3>2. next = [j \in Keys |-> next[j]]
      BY DEF next
    <3> QED
      BY <3>1, <3>2
  <2> HIDE DEF now, next
  <2>3. CASE v = Tomb
    <3>1. KV!Delete(k)
      BY <1>2, <1>3, <2>1, <2>2, <2>3 DEF KV!Delete
    <3> QED
      BY <3>1 DEF KV!Next
  <2>4. CASE v # Tomb
    <3>1. v \in Vals /\ KV!Put(k, v)
      BY <1>2, <1>3, <2>1, <2>2, <2>4 DEF KV!Put
    <3> QED
      BY <3>1 DEF KV!Next
  <2> QED
    BY <2>3, <2>4
<1> QED
  BY <1>1, <1>4, <1>5

\* DiskImplementsKVStore: in mode Always, as long as the disk does its steps,
\* each acknowledged write is one step of the map that a reopen would read, and
\* flushes, compactions, crashes, power losses and recoveries are none.
THEOREM DiskIsKVStore ==
  ASSUME Fsync = "Always", Faults = {}
  PROVE  Spec => DiskImplementsKVStore
<1>1. "midlog" \notin Faults /\ Faults \subseteq {"iowrite"}
  OBVIOUS
<1>2. Init => SyncedInv
  BY DEF Init, SyncedInv
<1>3. TypeInv /\ SyncedInv /\ [Next]_vars => SyncedInv'
  BY SyncedNext
<1>4. Spec => [](TypeInv /\ DiskInv /\ GoodDisk /\ SyncedInv)
  BY <1>1, <1>2, <1>3, DiskOrderInv, DiskStaysGood, PTL DEF Spec
<1>5. TypeInv /\ DiskInv /\ GoodDisk /\ SyncedInv => ReadsAcked
  BY DiskReadsAcked
<1>6. ReadsAcked /\ Init => KV!Init
  BY DiskRefinesInit
<1>7. TypeInv /\ DiskInv /\ GoodDisk /\ SyncedInv /\ ReadsAcked /\ ReadsAcked' /\ [Next]_vars
        => [KV!Next]_<<[k \in Keys |-> ReopenGet(wal, man, sst, k)], Cardinality(acked)>>
  BY DiskRefinesNext
<1> QED
  BY <1>4, <1>5, <1>6, <1>7, PTL DEF Spec, DiskImplementsKVStore, KV!Spec

=============================================================================
