------------------------------ MODULE Readers ------------------------------
(***************************************************************************)
(* Readers beside the engine.  get() takes its list of tables under the    *)
(* mutex and reads them after unlocking, block by block, through the block *)
(* cache; meanwhile writes go on, compactions replace the version and      *)
(* unlink the files of their inputs.                                       *)
(*                                                                         *)
(* The engine is Db as it stands; this module adds the files and the       *)
(* cache, and opens up what Db's Get does in one step.                     *)
(***************************************************************************)
EXTENDS Db, Table, SequencesExt

CONSTANTS
  Gets,           \* the threads that read
  CacheCapacity   \* Options.block_cache_capacity

ASSUME ReadersAssumption == CacheCapacity \in Nat

VARIABLES
  files,    \* the table files: number -> records
  doomed,   \* the files the holder of the mutex has still to unlink
  cache,    \* BlockCache: file number and block -> the records of the block
  gets      \* where each reader is: Idle, ReadOn, Done or Failed

readersVars == <<vars, files, doomed, cache, gets>>

Live(lv) == UNION {lv[l] : l \in Level}
NumsOf(T) == {t.num : t \in T}

\* A reader has a list of tables to look into, and of the first of them the
\* blocks to go; between a miss and the insert it has the block in hand.
\* expect is what it would have answered at once.
Idle == [at |-> "idle"]
Done(answer, expect) == [at |-> "done", answer |-> answer, expect |-> expect]
Failed(t) == [at |-> "failed", table |-> t]

-----------------------------------------------------------------------------
(* The tables and blocks of a get.                                         *)

\* get_sstables_for_key: of level 0 the tables that may have the key, newest
\* first; of each deeper level the one whose range has it.  (The filter of a
\* deeper table is asked by SsTable::get; as it never changes, here too.)
SoonerOldestFirst(t, u) ==
  \E l, m \in Level :
    t \in levels[l] /\ u \in levels[m] /\ (l < m \/ (l = m /\ t.num < u.num))
Sooner(t, u) ==
  \E l, m \in Level :
    t \in levels[l] /\ u \in levels[m] /\ (l < m \/ (l = m /\ t.num > u.num))

Candidates(k) ==
  {t \in levels[0] \cup UNION {FindInLevel(levels[l], k) : l \in Level \ {0}} : TableMayContain(t, k)}
TablesFor(k) ==
  CHOOSE s \in Bijection(1..Cardinality(Candidates(k)), Candidates(k)) :
    \A i, j \in DOMAIN s : i < j => Sooner(s[i], s[j])

\* A reader goes on with the first of the tables that are left.
ReadOn(k, max, tables, expect) ==
  IF tables = <<>> THEN Done(NoValue, expect)
  ELSE [at |-> "read", key |-> k, max |-> max, tables |-> tables,
        blocks |-> BlockPlan(Head(tables).recs, k), expect |-> expect]

\* One that has got a block answers, or goes on to the next one.
Continue(r, block) ==
  LET found == Visible(block, r.key, r.max)
  IN IF found # {} THEN Done(Answer(found), r.expect)
     ELSE IF Len(r.blocks) > 1 THEN [r EXCEPT !.blocks = Tail(@)]
     ELSE ReadOn(r.key, r.max, Tail(r.tables), r.expect)

-----------------------------------------------------------------------------
(* The cache.                                                              *)

\* The name of a block in the cache.
NameOfBlockOnly(t, b) == <<0, b>>
Name(t, b) == <<t.num, b>>

\* BlockCache::insert: a full cache loses any one entry first, which may be
\* the very one that is about to be put in again.
Inserted(c, name, block) ==
  LET kept == IF Cardinality(DOMAIN c) >= CacheCapacity /\ DOMAIN c # {}
              THEN {Restrict(c, DOMAIN c \ {e}) : e \in DOMAIN c} ELSE {c}
  IN {[e \in DOMAIN d \cup {name} |-> IF e = name THEN block ELSE d[e]] : d \in kept}

-----------------------------------------------------------------------------
ReadersInit ==
  /\ Init
  /\ files = <<>> /\ doomed = {} /\ cache = <<>>
  /\ gets = [g \in Gets |-> Idle]

\* The steps that do not take the mutex.
Unlocked ==
  /\ \/ BgCheck
     \/ CloseStart
     \/ \E s \in Snapshots : DropSnapshot(s)
  /\ UNCHANGED <<files, doomed, cache, gets>>

\* A critical section.  A table that appears in the version has had its file
\* written; the files of those that go are unlinked before the mutex is
\* released.  (What a failed compaction leaves in the directory no reader
\* opens: its number is written over when it is given out again.)
UnlinkedTooMuch(lv, lw) == NumsOf(Live(lv)) \ NumsOf(lw[0])
Unlinked(lv, lw) == NumsOf(Live(lv)) \ NumsOf(Live(lw))

Locked ==
  /\ doomed = {}
  /\ Next
  /\ LET new == Live(levels') \ Live(levels)
     IN files' = [n \in DOMAIN files \cup NumsOf(new) |->
                    IF n \in NumsOf(new) THEN (CHOOSE t \in new : t.num = n).recs ELSE files[n]]
  /\ doomed' = Unlinked(levels, levels')
  /\ UNCHANGED <<cache, gets>>

Unlink(n) ==
  /\ n \in doomed
  /\ doomed' = doomed \ {n}
  /\ files' = Restrict(files, DOMAIN files \ {n})
  /\ UNCHANGED <<vars, cache, gets>>

\* A scan or a compaction reads its tables under the mutex, and through the
\* cache; here one of the blocks that it finds in the file.
LockedRead(t, b) ==
  /\ doomed = {}
  /\ Name(t, b) \notin DOMAIN cache
  /\ t.num \in DOMAIN files
  /\ cache' \in Inserted(cache, Name(t, b), Block(files[t.num], b))
  /\ UNCHANGED <<vars, files, doomed, gets>>

\* get_with_seq up to the unlock, for a key that no memtable answers.
GetStart(g, k, max) ==
  /\ gets[g] = Idle
  /\ doomed = {} /\ ~closed
  /\ Visible(mem \cup UNION Range(imms), k, max) = {}
  /\ gets' = [gets EXCEPT ![g] = ReadOn(k, max, TablesFor(k), Get(k, max))]
  /\ UNCHANGED <<vars, files, doomed, cache>>

Wanted(r) == Name(Head(r.tables), Head(r.blocks))

\* read_block: the cache has it,
ReadHit(g) ==
  /\ gets[g].at = "read"
  /\ Wanted(gets[g]) \in DOMAIN cache
  /\ gets' = [gets EXCEPT ![g] = Continue(@, cache[Wanted(gets[g])])]
  /\ UNCHANGED <<vars, files, doomed, cache>>

\* or it comes from the file, which may be gone.
ReadMiss(g) ==
  /\ gets[g].at = "read"
  /\ Wanted(gets[g]) \notin DOMAIN cache
  /\ LET t == Head(gets[g].tables)
     IN gets' = [gets EXCEPT ![g] =
                   IF t.num \in DOMAIN files
                   THEN [get |-> @, at |-> "insert", block |-> Block(files[t.num], Head(@.blocks))]
                   ELSE Failed(t)]
  /\ UNCHANGED <<vars, files, doomed, cache>>

Insert(g) ==
  /\ gets[g].at = "insert"
  /\ cache' \in Inserted(cache, Wanted(gets[g].get), gets[g].block)
  /\ gets' = [gets EXCEPT ![g] = Continue(@.get, @.block)]
  /\ UNCHANGED <<vars, files, doomed>>

Return(g) ==
  /\ gets[g].at \in {"done", "failed"}
  /\ gets' = [gets EXCEPT ![g] = Idle]
  /\ UNCHANGED <<vars, files, doomed, cache>>

ReadersNext ==
  \/ Unlocked
  \/ Locked
  \/ \E n \in doomed : Unlink(n)
  \/ \E t \in Live(levels) : \E b \in BlockNos(t.recs) : LockedRead(t, b)
  \/ \E g \in Gets, k \in Keys, max \in 1..MaxSeq : GetStart(g, k, max)
  \/ \E g \in Gets : ReadHit(g) \/ ReadMiss(g) \/ Insert(g) \/ Return(g)

ReadersSpec == ReadersInit /\ [][ReadersNext]_readersVars

-----------------------------------------------------------------------------
(* Safety.                                                                 *)

ReadersTypeOK ==
  /\ TypeOK
  /\ DOMAIN files \subseteq Nat /\ Range(files) \subseteq SUBSET Record
  /\ doomed \subseteq DOMAIN files
  /\ DOMAIN cache \subseteq Nat \X Nat /\ Range(cache) \subseteq SUBSET Record
  /\ \A g \in Gets : gets[g].at \in {"idle", "read", "insert", "done", "failed"}

\* The tables someone may still read: those of the version, and those on the
\* list of a get that began with an older version.
Tables(r) == CASE r.at = "read"   -> Range(r.tables)
               [] r.at = "insert" -> Range(r.get.tables)
               [] OTHER           -> {}
Readable == Live(levels) \cup UNION {Tables(gets[g]) : g \in Gets}

\* A get that returns an answer returns the one it would have had if it had
\* read everything at the moment it let go of the mutex, whatever was
\* written, frozen, flushed, compacted or unlinked since.
GetIsAtomic ==
  \A g \in Gets : gets[g].at = "done" => gets[g].answer = gets[g].expect

\* A get that returns an error ran into the unlinking of a table that a
\* compaction had replaced; no table of the version fails it.
FailsOnlyIfReplaced ==
  \A g \in Gets : gets[g].at = "failed" => gets[g].table \notin Live(levels)

\* The unlinking after a compaction never takes the file of a table that is
\* in the version.
FilesPresent ==
  \A t \in Live(levels) :
    t.num \in DOMAIN files \ doomed /\ files[t.num] = t.recs

\* A block of a table is the same in the cache and in the file, for every
\* table that may still be read: nothing ever drops the blocks of a file that
\* was removed, so this hangs on no number being given out again.
CacheCurrent ==
  \A t \in Readable : \A b \in BlockNos(t.recs) :
    Name(t, b) \in DOMAIN cache => cache[Name(t, b)] = Block(t.recs, b)

=============================================================================
