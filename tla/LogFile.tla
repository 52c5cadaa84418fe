------------------------------ MODULE LogFile ------------------------------
(***************************************************************************)
(* The bytes of CURRENT.log and of MANIFEST, which have one format: a      *)
(* record is its length, its checksum and its payload, one behind the      *)
(* other to the end of the file.  An append may be cut short anywhere, by  *)
(* a crash, a power loss or an I/O error, and the next one, of this or a   *)
(* later process, goes on at the end of the file as it is.                 *)
(*                                                                         *)
(* DbDisk takes for granted what is shown here of recovery: it yields the  *)
(* records before the first stump (BeforeStump there), or an error.        *)
(*                                                                         *)
(* A cell of the file is a byte, or an integer the program writes whole.   *)
(* A length and a checksum keep two cells, for a cut may come inside them. *)
(***************************************************************************)
EXTENDS Integers, Sequences, FiniteSets, FiniteSetsExt, SequencesExt

CONSTANTS
  Base,         \* a byte is below it
  Magic,        \* the first cell of a record of the log
  Names, Texts, \* the keys and the values, sequences of bytes
  Numbers,      \* the sequence numbers, file numbers, levels and sizes
  Crc(_),       \* the checksum of a payload, two cells of the file
  Kinds,        \* which of {"wal", "manifest"} the file may be
  MaxAppends    \* bound on the appends

Byte == 0..(Base - 1)

ASSUME LogAssumption ==
  /\ Base \in Nat /\ Base > 4
  /\ Magic \in Nat \ Byte
  /\ Names \cup Texts \subseteq Seq(Byte) /\ Numbers \subseteq Byte
  /\ Kinds \subseteq {"wal", "manifest"}
  /\ MaxAppends \in Nat

-----------------------------------------------------------------------------
(* Payloads.                                                               *)

\* What is logged: writes, and edits.
Writes ==
  [key : Names, seq : Numbers, kind : {1}, val : Texts]
    \cup [key : Names, seq : Numbers, kind : {0}, val : {<<>>}]
Edits ==
  [op : {"AddFile"}, num : Numbers, level : Numbers, lo : Names, hi : Names, size : Numbers]
    \cup [op : {"DeleteFile"}, level : Numbers, num : Numbers]
    \cup [op : {"SetNextFileNum", "SetLastSeq"}, n : Numbers]

EncodeWrite(w) ==
  <<Magic, Len(w.key)>> \o w.key \o <<w.seq, w.kind, Len(w.val)>> \o w.val

EncodeEdit(e) ==
  CASE e.op = "AddFile" ->
         <<1, e.num, e.level, Len(e.lo)>> \o e.lo \o <<Len(e.hi)>> \o e.hi \o <<e.size>>
    [] e.op = "DeleteFile"     -> <<2, e.level, e.num>>
    [] e.op = "SetNextFileNum" -> <<3, e.n>>
    [] e.op = "SetLastSeq"     -> <<4, e.n>>

Payloads == {EncodeWrite(w) : w \in Writes} \cup {EncodeEdit(e) : e \in Edits}

\* The length of a payload has two cells here and four bytes there, and nothing
\* there stops a write or an edit whose length does not fit.
ASSUME PayloadAssumption ==
  \A p \in Payloads : Len(p) < Base * Base /\ Crc(p) \in Nat \X Nat

\* What decoding makes of a payload: at most one record; none is an error.
Slice(p, at, n) == SubSeq(p, at, at + n - 1)

\* decode_record, with its checks.
DecodeWrite(p) ==
  IF Len(p) < 5 THEN {}
  ELSE LET klen == p[2]
           o    == 3 + klen
           vlen == p[o + 2]
       IN IF p[1] = Magic /\ o + 2 <= Len(p) /\ p[o + 1] \in {0, 1} /\ o + 2 + vlen = Len(p)
          THEN {[key |-> Slice(p, 3, klen), seq |-> p[o], kind |-> p[o + 1],
                 val |-> Slice(p, o + 3, vlen)]}
          ELSE {}

\* decode_edit, which checks the tag only: an index beyond the payload is a
\* panic, and no record either.
DecodeEdit(p) ==
  LET hi == 5 + p[4]      \* where the length of the largest key is
  IN CASE p # <<>> /\ p[1] = 1 /\ Len(p) >= 5 /\ hi <= Len(p) /\ hi + 1 + p[hi] <= Len(p) ->
            {[op |-> "AddFile", num |-> p[2], level |-> p[3], lo |-> Slice(p, 5, p[4]),
              hi |-> Slice(p, hi + 1, p[hi]), size |-> p[hi + 1 + p[hi]]]}
       [] p # <<>> /\ p[1] = 2 /\ Len(p) >= 3 ->
            {[op |-> "DeleteFile", level |-> p[2], num |-> p[3]]}
       [] p # <<>> /\ p[1] = 3 /\ Len(p) >= 2 -> {[op |-> "SetNextFileNum", n |-> p[2]]}
       [] p # <<>> /\ p[1] = 4 /\ Len(p) >= 2 -> {[op |-> "SetLastSeq", n |-> p[2]]}
       [] OTHER -> {}

Encode(type, r) == IF type = "wal" THEN EncodeWrite(r) ELSE EncodeEdit(r)
Decode(type, p) == IF type = "wal" THEN DecodeWrite(p) ELSE DecodeEdit(p)

-----------------------------------------------------------------------------
(* Frames.                                                                 *)

\* The length has its low cell first.
FrameHighFirst(p) == <<(Len(p) \div Base) % Base, Len(p) % Base>> \o Crc(p) \o p
Frame(p) == <<Len(p) % Base, (Len(p) \div Base) % Base>> \o Crc(p) \o p

Ended(records) == [ok |-> TRUE, records |-> records]
Corruption == [ok |-> FALSE, records |-> <<>>]

\* Whether the file ends before the payload of the record at i does.
CutShortOffByOne(file, i, len) == i + 4 + len >= Len(file)
CutShort(file, i, len) == i + 4 + len > Len(file)

\* Whether a payload is not what was written at i.
DamagedUnchecked(type, file, i, payload) == Decode(type, payload) = {}
Damaged(type, file, i, payload) ==
  <<file[i + 3], file[i + 4]>> # Crc(payload) \/ Decode(type, payload) = {}

\* Wal::recover and Manifest::recover, from every place of the file: records
\* until the end of the file or one that is cut short; a wrong checksum or
\* payload makes them fail.
Recovery(type, file) ==
  LET from[i \in 0..Len(file)] ==
        LET len     == file[i + 1] + Base * file[i + 2]
            payload == SubSeq(file, i + 5, i + 4 + len)
            rest    == from[i + 4 + len]
        IN IF i + 4 > Len(file) \/ CutShort(file, i, len) THEN Ended(<<>>)
           ELSE IF Damaged(type, file, i, payload) \/ ~rest.ok THEN Corruption
           ELSE Ended(<<CHOOSE r \in Decode(type, payload) : TRUE>> \o rest.records)
  IN from
Recover(type, file) == Recovery(type, file)[0]

-----------------------------------------------------------------------------
VARIABLES
  kind,     \* which file it is
  cells,    \* what is in it
  begun,    \* the history: each record whose append left anything, with the
            \* place where it begins
  synced,   \* how much of the file an fsync has covered
  up,       \* whether a process has it open
  appends   \* how many appends there were

vars == <<kind, cells, begun, synced, up, appends>>

Init ==
  /\ kind \in Kinds
  /\ cells = <<>> /\ begun = <<>> /\ synced = 0
  /\ up = TRUE
  /\ appends = 0

Records == IF kind = "wal" THEN Writes ELSE Edits
FrameOf(r) == Frame(Encode(kind, r))

\* The file when n cells of the record have got into it.
Grow(r, n) ==
  /\ cells' = cells \o SubSeq(FrameOf(r), 1, n)
  /\ begun' = IF n = 0 THEN begun ELSE Append(begun, [rec |-> r, start |-> Len(cells)])

\* Wal::append and one turn of the loop of Manifest::log.  Whether a sync
\* follows is the mode's business.
AppendRecord(r) ==
  /\ up /\ appends < MaxAppends
  /\ Grow(r, Len(FrameOf(r)))
  /\ synced' \in {synced, Len(cells')}
  /\ appends' = appends + 1
  /\ UNCHANGED <<kind, up>>

\* One that is cut short, by an I/O error, after which the process goes on, or
\* by a crash.
AppendCut(r) ==
  /\ up /\ appends < MaxAppends
  /\ \E n \in 0..(Len(FrameOf(r)) - 1) : Grow(r, n)
  /\ up' \in BOOLEAN
  /\ appends' = appends + 1
  /\ UNCHANGED <<kind, synced>>

\* A power loss takes any part of what was not synced, from the end.
PowerLoss ==
  /\ up
  /\ up' = FALSE
  /\ \E n \in synced..Len(cells) :
       /\ cells' = SubSeq(cells, 1, n)
       /\ begun' = SubSeq(begun, 1, Cardinality({i \in DOMAIN begun : begun[i].start < n}))
       /\ synced' = n
  /\ UNCHANGED <<kind, appends>>

\* open(): when recovery has succeeded the file is opened for appending.
Open ==
  /\ ~up
  /\ Recover(kind, cells).ok
  /\ up' = TRUE
  /\ UNCHANGED <<kind, cells, begun, synced, appends>>

\* Wal::create, after a flush.
CreateKeepsSynced ==
  /\ up /\ kind = "wal"
  /\ cells' = <<>> /\ begun' = <<>>
  /\ UNCHANGED <<kind, synced, up, appends>>
Create ==
  /\ up /\ kind = "wal"
  /\ cells' = <<>> /\ begun' = <<>> /\ synced' = 0
  /\ UNCHANGED <<kind, up, appends>>

Next ==
  \/ \E r \in Records : AppendRecord(r) \/ AppendCut(r)
  \/ PowerLoss
  \/ Open
  \/ Create

Spec == Init /\ [][Next]_vars

-----------------------------------------------------------------------------
(* Safety.                                                                 *)

TypeOK ==
  /\ kind \in Kinds
  /\ cells \in Seq(Nat)
  /\ begun \in Seq([rec : Writes \cup Edits, start : 0..Len(cells)])
  /\ synced \in 0..Len(cells)
  /\ up \in BOOLEAN /\ appends \in 0..MaxAppends

\* A record that was begun is a stump when the file ends, or the next one
\* begins, before it is whole.
End(i) == IF i = Len(begun) THEN Len(cells) ELSE begun[i + 1].start
Stump(i) == End(i) - begun[i].start < Len(FrameOf(begun[i].rec))
Stumps == {i \in DOMAIN begun : Stump(i)}

\* The records that come before the first stump.
Whole == Min(Stumps \cup {Len(begun) + 1}) - 1
Kept == [i \in 1..Whole |-> begun[i].rec]
AppendedBehindStump == \E i \in Stumps : i < Len(begun)

\* A recovery that succeeds yields the records appended before the first
\* stump, all of them, as they were written and in their order, and no others
\* unless something was appended behind the stump.
RecoversWholeRecords ==
  LET r == Recover(kind, cells)
  IN r.ok => IsPrefix(Kept, r.records) /\ (AppendedBehindStump \/ r.records = Kept)

\* The records of begun at the places in S.
Chosen(S) == [i \in 1..Cardinality(S) |-> begun[SetToSortSeq(S, <)[i]].rec]

\* What comes after those is never made up and never out of its order: bytes
\* appended behind a stump may by chance be the very bytes that the stump
\* lacks, and what follows them is read as it was written.  That holds for an
\* instance small enough to meet no collision of checksums.
MakesUpNothing ==
  LET r == Recover(kind, cells)
  IN r.ok => \E S \in SUBSET DOMAIN begun : r.records = Chosen(S)

\* A recovery fails only where something was appended behind a stump: a single
\* crash, at whatever byte, never leaves a file that cannot be opened.
FailsOnlyBehindStump == ~Recover(kind, cells).ok => AppendedBehindStump

=============================================================================
