------------------------------- MODULE Table -------------------------------
(***************************************************************************)
(* What is inside a table file, and how SsTable::get finds a record in it: *)
(* the order of the records, the cut into blocks, the index over their     *)
(* last keys, and the bloom filter.  Lsm's TableGet says what is found;    *)
(* here is how.                                                            *)
(***************************************************************************)
EXTENDS Lsm

CONSTANTS
  BlockSize,    \* Options.block_size, in records
  BitsPerKey,   \* Options.bloom_bits_per_key
  MinBits,      \* the least size of a filter (64 in the code)
  Word,         \* hashes are below it and their arithmetic wraps there (2^32)
  Hash1, Hash2, \* the pair of hashes of a key
  SeqSpan       \* a stored key has room for sequence numbers below it (2^56)

ASSUME TableAssumption ==
  /\ BlockSize \in Nat \ {0}
  /\ BitsPerKey \in Nat
  /\ MinBits \in Nat \ {0}
  /\ Word \in Nat \ {0}
  /\ Hash1 \in [Keys -> 0..(Word - 1)]
  /\ Hash2 \in [Keys -> 1..(Word - 1)]
  /\ SeqSpan \in Nat /\ MaxSeq < SeqSpan

-----------------------------------------------------------------------------
(* Internal keys.                                                          *)

\* InternalKey::cmp: by key, and the newer record of a key first.
Before(r, q) == r.key < q.key \/ (r.key = q.key /\ r.seq > q.seq)

\* What decode makes of an encoded record: of its sequence number the tag has
\* kept 56 bits, and the kind tells a Delete from a Put.
DecodedShort(r) == [key |-> r.key, seq |-> r.seq % (SeqSpan \div 2), val |-> r.val]
Decoded(r) == [key |-> r.key, seq |-> r.seq % SeqSpan, val |-> r.val]

-----------------------------------------------------------------------------
(* The bloom filter.                                                       *)

BiggerOf(a, b) == IF a >= b THEN a ELSE b
SmallerOf(a, b) == IF a <= b THEN a ELSE b

\* The number of probes: 0.69 bits_per_key, at least 1 and at most 30.
Probes == SmallerOf(BiggerOf((BiggerOf(BitsPerKey, 1) * 69) \div 100, 1), 30)

\* The i-th bit of a key in a filter of n bits.
Probe(k, i, n) == ((Hash1[k] + ((i * Hash2[k]) % Word)) % Word) % n

FilterSize(S) == BiggerOf(Cardinality(S) * BiggerOf(BitsPerKey, 1), MinBits)

\* The filter of the records S as it is read back from the file.  Before it
\* was fixed the number of bits was not stored but taken from that of bytes.
BloomOfBytesOnly(S) ==
  [bits  |-> {Probe(r.key, i, FilterSize(S)) : r \in S, i \in 0..(Probes - 1)},
   nbits |-> 8 * ((FilterSize(S) + 7) \div 8)]
BloomOf(S) ==
  [bits  |-> {Probe(r.key, i, FilterSize(S)) : r \in S, i \in 0..(Probes - 1)},
   nbits |-> FilterSize(S)]

MayContain(bloom, k) == \A i \in 0..(Probes - 1) : Probe(k, i, bloom.nbits) \in bloom.bits

-----------------------------------------------------------------------------
(* Blocks and their index.                                                 *)

\* The place of r in the file.
Pos(S, r) == Cardinality({q \in S : Before(q, r)})
BlockNo(S, r) == Pos(S, r) \div BlockSize

BlockNos(S) == {BlockNo(S, r) : r \in S}
Block(S, b) == {r \in S : BlockNo(S, r) = b}

\* The index keeps the last key of each block.
Separator(S, b) == Max({r.key : r \in Block(S, b)})

\* The first block whose separator is not below k, or the last one.
FindBlock(S, k) ==
  LET candidates == {b \in BlockNos(S) : Separator(S, b) >= k}
  IN IF candidates = {} THEN Max(BlockNos(S)) ELSE Min(candidates)

\* SsTable::may_contain: the range, then the filter.
TableMayContain(t, k) == Covers(t, k) /\ MayContain(BloomOf(t.recs), k)

\* The blocks SsTable::get looks into, until one has a visible record: the one
\* the index names, then every block from the first.
BlockPlan(S, k) ==
  <<FindBlock(S, k)>> \o [i \in 1..Cardinality(BlockNos(S)) |-> i - 1]

\* SsTable::get: the visible records of the first block that has any, of
\* which Block::get takes the newest.
SsTableGetNoFallThrough(t, k, max) ==
  IF ~TableMayContain(t, k) THEN {} ELSE Visible(Block(t.recs, FindBlock(t.recs, k)), k, max)
SsTableGet(t, k, max) ==
  LET plan == BlockPlan(t.recs, k)
      hits == {i \in DOMAIN plan : Visible(Block(t.recs, plan[i]), k, max) # {}}
  IN IF TableMayContain(t, k) /\ hits # {}
     THEN Visible(Block(t.recs, plan[Min(hits)]), k, max) ELSE {}

-----------------------------------------------------------------------------
(* Safety, of any table with records S.                                    *)

\* A key that was added is never filtered out (bloom.rs promises it).
NoFalseNegative(S) == \A r \in S : MayContain(BloomOf(S), r.key)

\* The walk over filter, index and blocks ends with the record that TableGet
\* promises, at every sequence number, however the versions of one key are
\* cut into blocks.
FindsNewest(t) ==
  \A k \in Keys, max \in 0..MaxSeq :
    LET found == SsTableGet(t, k, max)
        there == TableGet(t, k, max)
    IN (found = {} <=> there = {}) /\ Answer(found) = Answer(there)

=============================================================================
