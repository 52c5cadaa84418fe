------------------------------ MODULE MCMerge ------------------------------
(* A small instance of Merge for TLC. *)
EXTENDS Merge

MCKeys3 == 1..3

\* Sums of hashes that wrap, in a word of eight bits.
MCHash1 == [k \in MCKeys3 |-> 256 - k]
MCHash2 == [k \in MCKeys3 |-> 7 * k]

=============================================================================
