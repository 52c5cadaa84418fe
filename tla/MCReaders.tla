----------------------------- MODULE MCReaders -----------------------------
(* A small instance of Readers for TLC. *)
EXTENDS Readers

MCKeys1 == {1}
MCKeys2 == 1..2

MCHash1 == [k \in Keys |-> 256 - k]
MCHash2 == [k \in Keys |-> 7 * k]

=============================================================================
