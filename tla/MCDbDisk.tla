------------------------------ MODULE MCDbDisk ------------------------------
(* Small instances of DbDisk for TLC. *)
EXTENDS DbDisk

MCKeys1 == {1}
MCKeys2 == 1..2

=============================================================================
