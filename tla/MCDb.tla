-------------------------------- MODULE MCDb --------------------------------
(* Small instances of Db for TLC. *)
EXTENDS Db

MCKeys1 == {1}
MCKeys2 == 1..2
MCKeys3 == 1..3

=============================================================================
