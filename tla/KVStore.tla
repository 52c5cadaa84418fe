------------------------------ MODULE KVStore ------------------------------
(***************************************************************************)
(* What the engine promises its callers: a map from keys to values that a  *)
(* put sets, a delete clears and nothing else touches.  Flushes,           *)
(* compactions, snapshots and the life of the threads are not visible.     *)
(*                                                                         *)
(* The writes are numbered (next_seq in the code), so that a step that is  *)
(* no write cannot pass for one: it leaves the number, hence the map.      *)
(***************************************************************************)
EXTENDS Naturals

CONSTANTS Keys, Vals, NoValue

VARIABLES kv, writes

Init == kv = [k \in Keys |-> NoValue] /\ writes = 0

Put(k, v) == writes' = writes + 1 /\ kv' = [kv EXCEPT ![k] = v]
Delete(k) == writes' = writes + 1 /\ kv' = [kv EXCEPT ![k] = NoValue]

\* A write that returned an error: its number is used up.
Failed == writes' = writes + 1 /\ kv' = kv

Next ==
  \/ \E k \in Keys : Delete(k) \/ \E v \in Vals : Put(k, v)
  \/ Failed

Spec == Init /\ [][Next]_<<kv, writes>>

=============================================================================
