---------------------------- MODULE AtomicTable ----------------------------
(***************************************************************************)
(* What a command that edits the partition table promises (README.md:5,    *)
(* gpt_write.rs:105-107): whatever interrupts it, a consistent table is    *)
(* found afterwards, either the one from before or the whole new one, and  *)
(* a command that reports success has made the new one durable.            *)
(***************************************************************************)
EXTENDS Naturals

CONSTANTS Slots, Values

VARIABLES
  table,     \* the table a reader finds after a power loss now
  wanted,    \* the table being committed; equal to `table` when there is none
  edits      \* how many times another tool has edited the table

vars == <<table, wanted, edits>>

Tables == [Slots -> Values]

Init == table \in Tables /\ wanted = table /\ edits = 0

(* A commit starts from the table that is on the disk at that moment and   *)
(* changes one entry of it, or rewrites it as it is (a repair).            *)
Begin ==
  /\ wanted = table
  /\ \E s \in Slots, v \in Values : wanted' = [table EXCEPT ![s] = v]
  /\ UNCHANGED <<table, edits>>

Land == table' = wanted /\ UNCHANGED <<wanted, edits>>

(* The command dies or fails: its commit has happened or it has not.       *)
Die ==
  /\ table' \in {table, wanted}
  /\ wanted' = table'
  /\ edits' = edits

Foreign ==
  /\ wanted = table
  /\ edits' = edits + 1
  /\ table' \in Tables /\ wanted' = table'

Next == Begin \/ Land \/ Die \/ Foreign

Spec == Init /\ [][Next]_vars
=============================================================================
