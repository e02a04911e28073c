------------------------------ MODULE LvmChain ------------------------------
(***************************************************************************)
(* What `--grow-lv` adds to a logical volume once its physical volume has  *)
(* grown: lvm_post_for of src/movepart/checkpoint.rs records the amount    *)
(* before the table is written, lvm_grow_chain of src/cmd/resize/lvm.rs    *)
(* carries it out.  Sizes are in sectors, free space in extents.           *)
(***************************************************************************)
EXTENDS Integers

(* LvmPostFacts: "none" when there is no record, "pv" when only pvresize   *)
(* is asked for, "lv" with the baseline and the goal of the volume.        *)
FactsOf(kind, before, target) == [kind |-> kind, before |-> before, target |-> target]
NoFacts == FactsOf("none", 0, 0)
Facts == [kind: {"none", "pv", "lv"}, before: Nat, target: Nat]

(* The partition grows by less than an extent: nothing the LV could take.  *)
BelowExtent(growLv, old, new, ext) == growLv /\ new > old /\ (new - old) \div ext = 0

LvmPost(growLv, lv, old, new, ext) ==
  IF new <= old THEN NoFacts
  ELSE IF ~growLv THEN FactsOf("pv", 0, 0)
  ELSE FactsOf("lv", lv, lv + ext * ((new - old) \div ext))

(* finish_lv_growth: 0 when the goal is reached, -1 when it cannot be told *)
(* or there is no room, else the extents lvextend adds.                    *)
FinishLvGrowth(f, lv, free, ext) ==
  IF lv >= f.target THEN 0
  ELSE IF lv # f.before THEN -1
  ELSE LET need == (f.target - f.before) \div ext IN IF need > free THEN -1 ELSE need

(* Without facts the amount is what this run added to the partition; with  *)
(* no amount and free extents left, nobody knows what was meant.           *)
ExtendByDelta(delta, free, ext) ==
  IF delta = 0 THEN (IF free = 0 THEN 0 ELSE -1)
  ELSE IF delta \div ext = 0 \/ delta \div ext > free THEN -1
  ELSE delta \div ext

(* The extents lvm_grow_chain hands to lvextend after pvresize.            *)
LvExtents(f, growLv, delta, lv, free, ext) ==
  CASE f.kind = "pv" -> 0
    [] f.kind = "lv" -> FinishLvGrowth(f, lv, free, ext)
    [] f.kind = "none" -> IF growLv THEN ExtendByDelta(delta, free, ext) ELSE 0
=============================================================================
