---------------------------- MODULE MCPartResize ----------------------------
(* Small instances of PartResize for TLC.                                  *)
EXTENDS PartResize

Found(l, what, e, f, v, busy) ==
  [label |-> l, kind |-> what, entry |-> e, fs |-> f, lv |-> v, others |-> busy]

(* Sectors 1 .. 8, the partition in the middle of free space, or next to   *)
(* another partition.                                                      *)
SmallSituations ==
  { Found("gpt", k, At(3, 3), 3, 0, {}) : k \in {"ext", "ntfs", "unknown"} } \cup
  { Found("gpt", k, At(3, 3), 3, 0, {7}) : k \in {"ext", "btrfs"} } \cup
  { Found("gpt", "xfs", At(2, 3), 2, 0, {}),
    Found("gpt", "pv", At(2, 2), 2, 2, {}), Found("mbr", "pv", At(2, 2), 2, 2, {}),
    Found("mbr", "ext", At(3, 3), 3, 0, {}), Found("mbr", "btrfs", At(3, 3), 3, 0, {7}) }

Ask(verb, start, len, chunk, nofs, growLv) ==
  [verb |-> verb, start |-> start, len |-> len, chunk |-> chunk, nofs |-> nofs, growLv |-> growLv]
SmallRequests ==
  { Ask("part", 4, 3, 1, FALSE, FALSE),   \* right, overlapping
    Ask("part", 5, 2, 2, FALSE, FALSE),   \* right and shorter, or clear of itself
    Ask("part", 2, 4, 2, FALSE, FALSE),   \* left and longer
    Ask("part", 2, 4, 2, TRUE, FALSE),
    Ask("part", 3, 2, 1, FALSE, FALSE),
    Ask("part", 3, 5, 1, FALSE, FALSE),
    Ask("resize", 1, 2, 1, FALSE, FALSE), Ask("resize", 1, 3, 1, FALSE, FALSE),
    Ask("resize", 1, 4, 1, FALSE, TRUE),
    Ask("grow", 1, 0, 1, FALSE, FALSE),
    Ask("copy", 6, 0, 2, FALSE, FALSE) }
=============================================================================
