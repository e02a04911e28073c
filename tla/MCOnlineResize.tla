--------------------------- MODULE MCOnlineResize ---------------------------
(* Small instances of OnlineResize for TLC.                                *)
EXTENDS OnlineResize

At(len, next) == [len |-> len, next |-> next]
Found(what, holder, d, k, f, l) ==
  [kind |-> what, hold |-> holder, disk |-> d, kern |-> k, fs |-> f, lv |-> l]

(* Fresh and stale kernel views, a filesystem that does not fill its       *)
(* partition, every kind of filesystem, a PV with and without free extents *)
SmallSituations ==
  { Found(k, "none", At(3, 5), At(3, 5), 3, 0) : k \in {"ext", "btrfs", "vfat"} } \cup
  { Found("xfs", "none", At(3, 5), At(3, 5), 2, 0),
    Found("btrfs", "none", At(3, 5), At(4, 5), 2, 0),
    Found("ext", "none", At(4, 5), At(3, 5), 3, 0),
    Found("ext", "scene", At(3, 5), At(3, 5), 3, 0),
    Found("ext", "swap", At(3, 5), At(3, 5), 3, 0),
    Found("pv", "none", At(2, 6), At(2, 6), 2, 2),
    Found("pv", "none", At(4, 6), At(2, 6), 2, 2),
    Found("pv", "none", At(4, 6), At(4, 6), 4, 2),
    Found("pv", "none", At(3, 6), At(5, 6), 3, 2),
    Found("pv", "stack", At(2, 6), At(2, 6), 2, 2) }

Ask(mode, size, table, growLv) ==
  [mode |-> mode, size |-> size, table |-> table, growLv |-> growLv]
SmallRequests ==
  { Ask("fill", 0, FALSE, FALSE), Ask("set", 3, FALSE, FALSE), Ask("set", 5, FALSE, FALSE),
    Ask("grow", 0, TRUE, FALSE), Ask("grow", 0, TRUE, TRUE) } \cup
  { Ask("set", n, TRUE, g) : n \in {2, 3, 5}, g \in BOOLEAN }
=============================================================================
