---------------------------- MODULE MCRelocation ----------------------------
(* Small instances of Relocation for TLC.                                  *)
EXTENDS Relocation

Data(p, first, len, delta) ==
  [part |-> p, first |-> first, len |-> len, delta |-> delta, swap |-> FALSE]
Swap(p, first, len, delta) ==
  [part |-> p, first |-> first, len |-> len, delta |-> delta, swap |-> TRUE]
Job(moves, tFirst, tLast, usable, noFs, ntfs) ==
  [moves |-> moves, target |-> [first |-> tFirst, last |-> tLast, swap |-> FALSE],
   lastUsable |-> usable, noFs |-> noFs, ntfs |-> ntfs]

(* Self-overlapping and free-standing moves, an unmoved member, an NTFS    *)
(* member whose source the next one reuses, swap left and right of data.   *)
DataJobs ==
  { Job(<<Data(2, 3, 4, 2)>>, 1, 1, 9, FALSE, {2}),
    Job(<<Data(2, 2, 3, 4)>>, 1, 1, 9, FALSE, {}),
    Job(<<Data(3, 5, 2, 3), Data(2, 2, 3, 2)>>, 1, 1, 9, FALSE, {3}),
    Job(<<Data(3, 7, 2, 0), Data(2, 2, 3, 1)>>, 1, 1, 9, TRUE, {}) }
SwapJobs ==
  { Job(<<Swap(3, 4, 2, 1), Data(2, 2, 2, 1)>>, 1, 1, 7, FALSE, {}),
    Job(<<Data(3, 4, 2, 2), Swap(2, 2, 1, 3)>>, 1, 1, 7, FALSE, {3}),
    Job(<<Swap(2, 2, 2, 3)>>, 1, 1, 7, FALSE, {}) }
AllJobs == DataJobs \cup SwapJobs
=============================================================================
