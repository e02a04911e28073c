---------------------------- MODULE MoveGeometry ----------------------------
(***************************************************************************)
(* The arithmetic every relocation of src/movepart rests on: where an      *)
(* entry goes, how one move is cut into chunks, where the grown partition  *)
(* ends.  All quantities are LBAs or sector counts; a chunk is a whole     *)
(* number of sectors (--chunk-size is in MiB), so the byte arithmetic of   *)
(* the code is the sector arithmetic below scaled by the sector size.      *)
(*                                                                         *)
(* A move is the code's PlanEntry: the partition number, the source        *)
(* [first, first + len), the displacement delta >= 0 and whether the       *)
(* partition is a swap area (whose content is not moved).                  *)
(***************************************************************************)
EXTENDS Integers, Sequences

MoveRecords == [part: Nat \ {0}, first: Nat, len: Nat \ {0}, delta: Nat, swap: BOOLEAN]

Min2(a, b) == IF a <= b THEN a ELSE b
Max2(a, b) == IF a >= b THEN a ELSE b

(* The range of LBAs a partition of `len` sectors at `first` covers.       *)
Extent(first, len) == first .. (first + len - 1)

NewFirst(m) == m.first + m.delta
Source(m) == Extent(m.first, m.len)
Target(m) == Extent(NewFirst(m), m.len)

(* relocation_overlaps: the displacement is shorter than the partition, so *)
(* source and target intersect.                                            *)
RelocationOverlaps(m) == m.delta # 0 /\ m.delta < m.len

(* move_chunk_layout: the effective chunk and how many of them there are.  *)
(* A self-overlapping move never copies more than the displacement at once.*)
(* Mutant: the chunk is not clamped.                                       *)
EntryChunkUnclamped(m, chunk) == chunk
EntryChunk(m, chunk) == IF RelocationOverlaps(m) THEN Min2(chunk, m.delta) ELSE chunk
ChunkCount(m, chunk) == (m.len + EntryChunk(m, chunk) - 1) \div EntryChunk(m, chunk)

(* Chunks go from the tail to the head: after n of them, the first         *)
(* Left(m, chunk, n) sectors of the partition are still to be copied.      *)
Left(m, chunk, n) == Max2(0, m.len - n * EntryChunk(m, chunk))

(* Offsets within the partition that chunk n (from 0) copies.              *)
ChunkOffsets(m, chunk, n) == Left(m, chunk, n + 1) .. (Left(m, chunk, n) - 1)

(* grow_end_for: the grown partition stops right before the leftmost new   *)
(* start, or at the end of the usable area when nothing moves.             *)
GrowEnd(moves, lastUsable) ==
  IF moves = <<>>
  THEN lastUsable
  ELSE LET starts == {NewFirst(moves[i]) : i \in DOMAIN moves}
       IN (CHOOSE f \in starts : \A g \in starts : f <= g) - 1

Disjoint(A, B) == A \cap B = {}

(* What a list of moves must satisfy to be carried out in its order, as    *)
(* prepare_apply re-checks it before every resumed run: targets do not     *)
(* meet each other, and none of them covers the source of a move that      *)
(* comes later.  Sources are disjoint because a table whose entries        *)
(* overlap is refused when its geometry is built.                          *)
Executable(moves, lastUsable) ==
  /\ \A i \in DOMAIN moves : NewFirst(moves[i]) + moves[i].len - 1 <= lastUsable
  /\ \A i, k \in DOMAIN moves : i < k =>
       /\ Disjoint(Source(moves[i]), Source(moves[k]))
       /\ Disjoint(Target(moves[i]), Target(moves[k]))
       /\ Disjoint(Target(moves[i]), Source(moves[k]))

(* What both planners also see to, and no check repeats: whatever a member *)
(* leaves goes to the grown partition or to another member, so that a      *)
(* table in which a third party has taken any of it is not resumed.        *)
LeavesNoGap(moves, lastUsable) ==
  \A i \in DOMAIN moves : moves[i].delta # 0 =>
    \A s \in Source(moves[i]) :
      s <= GrowEnd(moves, lastUsable) \/ \E k \in DOMAIN moves : s \in Target(moves[k])

(* All that a job takes for granted of its plan: it can be carried out,    *)
(* the target lies left of every member and can only grow, and it grows    *)
(* into no new place of a member.                                          *)
Relocatable(moves, target, lastUsable) ==
  LET growEnd == GrowEnd(moves, lastUsable)
  IN /\ Executable(moves, lastUsable) /\ LeavesNoGap(moves, lastUsable)
     /\ target.first <= target.last /\ target.last <= growEnd
     /\ growEnd \in 0 .. lastUsable
     /\ \A i \in DOMAIN moves : target.last < moves[i].first /\ growEnd < NewFirst(moves[i])
=============================================================================
