------------------------ MODULE RelocationTableProofs ------------------------
(***************************************************************************)
(* What the table, the sectors of others and the report of success say of  *)
(* Relocation, for every job, disk, chunk size, batch size and every       *)
(* number of crashes, tool failures and edits: the partition an entry      *)
(* describes has its content (SourceKept is needed besides the invariant   *)
(* of RelocationProofs), third parties keep theirs (OthersKept), progress  *)
(* never goes back (SwapUncounted), and a job reported done is done        *)
(* (MarksKept, JobDone).  Without third parties the job implements         *)
(* AtomicRelocation.                                                       *)
(***************************************************************************)
EXTENDS RelocationProofs

(* A move that does not overlap itself leaves its source readable until    *)
(* the entry is committed at the target.                                   *)
SourceHeld(content) ==
  \A i \in DataMembers : \A k \in 0 .. (job.moves[i].len - 1) :
    i = ResumeAt.cur /\ ~RelocationOverlaps(job.moves[i])
      => Holds(content, job.moves[i].first + k, i, k)

SourceKept == SourceHeld(disk) /\ SourceHeld(media)

(* The sectors third parties created, or took from a swap member.          *)
TakenOver == {n \in Members : job.moves[n].swap /\ ~entry[n].swap}
Theirs == alien \cup UNION {entry[i].first .. entry[i].last : i \in TakenOver}

OthersKept ==
  /\ \A s \in Theirs : disk[s] = Alien /\ media[s] = Alien
  /\ pc = "mkswap" => entry[ckpt.cur].swap
  /\ target.first = job.target.first /\ fsEnd >= job.target.last

SwapUncounted ==
  ckpt # NoCkpt /\ ckpt.cur \in Members /\ Current.swap => ckpt.done = 0

-----------------------------------------------------------------------------
(* Progress.                                                               *)

(* Only the copy loop counts chunks, and it copies no swap member.         *)
LEMMA UncountedStep == TableInv /\ SwapUncounted /\ [Next]_vars => SwapUncounted'
<1> SUFFICES ASSUME TableInv, SwapUncounted, [Next]_vars PROVE SwapUncounted'
  OBVIOUS
<1>1. job' = job /\ Members' = Members /\ TypeOK /\ Phase
  BY JobFixed DEF TableInv
<1>2. CASE ckpt' = ckpt \/ ckpt' = NoCkpt
  BY <1>1, <1>2 DEF SwapUncounted, Current
<1>3. CASE SaveProgress
  <2>1. ckpt'.cur = ckpt.cur /\ ~Current.swap
    BY <1>1, <1>3, CkptMoves DEF SaveProgress, Phase
  <2> QED BY <1>1, <2>1 DEF SwapUncounted, Current
<1>4. CASE NextEntry \/ RecreateSwapFails
  BY <1>1, <1>4, CkptMoves DEF SwapUncounted, RecreateSwapFails
<1>5. CASE ckpt' = [cur |-> 1, done |-> 0, chunk |-> req]
  BY <1>5 DEF SwapUncounted
<1> QED
  BY <1>2, <1>3, <1>4, <1>5 DEF Next, Command, Run, CopyEntry, MoveSwap, Grow, Edit, vars,
     Prepare, PrepareRefuses, Execute, ExecuteRefuses, SkipUnmoved, BeginCopy, CopyChunk,
     SyncData, CommitEntry, FixHiddenSectors, Advance, SwapTypeGone, CommitSwap, RecreateSwap,
     GrowTarget, GrowFs, GrowFsFails, Finish, FinishCannotRemove, Kill, PowerLoss, Dies,
     AlienCreates, AlienRetypes, AlienShrinks, AlienExtends, onDisk

(* The checkpoint only moves on: to the next entry, or to more chunks of   *)
(* the same.                                                               *)
THEOREM ProgressIsSteady == Spec => ProgressIsMonotone
<1>1. ASSUME TableInv, SwapUncounted, [Next]_vars, ckpt # NoCkpt, ckpt' # NoCkpt
      PROVE  \/ ckpt'.cur = ckpt.cur + 1
             \/ ckpt'.cur = ckpt.cur /\ ckpt'.done >= ckpt.done
  <2>1. TypeOK /\ Phase /\ CopyBounds /\ ckpt.done \in Nat
    BY <1>1 DEF TableInv, TypeOK, Checkpoints
  <2>2. CASE ckpt' = ckpt
    BY <2>1, <2>2
  <2>3. CASE SaveProgress
    BY <2>1, <2>3, CkptMoves DEF SaveProgress, CopyBounds
  <2>4. CASE NextEntry
    BY <2>1, <2>4, CkptMoves
  <2>5. CASE RecreateSwapFails
    <3>1. ckpt.done = 0 /\ ckpt' = [ckpt EXCEPT !.done = 0]
      BY <1>1, <2>1, <2>5 DEF RecreateSwapFails, SwapUncounted, Phase
    <3> QED BY <2>1, <3>1, CkptMoves
  <2> QED
    BY <1>1, <2>2, <2>3, <2>4, <2>5 DEF Next, Command, Run, CopyEntry, MoveSwap, Grow, Edit,
       vars, Prepare, PrepareRefuses, Execute, ExecuteRefuses, SkipUnmoved, BeginCopy,
       CopyChunk, SyncData, CommitEntry, FixHiddenSectors, Advance, SwapTypeGone, CommitSwap,
       RecreateSwap, GrowTarget, GrowFs, GrowFsFails, Finish, FinishCannotRemove, Kill,
       PowerLoss, Dies, AlienCreates, AlienRetypes, AlienShrinks, AlienExtends, onDisk
<1>2. TableInv /\ SwapUncounted /\ [Next]_vars =>
        [ckpt # NoCkpt /\ ckpt' # NoCkpt =>
           \/ ckpt'.cur = ckpt.cur + 1
           \/ ckpt'.cur = ckpt.cur /\ ckpt'.done >= ckpt.done]_vars
  BY <1>1
<1>3. Init => SwapUncounted
  BY DEF Init, SwapUncounted
<1>4. TableInv /\ SwapUncounted /\ [Next]_vars => SwapUncounted'
  BY UncountedStep
<1> QED
  BY <1>2, <1>3, <1>4, TableIsInvariant, PTL DEF Spec, ProgressIsMonotone

-----------------------------------------------------------------------------
(* Third parties.                                                          *)

(* Nobody's sectors are in the way of the current entry's target.          *)
LEMMA TheirsApart ==
  ASSUME TableInv, InRun, ckpt.cur \in Members, ~Current.swap \/ entry[ckpt.cur].swap
  PROVE  Disjoint(Target(Current), Theirs)
<1>1. TypeOK /\ Phase /\ Positions /\ Ready(Table) /\ ckpt # NoCkpt
  BY DEF TableInv, RunIsReady, Phase
<1>2. Disjoint(Target(Current), alien)
  BY <1>1, TargetIsClear
<1>3. ASSUME NEW n \in TakenOver
      PROVE  Disjoint(Target(Current), entry[n].first .. entry[n].last)
  <2>1. n \in Members /\ n # ckpt.cur
    BY DEF TakenOver, Current
  <2>2. entry[n].first .. entry[n].last \subseteq Reach(n)
    BY <1>1, <2>1, ExtentInReach DEF Positions
  <2>3. Target(Current) \subseteq Reach(ckpt.cur)
    <3>1. ResumeAt = ckpt /\ ckpt.cur \in Nat
      BY <1>1, ResumeAtFacts
    <3> QED BY <3>1 DEF Reach, Current
  <2>4. Disjoint(Reach(ckpt.cur), Reach(n))
    BY <1>1, <2>1, ReachApart
  <2> QED BY <2>2, <2>3, <2>4 DEF Disjoint
<1> QED BY <1>2, <1>3 DEF Disjoint, Theirs

(* What an entry describes, and what others own, lies on the disk.         *)
LEMMA ExtentOnDisk ==
  ASSUME TableInv, NEW n \in Members
  PROVE  entry[n].first .. entry[n].last \subseteq LBA
<1>1. TypeOK /\ Standing(n)
  BY DEF TableInv, Positions
<1>2. /\ job.moves[n].first \in Nat /\ job.moves[n].len \in Nat \ {0}
      /\ job.moves[n].delta \in Nat
      /\ NewFirst(job.moves[n]) = job.moves[n].first + job.moves[n].delta
      /\ NewFirst(job.moves[n]) + job.moves[n].len - 1 < DiskSize /\ DiskSize \in Nat
      /\ entry[n].first \in Nat /\ entry[n].last \in Nat
  BY <1>1, MoveFacts
<1> QED BY <1>1, <1>2 DEF Standing, LBA

LEMMA TheirsOnDisk == ASSUME TableInv PROVE Theirs \subseteq LBA
BY ExtentOnDisk DEF Theirs, TakenOver, TableInv, TypeOK

(* A step after which others own no more, and which leaves or copies what  *)
(* is in their sectors, keeps them.                                        *)
LEMMA TheirsKept ==
  ASSUME OthersKept, Theirs' \subseteq Theirs,
         \A s \in Theirs : disk'[s] \in {disk[s], media[s]},
         \A s \in Theirs : media'[s] \in {disk[s], media[s], disk'[s]}
  PROVE  \A s \in Theirs' : disk'[s] = Alien /\ media'[s] = Alien
BY DEF OthersKept

(* Writes go to the current target, into the target's new room, or to a    *)
(* third party's own sectors; everything else only syncs or tears.         *)
LEMMA OthersStep == TableInv /\ OthersKept /\ [Next]_vars => OthersKept'
<1> SUFFICES ASSUME TableInv, OthersKept, [Next]_vars PROVE OthersKept'
  OBVIOUS
<1>1. /\ job' = job /\ Members' = Members /\ TypeOK /\ Phase /\ Positions /\ Clear
      /\ job \in Jobs /\ job.target.first \in Nat /\ job.target.last \in Nat
      /\ target.first \in Nat /\ target.last \in Nat /\ fsEnd \in Nat
  BY JobFixed, JobFacts DEF TableInv, TypeOK, Entries
<1>2. \A s \in Theirs : disk[s] = Alien /\ media[s] = Alien
  BY DEF OthersKept
<1>3. Theirs \subseteq LBA
  BY TheirsOnDisk
<1>r. target'.first = job'.target.first /\ fsEnd' >= job'.target.last
  <2>1. target'.first = target.first
    BY <1>1 DEF TypeOK, Entries, Next, Command, Run, CopyEntry, MoveSwap, Grow, Edit, vars,
       Prepare, PrepareRefuses, Execute, ExecuteRefuses, SkipUnmoved, BeginCopy, CopyChunk,
       SyncData, SaveProgress, CommitEntry, FixHiddenSectors, Advance, SwapTypeGone, CommitSwap,
       RecreateSwap, RecreateSwapFails, GrowTarget, GrowFs, GrowFsFails, Finish,
       FinishCannotRemove, Kill, PowerLoss, Dies, AlienCreates, AlienRetypes, AlienShrinks,
       AlienExtends, onDisk
  <2>2. fsEnd' = fsEnd \/ fsEnd' = GrowTo
    BY <1>1 DEF Phase, Next, Command, Run, CopyEntry, MoveSwap, Grow, Edit, vars,
       Prepare, PrepareRefuses, Execute, ExecuteRefuses, SkipUnmoved, BeginCopy, CopyChunk,
       SyncData, SaveProgress, CommitEntry, FixHiddenSectors, Advance, SwapTypeGone, CommitSwap,
       RecreateSwap, RecreateSwapFails, GrowTarget, GrowFs, GrowFsFails, Finish,
       FinishCannotRemove, Kill, PowerLoss, Dies, AlienCreates, AlienRetypes, AlienShrinks,
       AlienExtends, onDisk
  <2>3. GrowTo >= job.target.last /\ GrowTo \in Nat
    BY <1>1, JobFacts
  <2> QED BY <1>1, <2>1, <2>2, <2>3 DEF OthersKept
<1>m. pc' = "mkswap" => entry'[ckpt'.cur].swap
  <2>1. CASE CommitSwap
    <3>1. ckpt.cur \in Members /\ ckpt' = ckpt /\ entry[ckpt.cur].swap
      BY <1>1, <2>1, ResumeAtFacts DEF CommitSwap, Phase, InRun, Finished
    <3>2. entry'[ckpt.cur].swap = entry[ckpt.cur].swap
      BY <1>1, <2>1, <3>1 DEF CommitSwap, PlaceCurrent, TypeOK, Entries
    <3> QED BY <3>1, <3>2
  <2>2. CASE UNCHANGED vars
    BY <2>2 DEF vars, OthersKept
  <2> QED
    BY <2>1, <2>2 DEF Next, Command, Run, CopyEntry, MoveSwap, Grow, Edit,
       Prepare, PrepareRefuses, StartsRun, Execute, ExecuteRefuses, SkipUnmoved, BeginCopy,
       CopyChunk, SyncData, SaveProgress, CommitEntry, FixHiddenSectors, Advance, SwapTypeGone,
       RecreateSwap, RecreateSwapFails, GrowTarget, GrowFs, GrowFsFails, Finish,
       FinishCannotRemove, Kill, PowerLoss, Dies, AlienCreates, AlienRetypes, AlienShrinks,
       AlienExtends, MayEdit, onDisk
<1>t. ASSUME UNCHANGED <<entry, alien>> PROVE Theirs' = Theirs
  BY <1>1, <1>t DEF Theirs, TakenOver
<1> SUFFICES \A s \in Theirs' : disk'[s] = Alien /\ media'[s] = Alien
  BY <1>r, <1>m DEF OthersKept
<1>4. ASSUME UNCHANGED <<entry, alien, disk>>, media' = media \/ media' = disk
      PROVE  \A s \in Theirs' : disk'[s] = Alien /\ media'[s] = Alien
  BY <1>4, <1>t, TheirsKept
<1>5. CASE CopyChunk
  <2>1. /\ UNCHANGED <<entry, alien, media>> /\ InRun /\ ckpt.cur \in Members /\ ~Current.swap
    BY <1>1, <1>5 DEF CopyChunk, Phase, InRun
  <2>2. ASSUME NEW s \in Theirs PROVE disk'[s] = disk[s]
    <3> DEFINE written == {NewFirst(Current) + k : k \in ChunkOffsets(Current, ckpt.chunk, next)}
    <3>1. disk' = [t \in LBA |-> IF t \in written THEN disk[t - Current.delta] ELSE disk[t]]
      BY <1>5 DEF CopyChunk
    <3>2. written \subseteq Target(Current)
      <4>1. /\ Left(Current, ckpt.chunk, next) \in 0 .. Current.len
            /\ Left(Current, ckpt.chunk, next + 1) \in 0 .. Current.len
            /\ Current.len \in Nat \ {0} /\ NewFirst(Current) \in Nat
        BY <1>5, CopyFacts DEF CopyChunk
      <4> QED BY <4>1 DEF ChunkOffsets, Target, Extent
    <3>3. s \notin written /\ s \in LBA
      BY <1>3, <2>1, <3>2, TheirsApart DEF Disjoint
    <3> HIDE DEF written
    <3> QED BY <3>1, <3>3
  <2> QED BY <1>t, <2>1, <2>2, TheirsKept
<1>6. CASE CommitEntry \/ CommitSwap
  <2>1. /\ UNCHANGED <<alien, disk, ckpt>> /\ media' = disk /\ PlaceCurrent /\ InRun
        /\ ckpt.cur \in Members /\ (~Current.swap \/ entry[ckpt.cur].swap)
    BY <1>1, <1>6, ResumeAtFacts DEF CommitEntry, CommitSwap, Phase, InRun, Finished
  <2>2. ASSUME NEW n \in TakenOver'
        PROVE  n \in TakenOver /\ entry'[n] = entry[n]
    <3>1. n \in Members /\ job.moves[n].swap /\ ~entry'[n].swap
      BY <1>1 DEF TakenOver
    <3>2. n # ckpt.cur
      BY <1>1, <2>1, <3>1 DEF Current, PlaceCurrent, TypeOK, Entries
    <3>3. entry'[n] = entry[n]
      BY <1>1, <2>1, <3>1, <3>2 DEF PlaceCurrent, TypeOK
    <3> QED BY <3>1, <3>3 DEF TakenOver
  <2>3. Theirs' \subseteq Theirs
    BY <2>1, <2>2 DEF Theirs
  <2> QED BY <2>1, <2>3, TheirsKept
<1>7. CASE FixHiddenSectors \/ RecreateSwap
  <2>1. /\ UNCHANGED <<entry, alien>> /\ media' = disk' /\ InRun /\ ckpt.cur \in Members
        /\ (~Current.swap \/ entry[ckpt.cur].swap)
    BY <1>1, <1>7 DEF FixHiddenSectors, RecreateSwap, Phase, InRun, OthersKept
  <2>2. NewFirst(Current) \in Target(Current)
    <3>1. Current.len \in Nat \ {0} /\ NewFirst(Current) \in Nat
      BY <1>1, <2>1, CurrentFacts
    <3> QED BY <3>1 DEF Target, Extent
  <2>3. ASSUME NEW s \in Theirs PROVE disk'[s] = disk[s]
    <3>1. s # NewFirst(Current) /\ s \in LBA
      BY <1>3, <2>1, <2>2, TheirsApart DEF Disjoint
    <3> QED BY <1>1, <1>7, <3>1 DEF FixHiddenSectors, RecreateSwap, TypeOK
  <2> QED BY <1>t, <2>1, <2>3, TheirsKept
<1>8. CASE GrowFs
  <2>1. /\ UNCHANGED <<entry, alien, target>> /\ media' = disk'
        /\ disk' = [s \in LBA |-> IF s \in (fsEnd + 1) .. target.last THEN FsData ELSE disk[s]]
    BY <1>8 DEF GrowFs
  <2>2. Disjoint(Theirs, target.first .. target.last)
    BY <1>1 DEF Theirs, TakenOver, Clear, Disjoint
  <2>3. (fsEnd + 1) .. target.last \subseteq target.first .. target.last
    <3>1. job.target.first <= job.target.last
      BY <1>1, RelocationAssumption DEF JobOK, Relocatable
    <3> QED BY <1>1, <3>1 DEF OthersKept
  <2>4. ASSUME NEW s \in Theirs PROVE disk'[s] = disk[s]
    BY <1>3, <2>1, <2>2, <2>3 DEF Disjoint
  <2> QED BY <1>t, <2>1, <2>4, TheirsKept
<1>9. CASE PowerLoss
  <2>1. UNCHANGED <<entry, alien>> /\ disk' = media'
    BY <1>9 DEF PowerLoss, Dies
  <2>2. PICK kept \in SUBSET Dirty :
          media' = [s \in LBA |-> IF s \in kept THEN disk[s] ELSE media[s]]
    BY <1>9 DEF PowerLoss
  <2>3. \A s \in Theirs : media'[s] \in {disk[s], media[s]}
    BY <1>3, <2>2
  <2> QED BY <1>t, <2>1, <2>3, TheirsKept
<1>10. CASE AlienCreates
  <2>1. PICK a \in FirstUsable .. job.lastUsable : \E b \in a .. job.lastUsable :
          /\ alien' = alien \cup (a .. b)
          /\ disk' = [s \in LBA |-> IF s \in a .. b THEN Alien ELSE disk[s]]
          /\ media' = [s \in LBA |-> IF s \in a .. b THEN Alien ELSE media[s]]
    BY <1>10 DEF AlienCreates
  <2>2. PICK b \in a .. job.lastUsable :
          /\ alien' = alien \cup (a .. b)
          /\ disk' = [s \in LBA |-> IF s \in a .. b THEN Alien ELSE disk[s]]
          /\ media' = [s \in LBA |-> IF s \in a .. b THEN Alien ELSE media[s]]
    BY <2>1
  <2>3. Theirs' = Theirs \cup (a .. b)
    <3>1. entry' = entry
      BY <1>10 DEF AlienCreates
    <3> QED BY <1>1, <2>2, <3>1 DEF Theirs, TakenOver
  <2>4. a .. b \subseteq LBA
    <3>1. /\ FirstUsable \in Nat /\ DiskSize \in Nat
          /\ job.lastUsable \in Nat /\ job.lastUsable < DiskSize
      BY <1>1, RelocationAssumption, JobFacts
    <3>2. a \in Nat /\ b \in Nat /\ b <= job.lastUsable
      BY <3>1
    <3> QED BY <3>1, <3>2 DEF LBA
  <2>5. ASSUME NEW s \in Theirs' PROVE disk'[s] = Alien /\ media'[s] = Alien
    <3> DEFINE new == a .. b
    <3>1. s \in LBA /\ (s \in new \/ s \in Theirs)
      BY <1>3, <2>3, <2>4
    <3>2. /\ disk' = [t \in LBA |-> IF t \in new THEN Alien ELSE disk[t]]
          /\ media' = [t \in LBA |-> IF t \in new THEN Alien ELSE media[t]]
      BY <2>2
    <3> HIDE DEF new
    <3> QED BY <1>2, <3>1, <3>2
  <2> QED BY <2>5
<1>11. CASE AlienRetypes
  <2>1. PICK n \in Members :
          /\ entry[n].swap /\ entry' = [entry EXCEPT ![n].swap = FALSE]
          /\ LET taken == entry[n].first .. entry[n].last
             IN /\ disk' = [s \in LBA |-> IF s \in taken THEN Alien ELSE disk[s]]
                /\ media' = [s \in LBA |-> IF s \in taken THEN Alien ELSE media[s]]
    BY <1>11 DEF AlienRetypes
  <2> DEFINE taken == entry[n].first .. entry[n].last
  <2>2. \A i \in Members : entry'[i].first = entry[i].first /\ entry'[i].last = entry[i].last
                           /\ (i # n => entry'[i].swap = entry[i].swap)
    BY <1>1, <2>1 DEF TypeOK, Entries
  <2>3. Theirs' \subseteq Theirs \cup taken
    <3>1. alien' = alien
      BY <1>11 DEF AlienRetypes
    <3>2. ASSUME NEW i \in TakenOver'
          PROVE  entry'[i].first .. entry'[i].last \subseteq Theirs \cup taken
      <4>1. i \in Members /\ job.moves[i].swap /\ ~entry'[i].swap
        BY <1>1 DEF TakenOver
      <4>2. entry'[i].first .. entry'[i].last = entry[i].first .. entry[i].last
        BY <2>2, <4>1
      <4>3. CASE i = n
        BY <4>2, <4>3
      <4>4. CASE i # n
        <5>1. i \in TakenOver
          BY <2>2, <4>1, <4>4 DEF TakenOver
        <5> QED BY <4>2, <5>1 DEF Theirs
      <4> QED BY <4>3, <4>4
    <3> QED BY <3>1, <3>2 DEF Theirs
  <2>4. Theirs' \subseteq LBA
    BY <1>3, <2>3, ExtentOnDisk
  <2>5. ASSUME NEW s \in Theirs' PROVE disk'[s] = Alien /\ media'[s] = Alien
    <3>1. s \in LBA /\ (s \in taken \/ s \in Theirs)
      BY <2>3, <2>4
    <3>2. /\ disk' = [t \in LBA |-> IF t \in taken THEN Alien ELSE disk[t]]
          /\ media' = [t \in LBA |-> IF t \in taken THEN Alien ELSE media[t]]
      BY <2>1
    <3> HIDE DEF taken
    <3> QED BY <1>2, <3>1, <3>2
  <2> QED BY <2>5
<1>12. CASE AlienShrinks
  <2>1. PICK n \in Members : entry[n].first < entry[n].last
                             /\ entry' = [entry EXCEPT ![n].last = @ - 1]
    BY <1>12 DEF AlienShrinks
  <2>2. UNCHANGED <<alien, disk, media>>
    BY <1>12 DEF AlienShrinks
  <2>3. ASSUME NEW i \in Members
        PROVE  /\ entry'[i].swap = entry[i].swap
               /\ entry'[i].first .. entry'[i].last \subseteq entry[i].first .. entry[i].last
    <3>1. /\ entry'[i].swap = entry[i].swap /\ entry'[i].first = entry[i].first
          /\ entry'[i].last \in {entry[i].last, entry[i].last - 1}
          /\ entry[i].first \in Nat /\ entry[i].last \in Nat
      BY <1>1, <2>1 DEF TypeOK, Entries
    <3> QED BY <3>1
  <2>4. TakenOver' = TakenOver
    BY <1>1, <2>3 DEF TakenOver
  <2>5. Theirs' \subseteq Theirs
    BY <2>2, <2>3, <2>4 DEF Theirs, TakenOver
  <2> QED BY <2>2, <2>5, TheirsKept
<1>13. CASE UNCHANGED vars
  BY <1>4, <1>13 DEF vars
<1>14. ASSUME NEW c \in Chunks, Prepare(c) \/ PrepareRefuses(c)
       PROVE  \A s \in Theirs' : disk'[s] = Alien /\ media'[s] = Alien
  BY <1>4, <1>14 DEF Prepare, PrepareRefuses, onDisk
<1>15. CASE Execute \/ ExecuteRefuses \/ SkipUnmoved \/ Advance \/ BeginCopy \/ SyncData
            \/ SaveProgress \/ SwapTypeGone \/ RecreateSwapFails
  BY <1>4, <1>15 DEF Execute, ExecuteRefuses, SkipUnmoved, Advance, BeginCopy, SyncData,
     SaveProgress, SwapTypeGone, RecreateSwapFails, onDisk
<1>16. CASE GrowTarget \/ GrowFsFails \/ Finish \/ FinishCannotRemove \/ Kill \/ AlienExtends
  BY <1>4, <1>16 DEF GrowTarget, GrowFsFails, Finish, FinishCannotRemove, Kill, Dies,
     AlienExtends, onDisk
<1> QED
  BY <1>5, <1>6, <1>7, <1>8, <1>9, <1>10, <1>11, <1>12, <1>13, <1>14, <1>15, <1>16
     DEF Next, Command, Run, CopyEntry, MoveSwap, Grow, Edit

(* Nobody's sectors but the job's are ever written.                        *)
LEMMA OthersInvariant == Spec => []OthersKept
<1>1. Init => OthersKept
  <2> SUFFICES ASSUME Init PROVE OthersKept
    OBVIOUS
  <2>1. alien = {} /\ pc = "down" /\ target = job.target /\ fsEnd = job.target.last
    BY DEF Init
  <2>2. \A i \in Members : entry[i].swap = job.moves[i].swap
    BY DEF Init, Members, EntryAtSource
  <2>3. Theirs = {}
    BY <2>1, <2>2 DEF Theirs, TakenOver
  <2>4. job.target.last \in Nat
    <3>1. job \in Jobs
      BY DEF Init
    <3> QED BY <3>1, JobFacts DEF Entries
  <2> QED BY <2>1, <2>3, <2>4 DEF OthersKept
<1>2. TableInv /\ OthersKept /\ [Next]_vars => OthersKept'
  BY OthersStep
<1> QED
  BY <1>1, <1>2, TableIsInvariant, PTL DEF Spec

(* A third party that created a partition, or took over a swap member,     *)
(* while the job was interrupted keeps every sector of it, whatever the    *)
(* resumed runs do.                                                        *)
THEOREM OthersAreSafe == Spec => []ThirdPartyUntouched
<1>1. OthersKept => ThirdPartyUntouched
  BY DEF OthersKept, ThirdPartyUntouched, Theirs, TakenOver
<1> QED
  BY <1>1, OthersInvariant, PTL

-----------------------------------------------------------------------------
(* The table.                                                              *)

(* The source sectors of the entry in turn: on the disk, in nobody else's  *)
(* reach, and clear of the target when the move does not overlap itself.   *)
LEMMA SourceFacts ==
  ASSUME TableInv, NEW i \in DataMembers, i = ResumeAt.cur, ~RelocationOverlaps(job.moves[i]),
         NEW k \in 0 .. (job.moves[i].len - 1)
  PROVE  /\ job.moves[i].first + k \in LBA /\ job.moves[i].first + k \in Reach(i)
         /\ i \in Members
         /\ job.moves[i].delta # 0 => job.moves[i].first + k \notin Target(job.moves[i])
<1>1. TypeOK /\ Phase /\ i \in Members
  BY DEF TableInv, DataMembers
<1>2. /\ job.moves[i].first + k \in LBA /\ job.moves[i].first + k \in Source(job.moves[i])
      /\ k \in Nat
  BY <1>1, LocationFacts
<1>3. job.moves[i].first + k \in Reach(i)
  <2>1. i >= ResumeAt.cur
    BY <1>1, ResumeAtFacts
  <2> QED BY <1>2, <2>1 DEF Reach
<1>4. ASSUME job.moves[i].delta # 0
      PROVE  job.moves[i].first + k \notin Target(job.moves[i])
  <2>1. /\ job.moves[i].first \in Nat /\ job.moves[i].len \in Nat \ {0}
        /\ job.moves[i].delta \in Nat
        /\ NewFirst(job.moves[i]) = job.moves[i].first + job.moves[i].delta
    BY <1>1, MoveFacts
  <2>2. job.moves[i].delta >= job.moves[i].len
    BY <1>4, <2>1 DEF RelocationOverlaps
  <2> QED BY <1>2, <2>1, <2>2 DEF Target, Extent
<1> QED BY <1>1, <1>2, <1>3, <1>4

(* Steps that leave the job where it stands, and the source sectors of the *)
(* entry in turn as they are or to third parties.                          *)
LEMMA SourceStays ==
  ASSUME TableInv, SourceKept, [Next]_vars, ResumeAt'.cur = ResumeAt.cur, alien \subseteq alien',
         \A i \in DataMembers : \A k \in 0 .. (job.moves[i].len - 1) :
           i = ResumeAt.cur /\ ~RelocationOverlaps(job.moves[i]) =>
             LET s == job.moves[i].first + k
             IN \/ s \in alien'
                \/ /\ disk'[s] \in {disk[s], media[s]}
                   /\ media'[s] \in {disk[s], media[s], disk'[s]}
  PROVE  SourceKept'
<1>1. job' = job /\ DataMembers' = DataMembers
  BY JobFixed DEF DataMembers
<1>2. ASSUME NEW i \in DataMembers, NEW k \in 0 .. (job.moves[i].len - 1),
             i = ResumeAt.cur, ~RelocationOverlaps(job.moves[i])
      PROVE  LET s == job.moves[i].first + k
             IN Holds(disk, s, i, k)' /\ Holds(media, s, i, k)'
  <2> DEFINE s == job.moves[i].first + k
  <2>1. /\ s \in alien \/ SameData(disk[s], s)
        /\ s \in alien \/ SameData(media[s], s)
    BY <1>2 DEF SourceKept, SourceHeld, Holds
  <2>2. \/ s \in alien'
        \/ /\ disk'[s] \in {disk[s], media[s]}
           /\ media'[s] \in {disk[s], media[s], disk'[s]}
    BY <1>2
  <2>3. /\ s \in alien' \/ SameData(disk'[s], s)
        /\ s \in alien' \/ SameData(media'[s], s)
    <3> HIDE DEF s
    <3> QED BY <2>1, <2>2
  <2> QED BY <1>1, <2>3 DEF Holds
<1> QED BY <1>1, <1>2 DEF SourceKept, SourceHeld

(* The next entry's content is still all at its source.                    *)
LEMMA SourceTakenUp ==
  ASSUME TableInv, ContentInv, [Next]_vars, NextEntry, ckpt # NoCkpt,
         UNCHANGED <<disk, media, alien>>
  PROVE  SourceKept'
<1>1. /\ job' = job /\ DataMembers' = DataMembers /\ TypeOK /\ Phase /\ ResumeAt = ckpt
      /\ ckpt.cur \in Nat
  BY JobFixed, ResumeAtFacts DEF TableInv, DataMembers
<1>2. ResumeAt'.cur = ckpt.cur + 1
  BY <1>1, CkptMoves DEF ResumeAt
<1>3. ASSUME NEW i \in DataMembers, NEW k \in 0 .. (job.moves[i].len - 1), i = ckpt.cur + 1
      PROVE  Location(i, k) = job.moves[i].first + k
  BY <1>1, <1>3 DEF Location, Copied
<1> QED
  BY <1>1, <1>2, <1>3 DEF SourceKept, SourceHeld, ContentInv, Intact, Holds

LEMMA SourceStep == IInv /\ SourceKept /\ [Next]_vars => SourceKept'
<1> SUFFICES ASSUME IInv, SourceKept, [Next]_vars PROVE SourceKept'
  OBVIOUS
<1>1. /\ job' = job /\ TableInv /\ ContentInv /\ TypeOK /\ Phase /\ Positions
  BY JobFixed DEF IInv, TableInv
<1>2. ASSUME ckpt' = ckpt PROVE ResumeAt'.cur = ResumeAt.cur
  BY <1>1, <1>2, ResumeAtFixed
<1>3. ASSUME UNCHANGED <<disk, alien, ckpt>>, media' = media \/ media' = disk
      PROVE  SourceKept'
  BY <1>1, <1>2, <1>3, SourceStays
<1>4. CASE CopyChunk \/ FixHiddenSectors
  <2>1. /\ UNCHANGED <<alien, ckpt>> /\ ckpt # NoCkpt /\ ckpt.cur \in Members
        /\ Current.delta # 0 /\ ResumeAt = ckpt
    BY <1>1, <1>4, ResumeAtFacts DEF CopyChunk, FixHiddenSectors, Phase, InRun
  <2>2. ASSUME NEW s \in LBA, s \notin Target(Current)
        PROVE  disk'[s] = disk[s] /\ media'[s] \in {media[s], disk'[s]}
    <3>1. CASE CopyChunk
      <4> DEFINE written ==
                   {NewFirst(Current) + k : k \in ChunkOffsets(Current, ckpt.chunk, next)}
      <4>1. disk' = [t \in LBA |-> IF t \in written THEN disk[t - Current.delta] ELSE disk[t]]
            /\ media' = media
        BY <3>1 DEF CopyChunk
      <4>2. written \subseteq Target(Current)
        <5>1. /\ Left(Current, ckpt.chunk, next) \in 0 .. Current.len
              /\ Left(Current, ckpt.chunk, next + 1) \in 0 .. Current.len
              /\ Current.len \in Nat \ {0} /\ NewFirst(Current) \in Nat
          BY <1>1, <3>1, CopyFacts DEF CopyChunk
        <5> QED BY <5>1 DEF ChunkOffsets, Target, Extent
      <4>3. s \notin written
        BY <2>2, <4>2
      <4> HIDE DEF written
      <4> QED BY <4>1, <4>3
    <3>2. CASE FixHiddenSectors
      <4>1. Current.len \in Nat \ {0} /\ NewFirst(Current) \in Nat
        BY <1>1, <2>1, CurrentFacts
      <4>2. NewFirst(Current) \in Target(Current)
        BY <4>1 DEF Target, Extent
      <4> QED BY <1>1, <2>2, <3>2, <4>2 DEF FixHiddenSectors, TypeOK
    <3> QED BY <1>4, <3>1, <3>2
  <2>3. ASSUME NEW i \in DataMembers, NEW k \in 0 .. (job.moves[i].len - 1),
               i = ResumeAt.cur, ~RelocationOverlaps(job.moves[i])
        PROVE  /\ job.moves[i].first + k \in LBA
               /\ job.moves[i].first + k \notin Target(Current)
    BY <1>1, <2>1, <2>3, SourceFacts DEF Current
  <2> QED BY <1>1, <1>2, <2>1, <2>2, <2>3, SourceStays
<1>5. CASE RecreateSwap \/ GrowFs
  <2>1. UNCHANGED <<alien, ckpt>> /\ ckpt # NoCkpt /\ ResumeAt = ckpt
    BY <1>1, <1>5, ResumeAtFacts DEF RecreateSwap, GrowFs, Phase, InRun
  <2>2. ckpt.cur \notin DataMembers
    BY <1>1, <1>5, ResumeAtFacts DEF RecreateSwap, GrowFs, Phase, Finished, DataMembers, Current
  <2> QED BY <1>1, <1>2, <2>1, <2>2, SourceStays
<1>6. CASE PowerLoss
  <2>1. UNCHANGED <<alien, ckpt>> /\ disk' = media'
    BY <1>6 DEF PowerLoss, Dies
  <2>2. PICK kept \in SUBSET Dirty :
          media' = [s \in LBA |-> IF s \in kept THEN disk[s] ELSE media[s]]
    BY <1>6 DEF PowerLoss
  <2>3. \A s \in LBA : media'[s] \in {disk[s], media[s]}
    BY <2>2
  <2>4. \A i \in DataMembers : \A k \in 0 .. (job.moves[i].len - 1) :
          i = ResumeAt.cur /\ ~RelocationOverlaps(job.moves[i])
            => job.moves[i].first + k \in LBA
    BY <1>1, SourceFacts
  <2> QED BY <1>1, <1>2, <2>1, <2>3, <2>4, SourceStays
<1>7. CASE AlienCreates
  <2>1. ckpt' = ckpt
    BY <1>7 DEF AlienCreates
  <2>2. PICK a \in FirstUsable .. job.lastUsable : \E b \in a .. job.lastUsable :
          /\ alien' = alien \cup (a .. b)
          /\ disk' = [s \in LBA |-> IF s \in a .. b THEN Alien ELSE disk[s]]
          /\ media' = [s \in LBA |-> IF s \in a .. b THEN Alien ELSE media[s]]
    BY <1>7 DEF AlienCreates
  <2>3. PICK b \in a .. job.lastUsable :
          /\ alien' = alien \cup (a .. b)
          /\ disk' = [s \in LBA |-> IF s \in a .. b THEN Alien ELSE disk[s]]
          /\ media' = [s \in LBA |-> IF s \in a .. b THEN Alien ELSE media[s]]
    BY <2>2
  <2>4. \A s \in LBA : s \in alien' \/ (disk'[s] = disk[s] /\ media'[s] = media[s])
    BY <2>3
  <2>5. \A i \in DataMembers : \A k \in 0 .. (job.moves[i].len - 1) :
          i = ResumeAt.cur /\ ~RelocationOverlaps(job.moves[i])
            => job.moves[i].first + k \in LBA
    BY <1>1, SourceFacts
  <2> QED BY <1>1, <1>2, <2>1, <2>3, <2>4, <2>5, SourceStays
<1>8. CASE AlienRetypes
  <2>1. UNCHANGED <<alien, ckpt>>
    BY <1>8 DEF AlienRetypes
  <2>2. PICK n \in Members :
          /\ entry[n].swap
          /\ LET taken == entry[n].first .. entry[n].last
             IN /\ disk' = [s \in LBA |-> IF s \in taken THEN Alien ELSE disk[s]]
                /\ media' = [s \in LBA |-> IF s \in taken THEN Alien ELSE media[s]]
    BY <1>8 DEF AlienRetypes
  <2>3. entry[n].first .. entry[n].last \subseteq Reach(n) /\ job.moves[n].swap
    BY <1>1, <2>2, ExtentInReach DEF Positions, Standing
  <2>4. ASSUME NEW i \in DataMembers, NEW k \in 0 .. (job.moves[i].len - 1),
               i = ResumeAt.cur, ~RelocationOverlaps(job.moves[i])
        PROVE  /\ job.moves[i].first + k \in LBA
               /\ job.moves[i].first + k \notin entry[n].first .. entry[n].last
    <3>1. job.moves[i].first + k \in LBA /\ job.moves[i].first + k \in Reach(i) /\ i \in Members
      BY <1>1, <2>4, SourceFacts
    <3>2. i # n
      BY <2>3 DEF DataMembers
    <3>3. Disjoint(Reach(i), Reach(n))
      BY <1>1, <3>1, <3>2, ReachApart
    <3> QED BY <2>3, <3>1, <3>3 DEF Disjoint
  <2> QED BY <1>1, <1>2, <2>1, <2>2, <2>4, SourceStays
<1>9. CASE SkipUnmoved \/ Advance
  <2>1. NextEntry /\ ckpt # NoCkpt /\ UNCHANGED <<disk, media, alien>>
    BY <1>1, <1>9 DEF SkipUnmoved, Advance, Phase, InRun
  <2> QED BY <1>1, <2>1, SourceTakenUp
<1>10. CASE Execute \/ SaveProgress \/ RecreateSwapFails
  <2>1. UNCHANGED <<disk, media, alien>>
    BY <1>10 DEF Execute, SaveProgress, RecreateSwapFails, inRun
  <2>2. ResumeAt'.cur = ResumeAt.cur
    <3>1. CASE ckpt' = ckpt
      BY <1>2, <3>1
    <3>2. CASE Execute /\ ckpt = NoCkpt
      <4>1. ckpt' = [cur |-> 1, done |-> 0, chunk |-> req] /\ outcome # "done"
        BY <1>1, <3>2 DEF Execute, Phase
      <4> QED BY <3>2, <4>1 DEF ResumeAt, NoCkpt
    <3>3. CASE SaveProgress \/ RecreateSwapFails
      <4>1. CASE SaveProgress
        BY <1>1, <4>1, CkptMoves, ResumeAtFacts DEF SaveProgress, Phase, InRun, ResumeAt, NoCkpt
      <4>2. CASE RecreateSwapFails
        <5>1. ckpt # NoCkpt /\ ckpt.cur \in Members /\ ckpt'.cur = ckpt.cur
          BY <1>1, <4>2, CkptMoves DEF RecreateSwapFails, Phase, InRun
        <5>2. ckpt'.cur # NoCkpt.cur
          BY <1>1, <5>1, ResumeAtFacts DEF NoCkpt
        <5>3. ckpt' # NoCkpt
          BY <5>2
        <5> QED BY <5>1, <5>3 DEF ResumeAt
      <4> QED BY <3>3, <4>1, <4>2
    <3> QED BY <1>10, <3>1, <3>2, <3>3 DEF Execute
  <2> QED BY <1>1, <2>1, <2>2, SourceStays
<1>11. CASE Finish
  <2>1. UNCHANGED <<disk, media, alien>>
    BY <1>11 DEF Finish
  <2>2. CASE ckpt' = ckpt
    BY <1>3, <2>1, <2>2
  <2>3. CASE ckpt' # ckpt
    <3>1. ckpt' = NoCkpt /\ outcome' = "done"
      BY <1>11, <2>3 DEF Finish
    <3>2. ResumeAt'.cur = Len(job.moves) + 1 /\ ResumeAt'.cur \notin Members
      BY <1>1, <3>1, ResumeAtFacts DEF ResumeAt, NoCkpt
    <3>3. DataMembers' = DataMembers
      BY JobFixed DEF DataMembers
    <3> QED BY <3>2, <3>3 DEF SourceKept, SourceHeld, DataMembers
  <2> QED BY <2>2, <2>3
<1>12. CASE UNCHANGED vars
  BY <1>3, <1>12 DEF vars
<1>13. ASSUME NEW c \in Chunks, Prepare(c) \/ PrepareRefuses(c) PROVE SourceKept'
  BY <1>3, <1>13 DEF Prepare, PrepareRefuses, onDisk
<1>14. CASE ExecuteRefuses \/ BeginCopy \/ SyncData \/ CommitEntry \/ SwapTypeGone \/ CommitSwap
  BY <1>3, <1>14 DEF ExecuteRefuses, BeginCopy, SyncData, CommitEntry, SwapTypeGone, CommitSwap,
     onDisk
<1>15. CASE GrowTarget \/ GrowFsFails \/ FinishCannotRemove \/ Kill \/ AlienShrinks \/ AlienExtends
  BY <1>3, <1>15 DEF GrowTarget, GrowFsFails, FinishCannotRemove, Kill, Dies, AlienShrinks,
     AlienExtends, onDisk
<1> QED
  BY <1>4, <1>5, <1>6, <1>7, <1>8, <1>9, <1>10, <1>11, <1>12, <1>13, <1>14, <1>15
     DEF Next, Command, Run, CopyEntry, MoveSwap, Grow, Edit

(* What the table describes holds its content, with no help from the       *)
(* checkpoint, but for the one entry in turn when it overlaps itself.      *)
THEOREM TableIsTrue == Spec => []TableTellsTheTruth
<1>1. Init => SourceKept
  <2> SUFFICES ASSUME Init PROVE SourceKept
    OBVIOUS
  <2>1. TypeOK /\ Phase /\ disk = [s \in LBA |-> s] /\ media = [s \in LBA |-> s]
    BY InitTypes DEF Init
  <2>2. \A i \in DataMembers : \A k \in 0 .. (job.moves[i].len - 1) : job.moves[i].first + k \in LBA
    BY <2>1, LocationFacts DEF DataMembers
  <2> QED BY <2>1, <2>2 DEF SourceKept, SourceHeld, Holds, SameData
<1>2. ASSUME IInv, SourceKept PROVE TableTellsTheTruth
  <2>1. TypeOK /\ Phase /\ Positions /\ Intact(media)
    BY <1>2 DEF IInv, TableInv, ContentInv
  <2>2. ASSUME NEW i \in DataMembers, ~(RelocationOverlaps(job.moves[i]) /\ i = ResumeAt.cur),
               NEW k \in 0 .. (job.moves[i].len - 1)
        PROVE  Holds(media, entry[i].first + k, i, k)
    <3> DEFINE m == job.moves[i]
    <3>1. i \in Members /\ Standing(i) /\ ~m.swap /\ i \in Nat /\ ResumeAt.cur \in Nat
      BY <2>1, ResumeAtFacts DEF DataMembers, Positions
    <3>2. Holds(media, Location(i, k), i, k)
      BY <2>1 DEF Intact
    <3>3. CASE i < ResumeAt.cur
      <4>1. entry[i].first = NewFirst(m) /\ Location(i, k) = NewFirst(m) + k
        BY <3>1, <3>3 DEF Standing, Location, Copied
      <4> QED BY <3>2, <4>1
    <3>4. CASE i > ResumeAt.cur
      <4>1. entry[i].first = m.first /\ Location(i, k) = m.first + k
        BY <3>1, <3>4 DEF Standing, Location, Copied
      <4> QED BY <3>2, <4>1
    <3>5. CASE i = ResumeAt.cur /\ entry[i].first = m.first
      BY <1>2, <2>2, <3>5 DEF SourceKept, SourceHeld
    <3>6. CASE i = ResumeAt.cur /\ entry[i].first # m.first
      <4>1. AllLeft(i) = 0 /\ entry[i].first = NewFirst(m)
        BY <3>1, <3>6 DEF Standing
      <4>2. k >= 0
        BY <2>1, <3>1, MoveFacts
      <4>3. Location(i, k) = NewFirst(m) + k
        BY <3>6, <4>1, <4>2 DEF Location, Copied, AllLeft
      <4> QED BY <3>2, <4>1, <4>3
    <3> QED BY <3>1, <3>3, <3>4, <3>5, <3>6
  <2> QED BY <2>2 DEF TableTellsTheTruth
<1>3. IInv /\ SourceKept /\ [Next]_vars => SourceKept'
  BY SourceStep
<1>4. IInv /\ SourceKept => TableTellsTheTruth
  BY <1>2
<1> QED
  BY <1>1, <1>3, <1>4, IInvIsInvariant, PTL DEF Spec

-----------------------------------------------------------------------------
(* What a finished job owes nobody.                                        *)

Both(s, v) == disk[s] = v /\ media[s] = v
Settled(i) == i < ResumeAt.cur \/ (i = ResumeAt.cur /\ pc = "advance")
IsPatched(i) ==
  LET m == job.moves[i]
  IN m.part \in job.ntfs /\ m.delta # 0 /\ ~m.swap /\ Settled(i)
       => Both(NewFirst(m), Patched(m.first))

(* The header of a swap area that is still one: at the place its entry has *)
(* when its turn is over or not yet come; in its turn at the old place or  *)
(* at the new one, or the old place is somebody else's, in a table no run  *)
(* accepts.                                                                *)
HeaderKept(i) ==
  LET m == job.moves[i]
      placed == entry[i].first = NewFirst(m)
  IN entry[i].swap =>
       /\ Settled(i) => Both(NewFirst(m), m.first)
       /\ i > ResumeAt.cur => Both(m.first, m.first)
       /\ i = ResumeAt.cur =>
            \/ Both(m.first, m.first)
            \/ placed /\ (Both(NewFirst(m), m.first) \/ m.first \in alien)

Grown == target.last = GrowTo /\ (~job.noFs => fsEnd = GrowTo)
MarksKept ==
  \A i \in Members : entry[i].first <= entry[i].last /\ IsPatched(i) /\ HeaderKept(i)
JobDone ==
  /\ pc = "finish" /\ owed = {} => Grown
  /\ outcome = "done" =>
       /\ Grown
       /\ \A i \in Members : At(entry[i], NewFirst(job.moves[i]), job.moves[i].len)

(* A table a run accepts has the place a member leaves in nobody's hands.  *)
LEMMA OldPlaceFree ==
  ASSUME TableInv, OthersKept, InRun, ckpt.cur \in Members, Current.delta # 0
  PROVE  Current.first \notin alien
<1> DEFINE f == Current.first
<1>1. /\ TypeOK /\ Phase /\ Positions /\ Clear /\ Ready(Table) /\ job \in Jobs
  BY DEF TableInv, RunIsReady, TypeOK
<1>2. /\ f \in Nat /\ Current.len \in Nat \ {0} /\ f \in Source(Current)
      /\ job.target.last < f /\ job.target.last \in Nat
  <2>1. /\ f \in Nat /\ Current.len \in Nat \ {0}
    BY <1>1, MoveFacts DEF Current
  <2>2. f \in Source(Current)
    BY <2>1 DEF Source, Extent
  <2>3. job.target.last < f /\ job.target.last \in Nat
    BY <1>1, JobFacts DEF Current, Entries
  <2> QED BY <2>1, <2>2, <2>3
<1>3. f <= GrowTo \/ \E k \in Members : f \in Target(job.moves[k])
  <2>1. LeavesNoGap(job.moves, job.lastUsable)
    BY <1>1, RelocationAssumption DEF JobOK, Relocatable
  <2> QED BY <1>2, <2>1 DEF LeavesNoGap, Members, Current, GrowTo
<1>4. CASE \E k \in Members : f \in Target(job.moves[k])
  BY <1>1, <1>4 DEF Ready, Table, Disjoint
<1>5. CASE f <= GrowTo
  <2>1. /\ target.first \in Nat /\ target.last \in Nat /\ target.first = job.target.first
        /\ job.target.first <= job.target.last /\ job.target.first \in Nat /\ GrowTo \in Nat
    BY <1>1, JobFacts, RelocationAssumption DEF OthersKept, TypeOK, Entries, JobOK, Relocatable
  <2>2. f \in target.first .. target.last \/ f \in (target.last + 1) .. GrowTo
    BY <1>2, <1>5, <2>1
  <2>3. Disjoint(alien, target.first .. target.last)
        /\ Disjoint((target.last + 1) .. GrowTo, alien)
    BY <1>1 DEF Clear, Ready, Table
  <2> QED BY <2>2, <2>3 DEF Disjoint
<1> QED BY <1>3, <1>4, <1>5

(* The two sectors the marks are about.                                    *)
LEMMA MarkFacts ==
  ASSUME TableInv, NEW i \in Members
  PROVE  LET m == job.moves[i] IN
         /\ m.first \in LBA /\ NewFirst(m) \in LBA
         /\ i >= ResumeAt.cur => m.first \in Reach(i)
         /\ i <= ResumeAt.cur => NewFirst(m) \in Reach(i)
         /\ i \in Nat /\ ResumeAt.cur \in Nat
         /\ m.delta = 0 => NewFirst(m) = m.first
         /\ m.first \in Nat /\ NewFirst(m) \in Nat /\ m.len \in Nat \ {0}
<1>1. TypeOK /\ Phase
  BY DEF TableInv
<1>2. /\ job.moves[i].first \in Nat /\ job.moves[i].len \in Nat \ {0} /\ DiskSize \in Nat
      /\ job.moves[i].delta \in Nat /\ NewFirst(job.moves[i]) \in Nat
      /\ NewFirst(job.moves[i]) = job.moves[i].first + job.moves[i].delta
      /\ NewFirst(job.moves[i]) + job.moves[i].len - 1 < DiskSize
  BY <1>1, MoveFacts
<1>3. i \in Nat /\ ResumeAt.cur \in Nat
  BY <1>1, ResumeAtFacts
<1>4. job.moves[i].first \in Source(job.moves[i])
      /\ NewFirst(job.moves[i]) \in Target(job.moves[i])
  BY <1>2 DEF Source, Target, Extent
<1>5. job.moves[i].first \in LBA /\ NewFirst(job.moves[i]) \in LBA
  BY <1>2 DEF LBA
<1> QED BY <1>2, <1>3, <1>4, <1>5 DEF Reach

(* What a step may do to a sector in a member's reach, unless it is the    *)
(* step that writes the member: leave or copy it, give it to a third party *)
(* that found it free, or take the swap area from its owner.               *)
Carried(s) == disk'[s] \in {disk[s], media[s]} /\ media'[s] \in {disk[s], media[s], disk'[s]}
Takes(i) == AlienRetypes /\ entry[i].swap /\ ~entry'[i].swap
LEMMA ReachStep ==
  ASSUME TableInv, OthersKept, [Next]_vars, NEW i \in Members, NEW s \in Reach(i), s \in LBA,
         i = ckpt.cur => ~(CopyChunk \/ FixHiddenSectors \/ RecreateSwap)
  PROVE  \/ Carried(s)
         \/ AlienCreates /\ s \in alien' /\ s \notin Occupied
         \/ Takes(i)
<1>1. /\ TypeOK /\ Phase /\ Positions
  BY DEF TableInv
<1>2. ASSUME disk' = disk, media' = media \/ media' = disk PROVE Carried(s)
  BY <1>2 DEF Carried
<1>3. CASE CopyChunk \/ FixHiddenSectors \/ RecreateSwap
  <2>1. /\ ckpt # NoCkpt /\ ckpt.cur \in Members /\ i # ckpt.cur /\ ckpt.cur <= ResumeAt.cur
    BY <1>1, <1>3, ResumeAtFacts DEF CopyChunk, FixHiddenSectors, RecreateSwap, Phase, InRun
  <2>2. s \notin Target(Current)
    <3>1. Target(Current) \subseteq Reach(ckpt.cur)
      BY <2>1 DEF Reach, Current
    <3>2. Disjoint(Reach(i), Reach(ckpt.cur))
      BY <1>1, <2>1, ReachApart
    <3> QED BY <3>1, <3>2 DEF Disjoint
  <2>3. /\ Current.len \in Nat \ {0} /\ NewFirst(Current) \in Nat
    BY <1>1, <2>1, CurrentFacts
  <2>4. CASE CopyChunk
    <3> DEFINE written ==
                 {NewFirst(Current) + k : k \in ChunkOffsets(Current, ckpt.chunk, next)}
    <3>1. disk' = [t \in LBA |-> IF t \in written THEN disk[t - Current.delta] ELSE disk[t]]
          /\ media' = media
      BY <2>4 DEF CopyChunk
    <3>2. written \subseteq Target(Current)
      <4>1. /\ Left(Current, ckpt.chunk, next) \in 0 .. Current.len
            /\ Left(Current, ckpt.chunk, next + 1) \in 0 .. Current.len
        BY <1>1, <2>4, CopyFacts DEF CopyChunk
      <4> QED BY <2>3, <4>1 DEF ChunkOffsets, Target, Extent
    <3>3. s \notin written
      BY <2>2, <3>2
    <3> HIDE DEF written
    <3> QED BY <3>1, <3>3 DEF Carried
  <2>5. CASE FixHiddenSectors \/ RecreateSwap
    <3>1. NewFirst(Current) \in Target(Current)
      BY <2>3 DEF Target, Extent
    <3>2. s # NewFirst(Current)
      BY <2>2, <3>1
    <3>3. media' = disk' /\ disk'[s] = disk[s]
      BY <1>1, <2>5, <3>2 DEF FixHiddenSectors, RecreateSwap, TypeOK
    <3> QED BY <3>3 DEF Carried
  <2> QED BY <1>3, <2>4, <2>5
<1>4. CASE GrowFs
  <2>1. /\ media' = disk' /\ ckpt # NoCkpt /\ Finished /\ target.last = GrowTo
        /\ disk' = [t \in LBA |-> IF t \in (fsEnd + 1) .. target.last THEN FsData ELSE disk[t]]
    BY <1>1, <1>4 DEF GrowFs, Phase, InRun
  <2>2. s \in Target(job.moves[i])
    <3>1. i < ResumeAt.cur /\ i \in Nat /\ ResumeAt.cur \in Nat
      BY <1>1, <2>1, ResumeAtFacts DEF Finished
    <3>2. ~(i >= ResumeAt.cur)
      BY <3>1
    <3> QED BY <3>2 DEF Reach
  <2>3. /\ GrowTo < NewFirst(job.moves[i]) /\ GrowTo \in Nat /\ NewFirst(job.moves[i]) \in Nat
        /\ job.moves[i].len \in Nat
    BY <1>1, MoveFacts
  <2>4. s \notin (fsEnd + 1) .. target.last
    BY <1>1, <2>1, <2>2, <2>3 DEF Target, Extent, TypeOK
  <2>5. disk'[s] = disk[s]
    BY <2>1, <2>4
  <2> QED BY <2>1, <2>5 DEF Carried
<1>5. CASE PowerLoss
  <2>1. disk' = media'
    BY <1>5 DEF PowerLoss
  <2>2. PICK kept \in SUBSET Dirty :
          media' = [t \in LBA |-> IF t \in kept THEN disk[t] ELSE media[t]]
    BY <1>5 DEF PowerLoss
  <2>3. media'[s] \in {disk[s], media[s]}
    BY <2>2
  <2> QED BY <2>1, <2>3 DEF Carried
<1>6. CASE AlienCreates
  <2>1. PICK a \in FirstUsable .. job.lastUsable : \E b \in a .. job.lastUsable :
          /\ Disjoint(a .. b, Occupied) /\ alien' = alien \cup (a .. b)
          /\ disk' = [t \in LBA |-> IF t \in a .. b THEN Alien ELSE disk[t]]
          /\ media' = [t \in LBA |-> IF t \in a .. b THEN Alien ELSE media[t]]
    BY <1>6 DEF AlienCreates
  <2>2. PICK b \in a .. job.lastUsable :
          /\ Disjoint(a .. b, Occupied) /\ alien' = alien \cup (a .. b)
          /\ disk' = [t \in LBA |-> IF t \in a .. b THEN Alien ELSE disk[t]]
          /\ media' = [t \in LBA |-> IF t \in a .. b THEN Alien ELSE media[t]]
    BY <2>1
  <2> DEFINE new == a .. b
  <2>3. /\ Disjoint(new, Occupied) /\ alien' = alien \cup new
        /\ disk' = [t \in LBA |-> IF t \in new THEN Alien ELSE disk[t]]
        /\ media' = [t \in LBA |-> IF t \in new THEN Alien ELSE media[t]]
    BY <2>2
  <2> HIDE DEF new
  <2>4. CASE s \in new
    BY <1>6, <2>3, <2>4 DEF Disjoint
  <2>5. CASE s \notin new
    BY <2>3, <2>5 DEF Carried
  <2> QED BY <2>4, <2>5
<1>7. CASE AlienRetypes
  <2>1. PICK n \in Members :
          /\ entry[n].swap /\ entry' = [entry EXCEPT ![n].swap = FALSE]
          /\ LET taken == entry[n].first .. entry[n].last
             IN /\ disk' = [t \in LBA |-> IF t \in taken THEN Alien ELSE disk[t]]
                /\ media' = [t \in LBA |-> IF t \in taken THEN Alien ELSE media[t]]
    BY <1>7 DEF AlienRetypes
  <2>2. CASE i = n
    BY <1>1, <1>7, <2>1, <2>2 DEF Takes, TypeOK, Entries
  <2>3. CASE i # n
    <3> DEFINE taken == entry[n].first .. entry[n].last
    <3>1. taken \subseteq Reach(n) /\ Disjoint(Reach(i), Reach(n))
      BY <1>1, <2>3, ExtentInReach, ReachApart DEF Positions
    <3>2. s \notin taken
      BY <3>1 DEF Disjoint
    <3>3. /\ disk' = [t \in LBA |-> IF t \in taken THEN Alien ELSE disk[t]]
          /\ media' = [t \in LBA |-> IF t \in taken THEN Alien ELSE media[t]]
      BY <2>1
    <3> HIDE DEF taken
    <3> QED BY <3>2, <3>3 DEF Carried
  <2> QED BY <2>2, <2>3
<1>8. CASE UNCHANGED vars
  BY <1>2, <1>8 DEF vars
<1>9. ASSUME NEW c \in Chunks, Prepare(c) \/ PrepareRefuses(c) PROVE Carried(s)
  BY <1>2, <1>9 DEF Prepare, PrepareRefuses, onDisk
<1>10. CASE Execute \/ ExecuteRefuses \/ SkipUnmoved \/ Advance \/ BeginCopy \/ SyncData
            \/ SaveProgress \/ CommitEntry \/ SwapTypeGone \/ CommitSwap \/ RecreateSwapFails
  BY <1>2, <1>10 DEF Execute, ExecuteRefuses, SkipUnmoved, Advance, BeginCopy, SyncData,
     SaveProgress, CommitEntry, SwapTypeGone, CommitSwap, RecreateSwapFails, onDisk
<1>11. CASE GrowTarget \/ GrowFsFails \/ Finish \/ FinishCannotRemove \/ Kill \/ AlienShrinks
            \/ AlienExtends
  BY <1>2, <1>11 DEF GrowTarget, GrowFsFails, Finish, FinishCannotRemove, Kill, Dies,
     AlienShrinks, AlienExtends, onDisk
<1> QED
  BY <1>3, <1>4, <1>5, <1>6, <1>7, <1>8, <1>9, <1>10, <1>11
     DEF Next, Command, Run, CopyEntry, MoveSwap, Grow, Edit

(* What a step may do to an entry.                                         *)
LEMMA EntryStep ==
  ASSUME TypeOK, Phase, [Next]_vars, NEW i \in Members, entry[i].first <= entry[i].last
  PROVE  /\ entry'[i].first <= entry'[i].last
         /\ entry'[i].swap => entry[i].swap
         /\ entry'[i].first \in {entry[i].first, NewFirst(job.moves[i])}
<1>1. entry[i].first \in Nat /\ entry[i].last \in Nat /\ entry[i] \in Entries
  BY DEF TypeOK, Entries
<1>2. ASSUME entry' = entry
      PROVE  /\ entry'[i].first <= entry'[i].last
             /\ entry'[i].swap => entry[i].swap
             /\ entry'[i].first \in {entry[i].first, NewFirst(job.moves[i])}
  BY <1>2
<1>3. CASE CommitEntry \/ CommitSwap
  <2>1. PlaceCurrent /\ ckpt.cur \in Members
    BY <1>3, ResumeAtFacts DEF CommitEntry, CommitSwap, Phase, InRun, Finished
  <2>2. CASE i = ckpt.cur
    <3>1. /\ entry'[i].first = NewFirst(Current)
          /\ entry'[i].last = NewFirst(Current) + Current.len - 1
          /\ entry'[i].swap = entry[i].swap
      BY <2>1, <2>2, <1>1 DEF PlaceCurrent, TypeOK, Entries
    <3>2. NewFirst(Current) \in Nat /\ Current.len \in Nat \ {0}
      BY <2>1, CurrentFacts
    <3>3. NewFirst(Current) <= NewFirst(Current) + Current.len - 1
      BY <3>2
    <3> QED BY <2>2, <3>1, <3>3 DEF Current
  <2>3. CASE i # ckpt.cur
    <3>1. entry'[i] = entry[i]
      BY <2>1, <2>3 DEF PlaceCurrent, TypeOK
    <3> QED BY <3>1
  <2> QED BY <2>2, <2>3
<1>4. CASE AlienRetypes
  <2>1. PICK n \in Members : entry' = [entry EXCEPT ![n].swap = FALSE]
    BY <1>4 DEF AlienRetypes
  <2>2. /\ entry'[i].first = entry[i].first /\ entry'[i].last = entry[i].last
        /\ entry'[i].swap => entry[i].swap
    BY <1>1, <2>1 DEF TypeOK, Entries
  <2> QED BY <2>2
<1>5. CASE AlienShrinks
  <2>1. PICK n \in Members : /\ entry[n].first < entry[n].last
                             /\ entry' = [entry EXCEPT ![n].last = @ - 1]
    BY <1>5 DEF AlienShrinks
  <2>2. /\ entry'[i].first = entry[i].first /\ entry'[i].swap = entry[i].swap
        /\ entry'[i].last = IF i = n THEN entry[i].last - 1 ELSE entry[i].last
    BY <1>1, <2>1 DEF TypeOK, Entries
  <2>3. entry'[i].first <= entry'[i].last
    BY <1>1, <2>1, <2>2
  <2> QED BY <2>2, <2>3
<1>6. CASE UNCHANGED vars
  BY <1>2, <1>6 DEF vars
<1>7. ASSUME NEW c \in Chunks, Prepare(c) \/ PrepareRefuses(c) PROVE entry' = entry
  BY <1>7 DEF Prepare, PrepareRefuses, onDisk
<1>8. CASE Execute \/ ExecuteRefuses \/ SkipUnmoved \/ Advance \/ BeginCopy \/ CopyChunk
           \/ SyncData \/ SaveProgress \/ FixHiddenSectors \/ SwapTypeGone \/ RecreateSwap
           \/ RecreateSwapFails
  BY <1>2, <1>8 DEF Execute, ExecuteRefuses, SkipUnmoved, Advance, BeginCopy, CopyChunk, SyncData,
     SaveProgress, FixHiddenSectors, SwapTypeGone, RecreateSwap, RecreateSwapFails, onDisk
<1>9. CASE GrowTarget \/ GrowFs \/ GrowFsFails \/ Finish \/ FinishCannotRemove \/ Kill
           \/ PowerLoss \/ AlienCreates \/ AlienExtends
  BY <1>2, <1>9 DEF GrowTarget, GrowFs, GrowFsFails, Finish, FinishCannotRemove, Kill,
     PowerLoss, Dies, AlienCreates, AlienExtends, onDisk
<1> QED
  BY <1>2, <1>3, <1>4, <1>5, <1>6, <1>7, <1>8, <1>9
     DEF Next, Command, Run, CopyEntry, MoveSwap, Grow, Edit

(* The job moves on to its next entry in two steps only.                   *)
LEMMA TurnStep ==
  ASSUME TableInv, [Next]_vars
  PROVE  \/ ResumeAt'.cur = ResumeAt.cur
         \/ /\ SkipUnmoved \/ Advance
            /\ ckpt # NoCkpt /\ ResumeAt = ckpt /\ ResumeAt'.cur = ckpt.cur + 1
<1>1. TypeOK /\ Phase /\ job' = job
  BY JobFixed DEF TableInv
<1>2. CASE ckpt' = ckpt
  BY <1>1, <1>2, ResumeAtFixed
<1>3. CASE SkipUnmoved \/ Advance
  <2>1. ckpt # NoCkpt /\ NextEntry
    BY <1>1, <1>3 DEF SkipUnmoved, Advance, Phase, InRun
  <2>2. ckpt' # NoCkpt /\ ckpt'.cur = ckpt.cur + 1
    BY <1>1, <2>1, CkptMoves
  <2> QED BY <1>3, <2>1, <2>2 DEF ResumeAt
<1>4. CASE Execute /\ ckpt = NoCkpt
  <2>1. ckpt' = [cur |-> 1, done |-> 0, chunk |-> req] /\ outcome # "done"
    BY <1>1, <1>4 DEF Execute, Phase
  <2> QED BY <1>4, <2>1 DEF ResumeAt, NoCkpt
<1>5. CASE SaveProgress \/ RecreateSwapFails
  <2>1. ckpt # NoCkpt /\ ckpt.cur \in Members /\ ckpt'.cur = ckpt.cur
    BY <1>1, <1>5, CkptMoves DEF SaveProgress, RecreateSwapFails, Phase, InRun
  <2>2. ckpt'.cur # NoCkpt.cur
    BY <1>1, <2>1, ResumeAtFacts DEF NoCkpt
  <2>3. ckpt' # NoCkpt
    BY <2>2
  <2> QED BY <2>1, <2>3 DEF ResumeAt
<1>6. CASE Finish /\ ckpt' # ckpt
  <2>1. ckpt' = NoCkpt /\ outcome' = "done" /\ ckpt # NoCkpt /\ Finished
    BY <1>1, <1>6 DEF Finish, Phase, InRun
  <2>2. ckpt.cur \in 1 .. (Len(job.moves) + 1) /\ Len(job.moves) \in Nat
    BY <1>1, <2>1, ResumeAtFacts DEF Phase
  <2>3. ckpt.cur = Len(job.moves) + 1
    BY <2>1, <2>2 DEF Finished
  <2>4. ResumeAt'.cur = Len(job.moves) + 1
    BY <1>1, <2>1 DEF ResumeAt, NoCkpt
  <2> QED BY <2>1, <2>3, <2>4 DEF ResumeAt
<1> QED
  BY <1>2, <1>3, <1>4, <1>5, <1>6
     DEF Next, Command, Run, CopyEntry, MoveSwap, Grow, Edit, vars, Prepare, PrepareRefuses,
     Execute, ExecuteRefuses, BeginCopy, CopyChunk, SyncData, CommitEntry, FixHiddenSectors,
     SwapTypeGone, CommitSwap, RecreateSwap, GrowTarget, GrowFs, GrowFsFails, Finish,
     FinishCannotRemove, Kill, PowerLoss, Dies, AlienCreates, AlienRetypes, AlienShrinks,
     AlienExtends, onDisk

(* Where a member's turn is over but for the checkpoint.                   *)
LEMMA AdvanceEntered ==
  ASSUME [Next]_vars, pc' = "advance"
  PROVE  FixHiddenSectors \/ RecreateSwap \/ UNCHANGED vars
BY DEF Next, Command, Run, CopyEntry, MoveSwap, Grow, Edit, Prepare, PrepareRefuses, StartsRun,
   Execute, ExecuteRefuses, SkipUnmoved, BeginCopy, CopyChunk, SyncData, SaveProgress,
   CommitEntry, Advance, SwapTypeGone, CommitSwap, RecreateSwapFails, GrowTarget, GrowFs,
   GrowFsFails, Finish, FinishCannotRemove, Kill, PowerLoss, Dies, MayEdit, AlienCreates,
   AlienRetypes, AlienShrinks, AlienExtends, onDisk

(* No step gives up what third parties own.                                *)
LEMMA AlienGrows == ASSUME [Next]_vars PROVE alien \subseteq alien'
BY DEF Next, Command, Run, CopyEntry, MoveSwap, Grow, Edit, vars, Prepare, PrepareRefuses,
   Execute, ExecuteRefuses, SkipUnmoved, BeginCopy, CopyChunk, SyncData, SaveProgress,
   CommitEntry, FixHiddenSectors, Advance, SwapTypeGone, CommitSwap, RecreateSwap,
   RecreateSwapFails, GrowTarget, GrowFs, GrowFsFails, Finish, FinishCannotRemove, Kill,
   PowerLoss, Dies, AlienCreates, AlienRetypes, AlienShrinks, AlienExtends, onDisk

(* The first sector of an entry is nobody else's, now or after an edit.    *)
LEMMA StartIsOwn ==
  ASSUME TableInv, NEW i \in Members, entry[i].first <= entry[i].last
  PROVE  entry[i].first \in Occupied /\ entry[i].first \notin alien
<1>1. entry[i].first \in entry[i].first .. entry[i].last
  BY DEF TableInv, TypeOK, Entries
<1> QED BY <1>1 DEF TableInv, Clear, Disjoint, Occupied

(* A step that does not write the member and does not end its turn.        *)
LEMMA MarksCarried ==
  ASSUME TableInv, OthersKept, MarksKept, [Next]_vars, NEW i \in Members,
         ResumeAt'.cur = ResumeAt.cur, Settled(i)' => Settled(i),
         i = ckpt.cur => ~(CopyChunk \/ FixHiddenSectors \/ RecreateSwap)
  PROVE  IsPatched(i)' /\ HeaderKept(i)'
<1> DEFINE m == job.moves[i]
           h == NewFirst(m)
           After(s, v) == disk'[s] = v /\ media'[s] = v
<1>1. /\ job' = job /\ alien \subseteq alien' /\ TypeOK /\ Phase /\ Standing(i)
      /\ entry[i].first <= entry[i].last /\ IsPatched(i) /\ HeaderKept(i)
  BY JobFixed, AlienGrows DEF TableInv, Positions, MarksKept
<1>2. /\ m.first \in LBA /\ h \in LBA
      /\ i >= ResumeAt.cur => m.first \in Reach(i)
      /\ i <= ResumeAt.cur => h \in Reach(i)
      /\ i \in Nat /\ ResumeAt.cur \in Nat
  BY MarkFacts
<1>3. /\ entry'[i].swap => entry[i].swap
      /\ entry'[i].first \in {entry[i].first, h}
  BY <1>1, EntryStep
<1>4. entry[i].first \in Occupied
  BY <1>1, StartIsOwn
<1>5. ASSUME NEW s \in {m.first, h}, NEW v, Both(s, v), s \in Reach(i),
             ~Takes(i), AlienCreates => s \in Occupied
      PROVE  After(s, v)
  <2>1. Carried(s)
    BY <1>2, <1>5, ReachStep
  <2> QED BY <1>5, <2>1 DEF Both, Carried
<1>6. ASSUME Settled(i), AlienCreates PROVE h \in Occupied
  <2>1. pc # "advance"
    BY <1>6 DEF AlienCreates, MayEdit
  <2>2. entry[i].first = h
    BY <1>1, <1>6, <2>1 DEF Settled, Standing
  <2> QED BY <1>4, <2>2
<1>7. ASSUME Settled(i) PROVE h \in Reach(i)
  BY <1>2, <1>7 DEF Settled
<1> HIDE DEF h, m
<1>8. IsPatched(i)'
  <2> SUFFICES ASSUME m.part \in job.ntfs, m.delta # 0, ~m.swap, Settled(i)'
               PROVE  After(h, Patched(m.first))
    BY <1>1 DEF IsPatched, Both, NewFirst, h, m
  <2>1. Settled(i) /\ ~Takes(i) /\ Both(h, Patched(m.first))
    BY <1>1 DEF IsPatched, Takes, Standing, h, m
  <2> QED BY <1>5, <1>6, <1>7, <2>1
<1>9. HeaderKept(i)'
  <2> SUFFICES ASSUME entry'[i].swap
               PROVE  /\ Settled(i)' => After(h, m.first)
                      /\ i > ResumeAt'.cur => After(m.first, m.first)
                      /\ i = ResumeAt'.cur =>
                           \/ After(m.first, m.first)
                           \/ entry'[i].first = h /\ (After(h, m.first) \/ m.first \in alien')
    BY <1>1 DEF HeaderKept, Both, NewFirst, h, m
  <2>1. /\ entry[i].swap /\ ~Takes(i)
        /\ Settled(i) => Both(h, m.first)
        /\ i > ResumeAt.cur => Both(m.first, m.first)
        /\ i = ResumeAt.cur =>
             \/ Both(m.first, m.first)
             \/ entry[i].first = h /\ (Both(h, m.first) \/ m.first \in alien)
    BY <1>1, <1>3 DEF HeaderKept, Takes, h, m
  <2>2. Settled(i)' => After(h, m.first)
    BY <1>5, <1>6, <1>7, <2>1
  <2>3. ASSUME i > ResumeAt.cur PROVE After(m.first, m.first)
    <3>1. entry[i].first = m.first
      BY <1>1, <2>3 DEF Standing, m
    <3>2. m.first \in Reach(i)
      BY <1>2, <2>3
    <3> QED BY <1>4, <1>5, <2>1, <2>3, <3>1, <3>2
  <2>4. ASSUME i = ResumeAt.cur
        PROVE  \/ After(m.first, m.first)
               \/ entry'[i].first = h /\ (After(h, m.first) \/ m.first \in alien')
    <3>1. m.first \in Reach(i) /\ h \in Reach(i)
      BY <1>2, <2>4
    <3>2. CASE Both(m.first, m.first)
      <4>1. CASE AlienCreates => m.first \in Occupied
        BY <1>5, <2>1, <3>1, <3>2, <4>1
      <4>2. CASE AlienCreates /\ m.first \notin Occupied
        <5>1. Carried(m.first) \/ m.first \in alien'
          BY <1>2, <2>1, <3>1, ReachStep
        <5>2. entry[i].first = h /\ entry'[i].first = h
          BY <1>1, <1>3, <1>4, <4>2 DEF Standing, h, m
        <5>3. CASE Carried(m.first)
          BY <3>2, <5>3 DEF Both, Carried
        <5> QED BY <5>1, <5>2, <5>3
      <4> QED BY <4>1, <4>2
    <3>3. CASE entry[i].first = h /\ Both(h, m.first)
      BY <1>3, <1>4, <1>5, <2>1, <3>1, <3>3
    <3>4. CASE entry[i].first = h /\ m.first \in alien
      BY <1>1, <1>3, <3>4
    <3> QED BY <2>1, <2>4, <3>2, <3>3, <3>4
  <2> QED BY <2>2, <2>3, <2>4
<1> QED BY <1>8, <1>9

(* The boot sector is at its new place, and nobody else is, when it is     *)
(* patched.                                                                *)
LEMMA MarksPatched ==
  ASSUME TableInv, ContentInv, [Next]_vars, FixHiddenSectors, NEW i \in Members, i = ckpt.cur
  PROVE  IsPatched(i)' /\ HeaderKept(i)'
<1> DEFINE m == job.moves[i]
           h == NewFirst(m)
<1>1. /\ job' = job /\ TypeOK /\ Phase /\ Ready(Table) /\ ckpt # NoCkpt /\ ResumeAt = ckpt
      /\ entry' = entry /\ media' = disk' /\ Standing(i) /\ entry[i].first = h
      /\ m.delta # 0 /\ ~m.swap
  BY JobFixed, ResumeAtFacts
     DEF FixHiddenSectors, TableInv, RunIsReady, InRun, Phase, Positions, Current
<1>2. /\ m.first \in Nat /\ m.len \in Nat \ {0} /\ m.delta \in Nat /\ h \in Nat
      /\ h = m.first + m.delta /\ m.first \in LBA /\ h \in LBA
  BY <1>1, MoveFacts, MarkFacts
<1>3. HeaderKept(i)'
  <2>1. ~entry'[i].swap
    BY <1>1 DEF Standing
  <2> QED BY <2>1 DEF HeaderKept
<1>4. SameData(disk[h], m.first)
  <2>1. i \in DataMembers /\ 0 \in 0 .. (m.len - 1)
    BY <1>1, <1>2 DEF DataMembers
  <2>2. AllLeft(i) = 0
    <3>1. entry[i].first # m.first
      <4>1. ASSUME NEW a \in Nat, NEW d \in Nat, d # 0 PROVE a + d # a
        BY <4>1
      <4>2. m.first + m.delta # m.first
        BY <1>1, <1>2, <4>1
      <4> QED BY <1>1, <1>2, <4>2
    <3> QED BY <1>1, <3>1 DEF Standing
  <2>3. Location(i, 0) = h + 0
    BY <1>1, <2>2 DEF Location, Copied, AllLeft
  <2>4. Holds(disk, Location(i, 0), i, 0)
    BY <2>1 DEF ContentInv, Intact
  <2>5. h \notin alien
    <3>1. h \in Target(m)
      BY <1>2 DEF Target, Extent
    <3>2. Disjoint(Target(m), alien)
      BY <1>1 DEF Ready, Table
    <3> QED BY <3>1, <3>2 DEF Disjoint
  <2>6. h + 0 = h /\ m.first + 0 = m.first
    BY <1>2
  <2> QED BY <2>3, <2>4, <2>5, <2>6 DEF Holds
<1>5. Patched(disk[h]) = Patched(m.first)
  <2>1. DiskSize \in Nat
    BY RelocationAssumption
  <2> QED BY <1>2, <1>4, <2>1 DEF SameData, Patched, LBA
<1>6. m.part \in job.ntfs => disk'[h] = Patched(m.first)
  BY <1>1, <1>2, <1>5 DEF FixHiddenSectors, Current, TypeOK
<1>7. IsPatched(i)'
  BY <1>1, <1>6 DEF IsPatched, Both
<1> QED BY <1>3, <1>7

(* mkswap finds the identity at the old place or at the new one.           *)
LEMMA MarksRecreated ==
  ASSUME TableInv, OthersKept, MarksKept, [Next]_vars, RecreateSwap, NEW i \in Members,
         i = ckpt.cur
  PROVE  IsPatched(i)' /\ HeaderKept(i)'
<1> DEFINE m == job.moves[i]
           h == NewFirst(m)
<1>1. /\ job' = job /\ TypeOK /\ Phase /\ InRun /\ ckpt # NoCkpt /\ ResumeAt = ckpt
      /\ entry' = entry /\ media' = disk' /\ entry[i].first = h /\ ckpt' = ckpt
      /\ Current.delta # 0 /\ m.swap
  BY JobFixed, ResumeAtFacts DEF RecreateSwap, TableInv, InRun, Phase, Positions, Current
<1>2. m.first \in LBA /\ h \in LBA /\ i \in Nat
  BY MarkFacts
<1>3. IsPatched(i)'
  BY <1>1 DEF IsPatched
<1>4. ASSUME entry'[i].swap PROVE Both(h, m.first)'
  <2>1. m.first \notin alien
    BY <1>1, OldPlaceFree DEF Current
  <2>2. Both(m.first, m.first) \/ Both(h, m.first)
    BY <1>1, <1>4, <2>1 DEF MarksKept, HeaderKept
  <2>3. SwapIdentity(Current) = m.first
    BY <2>2 DEF SwapIdentity, Both, Current
  <2> QED BY <1>1, <1>2, <2>3 DEF RecreateSwap, Both, Current, TypeOK
<1>5. ResumeAt' = ResumeAt
  BY <1>1, ResumeAtFixed
<1>6. HeaderKept(i)'
  BY <1>1, <1>2, <1>4, <1>5 DEF HeaderKept
<1> QED BY <1>3, <1>6

(* An entry is left behind settled, or where it was all along.             *)
LEMMA MarksAdvanced ==
  ASSUME TableInv, MarksKept, [Next]_vars, SkipUnmoved \/ Advance, ckpt # NoCkpt,
         ResumeAt = ckpt, ResumeAt'.cur = ckpt.cur + 1, NEW i \in Members
  PROVE  IsPatched(i)' /\ HeaderKept(i)'
<1> DEFINE m == job.moves[i]
           h == NewFirst(m)
<1>1. /\ job' = job /\ UNCHANGED <<disk, media, entry, alien>> /\ pc' = "entry"
  BY JobFixed DEF SkipUnmoved, Advance
<1>2. i \in Nat /\ ckpt.cur \in Nat /\ (m.delta = 0 => h = m.first)
  BY MarkFacts
<1>3. IsPatched(i) /\ HeaderKept(i) /\ entry[i].first <= entry[i].last
  BY DEF MarksKept
<1>4. Settled(i)' => Settled(i) \/ (i = ckpt.cur /\ m.delta = 0)
  BY <1>1, <1>2 DEF Settled, SkipUnmoved, Advance, Current
<1>5. IsPatched(i)'
  BY <1>1, <1>3, <1>4 DEF IsPatched, Both
<1>6. ASSUME entry[i].swap, i = ckpt.cur, m.delta = 0 PROVE Both(h, m.first)
  <2>1. entry[i].first \notin alien
    BY <1>3, StartIsOwn
  <2> QED BY <1>2, <1>3, <1>6, <2>1 DEF HeaderKept
<1>7. ASSUME entry[i].swap, i >= ckpt.cur + 1 PROVE Both(m.first, m.first)
  <2>1. i > ResumeAt.cur
    BY <1>2, <1>7
  <2> QED BY <1>3, <1>7, <2>1 DEF HeaderKept
<1>8. HeaderKept(i)'
  <2> SUFFICES ASSUME entry[i].swap
               PROVE  /\ Settled(i)' => Both(h, m.first)
                      /\ i > ckpt.cur + 1 => Both(m.first, m.first)
                      /\ i = ckpt.cur + 1 => Both(m.first, m.first)
    BY <1>1 DEF HeaderKept, Both
  <2>1. Settled(i)' => Both(h, m.first)
    BY <1>3, <1>4, <1>6 DEF HeaderKept
  <2>2. i > ckpt.cur + 1 \/ i = ckpt.cur + 1 => i >= ckpt.cur + 1
    BY <1>2
  <2> QED BY <1>7, <2>1, <2>2
<1> QED BY <1>5, <1>8

(* Every step keeps the marks of every member.                             *)
LEMMA MarksStep == IInv /\ OthersKept /\ MarksKept /\ [Next]_vars => MarksKept'
<1> SUFFICES ASSUME IInv, OthersKept, MarksKept, [Next]_vars PROVE MarksKept'
  OBVIOUS
<1>1. TableInv /\ ContentInv /\ TypeOK /\ Phase /\ Members' = Members
  BY JobFixed DEF IInv, TableInv
<1>2. ASSUME NEW i \in Members PROVE IsPatched(i)' /\ HeaderKept(i)'
  <2>1. CASE /\ SkipUnmoved \/ Advance
             /\ ckpt # NoCkpt /\ ResumeAt = ckpt /\ ResumeAt'.cur = ckpt.cur + 1
    BY <1>1, <2>1, MarksAdvanced
  <2>2. CASE i = ckpt.cur /\ FixHiddenSectors
    BY <1>1, <2>2, MarksPatched
  <2>3. CASE i = ckpt.cur /\ RecreateSwap
    BY <1>1, <2>3, MarksRecreated
  <2>4. CASE i = ckpt.cur /\ CopyChunk
    <3>1. /\ job' = job /\ entry' = entry /\ ckpt' = ckpt /\ ckpt # NoCkpt
          /\ ResumeAt = ckpt /\ ~job.moves[i].swap /\ Standing(i) /\ pc' # "advance"
      BY <1>1, <2>4, JobFixed, ResumeAtFacts
         DEF CopyChunk, TableInv, Positions, Phase, InRun, Current
    <3>2. ~entry'[i].swap
      BY <3>1 DEF Standing
    <3>3. ~Settled(i)'
      <4>1. ResumeAt' = ckpt /\ i \in Nat
        BY <1>1, <3>1, ResumeAtFixed, ResumeAtFacts
      <4> QED BY <2>4, <3>1, <4>1 DEF Settled
    <3> QED BY <3>2, <3>3 DEF IsPatched, HeaderKept
  <2>5. CASE /\ ResumeAt'.cur = ResumeAt.cur
             /\ i = ckpt.cur => ~(CopyChunk \/ FixHiddenSectors \/ RecreateSwap)
    <3>1. Settled(i)' => Settled(i)
      <4> SUFFICES ASSUME i = ResumeAt.cur, pc' = "advance" PROVE pc = "advance"
        BY <2>5 DEF Settled
      <4>1. CASE FixHiddenSectors \/ RecreateSwap
        <5>1. ResumeAt = ckpt
          BY <1>1, <4>1, ResumeAtFacts DEF FixHiddenSectors, RecreateSwap, Phase, InRun
        <5> QED BY <2>5, <4>1, <5>1
      <4>2. CASE UNCHANGED vars
        BY <4>2 DEF vars
      <4> QED BY <4>1, <4>2, AdvanceEntered
    <3> QED BY <1>1, <2>5, <3>1, MarksCarried
  <2> QED BY <1>1, <2>1, <2>2, <2>3, <2>4, <2>5, TurnStep
<1>3. ASSUME NEW i \in Members PROVE entry'[i].first <= entry'[i].last
  BY <1>1, EntryStep DEF MarksKept
<1> QED BY <1>1, <1>2, <1>3 DEF MarksKept

(* Success is reported when the filesystem has grown into the whole room,  *)
(* and every entry is at its place.                                        *)
LEMMA JobDoneStep == TableInv /\ JobDone /\ [Next]_vars => JobDone'
<1> SUFFICES ASSUME TableInv, JobDone, [Next]_vars PROVE JobDone'
  OBVIOUS
<1>1. job' = job /\ Members' = Members /\ GrowTo' = GrowTo /\ TypeOK /\ Phase /\ Positions
  BY JobFixed DEF TableInv, GrowTo
<1>2. ASSUME pc' = "finish", owed' = {} PROVE Grown'
  <2>1. CASE GrowTarget
    BY <1>1, <1>2, <2>1 DEF GrowTarget, Grown, TypeOK, Entries
  <2>2. CASE GrowFs
    BY <1>1, <2>2 DEF GrowFs, Grown, Phase
  <2>3. CASE UNCHANGED vars
    BY <1>1, <1>2, <2>3 DEF vars, JobDone, Grown
  <2>4. GrowTarget \/ GrowFs \/ UNCHANGED vars
    BY <1>2 DEF Next, Command, Run, CopyEntry, MoveSwap, Grow, Edit, Prepare, PrepareRefuses,
       StartsRun, Execute, ExecuteRefuses, SkipUnmoved, BeginCopy, CopyChunk, SyncData,
       SaveProgress, CommitEntry, FixHiddenSectors, Advance, SwapTypeGone, CommitSwap,
       RecreateSwap, RecreateSwapFails, GrowFsFails, Finish, FinishCannotRemove, Kill,
       PowerLoss, Dies, MayEdit, AlienCreates, AlienRetypes, AlienShrinks, AlienExtends, onDisk
  <2> QED BY <2>1, <2>2, <2>3, <2>4
<1>3. ASSUME outcome' = "done"
      PROVE  /\ Grown'
             /\ \A i \in Members : At(entry'[i], NewFirst(job.moves[i]), job.moves[i].len)
  <2>1. CASE Finish
    <3>1. /\ pc = "finish" /\ owed = {} /\ UNCHANGED <<target, fsEnd, entry>> /\ ckpt # NoCkpt
          /\ Finished /\ Ready(Table)
      BY <1>1, <1>3, <2>1 DEF Finish, Phase, InRun, TableInv, RunIsReady
    <3>2. Grown'
      BY <1>1, <3>1 DEF JobDone, Grown
    <3>3. ASSUME NEW i \in Members
          PROVE  At(entry[i], NewFirst(job.moves[i]), job.moves[i].len)
      <4>1. entry[i].first = NewFirst(job.moves[i])
        <5>1. i < ResumeAt.cur
          BY <1>1, <3>1, ResumeAtFacts DEF Finished
        <5> QED BY <1>1, <5>1 DEF Positions, Standing
      <4>2. \/ At(entry[i], job.moves[i].first, job.moves[i].len)
            \/ At(entry[i], NewFirst(job.moves[i]), job.moves[i].len)
        BY <3>1 DEF Ready, Table
      <4> QED BY <4>1, <4>2 DEF At
    <3> QED BY <3>1, <3>2, <3>3
  <2>2. CASE outcome = "done" /\ UNCHANGED <<entry, target, fsEnd>>
    BY <1>1, <2>2 DEF JobDone, Grown
  <2>3. Finish \/ (outcome = "done" /\ UNCHANGED <<entry, target, fsEnd>>)
    <3>1. outcome = "done" => pc = "down" /\ ckpt = NoCkpt
      BY <1>1 DEF Phase
    <3> QED
      BY <1>3, <3>1 DEF Next, Command, Run, CopyEntry, MoveSwap, Grow, Edit, vars, Prepare,
         PrepareRefuses, StartsRun, Execute, ExecuteRefuses, SkipUnmoved, BeginCopy, CopyChunk,
         SyncData, SaveProgress, CommitEntry, FixHiddenSectors, Advance, SwapTypeGone,
         CommitSwap, RecreateSwap, RecreateSwapFails, GrowTarget, GrowFs, GrowFsFails,
         FinishCannotRemove, Kill, PowerLoss, Dies, MayEdit, AlienCreates, AlienRetypes,
         AlienShrinks, AlienExtends, onDisk
  <2> QED BY <2>1, <2>2, <2>3
<1> QED BY <1>1, <1>2, <1>3 DEF JobDone

(* At the beginning nothing has moved and every header is in place.        *)
LEMMA InitMarks == Init => MarksKept /\ JobDone
<1> SUFFICES ASSUME Init PROVE MarksKept /\ JobDone
  OBVIOUS
<1>1. /\ disk = [s \in LBA |-> s] /\ media = disk /\ pc = "down" /\ outcome = "none"
      /\ ckpt = NoCkpt /\ entry = [i \in Members |-> EntryAtSource(job.moves[i])]
  BY DEF Init, Members
<1>2. TableInv
  BY InitTable
<1>3. ResumeAt.cur = 1
  BY <1>1 DEF ResumeAt, NoCkpt
<1>4. ASSUME NEW i \in Members
      PROVE  entry[i].first <= entry[i].last /\ IsPatched(i) /\ HeaderKept(i)
  <2>1. /\ job.moves[i].first \in Nat /\ job.moves[i].len \in Nat \ {0}
        /\ job.moves[i].first \in LBA
    BY <1>2, MarkFacts
  <2>2. entry[i].first = job.moves[i].first
        /\ entry[i].last = job.moves[i].first + job.moves[i].len - 1
    BY <1>1 DEF EntryAtSource
  <2>3. entry[i].first <= entry[i].last
    BY <2>1, <2>2
  <2>4. ~Settled(i)
    <3>1. i >= 1 /\ i \in Nat
      BY <1>2, ResumeAtFacts DEF TableInv
    <3> QED BY <1>1, <1>3, <3>1 DEF Settled
  <2>5. Both(job.moves[i].first, job.moves[i].first)
    BY <1>1, <2>1 DEF Both
  <2> QED BY <2>3, <2>4, <2>5 DEF IsPatched, HeaderKept
<1> QED BY <1>1, <1>4 DEF MarksKept, JobDone

(* A job reported done is done: every member at its place with its mark of *)
(* having moved, swap areas under their old identity, the target and its   *)
(* filesystem grown, no checkpoint left; with crashes, failing tools and   *)
(* third parties between the runs.                                         *)
THEOREM DoneIsTrue == Spec => []DoneMeansDone
<1>1. ASSUME IInv, MarksKept, JobDone, outcome = "done"
      PROVE  DoneMeansDone
  <2>1. ckpt = NoCkpt /\ TypeOK /\ Phase
    BY <1>1 DEF IInv, TableInv, Phase
  <2>2. ASSUME NEW i \in Members PROVE Settled(i)
    <3>1. ResumeAt.cur = Len(job.moves) + 1
      BY <1>1, <2>1 DEF ResumeAt, NoCkpt
    <3> QED BY <2>1, <3>1, ResumeAtFacts DEF Settled
  <2> QED
    BY <1>1, <2>1, <2>2
       DEF DoneMeansDone, JobDone, Grown, MarksKept, IsPatched, HeaderKept, Both
<1>2. IInv /\ MarksKept /\ JobDone => DoneMeansDone
  BY <1>1 DEF DoneMeansDone
<1>3. IInv /\ OthersKept /\ MarksKept /\ JobDone /\ [Next]_vars => MarksKept' /\ JobDone'
  BY MarksStep, JobDoneStep DEF IInv
<1> QED
  BY <1>2, <1>3, InitMarks, IInvIsInvariant, OthersInvariant, PTL DEF Spec

-----------------------------------------------------------------------------
(* The refinement of AtomicRelocation.                                     *)

(* The invariant says that nothing is lost.                                *)
LEMMA NothingLost == (IInv => Lost = {}) /\ (IInv' => Lost' = {})
BY DEF IInv, ContentInv, Intact, Lost

(* Without third parties the table's owner sees the entries, the target's  *)
(* end and the report; everything else of a run is hidden.                 *)
LEMMA Hidden ==
  ASSUME IInv, IInv', [Next]_vars, UNCHANGED <<entry, target>>,
         outcome' = "done" <=> outcome = "done"
  PROVE  UNCHANGED Atomic!vars
<1>1. job' = job
  BY JobFixed DEF IInv, TableInv
<1>2. Lost = {} /\ Lost' = {}
  BY NothingLost
<1>3. Dest' = Dest /\ GrowTo' = GrowTo /\ Starts' = Starts
  BY <1>1 DEF Dest, GrowTo, Starts, Members
<1>4. Reported' = Reported
  BY DEF Reported
<1> QED BY <1>2, <1>3, <1>4 DEF Atomic!vars

(* An entry committed at its target is the abstract move of that entry.    *)
LEMMA PlaceRefines ==
  ASSUME IInv, IInv', [Next]_vars, CommitEntry \/ CommitSwap
  PROVE  Atomic!Next
<1>1. /\ TypeOK /\ Phase /\ Positions /\ job' = job /\ PlaceCurrent
      /\ UNCHANGED <<target, outcome>>
  BY JobFixed DEF IInv, TableInv, CommitEntry, CommitSwap
<1>2. ckpt # NoCkpt /\ ckpt.cur \in Members /\ ResumeAt = ckpt
  BY <1>1, ResumeAtFacts DEF CommitEntry, CommitSwap, Phase, InRun, Finished
<1>3. Lost = {} /\ Lost' = {}
  BY NothingLost
<1>4. Dest' = Dest /\ GrowTo' = GrowTo /\ Reported' = Reported
  BY <1>1 DEF Dest, GrowTo, Reported, Members
<1>5. ASSUME NEW k \in 1 .. (ckpt.cur - 1) PROVE Starts[k] = Dest[k]
  <2>1. k \in Members /\ k < ResumeAt.cur
    BY <1>1, <1>2, ResumeAtFacts
  <2> QED BY <1>1, <2>1 DEF Positions, Standing, Starts, Dest
<1>6. Starts' = [Starts EXCEPT ![ckpt.cur] = Dest[ckpt.cur]]
  <2>1. ASSUME NEW i \in Members
        PROVE  entry'[i].first = IF i = ckpt.cur THEN NewFirst(Current) ELSE entry[i].first
    BY <1>1, <1>2 DEF PlaceCurrent, TypeOK, Entries
  <2> QED BY <1>1, <1>2, <2>1 DEF Starts, Dest, Current, Members
<1>7. Atomic!Move(ckpt.cur)
  BY <1>1, <1>3, <1>4, <1>5, <1>6 DEF Atomic!Move, Atomic!Moved
<1>8. ckpt.cur \in DOMAIN Dest
  BY <1>2 DEF Dest
<1> QED BY <1>7, <1>8 DEF Atomic!Next

(* Growth and the report come after every entry.                           *)
LEMMA AllAtDest ==
  ASSUME TypeOK, Phase, Positions, ckpt # NoCkpt, Finished PROVE Atomic!AllMoved
<1>1. ASSUME NEW i \in Members PROVE Starts[i] = Dest[i]
  <2>1. i < ResumeAt.cur
    BY ResumeAtFacts DEF Finished
  <2> QED BY <2>1 DEF Positions, Standing, Starts, Dest
<1> QED BY <1>1 DEF Atomic!AllMoved, Atomic!Moved, Dest

(* The target's entry grows when every member is out of the way.           *)
LEMMA GrowRefines ==
  ASSUME IInv, IInv', [Next]_vars, GrowTarget
  PROVE  Atomic!Next
<1>1. /\ TypeOK /\ Phase /\ Positions /\ job' = job /\ UNCHANGED <<entry, outcome>>
      /\ Finished /\ ckpt # NoCkpt
  BY JobFixed DEF IInv, TableInv, GrowTarget, Phase, InRun
<1>2. Lost = {} /\ Lost' = {}
  BY NothingLost
<1>3. Dest' = Dest /\ GrowTo' = GrowTo /\ Reported' = Reported /\ Starts' = Starts
  BY <1>1 DEF Dest, GrowTo, Reported, Starts, Members
<1>4. target'.last = GrowTo
  BY <1>1 DEF GrowTarget, TypeOK, Entries
<1> QED BY <1>1, <1>2, <1>3, <1>4, AllAtDest DEF Atomic!Grow, Atomic!Next

(* A run that owes nothing reports the job; one that does is hidden.       *)
LEMMA ReportRefines ==
  ASSUME IInv, IInv', [Next]_vars, Finish
  PROVE  Atomic!Next \/ UNCHANGED Atomic!vars
<1>1. /\ TypeOK /\ Phase /\ Positions /\ job' = job /\ UNCHANGED <<entry, target>>
      /\ Finished /\ ckpt # NoCkpt /\ target.last = GrowTo /\ outcome # "done"
  BY JobFixed DEF IInv, TableInv, Finish, Phase, InRun
<1>2. CASE owed = {}
  <2>1. Lost = {} /\ Lost' = {}
    BY NothingLost
  <2>2. Dest' = Dest /\ GrowTo' = GrowTo /\ Starts' = Starts
    BY <1>1 DEF Dest, GrowTo, Starts, Members
  <2>3. Reported' = TRUE
    BY <1>2 DEF Finish, Reported
  <2> QED BY <1>1, <2>1, <2>2, <2>3, AllAtDest DEF Atomic!Report, Atomic!Next
<1>3. CASE owed # {}
  <2>1. outcome' # "done"
    BY <1>3 DEF Finish
  <2> QED BY <1>1, <2>1, Hidden
<1> QED BY <1>2, <1>3

(* Relocation implements AtomicRelocation: entries move one at a time from *)
(* the right, nothing is lost, growth follows and the report is last.      *)
THEOREM JobIsAtomic ==
  ASSUME MaxEdits = 0
  PROVE  Spec => RelocationIsAtomic
<1>1. Init => Atomic!Init
  <2> SUFFICES ASSUME Init PROVE Atomic!Init
    OBVIOUS
  <2>1. /\ TableInv /\ ContentInv /\ entry = [i \in Members |-> EntryAtSource(job.moves[i])]
        /\ target = job.target /\ outcome = "none"
    BY InitTable, InitContent DEF Init, Members
  <2>2. Lost = {} /\ ~Reported
    BY <2>1, NothingLost DEF IInv, Reported
  <2>3. ASSUME NEW i \in Members PROVE Starts[i] <= Dest[i]
    <3>1. /\ job.moves[i].first \in Nat /\ job.moves[i].delta \in Nat
          /\ NewFirst(job.moves[i]) = job.moves[i].first + job.moves[i].delta
      BY <2>1, MoveFacts DEF TableInv
    <3>2. entry[i].first = job.moves[i].first
      BY <2>1 DEF EntryAtSource
    <3> QED BY <3>1, <3>2 DEF Starts, Dest
  <2>4. target.last <= GrowTo
    BY <2>1, JobFacts DEF TableInv, TypeOK
  <2> QED BY <2>2, <2>3, <2>4 DEF Atomic!Init, Starts, Dest, Reported
<1>2. IInv /\ IInv' /\ [Next]_vars => [Atomic!Next]_(Atomic!vars)
  <2> SUFFICES ASSUME IInv, IInv', [Next]_vars
               PROVE  Atomic!Next \/ UNCHANGED Atomic!vars
    OBVIOUS
  <2>1. ~Edit
    <3>1. used.edit \in 0 .. MaxEdits
      BY DEF IInv, TableInv, TypeOK
    <3>2. ~(used.edit < MaxEdits)
      BY <3>1
    <3> QED BY <3>2 DEF Edit, AlienCreates, AlienRetypes, AlienShrinks, AlienExtends, MayEdit
  <2>2. CASE UNCHANGED <<entry, target>> /\ (outcome' = "done" <=> outcome = "done")
    BY <2>2, Hidden
  <2>3. CASE CommitEntry \/ CommitSwap
    BY <2>3, PlaceRefines
  <2>4. CASE GrowTarget
    BY <2>4, GrowRefines
  <2>5. CASE Finish
    BY <2>5, ReportRefines
  <2>6. outcome = "done" => pc = "down"
    BY DEF IInv, TableInv, Phase
  <2> QED
    BY <2>1, <2>2, <2>3, <2>4, <2>5, <2>6
       DEF Next, Command, Run, CopyEntry, MoveSwap, Grow, vars, Prepare, PrepareRefuses,
       StartsRun, Execute, ExecuteRefuses, SkipUnmoved, BeginCopy, CopyChunk, SyncData,
       SaveProgress, FixHiddenSectors, Advance, SwapTypeGone, RecreateSwap, RecreateSwapFails,
       GrowFs, GrowFsFails, FinishCannotRemove, Kill, PowerLoss, Dies, onDisk
<1> QED BY <1>1, <1>2, IInvIsInvariant, PTL DEF Spec, RelocationIsAtomic, Atomic!Spec
=============================================================================
