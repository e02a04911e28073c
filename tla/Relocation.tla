----------------------------- MODULE Relocation -----------------------------
(***************************************************************************)
(* The relocation job of src/movepart/shift.rs: `apply --grow`, `move` and *)
(* `resize --allow-move` carry the partitions to the right of a target to  *)
(* new positions, commit their entries one by one, and grow the target     *)
(* into the room that leaves.  The job may lose power or be killed between *)
(* any two steps, a tool may fail, a third party may edit the table while  *)
(* no run is active; the command is then run again and resumes from the    *)
(* checkpoint file.                                                        *)
(*                                                                         *)
(* Simplifications.                                                        *)
(*  - A GPT commit is atomic here; module GptCommit shows why it may be    *)
(*    taken so.  The undo journal's barrier is in module UndoJournal.      *)
(*  - One sector is written atomically, a chunk is not: a power loss keeps *)
(*    any subset of the sectors written since the last sync.               *)
(*  - A swap area has its header in its first sector.  mkswap and the      *)
(*    filesystem tools sync what they write before they return.            *)
(*  - Third parties do not touch the disk while a run executes: the lock   *)
(*    does not stop them and no check of the copy loop claims to.          *)
(***************************************************************************)
EXTENDS MoveGeometry, FiniteSets

CONSTANTS
  DiskSize,         \* LBAs 0 .. DiskSize - 1
  FirstUsable,      \* first LBA partitions may use
  Jobs,             \* the relocation jobs a command may be asked for
  Chunks,           \* the --chunk-size values users pass, in sectors
  BatchCap,         \* most chunks copied between two checkpoints
  MaxCrashes,       \* bounds of the environment: power losses and kills,
  MaxToolFailures,  \*   failing mkswap / resize / unlink calls,
  MaxEdits          \*   table edits by third parties between runs

LBA == 0 .. (DiskSize - 1)

Entries == [first: Nat, last: Nat, swap: BOOLEAN]

JobRecords == [moves: Seq(MoveRecords), target: Entries, lastUsable: Nat,
               noFs: BOOLEAN, ntfs: SUBSET (Nat \ {0})]

(* A job the planner hands over.  That TailPacked and Shift plans are of   *)
(* this kind, in every table they are made on, is PlanIsExecutable of      *)
(* module RelocPlan.                                                       *)
JobOK(j) ==
  /\ j \in JobRecords /\ j.lastUsable < DiskSize
  /\ Relocatable(j.moves, j.target, j.lastUsable)

ASSUME RelocationAssumption ==
  /\ DiskSize \in Nat /\ FirstUsable \in Nat /\ BatchCap \in Nat \ {0}
  /\ Chunks \subseteq Nat \ {0}
  /\ {MaxCrashes, MaxToolFailures, MaxEdits} \subseteq Nat
  /\ \A j \in Jobs : JobOK(j)

VARIABLES
  job,      \* what this job is: fixed by its plan
  disk,     \* what a read returns: the page cache over the medium
  media,    \* what survives a power loss
  entry,    \* the table entries of the members, by position in job.moves
  target,   \* the table entry of the partition to grow
  alien,    \* sectors of partitions created by third parties
  fsEnd,    \* last LBA the target's filesystem believes it has
  ckpt,     \* the checkpoint file
  pc,       \* where the run is; "down" when none is active
  req,      \* the --chunk-size of the run
  seen,     \* the table as prepare_apply read it
  next,     \* chunks of the current entry copied, in memory
  batch,    \* of those, how many are newer than the checkpoint
  owed,     \* post-write steps this run leaves pending
  outcome,  \* how the last run ended
  used      \* how much of each environment bound is spent

vars == <<job, disk, media, entry, target, alien, fsEnd, ckpt, pc, req, seen,
          next, batch, owed, outcome, used>>

(***************************************************************************)
(* Sector contents.  LBA s holds content s when the job begins, so content *)
(* names its origin.  Rewriting HiddenSectors in an NTFS boot sector maps  *)
(* content c to Patched(c); the other contents never were on the disk.     *)
(***************************************************************************)
Fresh == -1    \* a swap header with a new random identity
FsData == -2   \* written by the filesystem tool into the new space
Alien == -3    \* written by a third party
Patched(c) == IF c \in LBA THEN DiskSize + c ELSE c
Contents == -3 .. (2 * DiskSize - 1)
SameData(c, origin) == c = origin \/ c = DiskSize + origin

(* The empty checkpoint slot, and the checkpoint's fields that move:       *)
(* cur_index (from 1 here), chunks_done, chunk_bytes.                      *)
NoCkpt == [cur |-> 0, done |-> 0, chunk |-> 0]
Checkpoints == [cur: Nat, done: Nat, chunk: Nat]

Members == DOMAIN job.moves
Current == job.moves[ckpt.cur]
(* Mutant: the loop ends one entry early.                                  *)
FinishedEarly == ckpt.cur >= Len(job.moves)
Finished == ckpt.cur > Len(job.moves)
GrowTo == GrowEnd(job.moves, job.lastUsable)

EntryAtSource(m) == [first |-> m.first, last |-> m.first + m.len - 1, swap |-> m.swap]
At(e, first, len) == e.first = first /\ e.last = first + len - 1

(* entry_index of the loop's move set to its target: absolute, so that     *)
(* committing it again is the same as committing it once.                  *)
PlaceCurrent ==
  entry' = [entry EXCEPT ![ckpt.cur].first = NewFirst(Current),
                         ![ckpt.cur].last = NewFirst(Current) + Current.len - 1]

Table == [entry |-> entry, target |-> target, alien |-> alien]

ChunksOf(m) == ChunkCount(m, ckpt.chunk)

TypeOK ==
  /\ job \in Jobs
  /\ disk \in [LBA -> Contents] /\ media \in [LBA -> Contents]
  /\ entry \in [Members -> Entries]
  /\ target \in Entries
  /\ alien \subseteq LBA
  /\ fsEnd \in Nat
  /\ ckpt \in Checkpoints
  /\ pc \in {"down", "prepared", "entry", "copy", "sync", "save", "hidden",
             "advance", "mkswap", "growfs", "finish"}
  /\ req \in Chunks \cup {0}
  /\ seen \in [entry: [Members -> Entries], target: Entries, alien: SUBSET LBA]
  /\ next \in Nat /\ batch \in 0 .. BatchCap
  /\ owed \subseteq {"swap", "fs", "checkpoint"}
  /\ outcome \in {"none", "refused", "failed", "partial", "done"}
  /\ used \in [crash: 0 .. MaxCrashes, tool: 0 .. MaxToolFailures, edit: 0 .. MaxEdits]

Init ==
  /\ job \in Jobs
  /\ disk = [s \in LBA |-> s] /\ media = disk
  /\ entry = [i \in DOMAIN job.moves |-> EntryAtSource(job.moves[i])]
  /\ target = job.target
  /\ alien = {}
  /\ fsEnd = job.target.last
  /\ ckpt = NoCkpt
  /\ pc = "down" /\ req = 0
  /\ seen = [entry |-> entry, target |-> target, alien |-> alien]
  /\ next = 0 /\ batch = 0 /\ owed = {}
  /\ outcome = "none"
  /\ used = [crash |-> 0, tool |-> 0, edit |-> 0]

onDisk == <<disk, media, entry, target, alien, fsEnd, ckpt>>
inRun == <<req, seen, next, batch, owed>>

(***************************************************************************)
(* prepare_apply: read-only.  With a checkpoint, every member must stand   *)
(* where the checkpoint implies, no outsider may have taken a target or    *)
(* the room the grown partition gets, and the progress must be possible.   *)
(***************************************************************************)
(* Mutant: the entry in progress is expected at its source only.           *)
StandsAtSourceOnly(i) ==
  LET m == job.moves[i]
  IN IF i < ckpt.cur THEN At(entry[i], NewFirst(m), m.len) ELSE At(entry[i], m.first, m.len)

StandsWhereExpected(i) ==
  LET m == job.moves[i]
      atSource == At(entry[i], m.first, m.len)
      atTarget == At(entry[i], NewFirst(m), m.len)
  IN CASE i < ckpt.cur -> atTarget
       [] i = ckpt.cur -> atSource \/ atTarget
       [] i > ckpt.cur -> atSource

(* Mutant: the room the target grows into is not checked for outsiders.    *)
ResumeIgnoresOutsiders(c) ==
  /\ c = ckpt.chunk
  /\ \A i \in Members : StandsWhereExpected(i)
  /\ \A i \in Members : Disjoint(Target(job.moves[i]), alien)
  /\ target.last <= GrowTo

ResumeAllowed(c) ==
  /\ c = ckpt.chunk
  /\ \A i \in Members : StandsWhereExpected(i)
  /\ \A i \in Members : Disjoint(Target(job.moves[i]), alien)
  /\ Executable(job.moves, job.lastUsable)
  /\ target.last <= GrowTo
  /\ Disjoint((target.last + 1) .. GrowTo, alien)
  /\ ~Finished => ckpt.done <= ChunksOf(Current)

FreshAllowed ==
  \A i \in Members : At(entry[i], job.moves[i].first, job.moves[i].len)

(* With the slot empty the plan is computed from the table, so an edited   *)
(* table is another job: it is not started here.                           *)
StartsRun == pc = "down" /\ outcome # "done" /\ (ckpt = NoCkpt => used.edit = 0)
MayRun(c) == IF ckpt = NoCkpt THEN FreshAllowed ELSE ResumeAllowed(c)

Prepare(c) ==
  /\ StartsRun /\ MayRun(c)
  /\ pc' = "prepared" /\ req' = c /\ seen' = Table /\ owed' = {}
  /\ next' = 0 /\ batch' = 0 /\ outcome' = "none"
  /\ UNCHANGED <<job, onDisk, used>>

PrepareRefuses(c) ==
  /\ StartsRun /\ ~MayRun(c)
  /\ outcome' = "refused"
  /\ UNCHANGED <<job, onDisk, pc, inRun, used>>

(***************************************************************************)
(* execute_apply.  The table must still be the one the plan was made from; *)
(* only then does the checkpoint go to disk and the first write follow.    *)
(***************************************************************************)
(* Mutant: writes without comparing the table with the one planned on.     *)
ExecuteUnchecked ==
  /\ pc = "prepared"
  /\ ckpt' = IF ckpt = NoCkpt THEN [cur |-> 1, done |-> 0, chunk |-> req] ELSE ckpt
  /\ pc' = "entry"
  /\ UNCHANGED <<job, disk, media, entry, target, alien, fsEnd, inRun, outcome, used>>

Execute ==
  /\ pc = "prepared" /\ seen = Table
  /\ ckpt' = IF ckpt = NoCkpt THEN [cur |-> 1, done |-> 0, chunk |-> req] ELSE ckpt
  /\ pc' = "entry"
  /\ UNCHANGED <<job, disk, media, entry, target, alien, fsEnd, inRun, outcome, used>>

ExecuteRefuses ==
  /\ pc = "prepared" /\ seen # Table
  /\ pc' = "down" /\ outcome' = "refused"
  /\ UNCHANGED <<job, onDisk, inRun, used>>

(* Every move of cur_index is written to the file in the same breath, so   *)
(* the index in memory and the one on disk never differ; the chunk count   *)
(* in memory (next) runs ahead of the file's.                              *)
NextEntry == ckpt' = [ckpt EXCEPT !.cur = @ + 1, !.done = 0]

SkipUnmoved ==
  /\ pc = "entry" /\ ~Finished /\ Current.delta = 0
  /\ NextEntry
  /\ UNCHANGED <<job, disk, media, entry, target, alien, fsEnd, pc, inRun, outcome, used>>

(* Mutant: a resumed entry is copied from its first chunk again.           *)
BeginCopyFromZero ==
  /\ pc = "entry" /\ ~Finished /\ Current.delta # 0 /\ ~Current.swap
  /\ pc' = "copy" /\ next' = 0 /\ batch' = 0
  /\ UNCHANGED <<job, onDisk, req, seen, owed, outcome, used>>

BeginCopy ==
  /\ pc = "entry" /\ ~Finished /\ Current.delta # 0 /\ ~Current.swap
  /\ pc' = "copy" /\ next' = ckpt.done /\ batch' = 0
  /\ UNCHANGED <<job, onDisk, req, seen, owed, outcome, used>>

(* Read one chunk whole, write it at the target.  A self-overlapping move  *)
(* syncs and checkpoints after every chunk; others when the batch is full  *)
(* (its size adapts to how long a sync takes: any size up to the cap) or   *)
(* the partition is copied.                                                *)
CopyChunk ==
  /\ pc = "copy" /\ next < ChunksOf(Current)
  /\ LET m == Current
         written == {NewFirst(m) + k : k \in ChunkOffsets(m, ckpt.chunk, next)}
     IN disk' = [s \in LBA |-> IF s \in written THEN disk[s - m.delta] ELSE disk[s]]
  /\ next' = next + 1 /\ batch' = batch + 1
  /\ \/ pc' = "sync"
     \/ /\ ~RelocationOverlaps(Current)
        /\ next' < ChunksOf(Current) /\ batch' < BatchCap
        /\ pc' = "copy"
  /\ UNCHANGED <<job, media, entry, target, alien, fsEnd, ckpt, req, seen, owed, outcome, used>>

(* Mutant: progress is saved without syncing the data it covers.           *)
SyncForgotten ==
  /\ pc = "sync"
  /\ pc' = "save"
  /\ UNCHANGED <<job, disk, media, entry, target, alien, fsEnd, ckpt, inRun, outcome, used>>

SyncData ==
  /\ pc = "sync"
  /\ media' = disk
  /\ pc' = "save"
  /\ UNCHANGED <<job, disk, entry, target, alien, fsEnd, ckpt, inRun, outcome, used>>

(* Mutant: the batch counter is not reset at a checkpoint.                 *)
SaveKeepsBatch ==
  /\ pc = "save"
  /\ ckpt' = [ckpt EXCEPT !.done = next]
  /\ pc' = "copy"
  /\ UNCHANGED <<job, disk, media, entry, target, alien, fsEnd, inRun, outcome, used>>

SaveProgress ==
  /\ pc = "save"
  /\ ckpt' = [ckpt EXCEPT !.done = next]
  /\ pc' = "copy" /\ batch' = 0
  /\ UNCHANGED <<job, disk, media, entry, target, alien, fsEnd, req, seen, next, owed, outcome, used>>

(* Mutant: the entry is committed one chunk too early.                     *)
CommitEntryEarly ==
  /\ pc = "copy" /\ next + 1 >= ChunksOf(Current)
  /\ PlaceCurrent
  /\ media' = disk
  /\ pc' = "hidden"
  /\ UNCHANGED <<job, disk, target, alien, fsEnd, ckpt, inRun, outcome, used>>

CommitEntry ==
  /\ pc = "copy" /\ next >= ChunksOf(Current)
  /\ PlaceCurrent
  /\ media' = disk
  /\ pc' = "hidden"
  /\ UNCHANGED <<job, disk, target, alien, fsEnd, ckpt, inRun, outcome, used>>

(* fix_ntfs_hidden_sectors writes the new start into the boot sector and   *)
(* syncs before the checkpoint says the entry is done.                     *)
FixHiddenSectors ==
  /\ pc = "hidden"
  /\ disk' = IF Current.part \in job.ntfs
             THEN [disk EXCEPT ![NewFirst(Current)] = Patched(@)]
             ELSE disk
  /\ media' = disk'
  /\ pc' = "advance"
  /\ UNCHANGED <<job, entry, target, alien, fsEnd, ckpt, inRun, outcome, used>>

Advance ==
  /\ pc = "advance"
  /\ NextEntry
  /\ pc' = "entry"
  /\ UNCHANGED <<job, disk, media, entry, target, alien, fsEnd, inRun, outcome, used>>

(***************************************************************************)
(* A swap member: its content may go, its identity must stay.  The entry   *)
(* is committed first, then mkswap runs at the new place with the UUID and *)
(* label read from the old header, or from the new one when an earlier     *)
(* mkswap already put it there.                                            *)
(***************************************************************************)
SwapTypeGone ==
  /\ pc = "entry" /\ ~Finished /\ Current.delta # 0 /\ Current.swap
  /\ ~entry[ckpt.cur].swap
  /\ pc' = "down" /\ outcome' = "failed"
  /\ UNCHANGED <<job, onDisk, inRun, used>>

CommitSwap ==
  /\ pc = "entry" /\ ~Finished /\ Current.delta # 0 /\ Current.swap
  /\ entry[ckpt.cur].swap
  /\ PlaceCurrent
  /\ media' = disk
  /\ pc' = "mkswap"
  /\ UNCHANGED <<job, disk, target, alien, fsEnd, ckpt, inRun, outcome, used>>

(* Mutant: mkswap is run without the old UUID.                             *)
SwapIdentityForgotten(m) == Fresh

SwapIdentity(m) ==
  IF disk[m.first] = m.first \/ disk[NewFirst(m)] = m.first THEN m.first ELSE Fresh

RecreateSwap ==
  /\ pc = "mkswap"
  /\ disk' = [disk EXCEPT ![NewFirst(Current)] = SwapIdentity(Current)]
  /\ media' = disk'
  /\ pc' = "advance"
  /\ UNCHANGED <<job, entry, target, alien, fsEnd, ckpt, inRun, outcome, used>>

SpendTool == used.tool < MaxToolFailures /\ used' = [used EXCEPT !.tool = @ + 1]

(* The loop stops at the entry: the checkpoint keeps naming it, nothing    *)
(* grows, and the run ends with the rebuild pending.                       *)
RecreateSwapFails ==
  /\ pc = "mkswap" /\ SpendTool
  /\ ckpt' = [ckpt EXCEPT !.done = 0]
  /\ owed' = owed \cup {"swap"}
  /\ pc' = "down" /\ outcome' = "partial"
  /\ UNCHANGED <<job, disk, media, entry, target, alien, fsEnd, req, seen, next, batch>>

(***************************************************************************)
(* Growing the target: the entry is committed, then the filesystem grows.  *)
(***************************************************************************)
GrowTarget ==
  /\ pc = "entry" /\ Finished
  /\ target' = [target EXCEPT !.last = GrowTo]
  /\ media' = disk
  /\ pc' = IF job.noFs THEN "finish" ELSE "growfs"
  /\ UNCHANGED <<job, disk, entry, alien, fsEnd, ckpt, inRun, outcome, used>>

GrowFs ==
  /\ pc = "growfs"
  /\ disk' = [s \in LBA |-> IF s \in (fsEnd + 1) .. target.last THEN FsData ELSE disk[s]]
  /\ media' = disk'
  /\ fsEnd' = target.last
  /\ pc' = "finish"
  /\ UNCHANGED <<job, entry, target, alien, ckpt, inRun, outcome, used>>

(* The kernel's view did not follow the table, or the tool failed.         *)
GrowFsFails ==
  /\ pc = "growfs" /\ SpendTool
  /\ owed' = owed \cup {"fs"}
  /\ pc' = "finish"
  /\ UNCHANGED <<job, onDisk, req, seen, next, batch, outcome>>

(* checkpoint_may_be_removed: committed, and nothing newly owed.           *)
(* Mutant: a pending filesystem growth does not keep the checkpoint.       *)
FinishAnyway ==
  /\ pc = "finish"
  /\ ckpt' = NoCkpt
  /\ outcome' = "done"
  /\ pc' = "down"
  /\ UNCHANGED <<job, disk, media, entry, target, alien, fsEnd, inRun, used>>

Finish ==
  /\ pc = "finish"
  /\ ckpt' = IF owed = {} THEN NoCkpt ELSE ckpt
  /\ outcome' = IF owed = {} THEN "done" ELSE "partial"
  /\ pc' = "down"
  /\ UNCHANGED <<job, disk, media, entry, target, alien, fsEnd, inRun, used>>

FinishCannotRemove ==
  /\ pc = "finish" /\ owed = {} /\ SpendTool
  /\ owed' = {"checkpoint"}
  /\ outcome' = "partial"
  /\ pc' = "down"
  /\ UNCHANGED <<job, onDisk, req, seen, next, batch>>

(***************************************************************************)
(* The environment.                                                        *)
(***************************************************************************)
Dirty == {s \in LBA : disk[s] # media[s]}

Dies ==
  /\ used.crash < MaxCrashes /\ used' = [used EXCEPT !.crash = @ + 1]
  /\ pc' = "down" /\ owed' = {}
  /\ outcome' = IF pc = "down" THEN outcome ELSE "none"
  /\ UNCHANGED <<job, entry, target, alien, fsEnd, ckpt, req, seen, next, batch>>

(* The page cache outlives a killed process.                               *)
Kill ==
  /\ pc # "down" /\ Dies
  /\ UNCHANGED <<disk, media>>

(* A power loss keeps any subset of the unsynced sectors.  It may follow a *)
(* kill, before the kernel wrote back what the killed run left behind.     *)
PowerLoss ==
  /\ pc # "down" \/ Dirty # {}
  /\ Dies
  /\ \E kept \in SUBSET Dirty :
       media' = [s \in LBA |-> IF s \in kept THEN disk[s] ELSE media[s]]
  /\ disk' = media'

Occupied ==
  alien \cup (target.first .. target.last)
        \cup UNION {entry[i].first .. entry[i].last : i \in Members}

(* Between two runs, or between a run's plan and its first write.          *)
MayEdit ==
  /\ pc = "prepared" \/ (pc = "down" /\ ckpt # NoCkpt)
  /\ used.edit < MaxEdits

SpendEdit == used' = [used EXCEPT !.edit = @ + 1]

AlienCreates ==
  /\ MayEdit /\ SpendEdit
  /\ \E a \in FirstUsable .. job.lastUsable : \E b \in a .. job.lastUsable :
       /\ Disjoint(a .. b, Occupied)
       /\ alien' = alien \cup (a .. b)
       /\ disk' = [s \in LBA |-> IF s \in a .. b THEN Alien ELSE disk[s]]
       /\ media' = [s \in LBA |-> IF s \in a .. b THEN Alien ELSE media[s]]
  /\ UNCHANGED <<job, entry, target, fsEnd, ckpt, pc, inRun, outcome>>

AlienRetypes ==
  /\ MayEdit /\ SpendEdit
  /\ \E i \in Members :
       /\ entry[i].swap
       /\ entry' = [entry EXCEPT ![i].swap = FALSE]
       /\ LET taken == entry[i].first .. entry[i].last
          IN /\ disk' = [s \in LBA |-> IF s \in taken THEN Alien ELSE disk[s]]
             /\ media' = [s \in LBA |-> IF s \in taken THEN Alien ELSE media[s]]
  /\ UNCHANGED <<job, target, alien, fsEnd, ckpt, pc, inRun, outcome>>

AlienShrinks ==
  /\ MayEdit /\ SpendEdit
  /\ \E i \in Members :
       /\ entry[i].first < entry[i].last
       /\ entry' = [entry EXCEPT ![i].last = @ - 1]
  /\ UNCHANGED <<job, disk, media, target, alien, fsEnd, ckpt, pc, inRun, outcome>>

AlienExtends ==
  /\ MayEdit /\ SpendEdit
  /\ target.last + 1 \in (1 .. job.lastUsable) \ Occupied
  /\ target' = [target EXCEPT !.last = @ + 1]
  /\ UNCHANGED <<job, disk, media, entry, alien, fsEnd, ckpt, pc, inRun, outcome>>

Edit == AlienCreates \/ AlienRetypes \/ AlienShrinks \/ AlienExtends

CopyEntry == BeginCopy \/ CopyChunk \/ SyncData \/ SaveProgress \/ CommitEntry \/ FixHiddenSectors
MoveSwap == SwapTypeGone \/ CommitSwap \/ RecreateSwap \/ RecreateSwapFails
Grow == GrowTarget \/ GrowFs \/ GrowFsFails \/ Finish \/ FinishCannotRemove

Run == Execute \/ ExecuteRefuses \/ SkipUnmoved \/ CopyEntry \/ Advance \/ MoveSwap \/ Grow

Command == \E c \in Chunks : Prepare(c) \/ PrepareRefuses(c)

Next == Command \/ Run \/ Kill \/ PowerLoss \/ Edit

Spec == Init /\ [][Next]_vars

(* The run is one process that keeps executing, and its user runs the      *)
(* command again with the same --chunk-size until the job is done.         *)
SameChunk(c) == ckpt = NoCkpt \/ c = ckpt.chunk
Rerun == \E c \in Chunks : SameChunk(c) /\ Prepare(c)
FairSpec == Spec /\ WF_vars(Run) /\ WF_vars(Rerun)

-----------------------------------------------------------------------------
(***************************************************************************)
(* Safety.                                                                 *)
(***************************************************************************)
(* Where the resume logic believes the job stands: at the checkpoint, or   *)
(* at the very beginning or the very end when there is none.               *)
ResumeAt ==
  IF ckpt # NoCkpt THEN ckpt
  ELSE IF outcome = "done" THEN [NoCkpt EXCEPT !.cur = Len(job.moves) + 1]
  ELSE [NoCkpt EXCEPT !.cur = 1]

(* Where byte-sector k of member i is to be found after a power loss.      *)
Copied(i, k) ==
  \/ i < ResumeAt.cur
  \/ i = ResumeAt.cur /\ k >= Left(job.moves[i], ResumeAt.chunk, ResumeAt.done)

Location(i, k) ==
  LET m == job.moves[i] IN IF Copied(i, k) THEN NewFirst(m) + k ELSE m.first + k

DataMembers == {i \in Members : ~job.moves[i].swap}

(* Sector s still holds sector k of member i, unless a third party has     *)
(* taken the sector.                                                       *)
Holds(content, s, i, k) == s \in alien \/ SameData(content[s], job.moves[i].first + k)

(* After any crash the original content of every member is on the medium,  *)
(* at the place the checkpoint implies: the checkpoint never runs ahead of *)
(* synced data, a self-overlapping move never overwrites a source sector   *)
(* that a resumed run would read again, no move overwrites the source of a *)
(* later one, and no run copies what a third party put in the way.         *)
Recoverable ==
  \A i \in DataMembers : \A k \in 0 .. (job.moves[i].len - 1) :
    Holds(media, Location(i, k), i, k)

(* What the table says holds without the checkpoint too, unless a          *)
(* self-overlapping move is half done: the partition the entry describes   *)
(* has its content on the medium.                                          *)
TableTellsTheTruth ==
  \A i \in DataMembers :
    \/ RelocationOverlaps(job.moves[i]) /\ i = ResumeAt.cur
    \/ \A k \in 0 .. (job.moves[i].len - 1) : Holds(media, entry[i].first + k, i, k)

(* At every instant the entries on disk are pairwise disjoint, so that a   *)
(* crash never leaves a table the next run (or another tool) refuses.      *)
TableNeverOverlaps ==
  LET extent(i) == entry[i].first .. entry[i].last
  IN /\ \A i, k \in Members : i # k => Disjoint(extent(i), extent(k))
     /\ \A i \in Members : /\ Disjoint(extent(i), target.first .. target.last)
                           /\ Disjoint(extent(i), alien)
     /\ Disjoint(alien, target.first .. target.last)

(* A resumed run never writes into a partition somebody created while the  *)
(* job lay interrupted, nor into one that is no longer the swap area the   *)
(* checkpoint remembers.                                                   *)
ThirdPartyUntouched ==
  LET theirs == alien \cup UNION {entry[i].first .. entry[i].last :
                     i \in {n \in Members : job.moves[n].swap /\ ~entry[n].swap}}
  IN \A s \in theirs : disk[s] = Alien /\ media[s] = Alien

(* A job reported done is done: members in place with their content,       *)
(* NTFS boot sectors naming the new start, swap identities kept, the       *)
(* target grown with its filesystem, and no checkpoint left behind.        *)
DoneMeansDone ==
  outcome = "done" =>
    /\ ckpt = NoCkpt
    /\ target.last = GrowTo /\ (~job.noFs => fsEnd = GrowTo)
    /\ \A i \in Members : LET m == job.moves[i] IN
         /\ At(entry[i], NewFirst(m), m.len)
         /\ m.part \in job.ntfs /\ m.delta # 0 /\ ~m.swap
              => media[NewFirst(m)] = Patched(m.first)
         /\ entry[i].swap => media[NewFirst(m)] = m.first

(* The scene of an unfinished job is never given up: once a run has        *)
(* written, the checkpoint stays until a run finishes with nothing owed.   *)
KeepsTheScene ==
  [][ckpt # NoCkpt /\ ckpt' = NoCkpt => outcome' = "done" /\ Finished /\ owed = {}]_vars

(* Durable progress is never taken back by a crash, a resume or an edit.   *)
ProgressIsMonotone ==
  [][ckpt # NoCkpt /\ ckpt' # NoCkpt =>
       \/ ckpt'.cur = ckpt.cur + 1
       \/ ckpt'.cur = ckpt.cur /\ ckpt'.done >= ckpt.done]_vars

(* The job as its owner sees it: entries move atomically and in order, no  *)
(* content is lost at any instant, growth comes last and success is        *)
(* reported last (see AtomicRelocation; without third parties).            *)
Dest == [i \in Members |-> NewFirst(job.moves[i])]
Starts == [i \in Members |-> entry[i].first]
Lost == {i \in DataMembers : \E k \in 0 .. (job.moves[i].len - 1) :
           ~Holds(media, Location(i, k), i, k)}
Reported == outcome = "done"

Atomic == INSTANCE AtomicRelocation WITH
  dest <- Dest, growTo <- GrowTo, at <- Starts, limit <- target.last,
  lost <- Lost, reported <- Reported

RelocationIsAtomic == Atomic!Spec

(* Unless third parties interfere, the job gets done once crashes and tool *)
(* failures stop.                                                          *)
EventuallyDone == <>(outcome = "done" \/ used.edit > 0)
=============================================================================
