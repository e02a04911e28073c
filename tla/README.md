# DiskEdit: formal models

DiskEdit edits partition tables, moves partitions and resizes filesystems on block
devices and disk images. What makes it hard is that every command may lose power or be
killed between any two writes, and that the user then runs a command again: the same
one, `undo`, `abandon`, or another. Four on-disk things have to agree at every such
point: the two copies of the partition table, the bytes of the partitions, the
checkpoint of a pending job, and the undo journal. On a mounted partition the table, the
kernel's view, the filesystem and the mount point take their place. And all of it rests
on two processes never writing one target. The modules here are about that.

Paths below are relative to the repository's root; `movepart/shift.rs` stands for
`src/movepart/shift.rs`.

## 1. The system

| component | state it keeps | operations | what is hard |
|---|---|---|---|
| relocation job (`movepart/shift.rs`, `checkpoint.rs`) | checkpoint file (current entry, chunks done, chunk size, job), progress in memory | prepare, execute: copy chunks, commit an entry, recreate swap, patch NTFS boot sectors, grow the target, remove the checkpoint | self-overlapping moves, resuming, order of sync / checkpoint / commit, third-party edits between runs, failing tools |
| relocation planning (`movepart/plan.rs`) | none | tail-packed plan, shift plan, resume, ownership of a pending job | order of moves, boundaries, planning again on a half-moved table |
| GPT commit and repair (`table/gpt_write.rs`, `gpt_parse.rs`, `gpt_policy.rs`, `geometry.rs`) | two copies of the table, protective MBR | read, classify and apply repairs, optimistic check, four synced writes | torn structures, growth of the container, somebody else's edit, kills between write and sync |
| undo journal (`dev/journal.rs`, `dev/source.rs`) | append-only file with header, pre-image records and barriers | create, adopt, record, barrier, read, drop | torn tails and headers, order record/write and barrier/write |
| undo, abandon (`cmd/undo.rs`, `cmd/abandon.rs`) | none beyond the above | replay plan, check and write back, remove; rename the records | being interrupted themselves, chains of records over one region, foreign edits |
| transaction gate and target lock (`transaction.rs`, `targetlock.rs`) | lock files, the session of this process | begin, resume, refuse with advice, commit (a second, later, lock) | who may start over what; what happens between return and commit |
| target identity (`dev/identity.rs`, `topology.rs`, `source.rs`) | none; asks `/proc/self/fd` and sysfs | open, derive a key, compare with the header of a record | several names of one target, names that change hands |
| single-partition resize and copy (`movepart/resize.rs`, `copy.rs`) | checkpoint with a three-valued shrink state | shrink, move, commit, grow; copy and add an entry | whether a filesystem was shrunk cannot be read off the table |
| resize command (`cmd/resize.rs`, `cmd/resize/*`) | none | route a request to a path, claim an unfinished job, finish it | the request, the record and the table may disagree |
| MBR tables (`table/mbr.rs`, `cmd/resize/msdos.rs`) | one sector | edit, resize without checkpoint | undo or abandon only |
| LVM tail (`lvm.rs`, `cmd/resize/lvm.rs`) | the goal of the volume in the checkpoint | pvresize, lvextend | repeated after any of them, the volume must not grow twice |
| online resize (`online/*`, `cmd/resize/online.rs`) | kernel view, filesystem, mount, all outside the target | sfdisk, partx / BLKPG, the filesystem's tool | four views of one size, no journal, other programs in between |
| filesystem tools (`fsops/*`) | temporary mounts and loop devices | shrink, grow, read back, probe occupancy | a tool that fails after it worked, a mount that stays |
| byte codecs, arguments, output | none | encode, parse, print | sequential code, covered by unit and fuzz tests |

**How they interact.** A command takes the target lock, passes the gate (no recovery
record, or one it owns), adopts the journal that lies there, plans from the table it
reads, checks that the table is still the one it read, repairs, and writes. A write to
the table is recorded in the journal first. A write the journal cannot take back (moved
bytes, a filesystem tool) is preceded by the checkpoint and then a barrier. Finishing
removes the checkpoint, returns, and then takes the lock once more to drop the journal.
`undo` replays the journal and removes both; `abandon` renames both.

**What makes each part correct.**
Relocation: no byte of a member is lost at any crash point; the table never overlaps
and never lies; nobody else's partition is written; the checkpoint stays until
everything is done; the job can always be finished.
Planning: a plan can be executed in its order, is as long as asked, and planning again
lands every partition in the same place.
GPT: a usable copy survives every power loss; the table changes in one step from the
reader's view; foreign edits are never undone silently; redundancy is restored.
Journal and undo: without a barrier the original can be brought back; undo touches
nothing that is not its own; records stay until their transaction is over; whoever is
refused is told a way out that is open.
Single-partition jobs: no sector of the filesystem is lost or left outside the entry,
nobody else is written over, a copy has an entry only when it is complete, and a run that
reports success has also done what interrupted runs before it had promised.
Online resize: the filesystem never extends past the table nor the table into its
neighbour, also after a reboot; a refusal has written nothing; another filesystem mounted
in the place of the target is not touched; success means all views agree. The code leaves
two windows open here, which the properties name and leave out (section 4).
Locks: no two processes write the same bytes, whatever names they used; the scene a
command relies on stays its own while it writes.

## 2. The modules

| module | models | abstract specification it implements |
|---|---|---|
| `MoveGeometry` | extents, chunk layout, direction, growth end (pure) | |
| `Relocation` | `prepare_apply`, `execute_apply`, checkpoint writes, third parties, crashes | `AtomicRelocation` |
| `RelocPlan` | both planners, planning again after an abandon | |
| `GptCommit` | read, repair, commit of a GPT; edits and a relocation's commits | `AtomicTable` |
| `UndoJournal` | journal file, gate, undo, abandon, late commit | |
| `PartResize` | `resize-part`, `move`, `resize`, `copy` of one partition, GPT and MBR, with the LVM tail | |
| `OnlineResize` | `resize` of a mounted partition or a PV in use, `resizefs` on a mount point | |
| `LvmChain` | the recorded goal of a volume and the extents it still needs (pure); used by both | |
| `TargetLock` | names, keys, the two locks, scenes, the commands that hold them | |
| `TargetLockProofs` | theorems about `TargetLock` | |
| `RelocationProofs`, `RelocationTableProofs` | theorems about `Relocation` | |
| `RelocPlanProofs` | theorems about `RelocPlan` | |
| `GptCommitProofs` | theorems about `GptCommit`, its refinement of `AtomicTable` among them | |
| `UndoJournalProofs` | theorems about `UndoJournal` | |
| `PartResizeProofs` | theorems about `PartResize` | |
| `OnlineResizeProofs` | theorems about `OnlineResize` | |
| `MC*` | instances for TLC | |

### Relocation
`pc` follows `execute_apply`: `entry` (next move or finished), `copy`, `sync`, `save`
(checkpoint), `hidden` (NTFS boot sector), `advance`, `mkswap`, `growfs`, `finish`;
`prepared` is between `prepare_apply` and the first write, `down` means no run. `disk`
is what a read returns (page cache), `media` what a power loss leaves: it keeps, for
every sector written since the last sync, the old or the new content, chosen
independently. `ckpt` is the checkpoint file, `next`/`batch` its in-memory counters.
`seen` is the table the run read. A sector's content is named by its origin, so that
overwritten, patched, alien and fresh contents are told apart.

`PowerLoss`, `Kill`, failing tools and edits by a third party (create a partition,
extend or retype one) are actions of the environment. `BatchCap` stands for the adaptive
batch size (`checkpoint.rs:224`): any size up to the cap may be chosen. Third parties
edit only while no run executes, or between planning and the first write, which is what
`ensure_entries_unchanged` is for; the code makes no claim about edits during the copy.

`AtomicRelocation` is the job as the owner sees it: entries move one at a time and in
order, nothing is ever lost, growth comes last, success is reported last.

### RelocPlan
All tables of up to three blockers are initial states; a plan is executed one commit at
a time, may be abandoned, and is then made again on the half-moved table.

### GptCommit
A copy is an array and a header; each of the four writes is in the page cache until its
sync, and a power loss may leave it old, new or torn. A command repairs first (unless it
resumes a job, `plan.rs:376`), then commits. Its first write puts a record into its
`journal`, and a command that dies leaves it: the target is then `Busy` for every fresh
command (`transaction.rs:282-296`) until the job is resumed or `Abandon` gives the records
up. Other tools rewrite the table while no
command runs, a copy may become unreadable, the container may grow. The container grows
only while the primary copy is usable: a backup behind a new end cannot be found
otherwise (`gpt_parse.rs:391`). `AtomicTable` is a table that changes in one step and
refuses when somebody else changed it.

### UndoJournal
The table is its two copies, each one journaled write and a sync. The journal is a file
record (absent, empty, with half a header, with a header), its complete records and
whether its tail is torn. A command is the list of steps its function makes (`todo`); a
kill stops it between or inside them. `gen` tells journals apart in the properties,
`ino` is what the code compares. `txn` is a history variable: the target when the
transaction began, whether unjournaled bytes have changed, and the sectors other tools
have written. `rewound` is another: undo has changed the table under the job whose
checkpoint lies there. `closing` holds commands that have returned and not yet dropped their
journal. A foreign edit writes a content of its own, told apart from every other edit's
(`Foreign`); contents are compared and copied, never read. The plan of an undo is one step,
`replay`, with the set of sectors it has still to write back: the loop takes the records
from the last to the first (`Latest`), and looks at the copy again before every one
(`Replay`).

### PartResize
`pc` follows `execute_resize`: `prepared` (before the second look at the table), `shrink`,
`saveshrink`, `cut`, `barrier`, `copy`, `sync`, `save`, `commit`, `hidden`, `grow`,
`growfs`, `settle`; then the LVM chain (`pvbarrier` .. `pvsettle`) and `close`, where `main`
drops the journal; `dup*` is `execute_copy`. `job` is what `prepare_resize` decided, with
`job.base` the range a resumed job started from. `fs` is the length the filesystem
believes it has; the sectors are named by their offset in it, so that a head overwritten by
an overlapping move is no longer recognised (`HeadReadable`). A shrink is `no`, `verified`
or `unverified` as in `FsShrink`; the answers of `shrink_fs` that lead there are separate
disjuncts of `ShrinkFs`. On an MBR there is no record, and `MbrTaken` is the only look at
the neighbours. `undo` puts the entry back and then removes journal and checkpoint, in two
steps; `abandon` removes both and is not taken while the data is in two places, which
`abandon` warns of. `debt` is a history variable: what the jobs so far have promised and
not done, against which `DoneMeansDone` is stated.

### OnlineResize
Four views of one size: `disk` (the table), `kern`, `fs`, and the device `mount` leads to.
A run resolves its target, locks, reads the kernel's view again, decides, and then writes
the table before the filesystem when it grows and after it when it shrinks. Before every
tool the mount point is checked (`CheckMount`), and that check and the tool are separate
steps: `Fill`, `FillTool`; `GrowFs`, `GrowFsTool`; `ShrinkFs`, `ShrinkLook` (the table is
read once more), `ShrinkTool`. Anything may be mounted in between. A failing step leaves
any state the tool may have reached, and the model follows the error classification of
`part.rs` to the outcome. Other programs remount and have the kernel read the table again
at any moment, edit the table, reformat, extend the volume. A reboot makes the kernel read
the table. A command may find any kernel view, shorter or longer than the table, also of a
PV. The bounds on third parties are those in the head of the module; the code names the
window after the last look at the table itself (`flow.rs`, comment at
`ensure_disk_snapshot_unchanged`).

Two history variables mark what the code cannot or does not notice, and the properties
leave out what they mark and nothing else. `slipped`: the mount changed after its last
check and before the tool. `blind`: the last growth went by a view of the kernel that
nothing in the run had compared with the table (`PvGrowsBlindly`, `ViewMoved`).

### TargetLock
A name leads to a file, a handle keeps the file whatever happens to the name. An
invocation opens its target, asks what its handle is called now, takes the lock file of
that key, then a lock on the data file, begins (`Begin` records or adopts a scene,
`BeginPlain` and `BeginOnline` refuse one), writes, lets go and, in `main`, takes both
locks again to drop its journal. `Quit` is any refusal, error or kill. Partition nodes are
refused by every writing command (`refuse_partition_node_target`), so a node is a disk or
an alias of one. Opening a block device is O_EXCL in the code; the model does not use it.

## 3. The runs

| run | shows | bounds |
|---|---|---|
| `relocation_crash` | no loss, true tables, refinement, termination | 4 jobs on 10 sectors (self-overlapping by one and by two, free-standing, unmoved, NTFS), chunks 1 and 3, batch 2, two crashes, one tool failure |
| `relocation_edit` | third parties untouched; swap members | 7 jobs, chunks 1 and 2, one crash, one tool failure, two edits |
| `reloc_plan` | plans executable, exact, optimal, stable | every table of at most 3 blockers of length 1 to 3 in 9 LBAs, a locked one or not, shifts 0 to 4 |
| `gpt_commit` | commit and repair implement an atomic table | 2 slots, 2 values, 2 container ends, two deaths, one foreign edit, one damaged copy |
| `gpt_commit_kill`, `gpt_commit_damage` | two ways to lose both copies (below) | |
| `undo_journal` | reversibility, undo, advice, release | 2 sectors per copy, 2 tables, 2 commands, 2 deaths, 1 foreign edit, backup damaged at the start or not |
| `undo_journal_tear`, `undo_journal_inode` | two disagreements (below) | |
| `part_resize` | nothing lost, nobody else written, filesystem inside its entry, success means done | 8 sectors, 10 situations (6 kinds of content, GPT and MBR, a neighbour or not), 11 requests (moves overlapping and clear of themselves, in both directions, shrink, grow, LVM, copy), taken one after another, two deaths, one failing tool, one third party |
| `online_resize` | no overrun, honest refusals, other devices untouched, success means agreement, but for the two open windows | 13 situations (fresh and stale kernel views, a PV with a view longer than its entry, 5 kinds of content, holders), 11 requests, 6 sectors, one death, two failing tools, one edit, one remount |
| `target_lock` | exclusive writers, scenes kept | 2 processes without end, 2 names, 2 files, a loop device, a disk under two nodes, one move, link or removal at any moment |

Why the bounds are enough: a chunk of 1 and a chunk longer than a move, a displacement
smaller and larger than the chunk, and two members give every order of source and target
overlap; two crashes allow a crash in a run that resumed. The theorems of section 5 lift the bounds
for every safety property. Two sectors are the shortest write that can
be torn. Two deaths allow an interrupted undo of an interrupted command, or an
interrupted resume (what four deaths can do is in section 4: the proof found it, the run is
too small to); two deaths in `part_resize` allow an interrupted resume and an
interrupted undo. In `online_resize` a death leaves nothing to resume, so one suffices,
while two failing tools allow a failing repair of a failure. The two names of
`target_lock` are two hard links, two images, or a name and its replacement, and its
processes issue commands without end. Every property has a mutant of the modelled code that
violates it.

**Deadlock** is checked in `part_resize` and `target_lock`, where a user can always do
something. Elsewhere the environment is bounded and an instance may end.

**Fairness.** `Relocation`: a run that has begun keeps executing (the process is
scheduled and its I/O returns), and the user runs the command again with the same
`--chunk-size`; crashes and tool failures are finitely many. `UndoJournal`: a command
goes on, and a refused user does what the refusal says, or abandons if that is refused
too. Nothing else is fair, in particular no crash and no foreign edit. `PartResize`,
`OnlineResize` and `TargetLock` state safety only: whether an interrupted single-partition
job can always be resumed is not promised by the code (see the observations), and an
online run has nothing to resume.

## 4. What the runs found

* `gpt_commit_kill`. A command on an image file is killed between the write and the sync
  of the primary header. Its journal keeps fresh commands out; `abandon --yes` gives it
  up without touching a byte. The next command reads the new header from the page cache,
  repairs nothing and starts with the backup array, and a power loss in that write leaves
  no usable copy: the old header over the new array, and a torn backup. A relocation that
  is resumed instead commits the interrupted entry again, with the bytes the backup
  already holds: on this instance TLC finds no violation when `Abandon` is taken out of
  `Command`.
  `gpt_commit` assumes `Writeback`: block devices flush on the last close, image files
  rely on the kernel.
* `gpt_commit_damage`. A resumed job does not repair. If the primary copy became
  unreadable meanwhile, its next commit starts by overwriting the only usable copy.
  `gpt_commit` assumes `DamageInJob = FALSE`.
* `undo_journal_tear`. A power loss inside a multi-sector write of `undo` leaves a prefix
  of the pre-image before a suffix of the written bytes; only the opposite mix is
  recognised, and the retried undo is refused. `undo_journal` assumes `TearUndo = FALSE`.
* `undo_journal_inode`. A late commit recognises its journal by device and inode only;
  when a filesystem reuses the inode of a journal that undo removed, it deletes the
  journal of a later, interrupted command. `undo_journal` assumes `ReuseInode = FALSE`.

Seen while modelling, within what the code says of itself:

* A death while the journal's header is written next to a checkpoint leaves a truncated
  header. The advice is to run the command again, adoption refuses the header, and
  `abandon` is the way out. `AdviceHolds` leaves this case out (`file.kind = "stub"`),
  `EventuallyReleased` covers it.
* If undo dies after its last write-back, the command is resumed and dies too, then undo
  is refused although no other tool has written: the journal holds two chains and only
  the first pre-image is recognised. With a checkpoint the advice is to resume.
* That advice is open only until undo has begun. `transaction.rs:395` says that a job with a
  checkpoint can still be continued; four deaths show otherwise. An edit loses power
  inside its primary write and is abandoned (the primary is torn, the backup whole). A
  move repairs the primary, through the journal, saves its checkpoint and is killed.
  Undo writes the torn primary back and dies. The resumed move does not repair
  (`movepart/plan.rs:376-405`), passes its barrier and loses power inside its backup write.
  Now no copy is whole, so the resume is refused, and the barrier refuses undo: `abandon` is
  what is left. The instance of the run never reaches this; the attempt to prove
  `AdviceHolds` without exception did. Its second half is therefore stated as long as
  undo has written nothing back under the job (`~rewound`), and the first half, that undo
  accepts the journal it is offered for, without exception.
* Damage to a table copy by another tool while a move lies interrupted can leave the
  resume refused; `AdviceHolds` is therefore stated for histories without foreign edits.
* The check of the protective MBR in add and delete has no effect after a repair.
* A left move with growth that is interrupted after the head of the source was
  overwritten is refused when it is resumed: the preflight asks `grow_target_at` for a
  filesystem at the old start (`movepart/resize.rs:541-547`), although the comment at
  501-502 says that the recorded type is used. `--no-fs` or `abandon` are the ways out.
* `README.md:51` and `resize.rs` (637, 814) advise to run the same command again. For a
  job started by `resize :N SIZE` on anything but a PV the gate accepts only
  `resize-part` or `move` with the identical range (`transaction.rs:308-318`), and the
  text of the refusal also offers `resize`.
* `resize grow` after an interrupted `resize` of a PV to a fixed size completes the
  smaller job and ends with success (`cmd/resize.rs:241-250`); the record is the request.
* The early save of the checkpoint before the table write (`resize.rs:684-688`) cannot be
  missed in a report of success: without it the journal alone blocks the next run.
* A resumed job trusts that the filesystem recorded as shrunk has not been grown by
  somebody else meanwhile; `part_resize` grants that.
* The PV path compares the size asked for only with the kernel's view
  (`online/pv.rs:271-276`), not with the table as the mounted path does
  (`flow.rs:168-184`). With a table of 3 sectors and a kernel view of 5,
  `resize :N 5` runs `pvresize` and ends with success, and after a reboot the PV is
  larger than its partition. `online_resize` starts in that situation too and takes that
  step; `NothingOverruns` and `DoneMeansDone` leave the growth out (`blind`), and say so.
  The mounted path has a much narrower case of the same kind: `resizefs` compares the view
  it read under the lock with the table, and the tool goes by the view of the moment; two
  changes by others in between, of the kernel's view and of the table, are not noticed.
* The mount point is checked before each tool (`flow.rs:207`, `272`, `290`), and xfs and
  btrfs tools then resolve the path again. A mount that changes in between sends the tool
  to another filesystem, and the run ends with success; on the shrink path the table is
  read in that window (`flow.rs:305`), and the partition is even cut afterwards when the
  filesystem left on it happens to fit. The code's comment at `verify_mount_target` speaks
  of the long window across the table write, which the checks do close, and the model
  shows it: `AnotherFsUntouched` and `DoneMeansDone` leave out only a change inside the
  short one (`slipped`).
* The hint of `pv.rs:353` to run the command again is answered with a refusal for
  `resize grow`, since nothing is left to grow; a `resize N` of a mounted partition that
  was interrupted between the table and the filesystem reports "nothing to do" when it is
  run again.
* `abandon` on a loop device node opens the node as if it were an image file
  (`cmd/abandon.rs`, the branch on the kind of the identity), so the recorded target
  never matches and the scene cannot be released through the device; through the backing
  file it does not match either, because the record remembers the loop mapping. The
  model has it (`Opened`, `Matches`); `undo` and the command itself still work.
* The online path takes its locks without a fingerprint (`pv.rs:91`). If the image is
  moved away at that moment and back before the identity is verified, the second lock
  is on another file or missing, and an offline command through another name can write
  with it. `DataExclusive` leaves this case out (`Misled`); what remains in the
  code is the occupancy gate of the offline command.

## 5. Proofs

Assumptions are those of the modules, on the constants only, and TLC evaluates each of them
in the runs. For `TargetLock`: names, files, disks and nodes are different things
(`TargetAssumption`). For `Relocation`: the sizes are natural numbers and every job
satisfies `JobOK`, that is, no target covers the source of a later move, everything is
inside the disk, with the target's new end left of every new start, and what a member
leaves goes to the target or to another member (`Relocatable`, `RelocationAssumption`).
That much the planners guarantee: `PlansAreExecutable` proves `Relocatable` of every plan
they make. For `RelocPlan`: a job starts from a finite table without overlaps that has the
partition to grow (`RelocPlanAssumption`). For `PartResize` and `OnlineResize`: the sizes are natural numbers
and every situation a command may find satisfies `SituationOK`, in short, a filesystem
inside its partition and other partitions outside it (`PartAssumption`,
`OnlineAssumption`). What third parties may do is bounded in the actions of the modules,
not by assumption. Three theorems of `GptCommit` and two of `UndoJournal` have hypotheses
on the constants beside these: they exclude exactly the behaviours that `gpt_commit_kill`,
`gpt_commit_damage`, `undo_journal_inode` and `undo_journal_tear` show to violate the
property, and the theorem says that nothing else does.

| theorem | says |
|---|---|
| `TypeCorrect` | `Relocation`, `RelocPlan`: `Spec => []TypeOK` |
| `NoOverlapEver` | `Spec => []TableNeverOverlaps` |
| `NothingIsLost` | `Spec => []Recoverable` |
| `SceneIsKept` | `Spec => KeepsTheScene` |
| `TableIsTrue` | `Spec => []TableTellsTheTruth` |
| `OthersAreSafe` | `Spec => []ThirdPartyUntouched` |
| `ProgressIsSteady` | `Spec => ProgressIsMonotone` |
| `DoneIsTrue` | `Spec => []DoneMeansDone` |
| `JobIsAtomic` | `MaxEdits = 0` implies `Spec => RelocationIsAtomic` (the refinement of `AtomicRelocation`) |
| `PlansAreExecutable` | `RelocPlan`: `Spec => []PlanIsExecutable` |
| `ReplanPins` | `RelocPlan`: `Spec => []ReplanLandsTheSame` |
| `ShiftIsExact` | `RelocPlan`: `Spec => ShiftGrowsExactly` |
| `PlansAreOptimal` | `RelocPlan`: `Spec => PlanIsOptimal` |
| `ATableSurvives` | `GptCommit`: `Writeback /\ ~DamageInJob` implies `Spec => []TableSurvives` |
| `SuccessRestores` | `GptCommit`: likewise `Spec => []RedundancyRestored` |
| `CommitsAreAtomic` | `GptCommit`: likewise `Spec => CommitIsAtomic` (the refinement of `AtomicTable`) |
| `OneTransactionHolds` | `UndoJournal`: `Spec => []OneTransaction` |
| `ReversibleHolds` | `UndoJournal`: `Spec => []Reversible` |
| `UndoneMeansOriginHolds` | `UndoJournal`: `Spec => []UndoneMeansOrigin` |
| `ForeignBytesStayHolds` | `UndoJournal`: `Spec => ForeignBytesStay` |
| `RecordsStayHolds` | `UndoJournal`: `~ReuseInode` implies `Spec => RecordsStay` |
| `AdviceIsOpen` | `UndoJournal`: `~TearUndo` implies `Spec => []AdviceHolds` |
| `FilesystemFits` | `PartResize`: `Spec => []FsFits` |
| `ContentRecoverable` | `PartResize`: `Spec => []Recoverable` |
| `OthersUntouched` | `PartResize`: `Spec => []OthersHoldTheirs` |
| `PromisesKept` | `PartResize`: `Spec => DoneMeansDone` |
| `EntryHoldsFilesystem` | `OnlineResize`: `Spec => []NothingOverruns` |
| `RefusalIsTrue` | `OnlineResize`: `Spec => []RefusedMeansUntouched` |
| `OtherFilesystemsStay` | `OnlineResize`: `Spec => AnotherFsUntouched` |
| `DoneIsDone` | `OnlineResize`: `Spec => DoneMeansDone` |
| `WritersNeverMeet` | `TargetLock`: `Spec => []DataExclusive` |
| `SceneStays` | `TargetLock`: `Spec => []SceneKept` |
| `TypesHold` | `TargetLock`, `OnlineResize`, `UndoJournal`: `Spec => []TypeOK`; `GptCommit`: likewise, under its two hypotheses |

In `Relocation`, `TypeOK` is not inductive: it needs `Phase`, which says which program point is reachable
for which checkpoint and entry. `IInv` has two layers.

* `TableInv` adds where each entry may be, given the checkpoint (`Positions`: at the
  target before the current one, at the source after it, either at it), that entries,
  the target and what third parties took are disjoint (`Clear`), that a run in progress
  has passed its checks on the table as it is (`RunIsReady`) and that the copy stays inside the entry's chunks
  (`CopyBounds`). Two entries are disjoint because the hull of source and target of one
  move (`Reach`) is disjoint from both the target of an earlier move and the source of a
  later one (`ReachApart`).
* `ContentInv` says that every data sector has its content where the checkpoint implies
  (`Location`), in the page cache and, up to the unsaved batch, on the medium. The
  argument for a chunk write is `ChunkMisses`: the sectors written are not the location of
  any sector still needed, since a self-overlapping move copies towards its displacement
  with chunks that are saved one by one, and any other move writes outside its source.
  `LocationKept` carries this over advancing the checkpoint, and a power loss keeps either
  content of a sector, both being intact.

`RelocationTableProofs` stands on that invariant. `TableIsTrue` adds `SourceKept`:
the source of a move that does not overlap itself stays intact, in the cache and on the medium, while it
is copied. `OthersAreSafe` adds `OthersKept`: besides
the property itself, that a swap is made again only in an entry still typed as one, and
that the target stays inside the range it may grow into. `ProgressIsSteady` needs that a swap, which is
made afresh, never has chunks counted (`SwapUncounted`).

`DoneIsTrue` has to know, long before the end, that what success reports will be there:
from the end of a member's turn on its NTFS boot sector names the new start, and a swap
area that is still one has its header at its place, in the cache and on the medium
(`MarksKept`); `JobDone` says the same of the growth. The delicate moment is a swap area
whose entry is committed and whose `mkswap` has failed or died: the identity is then to be
read from the old place, which the table describes no more. A third party may take it
while the job lies interrupted. If that place belongs to the target's new room or to another
member, every later run refuses (`OldPlaceFree`), so no run that goes on finds the
identity gone. With a gap it would: TLC finds the lost identity for
a job that leaves one, which is why `JobOK` has `LeavesNoGap`.
No check of the code repeats it (`prepare_apply` reads the plan from the checkpoint); it
rests on the planners leaving no gap, which `PlansAreExecutable` proves.

`JobIsAtomic` follows the run step by step: committing an entry, of data or of swap, is
`Move`, `GrowTarget` is `Grow`, a `Finish` that owes nothing is `Report`, and all else is
hidden from the table's owner. The hypothesis leaves third parties out, who may extend the
target; that nothing of a member is lost needs no such hypothesis (`NothingIsLost`).

In `RelocPlan` the planners are recursive functions over the blockers in disk order, for
any number of blockers. The proofs first establish what TLC finds by enumeration: the
order exists and is the only one (`EnumerationExists`, `EnumerationIsUnique`), and each
recursion has exactly one solution (`ShiftStartsValue`, `TailStartsValue`). Where one would
use induction the argument is by least counterexample (`LeastNatural`). After that a plan
is described without recursion (`Lands`: the order is kept, nothing overlaps or goes
left, and there is a gap only in front of a blocker that stays), and that description gives
executability, the absence of gaps and, by comparison with any other landing, optimality
(`ShiftIsLeast`, `TailIsGreatest`). `IInv` says that a plan under way is the plan of
the table as it now stands without the moves already committed (`Underway`); the step that
matters is `CommittedPlan`: after the rightmost outstanding move has been committed, a
planner asked again computes the same starts. So a job that is abandoned and planned again
goes on to the same places (`Pinned`).

In `PartResize` the danger is a table cut shorter than the filesystem, at any of several
steps and in a later run as well. `FsFits` becomes inductive with what the records on
disk mean: a shrink recorded as verified has happened (`ProvedShrink`); while the journal
can be undone, the filesystem fits the entry undo would bring back, and a job under an
open journal that is not recorded as verified does not get shorter (`UndoFits`); an MBR job has no record
(`MbrUnrecorded`); the record and the entry are of the job that runs (`OneJob`); and from
the decision to the commit either the shrink is proved or the new range is no shorter
(`Sound`, in `RunFits`). A tool that grows the filesystem runs only behind a barrier, so
no undo follows it.

`Recoverable` and `OthersHoldTheirs` need a second layer, `DataInv`, which stands on the
first. Its parts are about the state on disk and, again, about the run.

* Who owns which sector (`ApartState`, `ApartRun`): entry, copy and other partitions are
  disjoint, a journal leads back to an entry that is disjoint from them too, and a run
  that is about to write has looked at the neighbours its new range must avoid.
* How far a copy is (`CountedState`, `CountedRun`): the record on disk and the run are of
  one job, the run is ahead of it by one chunk of a self-overlapping move and by less than
  a batch of any other, and nothing is counted before the shrink is proved.
* What undo would do (`UndoState`, `UndoRun`): a journal that can be undone, or that undo
  has removed with the record still to come, is of a job that moves nothing.
* Where the content is (`Kept`, at `Spot`): an offset that the record counts is at the
  new place, every other one at the old. The sectors written next are not the place of
  any offset not counted (`ChunkMisses`, by the displacement and the direction).
* What must not be mistaken for it. Before a barrier no sector outside other partitions
  holds another offset's content (`Clean`), so that a filesystem grown over them is whole;
  sources not yet counted hold their own or junk (`SourceOwn`). A half-done job is given
  up only while every sector at the entry still reads as its own; that is safe because a
  source sector that reads as its own in the cache has never been overwritten on the
  medium either (`Agrees`).

`DoneMeansDone` needs a third layer, `DebtInv`, because a run that ends complete answers
for the earlier runs of its job that died between the commit and the growth. What is owed
is always in one of two accounts. While a run has the work before it, everything owed has
a step left that does it, or a step that makes the run end partial (`WillDo`, in
`DebtDue`). On disk (`DebtRecorded`), the record with the entry already at its new range
says enough to decide for the same steps again: that the job grew, whether the start
moved, what the volume was promised; and its shrink is settled, so that the next run does
not mistake the job for one that shrinks. Where a job keeps no record (MBR, or nothing to
resume) the journal remains, and every command is refused until it is undone or abandoned.
`Decided` ties the run to the record it was decided by; it holds because a run is refused
unless it is the recorded job. The volume reaches its goal exactly because the goal is whole
extents away (`Goal`, `WholeExtents`).

In `GptCommit` every write destroys one of the two copies until its sync, so there must be
a moment-by-moment account of which copy stands for it. `IInv` says that the medium always
has one (`PrimaryAt \/ BackupAt`) and why: outside the writes the cache and the medium agree
(`Synced`, where `Writeback` is needed), and during the four writes each step has its
own survivor (`Progress`). A commit begins with both copies in order, or, in a resumed job
that does not repair, with a backup that already is the table the first commit makes
(`JobScene`, `Planned`); damage inside a job would break exactly that. `OneEntry` says that
what a commit writes is the table it read with its own change, which makes the
refinement of `AtomicTable` hold.

In `UndoJournal` the inductive invariant has five parts. `Sound`: the journal, the plan of
the command and the counters have the shapes the code can make. `OneJob`: records and
checkpoint are of one job. `Keeps`: until a barrier is recorded the first record of a
copy holds its original (for a copy that has none, the disk does), and bytes outside the
journal are written only behind a barrier; it covers `Reversible` in the middle of
a command as well. `UndoKeeps`: during an undo the first record of a copy is still to be
written back, or the copy is what it was; this is why it matters that the records are
taken from the last to the first. `EditsKnown`: nothing the journal holds was written after
the latest edit by another tool, so what such an edit left is never taken for the
command's own and never overwritten. `RecordsStay` needs in addition that an inode names
one journal for ever (`OwnInodes`, from `~ReuseInode`).

`AdviceHolds` needs three more parts (`AInv`). `RecordsFit`: while undo is what the user is
told to run, a copy has at most two records (the repair's and the command's own), the second
made over what the first left, and the copy holds what the last one says, a prefix of it, or
what the first one found; so the check of undo, which compares each record with what undoing
the later ones would leave, passes, and passes again after any prefix of the write-back.
Two, for any number of commands, because a command that leaves a journal without a
checkpoint is undone or abandoned before the next one starts. `JobStands`: while a checkpoint
lies there, the primary copy holds the table the job began with or the one it makes, or it is
torn and the backup holds one of them. That is kept because a commit writes the
backup first and does not touch it unless the primary is one of the two, and it is what
undo breaks when it takes a repair back under the job. `PlansEnd`: the writes of a plan
come in pairs, the checkpoint is dropped last and behind a barrier, and undo and abandon
remove the journal before the checkpoint, which is why a lone journal without a barrier is
always a whole one.

In `OnlineResize` the invariant follows one run from the decision: what was decided still
stands (`Decided`), which of the kernel's view and the table's the step may rely on
(`KernelKnown`; the kernel's own view counts only after the run has told the kernel what it
wrote), that each path keeps to its steps (`PathKnown`, `ShrinkKnown`), the size each step
has reached (`SizesReached`), that nothing is written before the first tool (`Unwritten`),
and that the volume's goal is a whole number of extents away (`FactsWhole`), so that
`lvextend` reaches it exactly. `MountKnown` says that between a check of the mount and its
tool the mount leads to the target or has `slipped`, which is all `OtherFilesystemsStay`
needs. The third parties' edits are covered because `part_resize` reads the table again
before it writes. No assumption relates the kernel's view to the table: where a tool may
grow past the entry, `PvResize` and `FillTool` are shown to set `blind`.

In `TargetLock` the strengthening says why a lock on a file name works: lock files are
made once and never removed (`LockFilesStay`), so every handle of a key is on the same
inode (`HandlesReal`), so the lock is one per key (`KeyExclusive`). A disk's key is the
disk (`KeyFits`), which settles disks. Names and files are not in one-to-one
correspondence, so for images the second lock does the work: whoever opened the file and
expects it holds the lock on that very file (`Secured`), and that lock is exclusive
(`FileExclusive`). `SceneKept` is inductive with `KeyExclusive`: the scene at a key changes
only in the hands of its holder. No bound on the edits of other programs is used.

The invariants were model-checked on the instances of the runs before they were proved.
Every safety invariant and action property of the passing runs is stated by a theorem of
the table. Only model-checked is liveness (`EventuallyReleased`, `EventuallyDone`): outside
the prover's reach, like `ENABLED`.

## 6. Not modelled, and why

* Byte layouts, CRCs, formatting, argument parsing, confirmation, parsing of sysfs,
  mountinfo and the reports of LVM: pure functions or I/O. A CRC is taken to detect every
  torn structure.
* The disk GUID credential, disks without a stable identity, old journal formats: guards
  on data the models do not tell apart.
* Data is torn at sector boundaries only.
* The time between the last table check and the write after it (a third party inside it):
  the code names that window and cannot close it. (The window after the last check of the
  mount is modelled.)
* Filesystem tools: what they leave behind, and their failure, is an action; their
  insides are external. `mkswap` and the filesystem tools are taken to sync.
* `mkfs`, `check`, labels and attributes: one external call each, without a record. That
  `check` and `resizefs` do not write over a scene is in `TargetLock`.
* Superfloppy images, growth of an image container, extended MBR partitions, overlay
  layers, the choice among several logical volumes.
* `info` and `plan` print and write nothing.

## 7. What is left

1. An abstract specification of `PartResize` in the manner of `AtomicRelocation`, and the
   refinement of `UndoJournal`'s mutual exclusion by `TargetLock`.
2. Superfloppy and container growth as further situations of `PartResize`.
