----------------------------- MODULE PartResize -----------------------------
(***************************************************************************)
(* A job on one partition of an idle disk or image: `resize-part`, `move`, *)
(* `resize` and `copy` on a GPT, `resize` on an MBR.  src/movepart/        *)
(* resize.rs and copy.rs do the work, src/cmd/resize its entry and its LVM *)
(* tail; src/fsops shrinks and grows the filesystem with outside tools.    *)
(*                                                                         *)
(* Sector k of the filesystem holds k; the first sector of an NTFS holds   *)
(* Boot(h), h being the HiddenSectors field.  `disk` is what a read        *)
(* returns, `media` what a power loss leaves: any subset of the sectors    *)
(* written since the last sync survives.  A table commit, a save of the    *)
(* checkpoint and a journal record are durable steps of their own, as      *)
(* GptCommit and UndoJournal show in detail.  Tools of the filesystems     *)
(* sync what they write; one that fails may or may not have resized.       *)
(*                                                                         *)
(* Bounds on third parties: they create partitions in free space, up to    *)
(* the last look the code takes at the table, and not in the range an      *)
(* unfinished job is moving to.  The user does not abandon a job whose     *)
(* data is in two places.  Swap and overlay layers are left to Relocation. *)
(***************************************************************************)
EXTENDS LvmChain, FiniteSets

CONSTANTS
  DiskSize, Usable,   \* sectors 1 .. DiskSize, of which 1 .. Usable are usable
  Situations,         \* what a command may find, see SituationOK
  Requests,           \* what it may be asked for
  MinFs,              \* no filesystem shrinks below this
  Extent,             \* of the volume group
  RedoWindow, MaxBatch, \* bounds of the adaptive batch
  Claimable,          \* sectors where third parties create partitions
  MaxCrashes, MaxFaults, MaxEdits

Sectors == 1 .. DiskSize
Kinds == {"ext", "ntfs", "btrfs", "xfs", "pv", "unknown"}
At(start, len) == [start |-> start, len |-> len]
Ranges == [start: 0 .. DiskSize, len: 0 .. DiskSize]
NoEntry == At(0, 0)
Last(r) == r.start + r.len - 1
Covers(r) == r.start .. Last(r)

(* A record file: RsCheckpoint; an undo journal with the entry and the     *)
(* neighbours its records lead back to.                                    *)
Shrunk == {"no", "verified", "unverified"}
NoCkpt == [old |-> NoEntry, new |-> NoEntry, shrunk |-> "no", done |-> 0,
           chunk |-> 0, facts |-> NoFacts]
NoJnl == [state |-> "none", entry |-> NoEntry, others |-> {}]

RequestRecords ==
  [verb: {"part", "resize", "grow", "copy"}, start: Sectors, len: Nat,
   chunk: Nat \ {0}, nofs: BOOLEAN, growLv: BOOLEAN]
SituationOK(s) ==
  /\ s.label \in {"gpt", "mbr"} /\ s.kind \in Kinds
  /\ s.entry \in Ranges /\ s.entry.len > 0 /\ Covers(s.entry) \subseteq 1 .. Usable
  /\ s.fs \in 1 .. s.entry.len /\ s.lv \in Nat
  /\ s.others \subseteq 1 .. Usable /\ s.others \cap Covers(s.entry) = {}

ASSUME PartAssumption ==
  /\ DiskSize \in Nat /\ Usable \in 1 .. DiskSize
  /\ Claimable \subseteq 1 .. Usable /\ {MinFs, MaxCrashes, MaxFaults, MaxEdits} \subseteq Nat
  /\ {Extent, RedoWindow, MaxBatch} \subseteq Nat \ {0}
  /\ Requests \subseteq RequestRecords
  /\ \A s \in Situations : SituationOK(s)

VARIABLES
  label, kind,  \* of the table; of what the partition holds
  entry,        \* the partition's range on disk
  others,       \* sectors of other partitions
  copy,         \* the entry `copy` added, and the filesystem in it
  fs,           \* sectors the filesystem, or the PV, believes it has
  lv,           \* sectors of the logical volume to extend
  disk, media,  \* the contents
  ckpt, jnl,    \* the recovery records
  mounted,      \* a temporary mount nobody could release
  debt,         \* ghost: what jobs have promised and not yet done
  pc, job,      \* where the run is and what it decided
  at, batch,    \* chunks copied, and how many of them one save takes
  owed,         \* the run has something pending
  outcome, used

vars == <<label, kind, entry, others, copy, fs, lv, disk, media, ckpt, jnl,
          mounted, debt, pc, job, at, batch, owed, outcome, used>>
fixed == <<label, kind>>
table == <<entry, others, copy>>
volume == <<fs, lv>>
data == <<disk, media>>
records == <<ckpt, jnl>>
progress == <<at, batch>>

Alien == -2
Junk == -1
Boot(h) == -10 - h
Is(content, k) == IF kind = "ntfs" /\ k = 0 THEN content <= Boot(0) ELSE content = k
CanGrow == {"ext", "ntfs", "btrfs", "xfs"}
CanShrink == {"ext", "ntfs", "btrfs"}
ByMount == {"btrfs", "xfs"}

Min2(a, b) == IF a <= b THEN a ELSE b
Max2(a, b) == IF a >= b THEN a ELSE b

(***************************************************************************)
(* The geometry of a move: which chunk goes when.                          *)
(***************************************************************************)
Forward(j) == j.new.start > j.old.start
Moved(j) == IF Forward(j) THEN j.new.start - j.old.start ELSE j.old.start - j.new.start
Overlaps(j) == Moved(j) # 0 /\ Moved(j) < j.old.len

(* Mutant: all of the old range is copied.                                 *)
CopyLenOld(j) == j.old.len
CopyLen(j) == Min2(j.old.len, j.new.len)

(* move_chunk_layout *)
ChunkLen(j) == IF Overlaps(j) THEN Min2(j.chunk, Moved(j)) ELSE j.chunk
ChunkCount(j) == (CopyLen(j) + ChunkLen(j) - 1) \div ChunkLen(j)
ChunkAt(j, p) == p * ChunkLen(j) .. Min2((p + 1) * ChunkLen(j), CopyLen(j)) - 1

(* The offsets of the n-th chunk to be copied, n from 0.                   *)
(* Mutant: the order does not depend on the direction.                     *)
OffsetsHeadFirst(j, n) == ChunkAt(j, n)
Offsets(j, n) == ChunkAt(j, IF Forward(j) THEN ChunkCount(j) - 1 - n ELSE n)

(* ckpt_batch_cap, next_ckpt_batch: how long the save took is not ours.    *)
BatchCap(j) == Min2(MaxBatch, Max2(1, RedoWindow \div ChunkLen(j)))
NextBatches(j) ==
  { Max2(1, Min2(b, BatchCap(j))) : b \in {2 * batch, batch, batch \div 2} }


NoJob == [verb |-> "part", old |-> NoEntry, new |-> NoEntry, base |-> NoEntry,
          committed |-> FALSE, shrunk |-> "no", act |-> "leave", defer |-> FALSE,
          growLv |-> FALSE, facts |-> NoFacts, chunk |-> 1, seen |-> {}]

TypeOK ==
  /\ label \in {"gpt", "mbr"} /\ kind \in Kinds
  /\ entry \in Ranges /\ others \subseteq Sectors
  /\ copy.start \in 0 .. DiskSize
  /\ fs \in 0 .. DiskSize /\ lv \in Nat
  /\ disk \in [Sectors -> Int] /\ media \in [Sectors -> Int]
  /\ ckpt.shrunk \in Shrunk /\ ckpt.facts \in Facts
  /\ jnl.state \in {"none", "open", "barrier"}
  /\ mounted \in BOOLEAN /\ debt \subseteq {"fs", "pv", "lv", "hidden"}
  /\ pc \in {"down", "prepared", "shrink", "saveshrink", "cut", "barrier", "copy", "sync",
             "save", "commit", "hidden", "grow", "growfs", "settle", "pvbarrier", "pvresize",
             "lvextend", "pvsettle", "dupbarrier", "dup", "dupsync", "duphidden", "dupadd",
             "close", "undone", "undonefiles"}
  /\ job.act \in {"leave", "shrink", "grow"} /\ job.shrunk \in Shrunk
  /\ at \in Nat /\ batch \in Nat \ {0} /\ owed \in BOOLEAN
  /\ outcome \in {"none", "refused", "failed", "partial", "done"}
  /\ used \in [crash: 0 .. MaxCrashes, fault: 0 .. MaxFaults, edit: 0 .. MaxEdits]

Init ==
  /\ \E s \in Situations :
       /\ label = s.label /\ kind = s.kind /\ entry = s.entry /\ others = s.others
       /\ fs = s.fs /\ lv = s.lv
       /\ disk = [x \in Sectors |->
            IF x \in s.others THEN Alien
            ELSE IF x - s.entry.start \notin 0 .. s.fs - 1 THEN Junk
            ELSE IF s.kind = "ntfs" /\ x = s.entry.start THEN Boot(x)
            ELSE x - s.entry.start]
  /\ media = disk /\ copy = [start |-> 0, len |-> 0, fs |-> 0]
  /\ ckpt = NoCkpt /\ jnl = NoJnl /\ mounted = FALSE /\ debt = {}
  /\ pc = "down" /\ job = NoJob /\ at = 0 /\ batch = 1 /\ owed = FALSE
  /\ outcome = "none" /\ used = [crash |-> 0, fault |-> 0, edit |-> 0]

(* A run that stops forgets what it knew.                                  *)
inRun == <<job, at, batch, owed>>
Forget == job' = NoJob /\ at' = 0 /\ batch' = 1 /\ owed' = FALSE
Stop(o) == pc' = "down" /\ outcome' = o /\ Forget
Go(next) == pc' = next /\ UNCHANGED outcome
Continue(next) == Go(next) /\ UNCHANGED inRun
Fault == used.fault < MaxFaults /\ used' = [used EXCEPT !.fault = @ + 1]
NoFault == UNCHANGED used

(***************************************************************************)
(* prepare_resize, prepare_copy and the entry of `resize`: read only.      *)
(***************************************************************************)
Active == ckpt # NoCkpt \/ jnl.state # "none"

(* ResumeClaim: what each command accepts of an unfinished job.            *)
Claimed(r) ==
  Active =>
    CASE label = "mbr" \/ r.verb = "copy" -> FALSE
      [] r.verb = "part" -> ckpt # NoCkpt
      [] OTHER -> ckpt.facts.kind # "none"

Taken == others \cup Covers(copy)
FreeEnd ==    \* free_right_gpt, free_right_msdos
  LET right == { s \in Taken : s > Last(entry) } \cup {Usable + 1}
  IN (CHOOSE s \in right : \A t \in right : s <= t) - 1

Target(r) ==
  CASE r.verb = "part" -> At(r.start, r.len)
    [] r.verb = "copy" -> At(r.start, entry.len)
    [] r.verb = "resize" -> At(entry.start, r.len)
    [] r.verb = "grow" -> IF ckpt # NoCkpt THEN ckpt.new
                          ELSE At(entry.start, FreeEnd - entry.start + 1)

(* classify_restore: the request, the record and the table agree, or not.  *)
Restore(r) ==
  CASE ckpt = NoCkpt -> "fresh"
    [] ckpt # NoCkpt /\ ckpt.new # Target(r) -> "divergent"
    [] ckpt.new = Target(r) /\ entry = ckpt.new -> "committed"
    [] ckpt.new = Target(r) /\ entry = ckpt.old /\ entry # ckpt.new /\ ckpt.chunk = r.chunk -> "resume"
    [] OTHER -> "divergent"

Deferred(r) == kind = "pv" /\ r.verb \in {"resize", "grow"}
Decision(r) ==
  LET new == Target(r)
      base == IF Restore(r) = "committed" THEN ckpt.old ELSE entry
      act == IF new.len < base.len /\ ckpt.shrunk # "verified" THEN "shrink"
             ELSE IF new.len > base.len /\ ~r.nofs THEN "grow" ELSE "leave"
  IN [verb |-> r.verb, old |-> entry, new |-> new, base |-> base,
      committed |-> Restore(r) = "committed", shrunk |-> ckpt.shrunk,
      act |-> act, defer |-> Deferred(r), growLv |-> r.growLv,
      facts |-> IF ckpt.facts.kind # "none" THEN ckpt.facts
                ELSE IF Deferred(r) /\ label = "gpt"
                     THEN LvmPost(r.growLv, lv, base.len, new.len, Extent)
                     ELSE NoFacts,
      chunk |-> r.chunk, seen |-> others]

(* probe_fs recognises the head of the partition where the table has it,   *)
(* and grow_target_at decides by that.                                     *)
Identified == Is(disk[entry.start], 0)
HeadReadable == Identified

(* probe_occupancy: a temporary mount that stayed.                         *)
Occupied == mounted

(* The refusals every job meets, and those of a job on the partition       *)
(* itself.                                                                 *)
OutOfPlace(r) ==
  LET new == Target(r) IN
  \/ new.len = 0 \/ new.start + new.len - 1 > Usable
  \/ Covers(new) \cap Taken # {}
  \/ r.verb = "copy" /\ Covers(new) \cap Covers(entry) # {}
NotNow(r) ==
  \/ Occupied \/ Restore(r) = "divergent"
  \/ kind = "pv" /\ Target(r).start # entry.start
  \/ r.verb = "grow" /\ Restore(r) = "fresh" /\ Target(r) = entry /\ kind # "pv"
  \/ r.verb \in {"resize", "grow"} /\ kind = "pv" /\ (r.nofs \/ Target(r).len < entry.len)
  \/ r.growLv /\ ~Deferred(r)
NoFsRefused(r, j) ==
  r.nofs /\ (j.act = "shrink" \/ (j.committed /\ j.new.len > j.base.len))
(* fs_min_bytes: only an ext tells its minimum before the tool runs.       *)
BelowMin(j) == kind = "ext" /\ j.new.len < MinFs
StepRefused(r, j) ==
  \/ j.act = "shrink" /\ (kind \notin CanShrink \/ BelowMin(j))
  \/ j.act = "grow" /\ (kind \notin CanGrow \cup {"pv"} \/ ~HeadReadable)
  \/ /\ Deferred(r) /\ label = "gpt" /\ ckpt.facts.kind = "none"
     /\ BelowExtent(r.growLv, j.base.len, j.new.len, Extent)
Refused(r) ==
  \/ ~Claimed(r) \/ OutOfPlace(r)
  \/ r.verb = "copy" /\ copy.len > 0      \* one copy is enough here
  \/ label = "mbr" /\ r.verb \notin {"resize", "grow"}
  \/ r.verb # "copy" /\
       (NotNow(r) \/ NoFsRefused(r, Decision(r)) \/ StepRefused(r, Decision(r)))

NothingToDo(r) ==
  /\ r.verb = "resize" /\ ~Active /\ kind # "pv" /\ Target(r) = entry
  /\ ~r.growLv /\ (label = "mbr" => ~Occupied)

Prepare(r) ==
  /\ pc = "down"
  /\ UNCHANGED <<fixed, table, volume, data, records, mounted, debt, used>>
  /\ \/ /\ Refused(r) /\ ~NothingToDo(r) /\ Stop("refused")
     \/ /\ ~Refused(r) \/ NothingToDo(r)
        /\ job' = Decision(r) /\ at' = ckpt.done /\ owed' = FALSE
        /\ batch' = BatchCap(job') /\ outcome' = "none"
        /\ pc' = IF NothingToDo(r) THEN "close" ELSE "prepared"

(***************************************************************************)
(* execute_resize, stage 0.  ensure_entries_unchanged comes right before   *)
(* the first write and again after the shrink; the MBR writer looks at the *)
(* neighbours itself when it writes.                                       *)
(***************************************************************************)
FirstStep ==
  CASE job.verb = "copy" -> "dupbarrier"
    [] job.verb # "copy" /\ job.act = "shrink" -> "shrink"
    [] job.verb # "copy" /\ job.act # "shrink" /\ label = "gpt" -> "cut"
    [] job.verb # "copy" /\ job.act # "shrink" /\ label = "mbr" ->
         IF job.new = job.old THEN "hidden" ELSE "commit"

Recheck ==
  /\ pc = "prepared"
  /\ IF label = "gpt" /\ others # job.seen
     THEN Stop(IF job.verb = "copy" THEN "failed" ELSE "refused")
     ELSE Continue(FirstStep)
  /\ UNCHANGED <<fixed, table, volume, data, records, mounted, debt, used>>

(* A tool brings the filesystem to n sectors and syncs.                    *)
Written(f, n) ==
  [s \in Sectors |-> IF s - entry.start \in fs .. n - 1 THEN s - entry.start ELSE f[s]]
FsTo(n) == fs' = n /\ disk' = Written(disk, n) /\ media' = Written(media, n)
FsStays == UNCHANGED <<fs, data>>
FsPerhapsTo(n) == FsTo(n) \/ FsStays

Record(j) == [old |-> j.old, new |-> j.new, shrunk |-> j.shrunk, done |-> at,
              chunk |-> j.chunk, facts |-> j.facts]

Measured(answer) ==
  /\ job' = [job EXCEPT !.shrunk = answer] /\ Go("saveshrink") /\ UNCHANGED <<progress, owed>>
Shrinking ==
  pc = "shrink" /\ UNCHANGED <<fixed, table, lv, records, debt>>

(* shrink_already_at: a resumed job reads the size back before it shrinks. *)
ReadBack ==
  /\ Shrinking /\ job.shrunk = "unverified" /\ FsStays /\ UNCHANGED mounted
  /\ \/ Fault /\ Stop("partial")
     \/ NoFault /\ fs <= job.new.len /\ Measured("verified")
     \/ /\ NoFault /\ fs > job.new.len /\ Go("shrink") /\ UNCHANGED <<progress, owed>>
        /\ job' = [job EXCEPT !.shrunk = "no"]

(* with_mount: the tool has run, the temporary mount cannot be released.   *)
ReleaseFails == Fault /\ kind \in ByMount /\ mounted' = TRUE

(* shrink_fs: the tool, then its result read back; btrfs is mounted for it *)
(* and the mount may stay.                                                 *)
ShrinkFs ==
  /\ Shrinking /\ job.shrunk = "no"
  /\ \/ /\ NoFault /\ job.new.len >= MinFs /\ FsTo(job.new.len)
        /\ Measured("verified") /\ UNCHANGED mounted
     \/ ReleaseFails /\ job.new.len >= MinFs /\ FsTo(job.new.len) /\ Measured("verified")
     \/ /\ Fault /\ job.new.len >= MinFs /\ FsPerhapsTo(job.new.len)
        /\ Measured("unverified") /\ UNCHANGED mounted
     \/ /\ NoFault /\ job.new.len < MinFs /\ FsStays /\ UNCHANGED mounted /\ Stop("failed")
     \/ /\ Fault /\ job.new.len >= MinFs /\ FsPerhapsTo(job.new.len)
        /\ UNCHANGED mounted /\ Stop("failed")

(* The record is kept before anything relies on the shrink; unproved, or   *)
(* with the mount left, the run ends here.  An MBR has no record.          *)
SaveShrink ==
  /\ pc = "saveshrink"
  /\ ckpt' = IF label = "gpt" THEN Record(job) ELSE ckpt
  /\ IF job.shrunk = "unverified" \/ mounted THEN Stop("partial")
     ELSE Continue(IF label = "gpt" THEN "cut" ELSE "commit")
  /\ UNCHANGED <<fixed, table, volume, data, jnl, mounted, debt, used>>

(* The second look, and the record every further step can be resumed from. *)
Saves == ~job.committed /\ (Moved(job) # 0 \/ job.act = "grow")

Cut ==
  /\ pc = "cut"
  /\ UNCHANGED <<fixed, table, volume, data, jnl, mounted, debt, used>>
  /\ \/ others # job.seen /\ Stop("failed") /\ UNCHANGED ckpt
     \/ /\ others = job.seen
        /\ ckpt' = IF Saves THEN Record(job) ELSE ckpt
        /\ Continue(IF job.committed THEN "hidden"
                    ELSE IF Moved(job) # 0 THEN "barrier" ELSE "commit")

(* mark_non_reversible *)
Barred == [jnl EXCEPT !.state = "barrier"]
Bar(next) ==
  /\ jnl' = Barred /\ Continue(next)
  /\ UNCHANGED <<fixed, table, volume, data, ckpt, mounted, debt, used>>
MoveBarrier == pc = "barrier" /\ Bar(IF at < ChunkCount(job) THEN "copy" ELSE "commit")

(***************************************************************************)
(* Stages 1 and 2: the data, then the entry.                               *)
(***************************************************************************)
CopyChunk ==
  /\ pc = "copy"
  /\ disk' = [s \in Sectors |->
       IF s - job.new.start \in Offsets(job, at)
       THEN disk[job.old.start + (s - job.new.start)] ELSE disk[s]]
  /\ at' = at + 1
  /\ Go(IF Overlaps(job) \/ at' = ChunkCount(job) \/ at' - ckpt.done >= batch
        THEN "sync" ELSE "copy")
  /\ UNCHANGED <<fixed, table, volume, media, records, mounted, debt, job, batch, owed, used>>

SyncData ==
  /\ pc = "sync" /\ media' = disk /\ Continue("save")
  /\ UNCHANGED <<fixed, table, volume, disk, records, mounted, debt, used>>

SaveProgress ==
  /\ pc = "save" /\ ckpt' = Record(job)
  /\ IF Overlaps(job) THEN UNCHANGED batch ELSE batch' \in NextBatches(job)
  /\ Go(IF at < ChunkCount(job) THEN "copy" ELSE "commit")
  /\ UNCHANGED <<fixed, table, volume, data, jnl, mounted, debt, job, at, owed, used>>

(* Mutant: a resumed job compares with the entry it finds.                 *)
StartMovedNow(j) == j.verb # "copy" /\ j.old.start # j.new.start
(* committed_old: with the table written already, the record knows.        *)
StartMoved(j) == j.verb # "copy" /\ j.base.start # j.new.start
Promised ==
  (IF job.act = "grow" /\ kind # "pv" THEN {"fs"} ELSE {}) \cup
  (IF job.act = "grow" /\ kind = "pv" /\ job.defer THEN {"pv"} ELSE {}) \cup
  (IF job.facts.kind = "lv" THEN {"lv"} ELSE {}) \cup
  (IF kind = "ntfs" /\ StartMoved(job) THEN {"hidden"} ELSE {})

(* resize_mdos_entry looks once more at the other slots.                   *)
MbrTaken == label = "mbr" /\ Covers(job.new) \cap others # {}

(* update_entry and commit, or resize_mdos_entry; the journal opens with   *)
(* the first record.                                                       *)
Commit ==
  /\ pc = "commit"
  /\ UNCHANGED <<fixed, others, copy, volume, disk, ckpt, mounted, used>>
  /\ \/ /\ MbrTaken
        /\ Stop(IF job.act = "shrink" THEN "failed" ELSE "refused")
        /\ UNCHANGED <<entry, media, jnl, debt>>
     \/ /\ ~MbrTaken
        /\ entry' = job.new /\ media' = disk /\ debt' = debt \cup Promised
        /\ jnl' = IF jnl.state = "none"
                  THEN [state |-> "open", entry |-> entry, others |-> others] ELSE jnl
        /\ Continue("hidden")

(* fix_ntfs_hidden_sectors, written and synced.                            *)
FixBoot(start) ==
  /\ disk' = [disk EXCEPT ![start] = Boot(start)]
  /\ media' = [disk EXCEPT ![start] = Boot(start)]

HiddenSectors ==
  /\ pc = "hidden"
  /\ IF kind = "ntfs" /\ StartMoved(job)
     THEN FixBoot(job.new.start) /\ debt' = debt \ {"hidden"}
     ELSE UNCHANGED <<data, debt>>
  /\ Continue(IF job.act = "grow" THEN "grow" ELSE "settle")
  /\ UNCHANGED <<fixed, table, volume, records, mounted, used>>

(***************************************************************************)
(* Stage 3: finalize_growth, and mbr_grow_finish.                          *)
(***************************************************************************)
GrowStays == UNCHANGED <<fixed, table, lv, ckpt>>
Owes == owed' = TRUE /\ Go("settle") /\ UNCHANGED <<job, progress>>

(* kernel_resync, then the barrier before a tool that cannot be undone.    *)
(* Mutant: the journal is left as it is.                                   *)
GrowUnbarred ==
  /\ pc = "grow" /\ GrowStays /\ FsStays /\ NoFault /\ Continue("growfs")
  /\ UNCHANGED <<jnl, mounted, debt>>
Grow ==
  /\ pc = "grow" /\ GrowStays /\ FsStays /\ UNCHANGED <<mounted, debt>>
  /\ \/ Fault /\ UNCHANGED jnl /\ Owes
     \/ NoFault /\ kind = "pv" /\ UNCHANGED jnl /\ Continue("settle")
     \/ NoFault /\ kind # "pv" /\ jnl' = Barred /\ Continue("growfs")

GrowFs ==
  /\ pc = "growfs" /\ GrowStays /\ UNCHANGED jnl
  /\ \/ /\ NoFault /\ FsTo(entry.len) /\ debt' = debt \ {"fs"}
        /\ UNCHANGED mounted /\ Continue("settle")
     \/ ReleaseFails /\ FsTo(entry.len) /\ debt' = debt \ {"fs"} /\ Owes
     \/ Fault /\ FsPerhapsTo(entry.len) /\ UNCHANGED <<mounted, debt>> /\ Owes

(* checkpoint_may_be_removed: not with anything pending, nor while the LVM *)
(* chain, or a later `resize` that runs it, needs the record.              *)
LvmLeft == job.facts.kind # "none" /\ ~job.defer
Settle ==
  /\ pc = "settle"
  /\ UNCHANGED <<fixed, table, volume, data, jnl, mounted, debt>>
  /\ \/ /\ ~owed /\ ~job.defer /\ ~LvmLeft /\ ckpt' = NoCkpt /\ NoFault /\ Continue("close")
     \/ /\ ~owed /\ ~job.defer /\ ~LvmLeft /\ UNCHANGED ckpt /\ Fault /\ Stop("partial")
     \/ job.defer /\ UNCHANGED ckpt /\ NoFault /\ Continue("pvbarrier")
     \/ ~job.defer /\ (owed \/ LvmLeft) /\ UNCHANGED ckpt /\ NoFault /\ Stop("partial")

(***************************************************************************)
(* finish_resize and resize_done: the LVM chain of a PV.                   *)
(***************************************************************************)
PvBarrier == pc = "pvbarrier" /\ Bar("pvresize")

PvResize ==
  /\ pc = "pvresize"
  /\ UNCHANGED <<fixed, table, lv, records, mounted>>
  /\ \/ Fault /\ FsPerhapsTo(entry.len) /\ UNCHANGED debt /\ Stop("partial")
     \/ NoFault /\ FsTo(entry.len) /\ debt' = debt \ {"pv"} /\ Continue("lvextend")

Free == Max2(0, fs \div Extent - lv \div Extent)
Added == Max2(0, entry.len - job.old.len)
Extents == LvExtents(ckpt.facts, job.growLv, Added, lv, Free, Extent)
AfterChain == IF owed THEN Stop("partial") ELSE Continue("pvsettle")

LvExtend ==
  /\ pc = "lvextend"
  /\ UNCHANGED <<fixed, table, fs, data, records, mounted>>
  /\ \/ NoFault /\ Extents = 0 /\ UNCHANGED lv /\ debt' = debt \ {"lv"} /\ AfterChain
     \/ NoFault /\ Extents < 0 /\ UNCHANGED <<lv, debt>> /\ Stop("partial")
     \/ NoFault /\ Extents > 0 /\ lv' = lv + Extent * Extents /\ debt' = debt \ {"lv"} /\ AfterChain
     \/ Fault /\ Extents > 0 /\ lv' \in {lv, lv + Extent * Extents} /\ UNCHANGED debt /\ Stop("partial")

PvSettle ==
  /\ pc = "pvsettle"
  /\ \/ NoFault /\ ckpt' = NoCkpt /\ Continue("close")
     \/ Fault /\ UNCHANGED ckpt /\ Stop("partial")
  /\ UNCHANGED <<fixed, table, volume, data, jnl, mounted, debt>>

(* main: the journal goes when the outcome is complete.  With the job over *)
(* nobody looks any more at what is left in the sectors it vacated.        *)
Vacated(s) == s \notin Taken \cup Covers(At(entry.start, fs))
Tidy(f) == [s \in Sectors |-> IF Vacated(s) THEN Junk ELSE f[s]]
Close ==
  /\ pc = "close"
  /\ \/ NoFault /\ jnl' = NoJnl /\ Stop("done") /\ disk' = Tidy(disk) /\ media' = Tidy(media)
     \/ Fault /\ jnl.state # "none" /\ UNCHANGED <<jnl, data>> /\ Stop("partial")
  /\ UNCHANGED <<fixed, table, volume, ckpt, mounted, debt>>

(***************************************************************************)
(* execute_copy: barrier, chunks synced one by one, HiddenSectors, entry.  *)
(***************************************************************************)
DupBarrier == pc = "dupbarrier" /\ Bar("dup")
DupStays ==
  UNCHANGED <<fixed, entry, others, volume, records, mounted, debt, used>>
DupChunk ==
  /\ pc = "dup" /\ DupStays /\ UNCHANGED <<copy, media>>
  /\ disk' = [s \in Sectors |->
       IF s - job.new.start \in ChunkAt(job, at)
       THEN disk[job.old.start + (s - job.new.start)] ELSE disk[s]]
  /\ at' = at + 1 /\ Go("dupsync") /\ UNCHANGED <<job, batch, owed>>
DupSync ==
  /\ pc = "dupsync" /\ DupStays /\ UNCHANGED <<copy, disk>>
  /\ media' = disk /\ Continue(IF at < ChunkCount(job) THEN "dup" ELSE "duphidden")
DupHidden ==
  /\ pc = "duphidden" /\ DupStays /\ UNCHANGED copy
  /\ IF kind = "ntfs" THEN FixBoot(job.new.start) ELSE UNCHANGED data
  /\ Continue("dupadd")
DupAdd ==
  /\ pc = "dupadd" /\ DupStays /\ UNCHANGED disk
  /\ \/ Covers(job.new) \cap Taken # {} /\ Stop("failed") /\ UNCHANGED <<copy, media>>
     \/ /\ Covers(job.new) \cap Taken = {} /\ Continue("close")
        /\ copy' = [start |-> job.new.start, len |-> job.new.len, fs |-> fs]
        /\ media' = disk

Run ==
  \/ Recheck \/ ReadBack \/ ShrinkFs \/ SaveShrink \/ Cut \/ MoveBarrier
  \/ CopyChunk \/ SyncData \/ SaveProgress \/ Commit \/ HiddenSectors
  \/ Grow \/ GrowFs \/ Settle
  \/ PvBarrier \/ PvResize \/ LvExtend \/ PvSettle \/ Close
  \/ DupBarrier \/ DupChunk \/ DupSync \/ DupHidden \/ DupAdd
  \/ \E r \in Requests : Prepare(r)

(***************************************************************************)
(* `undo` and `abandon`, and the environment.                              *)
(***************************************************************************)
Spend(what, max) == used[what] < max /\ used' = [used EXCEPT ![what] = @ + 1]
Idle == pc = "down" /\ outcome' = "none" /\ UNCHANGED <<fixed, inRun>>

(* The entry goes back only if the table still reads as this job left it;  *)
(* then the journal is removed, then the checkpoint.                       *)
UndoTable ==
  /\ Idle /\ jnl.state = "open" /\ others = jnl.others
  /\ entry' = jnl.entry /\ debt' = {} /\ pc' = "undone"
  /\ UNCHANGED <<others, copy, volume, data, records, mounted, used>>
UndoFiles ==
  /\ \/ pc = "undone" /\ jnl' = NoJnl /\ UNCHANGED ckpt /\ Continue("undonefiles")
     \/ pc = "undonefiles" /\ ckpt' = NoCkpt /\ UNCHANGED jnl /\ Stop("none")
  /\ UNCHANGED <<fixed, table, volume, data, mounted, debt, used>>
Abandon ==
  /\ Idle /\ Active /\ UNCHANGED pc
  /\ \A k \in 0 .. fs - 1 : Is(disk[entry.start + k], k)
  /\ ckpt' = NoCkpt /\ jnl' = NoJnl /\ debt' = {}
  /\ disk' = Tidy(disk) /\ media' = Tidy(media)
  /\ UNCHANGED <<table, volume, mounted, used>>
Unmount ==
  /\ Idle /\ mounted /\ mounted' = FALSE
  /\ UNCHANGED <<pc, table, volume, data, records, debt, used>>

Die == Stop("none") /\ Spend("crash", MaxCrashes) /\ UNCHANGED fixed
Kill ==
  /\ pc # "down" /\ Die
  /\ UNCHANGED <<table, volume, data, records, mounted, debt>>
PowerLoss ==
  /\ Die
  /\ \E kept \in SUBSET { s \in Sectors : disk[s] # media[s] } :
       disk' = [s \in Sectors |-> IF s \in kept THEN disk[s] ELSE media[s]]
  /\ media' = disk' /\ mounted' = FALSE
  /\ UNCHANGED <<table, volume, records, debt>>

Looking ==
  pc \in {"down", "prepared", "shrink", "saveshrink", "cut"} \/ (label = "mbr" /\ pc = "commit")
ThirdParty ==
  /\ Looking /\ Spend("edit", MaxEdits)
  /\ \E s \in Claimable \ (Taken \cup Covers(entry)) :
       /\ ckpt # NoCkpt => s \notin Covers(ckpt.new)
       /\ others' = others \cup {s}
       /\ disk' = [disk EXCEPT ![s] = Alien] /\ media' = [media EXCEPT ![s] = Alien]
  /\ UNCHANGED <<fixed, pc, outcome, inRun, entry, copy, volume, records, mounted, debt>>

Environment ==
  UndoTable \/ UndoFiles \/ Abandon \/ Unmount \/ Kill \/ PowerLoss \/ ThirdParty

Next == Run \/ Environment
Spec == Init /\ [][Next]_vars

(***************************************************************************)
(* Properties.                                                             *)
(***************************************************************************)
(* Whatever dies when, every sector of the filesystem is where the table   *)
(* and the record on disk say it is, in the cache and on the medium: at    *)
(* the new place if the record counts its chunk as copied, at the old      *)
(* place otherwise.  And no more than the redo window has to be copied     *)
(* again (move_chunk_layout, and "never ahead of durable data" in          *)
(* execute_resize).                                                        *)
Recorded == [ckpt EXCEPT !.chunk = Max2(1, @)]
CopiedOffsets ==
  IF ckpt = NoCkpt \/ entry # ckpt.old \/ ckpt.new.start = ckpt.old.start THEN {}
  ELSE UNION { Offsets(Recorded, n) : n \in 0 .. ckpt.done - 1 }
Place(k) == IF k \in CopiedOffsets THEN ckpt.new.start + k ELSE entry.start + k
Recoverable ==
  /\ \A k \in 0 .. fs - 1 : Is(disk[Place(k)], k) /\ Is(media[Place(k)], k)
  /\ pc \in {"copy", "sync", "save"} =>
       (at - ckpt.done) * ChunkLen(job) <= Max2(RedoWindow, ChunkLen(job))

(* No sector of another partition is ever written, whatever the size of    *)
(* the move, and a partition that appears meanwhile is not run over; the   *)
(* copy of a partition has its entry only once all of it is durable, with  *)
(* its own HiddenSectors.                                                  *)
OthersHoldTheirs ==
  /\ \A s \in others : disk[s] = Alien /\ media[s] = Alien
  /\ (others \cup Covers(copy)) \cap Covers(entry) = {}
  /\ \A k \in 0 .. copy.fs - 1 :
       LET s == copy.start + k
           held == IF kind = "ntfs" /\ k = 0 THEN Boot(copy.start) ELSE k
       IN disk[s] = held /\ media[s] = held

(* The filesystem ends inside its partition: not cut by a table step whose *)
(* shrink was never proved, and not by an undo after the tool that grew it.*)
FsFits == fs <= entry.len

(* A run that ends complete leaves nothing to do: its own range is on disk,*)
(* no record remains, and what an earlier, interrupted run of the job had  *)
(* promised (the filesystem grown into a longer entry, HiddenSectors of a  *)
(* moved NTFS, the PV and its volume) has been done as well.               *)
Ended(o) == pc # "down" /\ pc' = "down" /\ outcome' = o
DoneMeansDone == [][
  Ended("done") =>
    /\ IF job.verb = "copy" THEN copy'.start = job.new.start ELSE entry' = job.new
    /\ ckpt' = NoCkpt /\ jnl' = NoJnl /\ debt' = {}
    /\ job.verb # "copy" /\ job.act = "grow" /\ kind # "pv" => fs' = entry'.len
    /\ job.defer => fs' = entry'.len /\ (job.facts.kind = "lv" => lv' >= job.facts.target)
    /\ kind = "ntfs" => Is(disk'[entry'.start], 0) ]_vars
=============================================================================
