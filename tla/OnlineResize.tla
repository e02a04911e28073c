---------------------------- MODULE OnlineResize ----------------------------
(***************************************************************************)
(* src/online: `resize` of a mounted partition or of a physical volume in  *)
(* use, and `resizefs <mountpoint>`.  There is no journal and no           *)
(* checkpoint: sfdisk writes the table, partx or BLKPG tells the kernel,   *)
(* and the filesystem's own tool works on the size the kernel reports.     *)
(* Four views of one size must agree: the table on disk, the kernel's      *)
(* partition, the filesystem (or PV), and the device the mount leads to.   *)
(*                                                                         *)
(* Sizes are in sectors and relative to the start of the partition, which  *)
(* nobody moves while it is in use.  sfdisk replaces the table atomically  *)
(* and syncs it, partx and the filesystem tools work as documented: on     *)
(* success they reach the size asked for, on failure any size on the way.  *)
(*                                                                         *)
(* Bounds on third parties.  They keep the filesystem inside the partition *)
(* they edit, and they edit the table only up to the last look the code    *)
(* takes at it before a tool acts: the code names the window after that    *)
(* look as one it cannot close.  They mount and refresh at any moment.     *)
(*                                                                         *)
(* Two windows the code leaves open are remembered by history variables,   *)
(* so that the properties can say exactly what they leave out: `slipped`,  *)
(* a mount that changed after the last check of it and before the tool     *)
(* ran, and `blind`, a tool that grew to a view of the kernel that nothing *)
(* in the run has compared with the table.                                 *)
(***************************************************************************)
EXTENDS LvmChain

CONSTANTS
  Situations,     \* the states a command may find, see SituationOK
  Requests,       \* what it may be asked for
  Usable,         \* first sector past the usable range
  Extent,         \* the volume group's extent size
  Elsewhere,      \* size of the filesystem on another device
  ElsewhereRoom,  \* and of that device
  MaxCrashes, MaxFaults, MaxEdits, MaxRemounts  \* bounds of the environment

Views == [len: Nat \ {0}, next: Nat]    \* next: where the right neighbour starts
Kinds == {"ext", "xfs", "btrfs", "vfat", "pv"}

(* mode "fill" is `resizefs` without a size; table: the command may write  *)
(* the table (TablePolicy::WithTable).                                     *)
RequestRecords == [mode: {"set", "grow", "fill"}, size: Nat, table: BOOLEAN, growLv: BOOLEAN]

SituationOK(s) ==
  /\ s.disk \in Views /\ s.kern \in Views
  /\ s.disk.len <= s.disk.next /\ s.disk.next <= Usable
  /\ s.kern.len <= s.kern.next /\ s.kern.next <= Usable
  /\ s.kind \in Kinds /\ s.hold \in {"none", "scene", "swap", "stack"}
  /\ s.fs \in Nat /\ s.fs <= s.disk.len /\ s.lv \in Nat

ASSUME OnlineAssumption ==
  /\ Usable \in Nat /\ Extent \in Nat \ {0} /\ Elsewhere \in Nat /\ ElsewhereRoom \in Nat
  /\ {MaxCrashes, MaxFaults, MaxEdits, MaxRemounts} \subseteq Nat
  /\ Requests \subseteq RequestRecords
  /\ \A r \in Requests : r.mode = "set" /\ ~r.table => r.size > 0
  /\ \A s \in Situations : SituationOK(s)

VARIABLES
  disk,     \* the table on disk
  kern,     \* the kernel's view of it
  fs,       \* sectors the filesystem, or the PV, believes it has
  lv,       \* sectors of the volume to extend
  away,     \* the filesystem on the other device
  mount,    \* the device the mount point leads to
  kind,     \* what the partition holds
  hold,     \* who else holds the target
  pc,       \* where the run is
  req,      \* its request
  viaPv,    \* the command took the partition for a PV
  snap,     \* the kernel's view, read again under the lock
  want,     \* the length decided on, 0 to fill the partition
  facts,    \* what before_write recorded for the LVM chain
  wrote,    \* this run has changed something
  stale,    \* mark_kernel_stale
  outcome,  \* how the last run ended
  slipped,  \* history: the mount changed between its last check and the tool
  blind,    \* history: the last growth went by a view nobody compared
  used      \* how much of each bound is spent

vars == <<disk, kern, fs, lv, away, mount, kind, hold, pc, req, viaPv, snap,
          want, facts, wrote, stale, outcome, slipped, blind, used>>
history == <<slipped, blind>>
views == <<disk, kern, fs, lv, away>>
around == <<mount, kind, hold>>
inRun == <<req, viaPv, snap, want, facts>>

CanGrow == {"ext", "xfs", "btrfs"}    \* fs_grow_cmd knows a tool
CanShrink == {"btrfs"}
ByMount == {"xfs", "btrfs"}           \* their tool takes the mount point
NoRequest == [mode |-> "fill", size |-> 0, table |-> FALSE, growLv |-> FALSE]

TypeOK ==
  /\ disk \in Views /\ kern \in Views /\ snap \in Views
  /\ fs \in Nat /\ lv \in Nat /\ away \in Nat /\ want \in Nat
  /\ mount \in {"target", "other", "none"}
  /\ kind \in Kinds /\ hold \in {"none", "scene", "swap", "stack"}
  /\ pc \in {"down", "resolved", "gated", "decided", "fill", "fill tool", "grow", "sync",
             "growfs", "grow tool", "shrink", "shrink look", "shrink tool", "cut", "cutsync",
             "pvgrow", "pvsync", "pvresize", "lvextend"}
  /\ req \in RequestRecords /\ viaPv \in BOOLEAN
  /\ facts \in Facts
  /\ {wrote, stale, slipped, blind} \subseteq BOOLEAN
  /\ outcome \in {"none", "refused", "infra", "failed", "partial", "done"}
  /\ used \in [crash: 0 .. MaxCrashes, fault: 0 .. MaxFaults, edit: 0 .. MaxEdits,
               remount: 0 .. MaxRemounts]

Init ==
  /\ \E s \in Situations :
       /\ disk = s.disk /\ kern = s.kern /\ fs = s.fs /\ lv = s.lv
       /\ kind = s.kind /\ hold = s.hold /\ snap = s.kern
  /\ away = Elsewhere /\ mount = "target"
  /\ pc = "down" /\ req = NoRequest /\ viaPv = FALSE /\ want = 0 /\ facts = NoFacts
  /\ wrote = FALSE /\ stale = FALSE /\ outcome = "none" /\ slipped = FALSE /\ blind = FALSE
  /\ used = [crash |-> 0, fault |-> 0, edit |-> 0, remount |-> 0]

Stop(o) == pc' = "down" /\ outcome' = o
Continue(at) == pc' = at /\ UNCHANGED outcome
Untouched == UNCHANGED <<views, wrote, stale, history>>
Fault == used.fault < MaxFaults /\ used' = [used EXCEPT !.fault = @ + 1]
NoFault == UNCHANGED used

(***************************************************************************)
(* Read-only steps: resolve, lock, resolve again, decide.                  *)
(***************************************************************************)
LeadsToTarget == mount = "target"     \* resolve_part_dev
MountStays == LeadsToTarget           \* verify_mount_target
SwapActive == hold = "swap"
SceneActive == hold = "scene"         \* refuse_if_scene_active
HeldByStack == hold = "stack"         \* a holder other than device-mapper
StillPv == kind = "pv"
TargetPv == kern                      \* resolve_pv_target: what sysfs says
TargetMounted == kern                 \* resolve_target

Begin(r) ==
  /\ pc = "down"
  /\ kind = "pv" => r.table
  /\ kind # "pv" => LeadsToTarget
  /\ req' = r /\ viaPv' = (kind = "pv")
  /\ snap' = IF kind = "pv" THEN TargetPv ELSE TargetMounted
  /\ want' = 0 /\ facts' = NoFacts /\ wrote' = FALSE /\ stale' = FALSE
  /\ pc' = "resolved" /\ outcome' = "none"
  /\ UNCHANGED <<views, around, history, used>>

(* lock_disk and the second resolve_target, then the gates: an unfinished  *)
(* job, an active swap.                                                    *)
Gate ==
  /\ pc = "resolved" /\ ~viaPv
  /\ UNCHANGED <<req, viaPv, want, facts, around>> /\ Untouched
  /\ \/ Fault /\ Stop("infra") /\ UNCHANGED snap
     \/ NoFault /\ ~LeadsToTarget /\ Stop("infra") /\ UNCHANGED snap
     \/ NoFault /\ (SceneActive \/ SwapActive) /\ Stop("refused") /\ UNCHANGED snap
     \/ /\ NoFault /\ LeadsToTarget /\ ~SceneActive /\ ~SwapActive
        /\ snap' = TargetMounted /\ Continue("gated")

(* The same for a PV, which must still be one under the lock.              *)
GatePv ==
  /\ pc = "resolved" /\ viaPv
  /\ UNCHANGED <<req, viaPv, want, facts, around>> /\ Untouched
  /\ \/ Fault /\ Stop("infra") /\ UNCHANGED snap
     \/ /\ NoFault /\ (SceneActive \/ SwapActive \/ ~StillPv)
        /\ Stop("refused") /\ UNCHANGED snap
     \/ /\ NoFault /\ ~SceneActive /\ ~SwapActive /\ StillPv
        /\ snap' = TargetPv /\ Continue("gated")

(* online_size: a relative size and `grow` are anchored in the table read  *)
(* under the lock.                                                         *)
FreeRight == disk.next - disk.len     \* free_right_gpt, free_right_msdos
MaxLen == Usable                      \* what the deciders allow
SizeRefused ==
  /\ req.table
  /\ \/ req.mode = "grow" /\ FreeRight = 0
     \/ req.mode = "set" /\ req.size \notin 1 .. MaxLen
Asked ==
  CASE req.mode = "fill" -> 0
    [] req.mode = "grow" -> disk.len + FreeRight
    [] req.mode = "set" -> req.size

Decide ==
  /\ pc = "gated" /\ UNCHANGED <<req, viaPv, snap, facts, around>> /\ Untouched
  /\ \/ Fault /\ Stop("infra") /\ UNCHANGED want
     \/ NoFault /\ SizeRefused /\ Stop("refused") /\ UNCHANGED want
     \/ NoFault /\ ~SizeRefused /\ want' = Asked /\ Continue("decided")

(* check_new_range, against the kernel's neighbours and the usable range.  *)
RangeFree == want <= snap.next        \* range_free
InRange == want \in 1 .. Usable /\ RangeFree

(* resize_online up to its first write: what the request comes to.         *)
Shrinks == want # 0 /\ want < snap.len
Fills == want = 0 \/ (want = snap.len /\ ~req.table)
ShrinkRefused == Shrinks /\ (kind \notin CanShrink \/ ~req.table)
KernelStale == disk.len # snap.len    \* the table has moved on
OutOfReach ==
  \/ want > snap.len /\ ~(req.table /\ InRange /\ kind \in CanGrow)
  \/ Shrinks /\ ~InRange

Choose ==
  /\ pc = "decided" /\ ~viaPv
  /\ UNCHANGED <<inRun, around>> /\ Untouched
  /\ \/ Fault /\ Stop("infra")
     \/ NoFault /\ ShrinkRefused /\ Stop("refused")
     \/ NoFault /\ ~ShrinkRefused /\ KernelStale /\ Stop("infra")
     \/ /\ NoFault /\ ~ShrinkRefused /\ ~KernelStale
        /\ \/ want = snap.len /\ req.table /\ Stop("done")
           \/ Fills /\ Continue("fill")
           \/ want > snap.len /\ ~OutOfReach /\ Continue("grow")
           \/ Shrinks /\ ~OutOfReach /\ Continue("shrink")
           \/ OutOfReach /\ Stop("refused")

(* resize_pv: an equal length goes on to the chain, without facts.         *)
ChoosePv ==
  /\ pc = "decided" /\ viaPv
  /\ UNCHANGED <<req, viaPv, snap, want, around>> /\ Untouched
  /\ \/ Fault /\ Stop("infra") /\ UNCHANGED facts
     \/ NoFault /\ want = snap.len /\ Continue("pvresize") /\ UNCHANGED facts
     \/ /\ NoFault /\ UNCHANGED facts /\ Stop("refused")
        /\ \/ want < snap.len \/ (want > snap.len /\ (~InRange \/ HeldByStack))
           \/ want > snap.len /\ BelowExtent(req.growLv, snap.len, want, Extent)
     \/ /\ NoFault /\ want > snap.len /\ InRange /\ ~HeldByStack
        /\ ~BelowExtent(req.growLv, snap.len, want, Extent)
        /\ facts' = LvmPost(req.growLv, lv, snap.len, want, Extent)
        /\ Continue("pvgrow")

(***************************************************************************)
(* The filesystem's tool.  It works on the partition the kernel knows; the *)
(* ones that take a mount point work on whatever is mounted there when     *)
(* they run, and fail when nothing is.                                     *)
(***************************************************************************)
Between(a, b) == IF a <= b THEN a .. b ELSE b .. a
OnTarget == kind \notin ByMount \/ mount = "target"
OnOther == kind \in ByMount /\ mount = "other"

(* anew: whether the kernel's view is one the run has never looked at.     *)
GrowTool(anew) ==
  \/ OnTarget /\ fs' = kern.len /\ blind' = anew /\ UNCHANGED away
  \/ OnOther /\ away' = ElsewhereRoom /\ UNCHANGED <<fs, blind>>
GrowToolFails(anew) ==
  \/ OnTarget /\ fs' \in Between(fs, kern.len) /\ blind' = (blind \/ anew) /\ UNCHANGED away
  \/ OnOther /\ away' \in Between(away, ElsewhereRoom) /\ UNCHANGED <<fs, blind>>
NothingMounted == ~OnTarget /\ ~OnOther /\ UNCHANGED <<fs, away, blind>>

(* verify_mount_target, a step of its own before every tool.               *)
CheckMount(o, next) ==
  \/ ~MountStays /\ Stop(o) /\ UNCHANGED slipped
  \/ MountStays /\ slipped' = FALSE /\ Continue(next)

FillStays == UNCHANGED <<disk, kern, lv, around, inRun, stale>>

Fill ==
  /\ pc = "fill" /\ FillStays /\ UNCHANGED <<fs, away, wrote, blind>>
  /\ \/ Fault /\ Stop("infra") /\ UNCHANGED slipped
     \/ NoFault /\ CheckMount("infra", "fill tool")

ViewMoved == kern.len # snap.len

FillTool ==
  /\ pc = "fill tool" /\ FillStays /\ UNCHANGED slipped
  /\ \/ /\ \/ NoFault /\ kind \notin CanGrow /\ Stop("refused")
           \/ Fault /\ kind \in CanGrow /\ Stop("infra")
        /\ UNCHANGED <<fs, away, blind, wrote>>
     \/ /\ kind \in CanGrow /\ wrote' = TRUE
        /\ \/ NoFault /\ GrowTool(ViewMoved) /\ Stop("done")
           \/ Fault /\ GrowToolFails(ViewMoved) /\ Stop("failed")
           \/ NoFault /\ NothingMounted /\ Stop("failed")

(***************************************************************************)
(* part_resize.  The table is read once more: the entry and the room right *)
(* of it must still be what the decision was made on.  After sfdisk it is  *)
(* read again, because a tool that exits 0 may have clamped the size.      *)
(***************************************************************************)
UnchangedOnDisk == disk.len = snap.len /\ want <= disk.next

Entry(len) == [disk EXCEPT !.len = len]

(* ends: how each class of PartResizeError ends the run; written: where    *)
(* it goes when the table is verified.                                     *)
PartResize(ends, written) ==
  /\ UNCHANGED <<kern, fs, lv, away, around, inRun, stale, history>>
  /\ \/ NoFault /\ ~UnchangedOnDisk /\ Stop(ends.stale) /\ UNCHANGED <<disk, wrote>>
     \/ Fault /\ Stop(ends.noWrite) /\ UNCHANGED <<disk, wrote>>
     \/ /\ UnchangedOnDisk /\ wrote' = TRUE
        /\ \/ NoFault /\ disk' = Entry(want) /\ Continue(written)
           \/ Fault /\ disk' \in {disk, Entry(want)} /\ Stop("failed")
           \/ /\ Fault /\ want > snap.len
              /\ disk' \in {Entry(l) : l \in snap.len .. want} /\ Stop("failed")

NothingYet == [stale |-> "refused", noWrite |-> "infra"]
(* Mutant: an error of the table step says nothing was changed, though the *)
(* filesystem has been shrunk already.                                     *)
ShrunkForgotten == [stale |-> "refused", noWrite |-> "infra"]
AlreadyShrunk == [stale |-> "failed", noWrite |-> "failed"]

WriteGrown ==
  /\ pc = "grow"
  /\ \/ ~MountStays /\ Stop("infra") /\ Untouched /\ UNCHANGED <<around, inRun, used>>
     \/ MountStays /\ PartResize(NothingYet, "sync")

WritePvGrown == pc = "pvgrow" /\ PartResize(NothingYet, "pvsync")
WriteShrunk == pc = "cut" /\ PartResize(AlreadyShrunk, "cutsync")

(* Online shrink: the filesystem first, and the table only when the        *)
(* filesystem's own superblock says that it fits.  Between the check of    *)
(* the mount and btrfs the table is read once more.                        *)
ShrinkStays == UNCHANGED <<disk, kern, lv, around, inRun, stale, blind>>

ShrinkFs ==
  /\ pc = "shrink" /\ ShrinkStays /\ UNCHANGED <<fs, away, wrote>>
  /\ \/ Fault /\ Stop("infra") /\ UNCHANGED slipped
     \/ NoFault /\ CheckMount("infra", "shrink look")

ShrinkLook ==
  /\ pc = "shrink look" /\ ShrinkStays /\ UNCHANGED <<fs, away, wrote, slipped>>
  /\ \/ Fault /\ Stop("infra")
     \/ NoFault /\ ~UnchangedOnDisk /\ Stop("refused")
     \/ NoFault /\ UnchangedOnDisk /\ Continue("shrink tool")

(* What btrfs leaves when it exits 0 and the superblock is read back: only *)
(* a filesystem that fits lets the table follow.                           *)
FitsNow == IF fs' <= want THEN Continue("cut") ELSE Stop("partial")

(* Mutant: btrfs exiting 0 is taken for a shrunk filesystem.               *)
ShrinkToolUnread ==
  /\ pc = "shrink tool" /\ ShrinkStays /\ UNCHANGED <<slipped, away>>
  /\ wrote' = TRUE /\ Continue("cut")
  /\ \/ NoFault /\ fs' = want
     \/ Fault /\ UNCHANGED fs

ShrinkTool ==
  /\ pc = "shrink tool" /\ ShrinkStays /\ UNCHANGED slipped
  /\ \/ Fault /\ Stop("infra") /\ UNCHANGED <<fs, away, wrote>>
     \/ /\ mount = "target" /\ wrote' = TRUE /\ UNCHANGED away
        /\ \/ NoFault /\ fs' = want /\ FitsNow
           \/ Fault /\ fs' \in Between(fs, want) /\ Stop("failed")
           \/ Fault /\ fs > want /\ UNCHANGED fs /\ FitsNow
           \/ Fault /\ fs' = want /\ Stop("partial")
     \/ /\ mount = "other" /\ wrote' = TRUE /\ UNCHANGED fs
        /\ \/ NoFault /\ want <= ElsewhereRoom /\ away' = want /\ FitsNow
           \/ NoFault /\ want > ElsewhereRoom /\ UNCHANGED away /\ Stop("failed")
           \/ Fault /\ away' \in Between(away, want) /\ Stop("failed")
     \/ /\ mount = "none" /\ wrote' = TRUE /\ UNCHANGED <<fs, away>>
        /\ NoFault /\ Stop("failed")

(***************************************************************************)
(* partx re-reads the entry from the disk; BLKPG sets the length asked for *)
(* when the kernel sees room for it.  verify_part_size has the last word.  *)
(***************************************************************************)
Blkpg == want <= kern.next
KernelTold == kern' = [kern EXCEPT !.len = disk.len]

(* Mutant: after a failed refresh the chain goes on with the old size.     *)
SyncUnverified(next) ==
  /\ UNCHANGED <<disk, fs, lv, away, wrote, around, inRun, stale, history>>
  /\ \/ NoFault /\ KernelTold /\ Continue(next)
     \/ Fault /\ UNCHANGED kern /\ Continue(next)

SyncKernel(next) ==
  /\ UNCHANGED <<disk, fs, lv, away, wrote, around, inRun, history>>
  /\ \/ NoFault /\ KernelTold /\ UNCHANGED stale
        /\ IF next = "down" THEN Stop("done") ELSE Continue(next)
     \/ /\ Fault /\ Blkpg /\ kern' = [kern EXCEPT !.len = want] /\ UNCHANGED stale
        /\ IF next = "down" THEN Stop("done") ELSE Continue(next)
     \/ Fault /\ UNCHANGED kern /\ stale' = TRUE /\ Stop("partial")

SyncGrown == pc = "sync" /\ SyncKernel("growfs")
SyncPv == pc = "pvsync" /\ SyncKernel("pvresize")
SyncShrunk == pc = "cutsync" /\ SyncKernel("down")

GrowFsStays == UNCHANGED <<disk, kern, lv, around, inRun, wrote, stale>>

(* Mutant: the mount point is trusted across the table write.              *)
GrowFsTrusting ==
  /\ pc = "growfs" /\ GrowFsStays /\ UNCHANGED <<fs, away, history>>
  /\ NoFault /\ Continue("grow tool")

GrowFs ==
  /\ pc = "growfs" /\ GrowFsStays /\ UNCHANGED <<fs, away, blind>>
  /\ NoFault /\ CheckMount("partial", "grow tool")

GrowFsTool ==
  /\ pc = "grow tool" /\ GrowFsStays /\ UNCHANGED slipped
  /\ \/ NoFault /\ GrowTool(FALSE) /\ Stop("done")
     \/ Fault /\ GrowToolFails(FALSE) /\ Stop("partial")
     \/ NoFault /\ NothingMounted /\ Stop("partial")

(***************************************************************************)
(* lvm_grow_chain: pvresize takes the size the kernel reports, then the    *)
(* volume gets its extents, read back after lvextend.                      *)
(***************************************************************************)
Free == IF fs \div Extent > lv \div Extent THEN fs \div Extent - lv \div Extent ELSE 0
Delta == IF disk.len > snap.len THEN disk.len - snap.len ELSE 0

(* With no table step before it, pvresize goes by the kernel's view alone: *)
(* resize_pv has compared the length asked for with that view, and nothing *)
(* with the table.                                                         *)
PvGrowsBlindly == want = snap.len /\ kern.len > disk.len

PvResize ==
  /\ pc = "pvresize" /\ UNCHANGED <<disk, kern, lv, away, around, inRun, stale, slipped>>
  /\ \/ Fault /\ Stop("failed") /\ UNCHANGED <<fs, wrote, blind>>
     \/ Fault /\ wrote' = TRUE /\ UNCHANGED <<fs, blind>> /\ Stop("partial")
     \/ /\ wrote' = TRUE /\ fs' = kern.len /\ blind' = PvGrowsBlindly
        /\ \/ Fault /\ Stop("partial")
           \/ NoFault /\ kern.len < disk.len /\ Stop("partial")
           \/ NoFault /\ kern.len >= disk.len /\ Continue("lvextend")

Extents == LvExtents(facts, req.growLv, Delta, lv, Free, Extent)

LvExtend ==
  /\ pc = "lvextend"
  /\ UNCHANGED <<disk, kern, fs, away, around, inRun, wrote, stale, history>>
  /\ \/ NoFault /\ Extents = 0 /\ UNCHANGED lv /\ Stop("done")
     \/ NoFault /\ Extents < 0 /\ UNCHANGED lv /\ Stop("partial")
     \/ NoFault /\ Extents > 0 /\ lv' = lv + Extent * Extents /\ Stop("done")
     \/ Fault /\ Extents > 0 /\ lv' \in {lv, lv + Extent * Extents} /\ Stop("partial")

Run ==
  \/ Gate \/ GatePv \/ Decide \/ Choose \/ ChoosePv \/ Fill \/ FillTool
  \/ WriteGrown \/ SyncGrown \/ GrowFs \/ GrowFsTool
  \/ ShrinkFs \/ ShrinkLook \/ ShrinkTool \/ WriteShrunk \/ SyncShrunk
  \/ WritePvGrown \/ SyncPv \/ PvResize \/ LvExtend
  \/ \E r \in Requests : Begin(r)

(***************************************************************************)
(* The environment.                                                        *)
(***************************************************************************)
Spend(what, max) == used[what] < max /\ used' = [used EXCEPT ![what] = @ + 1]
RunStays == UNCHANGED <<pc, inRun, wrote, stale, outcome>>

(* A reboot reads the table again; a kill leaves the kernel as it is.      *)
PowerLoss ==
  /\ Spend("crash", MaxCrashes) /\ kern' = disk /\ mount' = "target"
  /\ pc' = "down" /\ outcome' = "none" /\ wrote' = FALSE /\ stale' = FALSE
  /\ UNCHANGED <<disk, fs, lv, away, kind, hold, inRun, history>>
Kill ==
  /\ pc # "down" /\ Spend("crash", MaxCrashes) /\ Stop("none")
  /\ wrote' = FALSE /\ UNCHANGED <<views, stale, around, inRun, history>>

Looking == pc \in {"down", "resolved", "gated", "decided", "grow", "pvgrow", "shrink",
                   "shrink look", "cut"}

EditTable ==
  /\ Looking /\ Spend("edit", MaxEdits)
  /\ \E l \in 1 .. Usable, n \in 1 .. Usable :
       /\ fs <= l /\ l <= n
       /\ disk' = [len |-> l, next |-> n] /\ disk' # disk
  /\ RunStays /\ UNCHANGED <<kern, fs, lv, away, around, history>>
RefreshKernel ==
  /\ kern # disk /\ kern' = disk
  /\ RunStays /\ UNCHANGED <<disk, fs, lv, away, around, history, used>>
Remount ==
  /\ Spend("remount", MaxRemounts)
  /\ mount' \in {"target", "other", "none"} \ {mount}
  /\ slipped' = (slipped \/ pc \in {"fill tool", "grow tool", "shrink look", "shrink tool"})
  /\ RunStays /\ UNCHANGED <<views, kind, hold, blind>>
Reformat ==
  /\ pc \in {"down", "resolved"} /\ kind = "pv" /\ Spend("edit", MaxEdits)
  /\ kind' = "ext" /\ fs' = disk.len /\ lv' = 0 /\ blind' = FALSE
  /\ RunStays /\ UNCHANGED <<disk, kern, away, mount, hold, slipped>>
ExtendLvElsewhere ==
  /\ kind = "pv" /\ Free > 0 /\ Spend("edit", MaxEdits)
  /\ lv' = lv + Extent
  /\ RunStays /\ UNCHANGED <<disk, kern, fs, away, around, history>>

Environment ==
  PowerLoss \/ Kill \/ EditTable \/ RefreshKernel \/ Remount \/ Reformat \/ ExtendLvElsewhere

Next == Run \/ Environment
Spec == Init /\ [][Next]_vars

(***************************************************************************)
(* Properties.                                                             *)
(***************************************************************************)
(* The filesystem, or the PV, never extends past the entry on disk, nor    *)
(* the entry into its right neighbour: not between the table step and the  *)
(* filesystem step in either direction, not after a tool failed half way   *)
(* or clamped the size, and not after a reboot, when the kernel takes its  *)
(* view from the table (online.rs, "why the table must be written").       *)
(* Left out, because the code lets it happen (README, section 4): a PV     *)
(* resized without a table step on a kernel view longer than its entry     *)
(* (pv.rs:271-276), and `resizefs` after others changed the kernel's view  *)
(* and the table, between the look under the lock and the tool.            *)
NothingOverruns == (fs <= disk.len \/ blind) /\ disk.len <= disk.next

(* A run that ends refused (exit 10) or as an environment error (exit 30,  *)
(* "nothing was written") has changed nothing: whatever fails after the    *)
(* first tool ran is reported as failed or as partial.                     *)
RefusedMeansUntouched == outcome \in {"refused", "infra"} => ~wrote

Ended(o) == pc # "down" /\ outcome' = o
TookOther == slipped /\ kind \in ByMount   \* the tool may have worked elsewhere
SizesAgree ==
  IF viaPv
  THEN /\ fs' = disk'.len \/ blind'
       /\ facts.kind = "lv" => lv' >= facts.target
       /\ facts.kind = "none" /\ req.growLv /\ Delta = 0 => Free = 0
  ELSE IF Fills THEN fs' = disk'.len \/ blind' \/ TookOther
  ELSE /\ disk'.len = want
       /\ want # snap.len => kern'.len = want /\ (fs' = want \/ TookOther)

(* A run ends complete only when the table, the kernel and the filesystem  *)
(* have the length asked for, or were found to have it; `resizefs` when    *)
(* the filesystem fills the partition; a PV run when the PV fills the      *)
(* partition and the volume got what was recorded for it.  The code has no *)
(* means to notice, and the property leaves out, a growth by a view nobody *)
(* compared with the table (see NothingOverruns), and an xfs or btrfs tool *)
(* that found another device under the mount point because it changed      *)
(* after the last check (see AnotherFsUntouched): such runs exit 0 too.    *)
DoneMeansDone == [][Ended("done") => SizesAgree]_vars

(* The mount point may lead to another device at any moment.  A run never  *)
(* resizes the filesystem it finds there, unless the mount changed in the  *)
(* window between verify_mount_target and the tool: a change during the    *)
(* probes, the table write or the kernel's refresh is always noticed.      *)
(* The window itself the code cannot close, for the tools take a path; on  *)
(* the shrink path it also spans a reading of the table (flow.rs:290-309). *)
AnotherFsUntouched == [][away' # away => slipped]_vars
=============================================================================
