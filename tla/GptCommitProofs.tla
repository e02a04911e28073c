-------------------------- MODULE GptCommitProofs --------------------------
(***************************************************************************)
(* Safety of module GptCommit for every table, container, script and       *)
(* budget, on a kernel that writes back before the next command, without   *)
(* damage inside an interrupted job: the two exceptions the runs           *)
(* gpt_commit_kill and gpt_commit_damage show.                             *)
(*                                                                         *)
(* The argument.  A commit begins on a disk whose primary copy is usable,  *)
(* or whose backup copy holds already what the commit writes (a resumed    *)
(* job finds that after a loss in the primary copy, and its first commit   *)
(* places the entry its interrupted commit placed).  Every write then      *)
(* destroys a copy the other one stands in for.                            *)
(***************************************************************************)
EXTENDS GptCommit, TLAPS

-----------------------------------------------------------------------------
(* The two copies with the container's end as a parameter.                 *)

PrimaryAt(d, e) ==
  d.header[0].ok /\ d.array[0].ok /\ d.header[0].table = d.array[0].table /\ d.header[0].alt <= e
BackupAt(d, e) ==
  d.header[e].ok /\ d.array[e].ok /\ d.header[e].table = d.array[e].table /\ d.header[e].alt = 0
FoundAt(d, e) == IF PrimaryAt(d, e) THEN d.array[0].table ELSE d.array[e].table

HoldsAt(d, e, t) == BackupAt(d, e) /\ d.array[e].table = t
ValidAt(d, e) == PrimaryAt(d, e) /\ d.header[0].alt = e /\ BackupAt(d, e)

(* Either copy stands: the primary, or the backup with table t.            *)
Stands(d, e, t) == PrimaryAt(d, e) \/ HoldsAt(d, e, t)

(* What holds of the disk when k of the four writes of t are durable.      *)
Progress(d, e, t, k) ==
  /\ Stands(d, e, t)
  /\ k >= 1 => d.array[e] = Copy(t, 0).array
  /\ k >= 2 => d.header[e] = Copy(t, 0).header
  /\ k >= 3 => d.array[0] = Copy(t, e).array
  /\ k >= 4 => d.header[0] = Copy(t, e).header

WrittenAt(d, e, k, t) ==
  CASE k = 1 -> PutArray(d, e, t)
    [] k = 2 -> PutHeader(d, e, t, 0)
    [] k = 3 -> PutArray(d, 0, t)
    [] k = 4 -> PutHeader(d, 0, t, e)

(* The entry the next commit of a job places.                              *)
Pending == IF job = -1 THEN 1 ELSE job + 1

Repairing == pc \in {"write repair", "sync repair"}

-----------------------------------------------------------------------------
(* The inductive invariant.                                                *)

(* Between two writes the medium has everything; a pending write is the    *)
(* only thing it lacks.                                                    *)
Synced ==
  IF pc \in {"sync", "sync repair"}
  THEN /\ step >= 1
       /\ disk = WrittenAt(media, end, step, Writes)
       /\ Progress(media, end, Writes, step - 1)
       /\ pc = "sync repair" => FoundAt(media, end) = Writes
  ELSE /\ disk = media
       /\ pc \in {"write", "write repair"} => step < 4 /\ Progress(disk, end, Writes, step)

(* A job's checkpoint and what its next command finds.                     *)
JobScene ==
  /\ job # -1 => /\ disk.mbr = end
                 /\ \/ PrimaryAt(media, end)
                    \/ BackupAt(media, end) /\ Placed(media.array[end].table, job + 1)
                 /\ pc = "idle" \/ cmd = "job"
  /\ cmd = "job" /\ pc # "idle" => Script # <<>> /\ Placed(target, Pending)

(* What a command knows before it writes.                                  *)
Planned ==
  /\ pc \in {"check", "repair", "mbr", "commit"} =>
       PrimaryAt(disk, end) \/ BackupAt(disk, end)
  /\ pc \in {"check", "commit"} /\ job = -1 /\ repair = NoRepair =>
       ValidAt(disk, end) /\ disk.mbr = end
  /\ pc = "commit" =>
       disk.mbr = end /\ Stands(disk, end, target) /\ (job = -1 => ValidAt(disk, end))
  /\ pc = "check" /\ job # -1 => repair = NoRepair /\ Stands(disk, end, target)
  /\ pc \in {"repair", "mbr"} \/ Repairing => job = -1
  /\ pc = "mbr" => ValidAt(disk, end)
  /\ pc \in {"write", "sync", "committed"} => disk.mbr = end /\ (cmd = "job" => job # -1)
  /\ pc = "committed" => Progress(disk, end, target, 4)
  /\ pc \notin {"write", "sync", "write repair", "sync repair"} => step = 0

(* A commit changes one entry of the table that is on the disk.            *)
OneEntry ==
  pc \in {"check", "repair", "mbr", "commit"} \/ Repairing =>
    \/ \E s \in Slots : dirty = {s} /\ \A x \in Slots \ {s} : target[x] = decided[x]
    \/ pc = "commit" /\ job # -1 /\ \E s \in Slots :
         \A x \in Slots \ {s} : FoundAt(disk, end)[x] = target[x]

IInv ==
  /\ TypeOK
  /\ disk.mbr = media.mbr /\ disk.mbr <= end
  /\ PrimaryAt(media, end) \/ BackupAt(media, end)
  /\ Synced /\ JobScene /\ Planned /\ OneEntry

-----------------------------------------------------------------------------
(* The operators.                                                          *)

(* Reading, in terms of the two copies.                                    *)
LEMMA Reading ==
  ASSUME NEW d \in Disks, end \in Ends
  PROVE  /\ State(d) = "damaged" <=> ~PrimaryAt(d, end) /\ ~BackupAt(d, end)
         /\ State(d) = "valid" <=> ValidAt(d, end)
         /\ TableOf(d) = FoundAt(d, end)
         /\ PrimaryUsable(d) <=> PrimaryAt(d, end)
<1>1. Places \subseteq Int /\ end \in Int /\ 0 \in Places
  BY GptCommitAssumption DEF Places
<1>2. d.header[0].alt \in Int
  BY <1>1 DEF Disks, Headers
<1> QED
  BY <1>1, <1>2
  DEF State, TableOf, PrimaryUsable, BackupUsable, Fits, PrimaryAt, BackupAt, ValidAt, FoundAt

LEMMA EndsArePositive ==
  ASSUME NEW e \in Ends
  PROVE  e \in Int /\ e > 0 /\ e \in Places /\ 0 \in Places /\ e # 0
BY GptCommitAssumption DEF Places

LEMMA WritesAreWrites ==
  ASSUME NEW d, NEW k, NEW t
  PROVE  Written(d, k, t) = WrittenAt(d, end, k, t)
BY DEF Written, WrittenAt

(* The writes of a copy: what they change and what they leave.             *)
LEMMA PutsArray ==
  ASSUME NEW d \in Disks, NEW p \in Places, NEW t \in Tables
  PROVE  LET w == PutArray(d, p, t) IN
         /\ w \in Disks /\ w.mbr = d.mbr /\ w.header = d.header
         /\ w.array[p] = [ok |-> TRUE, table |-> t]
         /\ \A q \in Places \ {p} : w.array[q] = d.array[q]
BY DEF PutArray, Copy, Disks, Arrays

LEMMA PutsHeader ==
  ASSUME NEW d \in Disks, NEW p \in Places, NEW t \in Tables, NEW a \in Places
  PROVE  LET w == PutHeader(d, p, t, a) IN
         /\ w \in Disks /\ w.mbr = d.mbr /\ w.array = d.array
         /\ w.header[p] = [ok |-> TRUE, table |-> t, alt |-> a]
         /\ \A q \in Places \ {p} : w.header[q] = d.header[q]
BY DEF PutHeader, Copy, Disks, Headers

(* Another write of a commit keeps a copy standing, and the table found is *)
(* the one found before or the one being written.                          *)
LEMMA WriteKeeps ==
  ASSUME NEW d \in Disks, NEW e \in Ends, NEW t \in Tables, NEW k \in 1 .. 4,
         Progress(d, e, t, k - 1)
  PROVE  LET w == WrittenAt(d, e, k, t) IN
         /\ w \in Disks /\ w.mbr = d.mbr
         /\ Progress(w, e, t, k)
         /\ FoundAt(w, e) \in {FoundAt(d, e), t}
<1> DEFINE w == WrittenAt(d, e, k, t)
<1>0. e \in Int /\ e > 0 /\ e \in Places /\ 0 \in Places /\ e # 0
  BY EndsArePositive
<1> USE <1>0 DEF Progress, Stands, HoldsAt, PrimaryAt, BackupAt, FoundAt, Copy
<1>1. CASE k = 1
  <2>1. w = PutArray(d, e, t)
    BY <1>1 DEF WrittenAt
  <2>2. /\ w \in Disks /\ w.mbr = d.mbr /\ w.header = d.header /\ w.array[0] = d.array[0]
        /\ w.array[e] = [ok |-> TRUE, table |-> t]
    BY <2>1, PutsArray
  <2>3. PrimaryAt(w, e) <=> PrimaryAt(d, e)
    BY <2>2
  <2> QED BY <1>1, <2>2, <2>3
<1>2. CASE k = 2
  <2>1. w = PutHeader(d, e, t, 0)
    BY <1>2 DEF WrittenAt
  <2> QED BY <1>2, <2>1, PutsHeader
<1>3. CASE k = 3
  <2>1. w = PutArray(d, 0, t)
    BY <1>3 DEF WrittenAt
  <2> QED BY <1>3, <2>1, PutsArray
<1>4. CASE k = 4
  <2>1. w = PutHeader(d, 0, t, e)
    BY <1>4 DEF WrittenAt
  <2>2. /\ w \in Disks /\ w.mbr = d.mbr /\ w.array = d.array /\ w.header[e] = d.header[e]
        /\ w.header[0] = [ok |-> TRUE, table |-> t, alt |-> e]
    BY <2>1, PutsHeader
  <2>3. HoldsAt(d, e, t) /\ w.array[0].table = t
    BY <1>4, <2>2
  <2> QED BY <1>4, <2>2, <2>3
<1> HIDE DEF Progress, FoundAt
<1> QED BY <1>1, <1>2, <1>3, <1>4

LEMMA ProgressBegins ==
  ASSUME NEW d, NEW e, NEW t, Stands(d, e, t)
  PROVE  Progress(d, e, t, 0)
BY DEF Progress

(* What a power loss makes of one structure.                               *)
Fate(old, new) == {old, new} \cup (IF old = new THEN {} ELSE {[new EXCEPT !.ok = FALSE]})

(* A power loss in the middle of a commit leaves a standing copy, with the *)
(* table from before the commit or the one it writes.                      *)
LEMMA LossKeeps ==
  ASSUME NEW d \in Disks, NEW e \in Ends, NEW t \in Tables, NEW k \in 1 .. 4,
         Progress(d, e, t, k - 1), NEW l \in Disks,
         \A p \in Places : /\ l.array[p] \in Fate(d.array[p], WrittenAt(d, e, k, t).array[p])
                           /\ l.header[p] \in Fate(d.header[p], WrittenAt(d, e, k, t).header[p])
  PROVE  Stands(l, e, t) /\ FoundAt(l, e) \in {FoundAt(d, e), t}
<1> DEFINE w == WrittenAt(d, e, k, t)
<1>0. e \in Int /\ e > 0 /\ e \in Places /\ 0 \in Places /\ e # 0
  BY EndsArePositive
<1> USE <1>0 DEF Progress, Stands, HoldsAt, PrimaryAt, BackupAt, FoundAt, Copy, Fate
<1>1. CASE k = 1
  <2>1. w = PutArray(d, e, t)
    BY <1>1 DEF WrittenAt
  <2>2. l.array[0] = d.array[0] /\ l.header[0] = d.header[0] /\ l.header[e] = d.header[e]
    BY <2>1, PutsArray
  <2>3. PrimaryAt(d, e) \/ l.array[e] = d.array[e]
    <3>1. d.array[e] = [ok |-> d.array[e].ok, table |-> d.array[e].table]
      BY DEF Disks, Arrays
    <3>2. PrimaryAt(d, e) \/ w.array[e] = d.array[e]
      BY <2>1, <3>1, PutsArray DEF Disks, Arrays
    <3> QED BY <3>2
  <2> QED BY <1>1, <2>1, <2>2, <2>3
<1>2. CASE k = 2
  <2>1. w = PutHeader(d, e, t, 0)
    BY <1>2 DEF WrittenAt
  <2>2. l.array[0] = d.array[0] /\ l.header[0] = d.header[0] /\ l.array[e] = d.array[e]
    BY <2>1, PutsHeader
  <2>3. PrimaryAt(d, e) \/ l.header[e] = d.header[e]
    <3>1. d.header[e] =
            [ok |-> d.header[e].ok, table |-> d.header[e].table, alt |-> d.header[e].alt]
      BY DEF Disks, Headers
    <3>2. PrimaryAt(d, e) \/ w.header[e] = d.header[e]
      BY <1>2, <2>1, <3>1, PutsHeader DEF Disks, Arrays
    <3> QED BY <3>2
  <2> QED BY <1>2, <2>1, <2>2, <2>3
<1>3. CASE k = 3
  <2>1. w = PutArray(d, 0, t)
    BY <1>3 DEF WrittenAt
  <2>2. l.array[e] = d.array[e] /\ l.header[0] = d.header[0] /\ l.header[e] = d.header[e]
    BY <2>1, PutsArray
  <2>3. HoldsAt(d, e, t) /\ HoldsAt(l, e, t)
    BY <1>3, <2>2
  <2>4. l.array[0] = d.array[0] \/ ~l.array[0].ok \/ l.array[0].table = t
    <3>1. l.array[0] \in Fate(d.array[0], w.array[0]) /\ w.array[0] = [ok |-> TRUE, table |-> t]
      BY <2>1, PutsArray
    <3> QED BY <3>1
  <2> QED BY <1>3, <2>2, <2>3, <2>4
<1>4. CASE k = 4
  <2>1. w = PutHeader(d, 0, t, e)
    BY <1>4 DEF WrittenAt
  <2>2. l.array[e] = d.array[e] /\ l.array[0] = d.array[0] /\ l.header[e] = d.header[e]
    BY <2>1, PutsHeader
  <2>3. HoldsAt(d, e, t) /\ l.array[0].table = t
    BY <1>4, <2>2
  <2>4. HoldsAt(l, e, t)
    BY <2>2, <2>3
  <2> QED BY <2>3, <2>4
<1> HIDE DEF Stands, FoundAt
<1> QED BY <1>1, <1>2, <1>3, <1>4

-----------------------------------------------------------------------------
(* The steps.                                                              *)

LEMMA Numbers ==
  ASSUME TypeOK
  PROVE  /\ step \in 0 .. 4 /\ end \in Ends /\ end \in Int /\ job \in Int /\ Len(Script) \in Nat
         /\ used \in [death: 0 .. MaxDeaths, foreign: 0 .. MaxForeign, damage: 0 .. MaxDamage]
         /\ MaxDeaths \in Nat /\ MaxForeign \in Nat /\ MaxDamage \in Nat
<1>1. Len(Script) \in Nat
  BY GptCommitAssumption
<1>2. MaxDeaths \in Nat /\ MaxForeign \in Nat /\ MaxDamage \in Nat
  BY GptCommitAssumption
<1>3. job \in -1 .. (Len(Script) - 1)
  BY DEF TypeOK
<1>4. job \in Int
  BY <1>1, <1>3
<1>5. end \in Ends
  BY DEF TypeOK
<1>6. end \in Int
  BY <1>5, EndsArePositive
<1>7. /\ step \in 0 .. 4
      /\ used \in [death: 0 .. MaxDeaths, foreign: 0 .. MaxForeign, damage: 0 .. MaxDamage]
  BY DEF TypeOK
<1> QED BY <1>1, <1>2, <1>4, <1>5, <1>6, <1>7

LEMMA FromOne == ASSUME NEW n \in 0 .. 4, n >= 1 PROVE n \in 1 .. 4
OBVIOUS

(* A write that is not synced yet.                                         *)
LEMMA WritePending ==
  ASSUME IInv, pc \in {"sync", "sync repair"}
  PROVE  /\ step \in 1 .. 4 /\ disk = WrittenAt(media, end, step, Writes)
         /\ Progress(media, end, Writes, step - 1)
         /\ pc = "sync repair" => FoundAt(media, end) = Writes
<1>1. Synced
  BY DEF IInv
<1>2. step \in 0 .. 4
  BY Numbers DEF IInv
<1>3. step >= 1
  BY <1>1 DEF Synced
<1>4. step \in 1 .. 4
  BY <1>2, <1>3, FromOne
<1>5. disk = WrittenAt(media, end, step, Writes) /\ Progress(media, end, Writes, step - 1)
  BY <1>1 DEF Synced
<1>6. pc = "sync repair" => FoundAt(media, end) = Writes
  BY <1>1 DEF Synced
<1> QED BY <1>4, <1>5, <1>6

(* What IInv says of the disk and the medium in every state.               *)
LEMMA AlwaysStands ==
  ASSUME IInv
  PROVE  /\ disk \in Disks /\ media \in Disks /\ end \in Ends /\ end \in Int
         /\ step \in 0 .. 4 /\ job \in Int /\ decided \in Tables /\ target \in Tables
         /\ dirty \subseteq Slots /\ Writes \in Tables
         /\ PrimaryAt(disk, end) \/ BackupAt(disk, end)
         /\ FoundAt(disk, end) \in Tables /\ FoundAt(media, end) \in Tables
         /\ Repairing => FoundAt(disk, end) = Writes /\ FoundAt(media, end) = Writes
         /\ pc \in {"sync", "sync repair"} => Progress(disk, end, Writes, step)
<1>1. /\ disk \in Disks /\ media \in Disks /\ end \in Ends /\ end \in Int /\ step \in 0 .. 4
      /\ job \in Int /\ decided \in Tables /\ target \in Tables /\ dirty \subseteq Slots
  BY Numbers DEF IInv, TypeOK
<1>2. FoundAt(disk, end) \in Tables /\ FoundAt(media, end) \in Tables
  BY <1>1, EndsArePositive DEF FoundAt, Disks, Arrays
<1>3. Repairing => FoundAt(disk, end) = Writes
  BY <1>1, Reading DEF Repairing, Writes
<1>4. Writes \in Tables
  BY <1>1, <1>2, <1>3 DEF Repairing, Writes
<1>5. Repairing => FoundAt(media, end) = Writes
  BY <1>3 DEF IInv, Synced, Repairing
<1>6. CASE pc \in {"sync", "sync repair"}
  <2>1. /\ step \in 1 .. 4 /\ disk = WrittenAt(media, end, step, Writes)
        /\ Progress(media, end, Writes, step - 1)
    BY <1>6, WritePending
  <2>2. Progress(disk, end, Writes, step)
    BY <1>1, <1>4, <2>1, WriteKeeps
  <2> QED BY <1>1, <1>2, <1>3, <1>4, <1>5, <2>2 DEF Progress, Stands, HoldsAt
<1>7. CASE pc \notin {"sync", "sync repair"}
  <2>1. disk = media
    BY <1>7 DEF IInv, Synced
  <2> QED BY <1>1, <1>2, <1>3, <1>4, <1>5, <1>7, <2>1 DEF IInv
<1> QED BY <1>6, <1>7

(* A process ends, or another tool writes while none runs.                 *)
LEMMA StopKeeps ==
  ASSUME IInv, Stop, disk' = media', media' \in Disks, media'.mbr <= end, end' = end,
         job' \in -1 .. (Len(Script) - 1), journal' \in BOOLEAN,
         used' \in [death: 0 .. MaxDeaths, foreign: 0 .. MaxForeign, damage: 0 .. MaxDamage],
         PrimaryAt(media', end) \/ BackupAt(media', end),
         job' # -1 => /\ media'.mbr = end
                      /\ \/ PrimaryAt(media', end)
                         \/ BackupAt(media', end) /\ Placed(media'.array[end].table, job' + 1)
  PROVE  IInv'
<1>1. Nothing \in Tables
  <2>1. Tables # {}
    <3>1. PICK v \in Values : TRUE
      BY GptCommitAssumption
    <3>2. [x \in Slots |-> v] \in Tables
      BY DEF Tables
    <3> QED BY <3>2
  <2> QED BY <2>1 DEF Nothing
<1>2. TypeOK'
  <2>1. /\ pc' = "idle" /\ cmd' = "edit" /\ step' = 0 /\ decided' = Nothing /\ target' = Nothing
        /\ dirty' = {} /\ repair' = NoRepair
    BY DEF Stop
  <2>2. NoRepair \in [gpt: BOOLEAN, mbr: BOOLEAN]
    BY DEF NoRepair
  <2>3. end \in Ends
    BY Numbers DEF IInv
  <2> QED BY <1>1, <2>1, <2>2, <2>3 DEF TypeOK
<1> QED
  BY <1>2 DEF IInv, Stop, Synced, JobScene, Planned, OneEntry, Repairing

LEMMA EndKeeps == ASSUME IInv, End, disk = media PROVE IInv'
<1>1. /\ Stop /\ disk' = media' /\ media' = media /\ end' = end /\ job' = job /\ used' = used
      /\ journal' = journal
  BY DEF End, env
<1>2. /\ media \in Disks /\ media.mbr <= end /\ job \in -1 .. (Len(Script) - 1)
      /\ journal \in BOOLEAN
      /\ used \in [death: 0 .. MaxDeaths, foreign: 0 .. MaxForeign, damage: 0 .. MaxDamage]
  BY DEF IInv, TypeOK
<1> QED BY <1>1, <1>2, StopKeeps DEF IInv, JobScene

(* A job's interrupted commit leaves what the next one needs.              *)
LEMMA JobStands ==
  ASSUME IInv, job # -1, pc # "idle", NEW d, Stands(d, end, Writes), ~Repairing
  PROVE  \/ PrimaryAt(d, end)
         \/ BackupAt(d, end) /\ Placed(d.array[end].table, job + 1)
<1>1. Writes = target
  BY DEF Repairing, Writes
<1>2. Placed(target, job + 1)
  BY DEF IInv, JobScene, Pending
<1> QED BY <1>1, <1>2 DEF Stands, HoldsAt

LEMMA KillKeeps == ASSUME IInv, Kill, Writeback PROVE IInv'
<1>1. /\ disk' = disk /\ media' = disk /\ end' = end /\ job' = job /\ Stop /\ pc # "idle"
      /\ journal' = journal
      /\ used' = [used EXCEPT !.death = @ + 1] /\ used.death < MaxDeaths
  BY DEF Kill, Spend
<1>2. used' \in [death: 0 .. MaxDeaths, foreign: 0 .. MaxForeign, damage: 0 .. MaxDamage]
  BY <1>1, Numbers DEF IInv
<1>3. disk \in Disks /\ (PrimaryAt(disk, end) \/ BackupAt(disk, end))
  BY AlwaysStands
<1>4. job \in -1 .. (Len(Script) - 1) /\ disk.mbr <= end /\ journal \in BOOLEAN
  BY DEF IInv, TypeOK
<1>5. ASSUME job # -1
      PROVE  /\ disk.mbr = end
             /\ \/ PrimaryAt(disk, end)
                \/ BackupAt(disk, end) /\ Placed(disk.array[end].table, job + 1)
  <2>1. disk.mbr = end
    BY <1>5 DEF IInv, JobScene
  <2>2. CASE pc \in {"sync", "sync repair"}
    <3>1. ~Repairing
      BY <1>5 DEF IInv, Planned
    <3>2. Stands(disk, end, Writes)
      BY <2>2, AlwaysStands DEF Progress
    <3> QED BY <1>1, <1>5, <2>1, <3>1, <3>2, JobStands
  <2>3. CASE pc \notin {"sync", "sync repair"}
    BY <1>5, <2>1, <2>3 DEF IInv, Synced, JobScene
  <2> QED BY <2>2, <2>3
<1> QED BY <1>1, <1>2, <1>3, <1>4, <1>5, StopKeeps

(* The structures a power loss decides about.                              *)
LEMMA LossIsFate ==
  ASSUME disk \in Disks, media \in Disks,
         NEW fate \in [Unsynced -> {"lost", "kept", "torn"}],
         NEW l, l = [array |-> AfterLoss("array", fate), header |-> AfterLoss("header", fate),
                     mbr |-> disk.mbr]
  PROVE  /\ l \in Disks /\ l.mbr = disk.mbr
         /\ \A p \in Places : /\ l.array[p] \in Fate(media.array[p], disk.array[p])
                              /\ l.header[p] \in Fate(media.header[p], disk.header[p])
<1>1. ASSUME NEW p \in Places
      PROVE  /\ l.array[p] \in Arrays
             /\ l.array[p] \in Fate(media.array[p], disk.array[p])
  <2>1. /\ l.array[p] = media.array[p] \/ l.array[p] = disk.array[p]
           \/ (disk.array[p] # media.array[p] /\ l.array[p] = [disk.array[p] EXCEPT !.ok = FALSE])
    BY DEF AfterLoss, Unsynced
  <2>2. media.array[p] \in Arrays /\ disk.array[p] \in Arrays
    BY DEF Disks
  <2>3. [disk.array[p] EXCEPT !.ok = FALSE] \in Arrays
    BY <2>2 DEF Arrays
  <2> QED BY <2>1, <2>2, <2>3 DEF Fate
<1>2. ASSUME NEW p \in Places
      PROVE  /\ l.header[p] \in Headers
             /\ l.header[p] \in Fate(media.header[p], disk.header[p])
  <2>1. /\ l.header[p] = media.header[p] \/ l.header[p] = disk.header[p]
           \/ /\ disk.header[p] # media.header[p]
              /\ l.header[p] = [disk.header[p] EXCEPT !.ok = FALSE]
    BY DEF AfterLoss, Unsynced
  <2>2. media.header[p] \in Headers /\ disk.header[p] \in Headers
    BY DEF Disks
  <2>3. [disk.header[p] EXCEPT !.ok = FALSE] \in Headers
    BY <2>2 DEF Headers
  <2> QED BY <2>1, <2>2, <2>3 DEF Fate
<1>3. l.array = AfterLoss("array", fate) /\ l.header = AfterLoss("header", fate)
  OBVIOUS
<1>4. l.array \in [Places -> Arrays] /\ l.header \in [Places -> Headers]
  BY <1>1, <1>2, <1>3 DEF AfterLoss
<1> QED BY <1>1, <1>2, <1>4 DEF Disks

LEMMA PowerLossKeeps ==
  ASSUME IInv, PowerLoss
  PROVE  /\ IInv' /\ FoundAt(media', end) \in {FoundAt(media, end), Writes}
         /\ pc \notin {"sync", "sync repair"} => FoundAt(media', end) = FoundAt(media, end)
<1>1. /\ disk' = media' /\ end' = end /\ job' = job /\ Stop /\ journal' = journal
      /\ used' = [used EXCEPT !.death = @ + 1] /\ used.death < MaxDeaths
  BY DEF PowerLoss, Spend
<1>2. used' \in [death: 0 .. MaxDeaths, foreign: 0 .. MaxForeign, damage: 0 .. MaxDamage]
  BY <1>1, Numbers DEF IInv
<1>3. PICK fate \in [Unsynced -> {"lost", "kept", "torn"}] :
        media' = [array |-> AfterLoss("array", fate), header |-> AfterLoss("header", fate),
                  mbr |-> disk.mbr]
  BY DEF PowerLoss
<1>4. disk \in Disks /\ media \in Disks /\ end \in Ends /\ Writes \in Tables
  BY AlwaysStands
<1>5. /\ media' \in Disks /\ media'.mbr = disk.mbr
      /\ \A p \in Places : /\ media'.array[p] \in Fate(media.array[p], disk.array[p])
                           /\ media'.header[p] \in Fate(media.header[p], disk.header[p])
  BY <1>3, <1>4, LossIsFate
<1>6. /\ job \in -1 .. (Len(Script) - 1) /\ media'.mbr <= end /\ (job # -1 => media'.mbr = end)
      /\ journal \in BOOLEAN
  BY <1>5 DEF IInv, TypeOK, JobScene
<1>7. CASE pc \in {"sync", "sync repair"}
  <2>1. /\ step \in 1 .. 4 /\ disk = WrittenAt(media, end, step, Writes)
        /\ Progress(media, end, Writes, step - 1)
    BY <1>7, WritePending
  <2>2. Stands(media', end, Writes) /\ FoundAt(media', end) \in {FoundAt(media, end), Writes}
    BY <1>4, <1>5, <2>1, LossKeeps
  <2>3. job # -1 => ~Repairing
    BY DEF IInv, Planned
  <2>4. job # -1 => \/ PrimaryAt(media', end)
                    \/ BackupAt(media', end) /\ Placed(media'.array[end].table, job + 1)
    BY <1>7, <2>2, <2>3, JobStands
  <2>5. PrimaryAt(media', end) \/ BackupAt(media', end)
    BY <2>2 DEF Stands, HoldsAt
  <2>6. IInv'
    BY <1>1, <1>2, <1>5, <1>6, <2>4, <2>5, StopKeeps
  <2> QED BY <1>7, <2>2, <2>6
<1>8. CASE pc \notin {"sync", "sync repair"}
  <2>1. disk = media
    BY <1>8 DEF IInv, Synced
  <2>2. \A p \in Places : media'.array[p] = media.array[p] /\ media'.header[p] = media.header[p]
    BY <1>5, <2>1 DEF Fate
  <2>3. end \in Places /\ 0 \in Places
    BY <1>4, EndsArePositive
  <2>4. /\ PrimaryAt(media', end) <=> PrimaryAt(media, end)
        /\ BackupAt(media', end) <=> BackupAt(media, end)
        /\ FoundAt(media', end) = FoundAt(media, end)
        /\ media'.array[end] = media.array[end]
    BY <2>2, <2>3 DEF PrimaryAt, BackupAt, FoundAt
  <2>5. IInv'
    BY <1>1, <1>2, <1>5, <1>6, <2>4, StopKeeps DEF IInv, JobScene
  <2> QED BY <2>4, <2>5
<1> QED BY <1>7, <1>8

LEMMA ScriptEntry ==
  ASSUME NEW i \in 1 .. Len(Script)
  PROVE  Script[i][1] \in Slots /\ Script[i][2] \in Values
BY GptCommitAssumption

(* A command that decides on the table it finds.                           *)
LEMMA DecideKeeps ==
  ASSUME IInv, NEW kind \in {"edit", "job"}, NEW s \in Slots, NEW v \in Values,
         NEW action \in [gpt: BOOLEAN, mbr: BOOLEAN], Decide(kind, s, v, action),
         job = -1 => action = Classify(disk),
         job # -1 => action = NoRepair /\ kind = "job",
         kind = "job" => Script # <<>> /\ s = Script[Pending][1] /\ v = Script[Pending][2]
  PROVE  IInv'
<1>1. /\ disk' = disk /\ media' = media /\ end' = end /\ used' = used /\ step' = step /\ job' = job
      /\ journal' = journal /\ pc = "idle" /\ pc' = "check" /\ cmd' = kind /\ dirty' = {s} /\ repair' = action
      /\ decided' = TableOf(disk) /\ target' = [TableOf(disk) EXCEPT ![s] = v]
  BY DEF Decide, env
<1>2. disk = media /\ step = 0
  BY <1>1 DEF IInv, Synced, Planned
<1>3. disk \in Disks /\ end \in Ends /\ FoundAt(disk, end) \in Tables
  BY AlwaysStands
<1>4. TableOf(disk) = FoundAt(disk, end)
  BY <1>3, Reading
<1>5. target' \in Tables /\ decided' \in Tables
  BY <1>1, <1>3, <1>4 DEF Tables
<1>6. target'[s] = v /\ \A x \in Slots \ {s} : target'[x] = decided'[x]
  BY <1>1, <1>3, <1>4 DEF Tables
<1>7. TypeOK'
  BY <1>1, <1>2, <1>5 DEF IInv, TypeOK
<1>8. Synced'
  BY <1>1, <1>2 DEF Synced
<1>9. Pending' = Pending
  BY <1>1 DEF Pending
<1>10. JobScene'
  <2>1. kind = "job" => Placed(target', Pending)
    BY <1>6 DEF Placed
  <2> QED BY <1>1, <1>9, <2>1 DEF IInv, JobScene
<1>11. Stands(disk, end, target') \/ job = -1
  <2>1. CASE PrimaryAt(disk, end)
    BY <2>1 DEF Stands
  <2>2. CASE job # -1 /\ ~PrimaryAt(disk, end)
    <3>1. BackupAt(disk, end) /\ Placed(disk.array[end].table, job + 1)
      BY <1>2, <2>2 DEF IInv, JobScene
    <3>2. FoundAt(disk, end) = disk.array[end].table
      BY <2>2 DEF FoundAt
    <3>3. disk.array[end].table[s] = v
      BY <2>2, <3>1 DEF Placed, Pending
    <3>4. target' = disk.array[end].table
      BY <1>1, <1>3, <1>4, <3>2, <3>3 DEF Tables
    <3> QED BY <3>1, <3>4 DEF Stands, HoldsAt
  <2> QED BY <2>1, <2>2
<1>12. job = -1 /\ action = NoRepair => ValidAt(disk, end) /\ disk.mbr = end
  <2> SUFFICES ASSUME job = -1, action = NoRepair
               PROVE  ValidAt(disk, end) /\ disk.mbr = end
    OBVIOUS
  <2>1. State(disk) = "valid" /\ ~(disk.mbr < end)
    BY DEF Classify, NoRepair
  <2>2. disk.mbr \in Int /\ end \in Int /\ disk.mbr <= end
    BY <1>3, EndsArePositive DEF IInv, Disks
  <2> QED BY <1>3, <2>1, <2>2, Reading
<1>13. Planned'
  BY <1>1, <1>2, <1>11, <1>12, AlwaysStands DEF Planned, Repairing
<1>14. OneEntry'
  BY <1>1, <1>6 DEF OneEntry
<1> QED BY <1>1, <1>7, <1>8, <1>10, <1>13, <1>14 DEF IInv

LEMMA ClassifyIsRepair == Classify(disk) \in [gpt: BOOLEAN, mbr: BOOLEAN]
BY DEF Classify

LEMMA BeginEditKeeps == ASSUME IInv, BeginEdit PROVE IInv'
<1>1. PICK s \in Slots, v \in Values : job = -1 /\ Decide("edit", s, v, Classify(disk))
  BY DEF BeginEdit, Busy
<1> QED BY <1>1, ClassifyIsRepair, DecideKeeps

LEMMA BeginJobKeeps == ASSUME IInv, BeginJob PROVE IInv'
<1>1. job = -1 /\ Script # <<>> /\ Decide("job", Script[1][1], Script[1][2], Classify(disk))
  BY DEF BeginJob, Busy
<1>2. Pending = 1
  BY <1>1 DEF Pending
<1>3. 1 \in 1 .. Len(Script)
  BY <1>1, GptCommitAssumption
<1>4. Script[1][1] \in Slots /\ Script[1][2] \in Values
  BY <1>3, ScriptEntry
<1> QED BY <1>1, <1>2, <1>4, ClassifyIsRepair, DecideKeeps

LEMMA ResumeJobKeeps == ASSUME IInv, ResumeJob PROVE IInv'
<1>1. /\ job \in 0 .. (Len(Script) - 1)
      /\ Decide("job", Script[job + 1][1], Script[job + 1][2], NoRepair)
  BY DEF ResumeJob
<1>2. Len(Script) \in Nat
  BY Numbers DEF IInv
<1>3. job + 1 \in 1 .. Len(Script) /\ job # -1 /\ Script # <<>>
  BY <1>1, <1>2
<1>4. Pending = job + 1
  BY <1>3 DEF Pending
<1>5. Script[job + 1][1] \in Slots /\ Script[job + 1][2] \in Values
  BY <1>3, ScriptEntry
<1>6. NoRepair \in [gpt: BOOLEAN, mbr: BOOLEAN]
  BY DEF NoRepair
<1> QED BY <1>1, <1>3, <1>4, <1>5, <1>6, DecideKeeps

(* Giving a scene up leaves the disk to the next command's repair.         *)
LEMMA AbandonKeeps == ASSUME IInv, Abandon PROVE IInv'
<1>1. /\ pc = "idle" /\ job' = -1 /\ journal' = FALSE
      /\ UNCHANGED <<disk, media, end, used, pc, cmd, decided, target, dirty, repair, step>>
  BY DEF Abandon, env, plan
<1>2. TypeOK'
  <2>1. -1 \in -1 .. (Len(Script) - 1)
    BY Numbers DEF IInv
  <2> QED BY <1>1, <2>1 DEF IInv, TypeOK
<1>3. Synced' /\ Planned' /\ OneEntry'
  BY <1>1 DEF IInv, Synced, Planned, OneEntry, Repairing
<1>4. JobScene'
  BY <1>1 DEF JobScene
<1> QED BY <1>1, <1>2, <1>3, <1>4 DEF IInv

(* A step that moves on without touching the disk.                         *)
LEMMA CheckTableKeeps == ASSUME IInv, CheckTable PROVE IInv'
<1>1. /\ pc = "check" /\ pc' \in {"commit", "repair"} /\ (pc' = "commit" <=> repair = NoRepair)
      /\ UNCHANGED <<disk, media, end, used, cmd, decided, target, dirty, repair, step, job, journal>>
  BY DEF CheckTable, env, plan
<1>2. TypeOK'
  BY <1>1 DEF IInv, TypeOK
<1>3. disk = media
  BY <1>1 DEF IInv, Synced
<1>4. Synced'
  BY <1>1, <1>3 DEF Synced
<1>5. JobScene'
  BY <1>1 DEF IInv, JobScene, Pending, Placed
<1>6. Planned'
  BY <1>1, <1>3 DEF IInv, JobScene, Planned, Repairing, Stands, ValidAt
<1>7. OneEntry'
  BY <1>1 DEF IInv, OneEntry, Repairing
<1> QED BY <1>1, <1>2, <1>4, <1>5, <1>6, <1>7 DEF IInv

LEMMA StartRepairKeeps == ASSUME IInv, StartRepair PROVE IInv'
<1>1. /\ pc = "repair" /\ Classify(disk) = repair /\ State(disk) # "damaged"
      /\ pc' = IF repair.gpt THEN "write repair" ELSE "mbr"
      /\ UNCHANGED <<disk, media, end, used, cmd, decided, target, dirty, repair, step, job, journal>>
  BY DEF StartRepair, env, plan
<1>2. TypeOK'
  BY <1>1 DEF IInv, TypeOK
<1>3. disk = media /\ step = 0
  BY <1>1 DEF IInv, Synced, Planned
<1>4. disk \in Disks /\ end \in Ends
  BY AlwaysStands
<1>5. pc' = "mbr" => ValidAt(disk, end)
  <2>1. pc' = "mbr" => ~Classify(disk).gpt
    BY <1>1
  <2>2. ~Classify(disk).gpt => State(disk) = "valid"
    BY DEF Classify
  <2> QED BY <1>4, <2>1, <2>2, Reading
<1>6. Stands(disk, end, FoundAt(disk, end))
  BY <1>1, <1>4, Reading DEF Stands, HoldsAt, FoundAt
<1>7. pc' = "write repair" => Writes' = TableOf(disk)'
  BY <1>1 DEF Writes
<1>8. TableOf(disk)' = FoundAt(disk, end)
  <2>1. TableOf(disk)' = TableOf(disk)
    BY <1>1 DEF TableOf, PrimaryUsable, Fits
  <2> QED BY <1>4, <2>1, Reading
<1>9. Progress(disk, end, FoundAt(disk, end), 0)
  BY <1>6, ProgressBegins
<1>10. Synced'
  <2>1. CASE pc' = "mbr"
    BY <1>1, <1>3, <2>1 DEF Synced
  <2>2. CASE pc' = "write repair"
    <3>1. Writes' = FoundAt(disk, end)
      BY <1>7, <1>8, <2>2
    <3>2. disk' = media' /\ step' = 0
      BY <1>1, <1>3
    <3>3. Progress(disk', end', Writes', step')
      BY <1>1, <1>9, <3>1, <3>2
    <3>4. step' < 4
      BY <3>2
    <3> QED BY <2>2, <3>2, <3>3, <3>4, Zenon DEF Synced
  <2> QED BY <1>1, <2>1, <2>2
<1>11. JobScene'
  BY <1>1 DEF IInv, JobScene, Pending, Placed
<1>12. Planned'
  BY <1>1, <1>3, <1>5 DEF IInv, Planned, Repairing
<1>13. OneEntry'
  BY <1>1 DEF IInv, OneEntry, Repairing
<1> QED BY <1>1, <1>2, <1>10, <1>11, <1>12, <1>13 DEF IInv

LEMMA StartCommitKeeps == ASSUME IInv, StartCommit PROVE IInv'
<1>1. /\ pc = "commit" /\ pc' = "write"
      /\ job' = IF cmd = "job" /\ job = -1 THEN 0 ELSE job
      /\ UNCHANGED <<disk, media, end, used, cmd, decided, target, dirty, repair, step, journal>>
  BY DEF StartCommit, env, plan
<1>2. disk = media /\ step = 0
  BY <1>1 DEF IInv, Synced, Planned
<1>3. cmd = "job" => Script # <<>> /\ Placed(target, Pending)
  BY <1>1 DEF IInv, JobScene
<1>4. TypeOK'
  <2>1. cmd = "job" => 0 \in -1 .. (Len(Script) - 1)
    BY <1>3, GptCommitAssumption
  <2> QED BY <1>1, <2>1 DEF IInv, TypeOK
<1>5. Pending' = Pending
  BY <1>1 DEF Pending
<1>6. Writes' = target
  BY <1>1 DEF Writes
<1>7. Synced'
  BY <1>1, <1>2, <1>6 DEF IInv, Planned, Progress, Synced
<1>8. JobScene'
  BY <1>1, <1>2, <1>3, <1>5 DEF IInv, Planned, JobScene, ValidAt, Placed
<1>9. Planned'
  BY <1>1, <1>2 DEF IInv, Planned, Repairing
<1>10. OneEntry'
  BY <1>1 DEF OneEntry, Repairing
<1> QED BY <1>1, <1>4, <1>7, <1>8, <1>9, <1>10 DEF IInv

LEMMA NextStep ==
  ASSUME NEW n \in 0 .. 4
  PROVE  /\ n < 4 => /\ n + 1 \in 1 .. 4 /\ n + 1 \in 0 .. 4
                     /\ n + 1 - 1 = n /\ n + 1 >= 1 /\ 0 < 4
         /\ ~(n < 4) => n = 4
OBVIOUS

(* A write of a commit or of a repair.                                     *)
LEMMA WriteNextKeeps == ASSUME IInv, WriteNext PROVE IInv'
<1>1. /\ pc \in {"write", "write repair"} /\ step < 4
      /\ disk' = Written(disk, step + 1, Writes) /\ step' = step + 1
      /\ pc' = IF pc = "write" THEN "sync" ELSE "sync repair"
      /\ journal' = TRUE /\ UNCHANGED <<media, end, used, cmd, decided, target, dirty, repair, job>>
  BY DEF WriteNext, env, plan
<1>2. step \in 0 .. 4
  BY Numbers DEF IInv
<1>3. step + 1 \in 1 .. 4 /\ step + 1 \in 0 .. 4 /\ step + 1 - 1 = step /\ step + 1 >= 1
  BY <1>1, <1>2, NextStep
<1>4. disk = media /\ Progress(disk, end, Writes, step)
  <2>1. Synced
    BY DEF IInv
  <2> QED BY <1>1, <2>1 DEF Synced
<1>5. disk \in Disks /\ end \in Ends /\ Writes \in Tables
  BY AlwaysStands
<1>6. disk' = WrittenAt(disk, end, step + 1, Writes)
  BY <1>1, WritesAreWrites
<1>7. /\ disk' \in Disks /\ disk'.mbr = disk.mbr /\ Progress(disk', end, Writes, step + 1)
      /\ FoundAt(disk', end) \in {FoundAt(disk, end), Writes}
  <2>1. PICK k \in 1 .. 4 : k = step + 1 /\ k - 1 = step
    BY <1>2, <1>3
  <2>2. disk' = WrittenAt(disk, end, k, Writes)
    BY <1>6, <2>1
  <2>3. Progress(disk, end, Writes, k - 1)
    BY <1>4, <2>1
  <2>4. /\ disk' \in Disks /\ disk'.mbr = disk.mbr /\ Progress(disk', end, Writes, k)
        /\ FoundAt(disk', end) \in {FoundAt(disk, end), Writes}
    BY <1>5, <2>1, <2>2, <2>3, WriteKeeps
  <2> QED BY <2>1, <2>4
<1>8. Writes' = Writes
  <2>1. CASE pc = "write"
    BY <1>1, <2>1 DEF Writes
  <2>2. CASE pc = "write repair"
    <3>1. FoundAt(disk, end) = Writes
      BY <2>2, AlwaysStands DEF Repairing
    <3>2. FoundAt(disk', end) = Writes
      BY <1>7, <3>1
    <3>3. TableOf(disk') = FoundAt(disk', end)
      BY <1>5, <1>7, Reading
    <3>4. TableOf(disk)' = TableOf(disk')
      BY <1>1 DEF TableOf, PrimaryUsable, Fits
    <3>5. Writes' = TableOf(disk)'
      BY <1>1, <2>2 DEF Writes
    <3> QED BY <3>2, <3>3, <3>4, <3>5
  <2> QED BY <1>1, <2>1, <2>2
<1>9. TypeOK'
  BY <1>1, <1>3, <1>7 DEF IInv, TypeOK
<1>10. Synced'
  <2>1. Progress(media', end', Writes', step' - 1)
    <3>0. step' = step + 1
      BY <1>1
    <3>1. step' - 1 = step
      BY <1>2, <3>0
    <3>2. Progress(media', end', Writes', step)
      BY <1>1, <1>4, <1>8
    <3> QED BY <3>1, <3>2
  <2>2. disk' = WrittenAt(media', end', step', Writes')
    BY <1>1, <1>4, <1>6, <1>8
  <2>3. step' >= 1
    <3>1. step' = step + 1
      BY <1>1
    <3> QED BY <1>3, <3>1, Zenon
  <2>4. pc' = "sync repair" => FoundAt(media', end') = Writes'
    BY <1>1, <1>8, AlwaysStands DEF Repairing
  <2>5. pc' \in {"sync", "sync repair"}
    BY <1>1
  <2> QED BY <2>1, <2>2, <2>3, <2>4, <2>5 DEF Synced
<1>11. JobScene'
  BY <1>1, <1>7 DEF IInv, JobScene, Pending, Placed
<1>12. Planned'
  BY <1>1, <1>7 DEF IInv, Planned, Repairing
<1>13. OneEntry'
  BY <1>1 DEF IInv, OneEntry, Repairing
<1> QED BY <1>1, <1>7, <1>9, <1>10, <1>11, <1>12, <1>13 DEF IInv

(* Four durable writes of t make both copies valid and hold t.             *)
LEMMA CommitEnds ==
  ASSUME NEW d \in Disks, NEW e \in Ends, NEW t \in Tables, Progress(d, e, t, 4)
  PROVE  /\ ValidAt(d, e) /\ FoundAt(d, e) = t /\ d.array[0] = d.array[e]
         /\ d.array[e].table = t
BY EndsArePositive DEF Progress, Copy, ValidAt, PrimaryAt, BackupAt, FoundAt

LEMMA SyncKeeps == ASSUME IInv, Sync PROVE IInv'
<1>1. /\ pc \in {"sync", "sync repair"} /\ media' = disk
      /\ pc' = IF step < 4 THEN (IF pc = "sync" THEN "write" ELSE "write repair")
               ELSE (IF pc = "sync" THEN "committed" ELSE "mbr")
      /\ step' = IF step < 4 THEN step ELSE 0
      /\ UNCHANGED <<disk, end, used, cmd, decided, target, dirty, repair, job, journal>>
  BY DEF Sync, env, plan
<1>2. step \in 0 .. 4 /\ disk \in Disks /\ media \in Disks /\ end \in Ends /\ Writes \in Tables
  BY AlwaysStands
<1>3. Progress(disk, end, Writes, step)
  BY <1>1, AlwaysStands
<1>4. TypeOK'
  <2>1. step' \in 0 .. 4
    <3>1. step' = step \/ step' = 0
      BY <1>1
    <3> QED BY <1>2, <3>1
  <2> QED BY <1>1, <1>2, <2>1 DEF IInv, TypeOK
<1>5. Writes' = Writes \/ pc' \in {"committed", "mbr"}
  BY <1>1 DEF Writes, TableOf, PrimaryUsable, Fits
<1>6. Synced'
  <2>1. CASE step < 4
    <3>1. Progress(disk', end', Writes', step')
      BY <1>1, <1>3, <1>5, <2>1
    <3> QED BY <1>1, <2>1, <3>1 DEF Synced
  <2>2. CASE ~(step < 4)
    BY <1>1, <2>2 DEF Synced
  <2> QED BY <2>1, <2>2
<1>7. job # -1 => \/ PrimaryAt(disk, end)
                  \/ BackupAt(disk, end) /\ Placed(disk.array[end].table, job + 1)
  <2>1. Stands(disk, end, Writes)
    BY <1>3 DEF Progress
  <2>2. job # -1 => ~Repairing /\ pc # "idle"
    BY <1>1 DEF IInv, Planned
  <2> QED BY <2>1, <2>2, JobStands
<1>8. JobScene'
  BY <1>1, <1>7 DEF IInv, JobScene, Pending, Placed
<1>9. pc' \in {"committed", "mbr"} => Progress(disk, end, Writes, 4)
  <2>1. pc' \in {"committed", "mbr"} => step = 4
    <3>1. pc' \in {"committed", "mbr"} => ~(step < 4)
      BY <1>1
    <3>2. ~(step < 4) => step = 4
      BY <1>2, NextStep, Zenon
    <3> QED BY <3>1, <3>2
  <2> QED BY <1>3, <2>1
<1>10. pc' = "mbr" => ValidAt(disk, end)
  BY <1>2, <1>9, CommitEnds
<1>11. pc' = "committed" => Writes = target
  BY <1>1 DEF Writes
<1>12. Planned'
  BY <1>1, <1>9, <1>10, <1>11 DEF IInv, Planned, Repairing, ValidAt
<1>13. OneEntry'
  BY <1>1 DEF IInv, OneEntry, Repairing
<1>14. PrimaryAt(disk, end) \/ BackupAt(disk, end)
  BY AlwaysStands
<1> QED BY <1>1, <1>4, <1>6, <1>8, <1>12, <1>13, <1>14 DEF IInv

LEMMA RepairMbrKeeps == ASSUME IInv, RepairMbr PROVE IInv'
<1>1. /\ pc = "mbr" /\ disk' = [disk EXCEPT !.mbr = end] /\ media' = disk'
      /\ journal' = TRUE /\ UNCHANGED <<end, used, job>>
  BY DEF RepairMbr, env, plan
<1>2. disk = media /\ ValidAt(disk, end) /\ job = -1 /\ step = 0
  BY <1>1 DEF IInv, Synced, Planned
<1>3. disk \in Disks /\ end \in Ends
  BY AlwaysStands
<1>4. disk' \in Disks /\ disk'.mbr = end /\ disk'.array = disk.array /\ disk'.header = disk.header
  BY <1>1, <1>3 DEF Disks
<1>5. ValidAt(disk', end) /\ PrimaryAt(disk', end)
  BY <1>2, <1>4 DEF ValidAt, PrimaryAt, BackupAt
<1>6. State(disk') = "valid"
  BY <1>3, <1>4, <1>5, Reading
<1>7. State(disk)' = State(disk')
  BY <1>1 DEF State, PrimaryUsable, BackupUsable, Fits
<1>8. /\ pc' = "commit"
      /\ UNCHANGED <<cmd, decided, target, dirty, repair, step>>
  BY <1>1, <1>6, <1>7 DEF RepairMbr, plan
<1>9. TypeOK'
  BY <1>1, <1>4, <1>8 DEF IInv, TypeOK
<1>10. Synced' /\ JobScene'
  BY <1>1, <1>2, <1>8 DEF IInv, Synced, JobScene, Pending, Placed
<1>11. Planned'
  BY <1>1, <1>2, <1>4, <1>5, <1>8 DEF Planned, Repairing, Stands
<1>12. OneEntry'
  BY <1>1, <1>8 DEF IInv, OneEntry, Repairing
<1>13. disk'.mbr <= end
  BY <1>3, <1>4, EndsArePositive
<1> QED BY <1>1, <1>4, <1>5, <1>9, <1>10, <1>11, <1>12, <1>13 DEF IInv

LEMMA CommittedKeeps == ASSUME IInv, Committed PROVE IInv'
<1>1. /\ pc = "committed"
      /\ UNCHANGED <<disk, media, end, used>>
  BY DEF Committed, env
<1>2. disk = media /\ step = 0 /\ Progress(disk, end, target, 4) /\ disk.mbr = end
  BY <1>1 DEF IInv, Synced, Planned
<1>3. disk \in Disks /\ end \in Ends /\ target \in Tables /\ job \in Int
  BY AlwaysStands
<1>4. ValidAt(disk, end) /\ FoundAt(disk, end) = target
  BY <1>2, <1>3, CommitEnds
<1>5. CASE cmd = "job" /\ job + 1 < Len(Script)
  <2> DEFINE next == Script[job + 2]
  <2>1. /\ job' = job + 1 /\ pc' = "commit"
        /\ target' = [target EXCEPT ![next[1]] = next[2]] /\ dirty' = dirty \cup {next[1]}
        /\ UNCHANGED <<cmd, decided, repair, step, journal>>
    BY <1>5 DEF Committed
  <2>2. job # -1 /\ job \in -1 .. (Len(Script) - 1) /\ Len(Script) \in Nat
    BY <1>1, <1>5, Numbers DEF IInv, Planned, TypeOK
  <2>3. job + 2 \in 1 .. Len(Script) /\ job' \in -1 .. (Len(Script) - 1) /\ job' # -1
    BY <1>5, <2>1, <2>2
  <2>4. next[1] \in Slots /\ next[2] \in Values
    BY <2>3, ScriptEntry
  <2>5. /\ target' \in Tables /\ target'[next[1]] = next[2]
        /\ \A x \in Slots \ {next[1]} : target'[x] = target[x]
    BY <1>3, <2>1, <2>4 DEF Tables
  <2>6. dirty' \subseteq Slots
    BY <2>1, <2>4 DEF IInv, TypeOK
  <2>7. TypeOK'
    BY <1>1, <2>1, <2>3, <2>5, <2>6 DEF IInv, TypeOK
  <2>8. Synced'
    BY <1>1, <1>2, <2>1 DEF Synced
  <2> HIDE DEF next
  <2>9. Placed(target, Pending)'
    <3>1. Pending' = job' + 1
      BY <2>3 DEF Pending
    <3>2. Pending' = job + 2
      <4>1. job' = job + 1
        BY <2>1
      <4> QED BY <1>3, <3>1, <4>1
    <3> QED BY <2>5, <3>2 DEF Placed, next
  <2>13. Script # <<>>
    BY <2>3
  <2>10. JobScene'
    <3>1. media' = media /\ end' = end /\ cmd' = "job" /\ disk' = disk /\ PrimaryAt(media, end)
      BY <1>1, <1>2, <1>4, <1>5, <2>1 DEF ValidAt
    <3> QED BY <1>2, <2>9, <2>13, <3>1, Zenon DEF JobScene
  <2>11. Planned'
    BY <1>1, <1>2, <1>4, <2>1, <2>3 DEF Planned, Repairing, ValidAt, Stands
  <2>12. OneEntry'
    BY <1>1, <1>4, <2>1, <2>3, <2>4, <2>5 DEF OneEntry
  <2> QED BY <1>1, <2>7, <2>8, <2>10, <2>11, <2>12 DEF IInv
<1>6. CASE ~(cmd = "job" /\ job + 1 < Len(Script))
  <2>1. job' = -1 /\ journal' = FALSE /\ Stop
    BY <1>6 DEF Committed
  <2>2. job' \in -1 .. (Len(Script) - 1)
    BY <2>1, Numbers DEF IInv
  <2>3. /\ disk' = media' /\ media' \in Disks /\ media'.mbr <= end /\ end' = end
        /\ PrimaryAt(media', end)
    BY <1>1, <1>2, <1>3, <1>4 DEF IInv, ValidAt
  <2>4. used' \in [death: 0 .. MaxDeaths, foreign: 0 .. MaxForeign, damage: 0 .. MaxDamage]
    BY <1>1, Numbers DEF IInv
  <2> QED BY <2>1, <2>2, <2>3, <2>4, StopKeeps
<1> QED BY <1>5, <1>6

(* Another tool's table is written whole.                                  *)
LEMMA BothCopiesHold ==
  ASSUME NEW d \in Disks, end \in Ends, NEW t \in Tables
  PROVE  LET b == BothCopies(d, t) IN
         b \in Disks /\ b.mbr = d.mbr /\ ValidAt(b, end) /\ FoundAt(b, end) = t
<1>1. end \in Int /\ end > 0 /\ end \in Places /\ 0 \in Places /\ end # 0
  BY EndsArePositive
<1> DEFINE a == PutArray(d, end, t)
           h == PutHeader(a, end, t, 0)
           p == PutArray(h, 0, t)
           b == PutHeader(p, 0, t, end)
<1>2. BothCopies(d, t) = b
  BY DEF BothCopies
<1>3. a \in Disks /\ a.mbr = d.mbr /\ a.array[end] = [ok |-> TRUE, table |-> t]
  BY <1>1, PutsArray
<1> HIDE DEF a
<1>4. /\ h \in Disks /\ h.mbr = d.mbr /\ h.array[end] = [ok |-> TRUE, table |-> t]
      /\ h.header[end] = [ok |-> TRUE, table |-> t, alt |-> 0]
  BY <1>1, <1>3, PutsHeader
<1> HIDE DEF h
<1>5. /\ p \in Disks /\ p.mbr = d.mbr /\ p.array[end] = [ok |-> TRUE, table |-> t]
      /\ p.header[end] = [ok |-> TRUE, table |-> t, alt |-> 0]
      /\ p.array[0] = [ok |-> TRUE, table |-> t]
  BY <1>1, <1>4, PutsArray
<1> HIDE DEF p
<1>6. /\ b \in Disks /\ b.mbr = d.mbr /\ b.array[end] = [ok |-> TRUE, table |-> t]
      /\ b.header[end] = [ok |-> TRUE, table |-> t, alt |-> 0]
      /\ b.array[0] = [ok |-> TRUE, table |-> t]
      /\ b.header[0] = [ok |-> TRUE, table |-> t, alt |-> end]
  BY <1>1, <1>5, PutsHeader
<1> HIDE DEF b
<1>7. ValidAt(b, end) /\ FoundAt(b, end) = t
  BY <1>1, <1>6 DEF ValidAt, PrimaryAt, BackupAt, FoundAt
<1> QED BY <1>2, <1>6, <1>7

LEMMA ForeignEditKeeps == ASSUME IInv, ForeignEdit PROVE IInv'
<1>1. PICK t \in Tables : disk' = BothCopies(disk, t)
  BY DEF ForeignEdit
<1>2. /\ pc \in {"idle", "check", "repair", "commit"} /\ job = -1 /\ disk = media /\ media' = disk'
      /\ used' = [used EXCEPT !.foreign = @ + 1] /\ used.foreign < MaxForeign
      /\ UNCHANGED <<end, pc, cmd, decided, target, dirty, repair, step, job, journal>>
  BY DEF ForeignEdit, Spend, plan
<1>3. disk \in Disks /\ end \in Ends
  BY AlwaysStands
<1>4. disk' \in Disks /\ disk'.mbr = disk.mbr /\ ValidAt(disk', end)
  BY <1>1, <1>3, BothCopiesHold
<1>5. used' \in [death: 0 .. MaxDeaths, foreign: 0 .. MaxForeign, damage: 0 .. MaxDamage]
  BY <1>2, Numbers DEF IInv
<1>6. TypeOK'
  BY <1>2, <1>4, <1>5 DEF IInv, TypeOK
<1>7. Synced' /\ JobScene'
  BY <1>2 DEF IInv, Synced, JobScene, Pending, Placed
<1>8. Planned'
  BY <1>2, <1>4 DEF IInv, Planned, Repairing, ValidAt, Stands
<1>9. OneEntry'
  BY <1>2 DEF IInv, OneEntry, Repairing
<1> QED BY <1>2, <1>4, <1>6, <1>7, <1>8, <1>9 DEF IInv, ValidAt

LEMMA DamageKeeps ==
  ASSUME IInv, Damage, ~DamageInJob
  PROVE  IInv' /\ FoundAt(media', end) = FoundAt(media, end)
<1>1. PICK p \in {0, end} : disk' = [disk EXCEPT !.array[p].ok = FALSE]
  BY DEF Damage
<1>2. /\ pc = "idle" /\ job = -1 /\ disk = media /\ media' = disk'
      /\ State(disk) = "valid" /\ TableOf(disk) = disk.array[end].table
      /\ used' = [used EXCEPT !.damage = @ + 1] /\ used.damage < MaxDamage
      /\ UNCHANGED <<end, pc, cmd, decided, target, dirty, repair, step, job, journal>>
  BY DEF Damage, Spend, plan
<1>3. disk \in Disks /\ end \in Ends
  BY AlwaysStands
<1>4. ValidAt(disk, end) /\ FoundAt(disk, end) = disk.array[end].table
  BY <1>2, <1>3, Reading
<1>5. 0 \in Places /\ end \in Places /\ end # 0
  BY <1>3, EndsArePositive
<1>6. /\ disk' \in Disks /\ disk'.mbr = disk.mbr /\ disk'.header = disk.header
      /\ \A q \in Places : /\ disk'.array[q].table = disk.array[q].table
                           /\ q # p => disk'.array[q] = disk.array[q]
  BY <1>1, <1>3, <1>5 DEF Disks, Arrays
<1>7. PrimaryAt(disk', end) \/ BackupAt(disk', end)
  BY <1>4, <1>5, <1>6 DEF ValidAt, PrimaryAt, BackupAt
<1>8. FoundAt(disk', end) = FoundAt(disk, end)
  BY <1>4, <1>5, <1>6 DEF ValidAt, FoundAt
<1>9. used' \in [death: 0 .. MaxDeaths, foreign: 0 .. MaxForeign, damage: 0 .. MaxDamage]
  BY <1>2, Numbers DEF IInv
<1>10. TypeOK'
  BY <1>2, <1>6, <1>9 DEF IInv, TypeOK
<1>11. Synced' /\ JobScene'
  BY <1>2 DEF IInv, Synced, JobScene, Pending, Placed
<1>12. Planned' /\ OneEntry'
  BY <1>2 DEF IInv, Planned, OneEntry, Repairing
<1> QED BY <1>2, <1>6, <1>7, <1>8, <1>10, <1>11, <1>12 DEF IInv

LEMMA EnlargeKeeps ==
  ASSUME IInv, Enlarge PROVE IInv' /\ FoundAt(media', end') = FoundAt(media, end)
<1>1. PICK e \in Ends : e > end /\ end' = e
  BY DEF Enlarge
<1>2. /\ pc = "idle" /\ job = -1 /\ disk = media /\ PrimaryUsable(disk)
      /\ UNCHANGED <<disk, media, pc, cmd, decided, target, dirty, repair, step, job,
                     journal, used>>
  BY DEF Enlarge, plan
<1>3. disk \in Disks /\ end \in Ends /\ end \in Int /\ e \in Int
  BY AlwaysStands, EndsArePositive
<1>4. PrimaryAt(disk, end)
  BY <1>2, <1>3, Reading
<1>5. PrimaryAt(disk, e) /\ disk.mbr <= e
  <2>1. disk.header[0].alt \in Int /\ disk.mbr \in Int
    <3>1. Places \subseteq Int /\ Ends \subseteq Int /\ 0 \in Places
      BY GptCommitAssumption DEF Places
    <3> QED BY <1>3, <3>1 DEF Disks, Headers
  <2>2. disk.header[0].alt <= end /\ disk.mbr <= end
    BY <1>4 DEF PrimaryAt, IInv
  <2>3. disk.header[0].alt <= e /\ disk.mbr <= e
    BY <1>1, <1>3, <2>1, <2>2
  <2> QED BY <1>4, <2>3 DEF PrimaryAt
<1>6. FoundAt(media', end') = FoundAt(media, end)
  BY <1>1, <1>2, <1>4, <1>5 DEF FoundAt
<1>7. TypeOK'
  BY <1>1, <1>2 DEF IInv, TypeOK
<1>8. Synced' /\ JobScene'
  BY <1>2 DEF IInv, Synced, JobScene, Pending, Placed
<1>9. Planned' /\ OneEntry'
  BY <1>2 DEF IInv, Planned, OneEntry, Repairing
<1> QED BY <1>1, <1>2, <1>5, <1>6, <1>7, <1>8, <1>9 DEF IInv

-----------------------------------------------------------------------------
(* The theorems.                                                           *)

LEMMA InitHolds == ASSUME Init PROVE IInv
<1>1. PICK t \in Tables :
        disk = [array |-> [p \in Places |-> [ok |-> p \in {0, end}, table |-> t]],
                header |-> [p \in Places |-> [ok |-> p \in {0, end}, table |-> t,
                                              alt |-> IF p = 0 THEN end ELSE 0]],
                mbr |-> end]
  BY DEF Init
<1>2. /\ end \in Ends /\ media = disk /\ decided = Nothing /\ target = Nothing
      /\ pc = "idle" /\ cmd = "edit" /\ dirty = {} /\ repair = NoRepair /\ step = 0
      /\ job = -1 /\ journal = FALSE /\ used = [death |-> 0, foreign |-> 0, damage |-> 0]
  BY DEF Init
<1>3. end \in Int /\ end \in Places /\ 0 \in Places /\ end # 0
  BY <1>2, EndsArePositive
<1>4. disk \in Disks
  BY <1>1, <1>2, <1>3 DEF Disks, Arrays, Headers
<1>5. ValidAt(disk, end) /\ disk.mbr = end
  <2>1. \A p \in {0, end} : disk.array[p].ok /\ disk.header[p].ok
                            /\ disk.array[p].table = t /\ disk.header[p].table = t
    BY <1>1, <1>3
  <2>2. disk.header[0].alt = end /\ disk.header[end].alt = 0 /\ disk.mbr = end
    BY <1>1, <1>3
  <2> QED BY <1>3, <2>1, <2>2 DEF ValidAt, PrimaryAt, BackupAt
<1>6. Nothing \in Tables
  BY <1>1 DEF Nothing
<1>7. -1 \in -1 .. (Len(Script) - 1)
  BY GptCommitAssumption
<1>8. MaxDeaths \in Nat /\ MaxForeign \in Nat /\ MaxDamage \in Nat
  BY GptCommitAssumption
<1>9. used \in [death: 0 .. MaxDeaths, foreign: 0 .. MaxForeign, damage: 0 .. MaxDamage]
  BY <1>2, <1>8
<1>12. journal \in BOOLEAN
  BY <1>2
<1>10. TypeOK
  BY <1>2, <1>4, <1>6, <1>7, <1>9, <1>12 DEF TypeOK, NoRepair
<1>11. Synced /\ JobScene /\ Planned /\ OneEntry
  BY <1>2 DEF Synced, JobScene, Planned, OneEntry, Repairing
<1> QED BY <1>2, <1>3, <1>5, <1>10, <1>11 DEF IInv, ValidAt

LEMMA CommandKeeps == ASSUME IInv, Command PROVE IInv'
BY BeginEditKeeps, BeginJobKeeps, ResumeJobKeeps, AbandonKeeps DEF Command

LEMMA RunKeeps == ASSUME IInv, Run PROVE IInv'
<1>1. CASE CheckRefuses \/ RepairRefuses \/ CommitRefuses
  <2>1. disk = media
    BY <1>1 DEF CheckRefuses, RepairRefuses, CommitRefuses, IInv, Synced
  <2> QED BY <1>1, <2>1, EndKeeps DEF CheckRefuses, RepairRefuses, CommitRefuses
<1> QED BY <1>1, CheckTableKeeps, StartRepairKeeps, StartCommitKeeps, WriteNextKeeps,
           SyncKeeps, RepairMbrKeeps, CommittedKeeps DEF Run

LEMMA StutterKeeps == ASSUME IInv, UNCHANGED vars PROVE IInv'
<1>1. UNCHANGED <<disk, media, end, pc, cmd, decided, target, dirty, repair, step, job, journal,
               used>>
  BY DEF vars
<1>2. TypeOK'
  BY <1>1 DEF IInv, TypeOK
<1>3. Synced'
  BY <1>1 DEF IInv, Synced, Writes, TableOf, PrimaryUsable, Fits
<1> QED BY <1>1, <1>2, <1>3 DEF IInv, JobScene, Pending, Placed, Planned, OneEntry, Repairing

LEMMA StepKeeps ==
  ASSUME IInv, [Next]_vars, Writeback, ~DamageInJob
  PROVE  IInv'
BY CommandKeeps, RunKeeps, KillKeeps, PowerLossKeeps, ForeignEditKeeps, DamageKeeps, EnlargeKeeps,
   StutterKeeps DEF Next

(* The inductive invariant.                                                *)
THEOREM InvariantHolds ==
  ASSUME Writeback, ~DamageInJob
  PROVE  Spec => []IInv
BY InitHolds, StepKeeps, PTL DEF Spec

(* Types.                                                                  *)
THEOREM TypesHold ==
  ASSUME Writeback, ~DamageInJob
  PROVE  Spec => []TypeOK
<1>1. IInv => TypeOK
  BY DEF IInv
<1> QED BY <1>1, InvariantHolds, PTL

(* Wherever a command dies, a consistent copy of the table is left, on the *)
(* medium and in what the next command reads.                              *)
THEOREM ATableSurvives ==
  ASSUME Writeback, ~DamageInJob
  PROVE  Spec => []TableSurvives
<1>1. IInv => TableSurvives
  BY AlwaysStands, Reading DEF TableSurvives, IInv
<1> QED BY <1>1, InvariantHolds, PTL

(* Success leaves both copies whole, equal and at the container's end.     *)
THEOREM SuccessRestores ==
  ASSUME Writeback, ~DamageInJob
  PROVE  Spec => []RedundancyRestored
<1>1. IInv => RedundancyRestored
  <2> SUFFICES ASSUME IInv, pc = "committed"
               PROVE  /\ State(media) = "valid" /\ media.mbr = end
                      /\ media.array[0] = media.array[end] /\ TableOf(media) = target
    BY DEF RedundancyRestored
  <2>1. disk = media /\ Progress(disk, end, target, 4) /\ disk.mbr = end
    BY DEF IInv, Synced, Planned
  <2>2. media \in Disks /\ end \in Ends /\ target \in Tables
    BY AlwaysStands
  <2> QED BY <2>1, <2>2, CommitEnds, Reading
<1> QED BY <1>1, InvariantHolds, PTL

-----------------------------------------------------------------------------
(* The refinement of AtomicTable.                                          *)

Wanted == IF Committing THEN target ELSE TableOf(media)

LEMMA Mapping ==
  /\ TableOf(media) = FoundAt(media, end) /\ TableOf(media)' = FoundAt(media', end')
  /\ Wanted = IF Committing THEN target ELSE FoundAt(media, end)
  /\ Wanted' = IF Committing' THEN target' ELSE FoundAt(media', end')
BY DEF TableOf, PrimaryUsable, Fits, FoundAt, PrimaryAt, Wanted

LEMMA Stutters ==
  ASSUME FoundAt(media', end') = FoundAt(media, end), Wanted' = Wanted,
         used'.foreign = used.foreign
  PROVE  UNCHANGED Atomic!vars
BY Mapping DEF Atomic!vars, Wanted

(* A commit begins: one entry of the table on the disk changes.            *)
LEMMA StartCommitRefines == ASSUME IInv, StartCommit PROVE Atomic!Begin
<1>1. /\ pc = "commit" /\ pc' = "write" /\ UnchangedOnDisk
      /\ UNCHANGED <<disk, media, end, used, target>>
  BY DEF StartCommit, env, plan
<1>2. disk = media
  BY <1>1 DEF IInv, Synced
<1>3. disk \in Disks /\ end \in Ends /\ target \in Tables /\ FoundAt(disk, end) \in Tables
  BY AlwaysStands
<1>4. PICK s \in Slots : \A x \in Slots \ {s} : FoundAt(disk, end)[x] = target[x]
  <2>1. CASE \E s \in Slots : dirty = {s} /\ \A x \in Slots \ {s} : target[x] = decided[x]
    <3>1. PICK s \in Slots : dirty = {s} /\ \A x \in Slots \ {s} : target[x] = decided[x]
      BY <2>1
    <3>2. \A x \in Slots \ {s} : TableOf(disk)[x] = decided[x]
      BY <1>1, <3>1 DEF UnchangedOnDisk
    <3>3. TableOf(disk) = FoundAt(disk, end)
      BY <1>3, Reading
    <3> QED BY <3>1, <3>2, <3>3
  <2> QED BY <1>1, <2>1 DEF IInv, OneEntry
<1>5. target = [FoundAt(disk, end) EXCEPT ![s] = target[s]] /\ target[s] \in Values
  BY <1>3, <1>4 DEF Tables
<1>6. ~Committing /\ Committing'
  BY <1>1 DEF Committing
<1>7. /\ Wanted = FoundAt(media, end) /\ Wanted' = target
      /\ TableOf(media)' = TableOf(media) /\ TableOf(media) = FoundAt(media, end)
  BY <1>1, <1>6, Mapping
<1>8. \E z \in Slots, v \in Values : Wanted' = [TableOf(media) EXCEPT ![z] = v]
  BY <1>2, <1>5, <1>7
<1> QED BY <1>1, <1>7, <1>8 DEF Atomic!Begin, Wanted

LEMMA WriteNextRefines == ASSUME IInv, WriteNext PROVE UNCHANGED Atomic!vars
<1>1. /\ Committing' <=> Committing
      /\ UNCHANGED <<media, end, used, target>>
  BY DEF WriteNext, Committing, env, plan
<1> QED BY <1>1, Mapping, Stutters

(* A write becomes durable: the new table has landed, or not yet.          *)
LEMMA SyncRefines == ASSUME IInv, Sync PROVE Atomic!Land \/ UNCHANGED Atomic!vars
<1>1. /\ pc \in {"sync", "sync repair"} /\ media' = disk
      /\ pc' = IF step < 4 THEN (IF pc = "sync" THEN "write" ELSE "write repair")
               ELSE (IF pc = "sync" THEN "committed" ELSE "mbr")
      /\ UNCHANGED <<disk, end, used, target>>
  BY DEF Sync, env, plan
<1>2. /\ disk \in Disks /\ media \in Disks /\ end \in Ends /\ Writes \in Tables /\ step \in 0 .. 4
      /\ Progress(disk, end, Writes, step)
  BY <1>1, AlwaysStands
<1>3. FoundAt(disk, end) \in {FoundAt(media, end), Writes}
  BY <1>1, <1>2, WritePending, WriteKeeps
<1>4. CASE pc = "sync repair"
  <2>1. FoundAt(media', end') = FoundAt(media, end)
    BY <1>1, <1>3, <1>4, WritePending
  <2>2. ~Committing /\ ~Committing'
    BY <1>1, <1>4 DEF Committing
  <2> QED BY <1>1, <2>1, <2>2, Mapping, Stutters
<1>5. CASE pc = "sync"
  <2>1. Writes = target /\ Committing
    BY <1>5 DEF Writes, Committing
  <2>2. /\ Wanted = target
        /\ TableOf(media) = FoundAt(media, end) /\ TableOf(media)' = FoundAt(disk, end)
    BY <1>1, <2>1, Mapping
  <2>3. Wanted' = target
    <3>1. CASE step < 4
      <4>1. Committing'
        BY <1>1, <1>5, <3>1 DEF Committing
      <4> QED BY <1>1, <4>1, Mapping
    <3>2. CASE ~(step < 4)
      <4>1. ~Committing'
        BY <1>1, <1>5, <3>2 DEF Committing
      <4>2. step = 4
        BY <1>2, <3>2, NextStep, Zenon
      <4>3. Progress(disk, end, target, 4)
        BY <1>2, <2>1, <4>2
      <4>4. FoundAt(disk, end) = target
        BY <1>2, <2>1, <4>3, CommitEnds
      <4> QED BY <1>1, <4>1, <4>4, Mapping
    <3> QED BY <3>1, <3>2
  <2>4. CASE FoundAt(disk, end) = target
    BY <1>1, <2>2, <2>3, <2>4 DEF Atomic!Land, Wanted
  <2>5. CASE FoundAt(disk, end) = FoundAt(media, end)
    BY <1>1, <2>2, <2>3, <2>5, Stutters
  <2> QED BY <1>3, <2>1, <2>4, <2>5
<1> QED BY <1>1, <1>4, <1>5

LEMMA RepairMbrRefines == ASSUME IInv, RepairMbr PROVE UNCHANGED Atomic!vars
<1>1. /\ pc = "mbr" /\ pc' \in {"commit", "idle"}
      /\ media' = [disk EXCEPT !.mbr = end] /\ UNCHANGED <<end, used>>
  BY DEF RepairMbr, Stop, env
<1>2. disk = media
  BY <1>1 DEF IInv, Synced
<1>3. media'.array = media.array /\ media'.header = media.header
  BY <1>1, <1>2, AlwaysStands DEF Disks
<1>4. FoundAt(media', end') = FoundAt(media, end)
  BY <1>1, <1>3 DEF FoundAt, PrimaryAt
<1>5. ~Committing /\ ~Committing'
  BY <1>1 DEF Committing
<1> QED BY <1>1, <1>4, <1>5, Mapping, Stutters

LEMMA CommittedRefines == ASSUME IInv, Committed PROVE UNCHANGED Atomic!vars
<1>1. /\ pc = "committed" /\ pc' \in {"commit", "idle"} /\ UNCHANGED <<media, end, used>>
  BY DEF Committed, Stop, env
<1>2. ~Committing /\ ~Committing'
  BY <1>1 DEF Committing
<1> QED BY <1>1, <1>2, Mapping, Stutters

(* A death: the commit has happened or it has not.                         *)
LEMMA DeathRefines ==
  ASSUME IInv, Kill \/ PowerLoss, Writeback
  PROVE  Atomic!Die
<1>1. pc' = "idle" /\ end' = end /\ used'.foreign = used.foreign
  BY DEF Kill, PowerLoss, Stop, Spend, IInv, TypeOK
<1>2. FoundAt(media', end) \in {FoundAt(media, end), Writes}
  <2>1. CASE PowerLoss
    BY <2>1, PowerLossKeeps
  <2>2. CASE Kill
    <3>1. media' = disk
      BY <2>2 DEF Kill
    <3>2. CASE pc \in {"sync", "sync repair"}
      BY <3>1, <3>2, AlwaysStands, WritePending, WriteKeeps
    <3>3. CASE pc \notin {"sync", "sync repair"}
      BY <3>1, <3>3 DEF IInv, Synced
    <3> QED BY <3>2, <3>3
  <2> QED BY <2>1, <2>2
<1>3. FoundAt(media', end) \in {FoundAt(media, end), Wanted}
  <2>1. CASE Committing
    <3>1. Writes = target /\ Wanted = target
      BY <2>1, Mapping DEF Committing, Writes
    <3> QED BY <1>2, <3>1
  <2>2. CASE Repairing
    BY <1>2, <2>2, AlwaysStands
  <2>3. CASE ~Committing /\ ~Repairing
    <3>1. disk = media
      BY <2>3 DEF Committing, Repairing, IInv, Synced
    <3>2. FoundAt(media', end) = FoundAt(media, end)
      <4>1. CASE Kill
        BY <3>1, <4>1 DEF Kill
      <4>2. CASE PowerLoss
        BY <2>3, <4>2, PowerLossKeeps DEF Committing, Repairing
      <4> QED BY <4>1, <4>2
    <3> QED BY <3>2
  <2> QED BY <2>1, <2>2, <2>3
<1>4. ~Committing'
  BY <1>1 DEF Committing
<1>5. Wanted' = TableOf(media)' /\ TableOf(media)' \in {TableOf(media), Wanted}
  BY <1>1, <1>3, <1>4, Mapping
<1> QED BY <1>1, <1>5 DEF Atomic!Die, Wanted

LEMMA ForeignEditRefines == ASSUME IInv, ForeignEdit PROVE Atomic!Foreign
<1>1. PICK t \in Tables : disk' = BothCopies(disk, t)
  BY DEF ForeignEdit
<1>2. /\ pc \in {"idle", "check", "repair", "commit"} /\ media' = disk' /\ pc' = pc /\ end' = end
      /\ used' = [used EXCEPT !.foreign = @ + 1]
  BY DEF ForeignEdit, Spend
<1>3. used'.foreign = used.foreign + 1
  BY <1>2 DEF IInv, TypeOK
<1>4. FoundAt(media', end') = t
  BY <1>1, <1>2, AlwaysStands, BothCopiesHold
<1>5. ~Committing /\ ~Committing'
  BY <1>2 DEF Committing
<1>6. Wanted = TableOf(media) /\ TableOf(media)' = t /\ Wanted' = t
  BY <1>4, <1>5, Mapping
<1>7. t \in Atomic!Tables
  BY DEF Tables, Atomic!Tables
<1> QED BY <1>3, <1>6, <1>7 DEF Atomic!Foreign, Wanted

(* Damage and growth of the container leave the table that is found.       *)
LEMMA OutsideRefines ==
  ASSUME IInv, ~DamageInJob, Damage \/ Enlarge
  PROVE  UNCHANGED Atomic!vars
<1>1. FoundAt(media', end') = FoundAt(media, end)
  BY DamageKeeps, EnlargeKeeps DEF Damage
<1>2. pc = "idle" /\ pc' = "idle" /\ used'.foreign = used.foreign
  BY DEF Damage, Enlarge, Spend, IInv, TypeOK
<1>3. ~Committing /\ ~Committing'
  BY <1>2 DEF Committing
<1> QED BY <1>1, <1>2, <1>3, Mapping, Stutters

(* Deciding, checking and refusing leave table and commit alone.           *)
LEMMA QuietRefines ==
  ASSUME IInv,
         Command \/ CheckTable \/ CheckRefuses \/ StartRepair \/ RepairRefuses \/ CommitRefuses
  PROVE  UNCHANGED Atomic!vars
<1>1. UNCHANGED <<media, end, used>>
  BY DEF Command, BeginEdit, BeginJob, ResumeJob, Abandon, Decide, CheckTable,
         CheckRefuses, StartRepair, RepairRefuses, CommitRefuses, End, env
<1>2. /\ pc \in {"idle", "check", "repair", "commit"}
      /\ pc' \in {"idle", "check", "repair", "commit", "mbr", "write repair"}
  BY DEF Command, BeginEdit, BeginJob, ResumeJob, Abandon, Decide, CheckTable,
         CheckRefuses, StartRepair, RepairRefuses, CommitRefuses, End, Stop
<1>3. ~Committing /\ ~Committing'
  BY <1>2 DEF Committing
<1> QED BY <1>1, <1>3, Mapping, Stutters

(* GptCommit implements AtomicTable: a commit happens entirely or not, is  *)
(* durable when it is reported, and edits the table found on the disk.     *)
THEOREM CommitsAreAtomic ==
  ASSUME Writeback, ~DamageInJob
  PROVE  Spec => CommitIsAtomic
<1>1. Init => Atomic!Init
  <2> SUFFICES ASSUME Init PROVE Atomic!Init
    OBVIOUS
  <2>1. ~Committing /\ used.foreign = 0 /\ IInv
    BY InitHolds DEF Init, Committing
  <2>2. Wanted = TableOf(media) /\ TableOf(media) \in Tables
    BY <2>1, Mapping, AlwaysStands
  <2> QED BY <2>1, <2>2 DEF Atomic!Init, Wanted, Tables, Atomic!Tables
<1>2. IInv /\ [Next]_vars => [Atomic!Next]_(Atomic!vars)
  <2> SUFFICES ASSUME IInv, [Next]_vars
               PROVE  Atomic!Next \/ UNCHANGED Atomic!vars
    OBVIOUS
  <2>1. CASE Run
    BY <2>1, StartCommitRefines, WriteNextRefines, SyncRefines, RepairMbrRefines, CommittedRefines,
       QuietRefines DEF Run, Atomic!Next
  <2>2. CASE Command \/ Damage \/ Enlarge
    BY <2>2, QuietRefines, OutsideRefines
  <2>3. CASE Kill \/ PowerLoss \/ ForeignEdit
    BY <2>3, DeathRefines, ForeignEditRefines DEF Atomic!Next
  <2>4. CASE UNCHANGED vars
    <3>1. UNCHANGED <<media, end, pc, target, used>>
      BY <2>4 DEF vars
    <3> QED BY <3>1, Mapping, Stutters DEF Committing
  <2> QED BY <2>1, <2>2, <2>3, <2>4 DEF Next
<1> QED BY <1>1, <1>2, InvariantHolds, PTL DEF Spec, CommitIsAtomic, Atomic!Spec
=============================================================================
