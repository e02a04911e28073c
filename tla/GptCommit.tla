----------------------------- MODULE GptCommit -----------------------------
(***************************************************************************)
(* Committing a GPT: table/gpt_write.rs writes the backup array, the       *)
(* backup header, the primary array and the primary header, each followed  *)
(* by a sync; table/gpt_parse.rs reads the primary copy if it is usable    *)
(* and the backup copy otherwise; gpt_policy.rs repairs what a crash or an *)
(* enlarged container left behind before it commits a change; geometry.rs  *)
(* refuses to overwrite a table somebody else changed meanwhile.           *)
(*                                                                         *)
(* Two kinds of command are modelled: an edit (add, delete, rename, type,  *)
(* flag), which repairs first and commits once, and a relocation job,      *)
(* which repairs only when it is fresh, then commits an entry at a time,   *)
(* and which a resumed run continues from the checkpoint (plan.rs:376-379).*)
(* A command that died after its first write has left its undo journal:    *)
(* the target is busy, and no fresh command starts until the job is        *)
(* resumed or `abandon --yes` gives the records up (transaction.rs:282-296;*)
(* the other way out, `undo`, is module UndoJournal).                      *)
(*                                                                         *)
(* Simplifications.  A copy's array and header carry their CRC: an array   *)
(* or header torn by a power loss is recognised as such.  The protective   *)
(* MBR is one sector, written and synced at once.  The usable range moves  *)
(* with the container end and is not modelled apart from it.  A run that   *)
(* fails a check and one that dies are the same: both end idle.            *)
(***************************************************************************)
EXTENDS Integers, Sequences, FiniteSets

CONSTANTS
  Slots, Values,    \* a table maps each slot to an entry
  Ends,             \* the last LBAs the container may have
  Script,           \* the entries a relocation job places, in order
  MaxDeaths,        \* bounds of the environment: kills and power losses,
  MaxForeign,       \*   edits by other tools,
  MaxDamage,        \*   copies that become unreadable
  Writeback,        \* the kernel has written back before the next command
  DamageInJob       \* a copy may be damaged while a job lies interrupted

Tables == [Slots -> Values]

ASSUME GptCommitAssumption ==
  /\ Slots # {} /\ Values # {} /\ Ends # {} /\ Ends \subseteq Nat \ {0}
  /\ Script \in Seq(Slots \X Values)
  /\ {MaxDeaths, MaxForeign, MaxDamage} \subseteq Nat
  /\ {Writeback, DamageInJob} \subseteq BOOLEAN

(* A copy lies at place 0 (the primary) or before an end (the backup).     *)
Places == {0} \cup Ends
Arrays == [ok: BOOLEAN, table: Tables]
Headers == [ok: BOOLEAN, table: Tables, alt: Places]
Disks == [array: [Places -> Arrays], header: [Places -> Headers], mbr: Ends]

VARIABLES
  disk,    \* what a read returns
  media,   \* what a power loss leaves
  end,     \* last LBA of the container
  pc,      \* where the running command is
  cmd,     \* what runs: an edit or the relocation job
  decided, \* the table the command was decided on
  target,  \* the table it commits next
  dirty,   \* the slots it means to change
  repair,  \* the repair action it was decided with
  step,    \* how many of the four writes of a commit are issued
  job,     \* the relocation checkpoint: entries placed so far, -1 without
  journal, \* an unfinished command has left an undo journal with records
  used     \* how much of each environment bound is spent

vars == <<disk, media, end, pc, cmd, decided, target, dirty, repair, step, job, journal, used>>

NoRepair == [gpt |-> FALSE, mbr |-> FALSE]
Nothing == CHOOSE t \in Tables : TRUE

-----------------------------------------------------------------------------
(* Reading: load_gpt_impl.                                                 *)
Fits(d, p) == d.header[p].ok /\ d.array[p].ok /\ d.header[p].table = d.array[p].table
PrimaryUsable(d) == Fits(d, 0) /\ d.header[0].alt <= end
BackupUsable(d) == Fits(d, end) /\ d.header[end].alt = 0

State(d) ==
  IF PrimaryUsable(d)
  THEN IF d.header[0].alt < end THEN "backup stale"
       ELSE IF BackupUsable(d) THEN "valid" ELSE "backup unreadable"
  ELSE IF BackupUsable(d) THEN "primary unreadable" ELSE "damaged"

TableOf(d) == IF PrimaryUsable(d) THEN d.array[0].table ELSE d.array[end].table

(* Mutant: the size of the protective MBR is not looked at.                *)
ClassifyGptOnly(d) == [gpt |-> State(d) # "valid", mbr |-> FALSE]

(* classify_repair, in the two facts that tell its actions apart.          *)
Classify(d) == [gpt |-> State(d) # "valid", mbr |-> d.mbr < end]

(* Mutant: only the state of the table is checked, not its entries.        *)
StateOnDisk == State(disk) # "damaged"

(* check_entries: an entry is as decided, or already as this command wants.*)
UnchangedOnDisk ==
  /\ State(disk) # "damaged"
  /\ \A s \in Slots : \/ TableOf(disk)[s] = decided[s]
                      \/ s \in dirty /\ TableOf(disk)[s] = target[s]

-----------------------------------------------------------------------------
Copy(t, alt) == [array |-> [ok |-> TRUE, table |-> t],
                 header |-> [ok |-> TRUE, table |-> t, alt |-> alt]]

PutArray(d, p, t) == [d EXCEPT !.array[p] = Copy(t, 0).array]
PutHeader(d, p, t, alt) == [d EXCEPT !.header[p] = Copy(t, alt).header]

BothCopies(d, t) ==
  PutHeader(PutArray(PutHeader(PutArray(d, end, t), end, t, 0), 0, t), 0, t, end)

(* The k-th write of commit_table.                                         *)
Written(d, k, t) ==
  CASE k = 1 -> PutArray(d, end, t)
    [] k = 2 -> PutHeader(d, end, t, 0)
    [] k = 3 -> PutArray(d, 0, t)
    [] k = 4 -> PutHeader(d, 0, t, end)

(* A power loss keeps an unsynced structure, loses it or tears it; one     *)
(* rewritten with what it held already cannot be torn.                     *)
Unsynced == {c \in {"array", "header"} \X Places : disk[c[1]][c[2]] # media[c[1]][c[2]]}

AfterLoss(part, fate) ==
  [p \in Places |->
     IF <<part, p>> \notin Unsynced \/ fate[<<part, p>>] = "lost" THEN media[part][p]
     ELSE IF fate[<<part, p>>] = "kept" THEN disk[part][p]
     ELSE [disk[part][p] EXCEPT !.ok = FALSE]]

Init ==
  /\ end \in Ends
  /\ \E t \in Tables :
       /\ disk = [array |-> [p \in Places |-> [ok |-> p \in {0, end}, table |-> t]],
                  header |-> [p \in Places |-> [ok |-> p \in {0, end}, table |-> t,
                                                alt |-> IF p = 0 THEN end ELSE 0]],
                  mbr |-> end]
  /\ media = disk /\ decided = Nothing /\ target = Nothing
  /\ pc = "idle" /\ cmd = "edit" /\ dirty = {} /\ repair = NoRepair /\ step = 0
  /\ job = -1 /\ journal = FALSE
  /\ used = [death |-> 0, foreign |-> 0, damage |-> 0]

env == <<end, used>>
plan == <<cmd, decided, target, dirty, repair>>

(* A command decides: it reads the table, classifies the repair it needs   *)
(* and computes the table it wants.                                        *)
Decide(kind, s, v, action) ==
  /\ pc = "idle" /\ State(disk) # "damaged"
  /\ cmd' = kind
  /\ decided' = TableOf(disk)
  /\ target' = [TableOf(disk) EXCEPT ![s] = v]
  /\ dirty' = {s}
  /\ repair' = action
  /\ pc' = "check"
  /\ UNCHANGED <<disk, media, env, step, job, journal>>

(* begin_or_resume: a fresh command needs a target without a scene.        *)
Busy == journal \/ job # -1

BeginEdit == ~Busy /\ \E s \in Slots, v \in Values : Decide("edit", s, v, Classify(disk))

(* A fresh job; one that is not done is resumed only when the entries      *)
(* stand where its checkpoint implies, and it repairs nothing.             *)
Placed(t, i) == t[Script[i][1]] = Script[i][2]

BeginJob ==
  /\ ~Busy /\ Script # <<>>
  /\ Decide("job", Script[1][1], Script[1][2], Classify(disk))

ResumeJob ==
  /\ job \in 0 .. (Len(Script) - 1)
  /\ \A i \in 1 .. job : Placed(TableOf(disk), i)
  /\ Decide("job", Script[job + 1][1], Script[job + 1][2], NoRepair)

(* A process's memory ends with it.                                        *)
Stop ==
  /\ pc' = "idle" /\ step' = 0
  /\ cmd' = "edit" /\ decided' = Nothing /\ target' = Nothing
  /\ dirty' = {} /\ repair' = NoRepair

End == Stop /\ UNCHANGED <<disk, media, env, job, journal>>

(* refuse_if_table_changed, before the first write.                        *)
CheckTable ==
  /\ pc = "check" /\ UnchangedOnDisk
  /\ pc' = IF repair = NoRepair THEN "commit" ELSE "repair"
  /\ UNCHANGED <<disk, media, env, plan, step, job, journal>>

CheckRefuses ==
  /\ pc = "check" /\ ~UnchangedOnDisk
  /\ End

(* apply_repair reads the table again: what it rewrites is what it finds,  *)
(* provided it would still decide the same repair.                         *)
StartRepair ==
  /\ pc = "repair" /\ State(disk) # "damaged" /\ Classify(disk) = repair
  /\ pc' = IF repair.gpt THEN "write repair" ELSE "mbr"
  /\ UNCHANGED <<disk, media, env, plan, step, job, journal>>

RepairRefuses ==
  /\ pc = "repair" /\ (State(disk) = "damaged" \/ Classify(disk) # repair)
  /\ End

(* commit: the table is checked again, then the four writes follow.  A job *)
(* has written its checkpoint before its first commit.                     *)
StartCommit ==
  /\ pc = "commit" /\ UnchangedOnDisk
  /\ pc' = "write"
  /\ job' = IF cmd = "job" /\ job = -1 THEN 0 ELSE job
  /\ UNCHANGED <<disk, media, env, plan, step, journal>>

CommitRefuses ==
  /\ pc = "commit" /\ ~UnchangedOnDisk
  /\ End

(* The repair writes the table it re-read; no other writer comes between   *)
(* its read and its last write, so the table read is `TableOf(disk)` until *)
(* the primary array is replaced by itself.                                *)
Writes == IF pc \in {"write repair", "sync repair"} THEN TableOf(disk) ELSE target

(* A write follows its record in the journal.                              *)
WriteNext ==
  /\ pc \in {"write", "write repair"} /\ step < 4
  /\ disk' = Written(disk, step + 1, Writes)
  /\ step' = step + 1
  /\ pc' = IF pc = "write" THEN "sync" ELSE "sync repair"
  /\ journal' = TRUE
  /\ UNCHANGED <<media, env, plan, job>>

(* Mutant: one sync at the end of the four writes.                         *)
SyncAtTheEnd ==
  /\ pc \in {"sync", "sync repair"}
  /\ media' = IF step < 4 THEN media ELSE disk
  /\ pc' = IF step < 4 THEN (IF pc = "sync" THEN "write" ELSE "write repair")
           ELSE (IF pc = "sync" THEN "committed" ELSE "mbr")
  /\ step' = IF step < 4 THEN step ELSE 0
  /\ UNCHANGED <<disk, env, plan, job, journal>>

Sync ==
  /\ pc \in {"sync", "sync repair"}
  /\ media' = disk
  /\ pc' = IF step < 4 THEN (IF pc = "sync" THEN "write" ELSE "write repair")
           ELSE (IF pc = "sync" THEN "committed" ELSE "mbr")
  /\ step' = IF step < 4 THEN step ELSE 0
  /\ UNCHANGED <<disk, env, plan, job, journal>>

(* ensure_protective_mbr and the check that the repair converged.          *)
RepairMbr ==
  /\ pc = "mbr"
  /\ disk' = [disk EXCEPT !.mbr = end] /\ media' = disk'
  /\ IF State(disk') = "valid" THEN pc' = "commit" /\ UNCHANGED <<plan, step>> ELSE Stop
  /\ journal' = TRUE
  /\ UNCHANGED <<env, job>>

(* Mutant: the checkpoint is advanced, not removed, after the last entry.  *)
CommittedKeepsCheckpoint ==
  /\ pc = "committed"
  /\ IF cmd = "job" THEN job' = job + 1 ELSE job' = job
  /\ Stop
  /\ UNCHANGED <<disk, media, env, journal>>

(* A job advances its checkpoint and goes on with its next entry, from the *)
(* geometry it already holds; the last commit ends it.                     *)
Committed ==
  /\ pc = "committed"
  /\ IF cmd = "job" /\ job + 1 < Len(Script)
     THEN LET next == Script[job + 2]
          IN /\ job' = job + 1
             /\ target' = [target EXCEPT ![next[1]] = next[2]]
             /\ dirty' = dirty \cup {next[1]}
             /\ pc' = "commit"
             /\ UNCHANGED <<cmd, decided, repair, step, journal>>
     ELSE job' = -1 /\ journal' = FALSE /\ Stop
  /\ UNCHANGED <<disk, media, env>>

(* `abandon --yes`: the records are renamed, no byte of the target changes.*)
Abandon ==
  /\ pc = "idle" /\ Busy
  /\ job' = -1 /\ journal' = FALSE
  /\ UNCHANGED <<disk, media, env, pc, plan, step>>

-----------------------------------------------------------------------------
(* The environment.                                                        *)
Spend(what) == used' = [used EXCEPT ![what] = @ + 1]

Kill ==
  /\ pc # "idle" /\ used.death < MaxDeaths /\ Spend("death")
  /\ Stop
  /\ media' = IF Writeback THEN disk ELSE media
  /\ UNCHANGED <<disk, end, job, journal>>

PowerLoss ==
  /\ pc # "idle" \/ disk # media
  /\ used.death < MaxDeaths /\ Spend("death")
  /\ Stop
  /\ \E fate \in [Unsynced -> {"lost", "kept", "torn"}] :
       media' = [array |-> AfterLoss("array", fate), header |-> AfterLoss("header", fate),
                 mbr |-> disk.mbr]
  /\ disk' = media'
  /\ UNCHANGED <<end, job, journal>>

(* Another tool writes a whole table, between two commands or between a    *)
(* command's decision and its checks.                                      *)
ForeignEdit ==
  /\ pc \in {"idle", "check", "repair", "commit"} /\ job = -1 /\ disk = media
  /\ State(disk) # "damaged" /\ used.foreign < MaxForeign /\ Spend("foreign")
  /\ \E t \in Tables : disk' = BothCopies(disk, t)
  /\ media' = disk'
  /\ UNCHANGED <<end, pc, plan, step, job, journal>>

(* A redundant copy becomes unreadable.                                    *)
Damage ==
  /\ pc = "idle" /\ (job = -1 \/ DamageInJob) /\ disk = media
  /\ used.damage < MaxDamage /\ Spend("damage")
  /\ State(disk) = "valid" /\ TableOf(disk) = disk.array[end].table
  /\ \E p \in {0, end} : disk' = [disk EXCEPT !.array[p].ok = FALSE]
  /\ media' = disk'
  /\ UNCHANGED <<end, pc, plan, step, job, journal>>

(* The container grows.  Only the primary copy knows where the old backup  *)
(* is, so growing it while the primary is unreadable gives the table up    *)
(* (gpt_parse.rs:391-393 documents this); the owner is told to repair first*)
Enlarge ==
  /\ pc = "idle" /\ job = -1 /\ disk = media /\ PrimaryUsable(disk)
  /\ \E e \in Ends : e > end /\ end' = e
  /\ UNCHANGED <<disk, media, pc, plan, step, job, journal, used>>

Command == BeginEdit \/ BeginJob \/ ResumeJob \/ Abandon

Run == \/ CheckTable \/ CheckRefuses \/ StartRepair \/ RepairRefuses
       \/ StartCommit \/ CommitRefuses \/ WriteNext \/ Sync \/ RepairMbr \/ Committed

Next == Command \/ Run \/ Kill \/ PowerLoss \/ ForeignEdit \/ Damage \/ Enlarge

Spec == Init /\ [][Next]_vars

-----------------------------------------------------------------------------
TypeOK ==
  /\ disk \in Disks /\ media \in Disks
  /\ end \in Ends
  /\ pc \in {"idle", "check", "repair", "mbr", "commit", "committed",
             "write", "sync", "write repair", "sync repair"}
  /\ cmd \in {"edit", "job"}
  /\ decided \in Tables /\ target \in Tables /\ dirty \subseteq Slots
  /\ repair \in [gpt: BOOLEAN, mbr: BOOLEAN]
  /\ step \in 0 .. 4
  /\ job \in -1 .. (Len(Script) - 1) /\ journal \in BOOLEAN
  /\ used \in [death: 0 .. MaxDeaths, foreign: 0 .. MaxForeign, damage: 0 .. MaxDamage]

(* README.md:5: wherever the power is lost, a consistent copy is left that *)
(* the next command reads (gpt_write.rs:105-107).                          *)
TableSurvives == State(disk) # "damaged" /\ State(media) # "damaged"

(* A command that reports success leaves both copies usable, equal and at  *)
(* the end of the container, with a protective MBR of the right size.      *)
RedundancyRestored ==
  pc = "committed" =>
    /\ State(media) = "valid" /\ media.mbr = end
    /\ media.array[0] = media.array[end] /\ TableOf(media) = target

(* The table a power loss would leave is the one AtomicTable describes.    *)
Committing == pc \in {"write", "sync"}
Atomic == INSTANCE AtomicTable WITH
  table <- TableOf(media),
  wanted <- IF Committing THEN target ELSE TableOf(media),
  edits <- used.foreign

(* A table edit is atomic and durable, and it is an edit of the table that *)
(* is on the disk when the edit is written: a third party's entries are    *)
(* never overwritten with what an older read of the table said.            *)
CommitIsAtomic == Atomic!Spec
=============================================================================
