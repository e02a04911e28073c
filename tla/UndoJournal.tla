---------------------------- MODULE UndoJournal ----------------------------
(***************************************************************************)
(* The undo journal and the commands that meet over it: dev/journal.rs     *)
(* (append before write, barriers, torn tails, adoption), dev/source.rs    *)
(* (the writes that record), transaction.rs (who may start, what closes a  *)
(* transaction, what a refused user is told), cmd/undo.rs and              *)
(* cmd/abandon.rs.  Commands of one target exclude each other by the       *)
(* target lock; a finished command gives the lock up and takes it again to *)
(* drop its journal, and others may run in between.                        *)
(*                                                                         *)
(* Simplifications.  The table is its two copies, each one journaled write *)
(* followed by a sync (module GptCommit looks inside a copy).  All records *)
(* are of this target: the identity in the header never differs.  A kill   *)
(* leaves what was written, since the kernel writes it back before the     *)
(* next command; a power loss in the middle of a write leaves a prefix of  *)
(* it, as cmd/undo.rs:192-195 states.  Filesystem bytes are a flag: changed *)
(* since the transaction began or not.                                     *)
(***************************************************************************)
EXTENDS Integers, Sequences, SequencesExt, FiniteSets

CONSTANTS
  Sectors,      \* the length of a copy
  Versions,     \* the tables the commands may write
  TearUndo,     \* a power loss may tear a write of undo itself
  ReuseInode,   \* the filesystem gives a deleted journal's inode away again
  MaxCommands,  \* bounds of the environment: fresh commands,
  MaxDeaths,    \*   kills, power losses and runs that end with a pending step,
  MaxEdits      \*   writes by other tools

ASSUME UndoJournalAssumption ==
  /\ Sectors \in Nat \ {0} /\ Versions \subseteq Nat /\ 0 \in Versions
  /\ {TearUndo, ReuseInode} \subseteq BOOLEAN
  /\ {MaxCommands, MaxDeaths, MaxEdits} \subseteq Nat

Damaged == -1             \* an unreadable sector
Foreign(n) == -1 - n      \* what the n-th edit by another tool writes
Foreigns == {Foreign(n) : n \in 1..MaxEdits}
Readable == Versions \cup Foreigns
Order == <<"backup", "primary">>
CopyNames == Range(Order)
Contents == [1..Sectors -> Readable \cup {Damaged}]
Image(v) == [i \in 1..Sectors |-> v]

(* The primary copy if it is whole, else the backup, else nothing.         *)
Whole(c) == \E v \in Readable : c = Image(v)
Table(d) == IF Whole(d["primary"]) THEN d["primary"][1]
            ELSE IF Whole(d["backup"]) THEN d["backup"][1] ELSE Damaged

(* What a write of new over old may leave behind: a prefix of the new.     *)
Partial(old, new) ==
  {[i \in 1..Sectors |-> IF i <= k THEN new[i] ELSE old[i]] : k \in 0..Sectors}

PreImages == [copy: CopyNames, pre: Contents, after: Contents]
Barrier == [copy |-> "none", pre |-> <<>>, after |-> <<>>]
Inodes == 0..(MaxCommands + MaxDeaths)
Files == [kind: {"none", "empty", "stub", "headed"}, gen: Inodes, ino: Inodes,
          recs: Seq(PreImages \cup {Barrier}), torn: BOOLEAN]
NoFile == [kind |-> "none", gen |-> 0, ino |-> 0, recs |-> <<>>, torn |-> FALSE]

Jobs == [kind: {"none", "grow", "move"}, from: Versions, to: Versions]
NoJob == [kind |-> "none", from |-> 0, to |-> 0]

Sessions == [gen: Inodes, ino: Inodes]
Steps == [op: {"save", "barrier", "data", "drop", "clear", "retire", "release"}]
         \cup [op: {"write"}, copy: CopyNames, to: Readable]
         \cup [op: {"replay"}, left: SUBSET Nat]
Runs == [busy: BOOLEAN, todo: Seq(Steps), recorded: BOOLEAN,
         job: Jobs, gen: Inodes, ino: Inodes]
Idle == [busy |-> FALSE, todo |-> <<>>, recorded |-> FALSE,
         job |-> NoJob, gen |-> 0, ino |-> 0]

Marks == SUBSET (CopyNames \X (1..Sectors))
Txns == [origin: [CopyNames -> Contents], job: Jobs, moved: BOOLEAN, meddled: Marks, edited: Marks]

VARIABLES
  disk,      \* the two copies of the table
  file,      \* the journal
  ckpt,      \* the job the checkpoint describes
  run,       \* the command that holds the target lock
  closing,   \* commands that have finished but not yet dropped their journal
  txn,       \* history: the transaction the journal was begun for
  finished,  \* history: journals whose own transaction has finished
  kept,      \* inodes that a renamed journal still holds
  rewound,   \* history: undo has taken back part of what the job in ckpt wrote
  used       \* how much of each bound is spent

vars == <<disk, file, ckpt, run, closing, txn, finished, kept, rewound, used>>
history == <<finished, kept, rewound>>

-----------------------------------------------------------------------------
(* Recognising what is there: classify_journal and active_recovery_records.*)

Class(f) == IF f.kind \in {"none", "empty"} THEN "absent"
            ELSE IF f.kind = "stub" \/ (f.recs = <<>> /\ f.torn) THEN "damaged"
            ELSE IF f.recs = <<>> THEN "shell" ELSE "records"
Active == Class(file) \in {"damaged", "records"} \/ ckpt # NoJob

Reversibly(f) == Class(f) = "records" /\ Barrier \notin Range(f.recs)

(* What a command that finds the target busy tells the user to do.         *)
WayOut == IF ckpt # NoJob THEN "resume" ELSE IF Reversibly(file) THEN "undo" ELSE "abandon"

-----------------------------------------------------------------------------
(* The plan of undo: verify_replay_plan.                                   *)

Of(recs, c) == {k \in DOMAIN recs : recs[k].copy = c}
Covered(recs) == {c \in CopyNames : Of(recs, c) # {}}
First(recs, c) == recs[Min(Of(recs, c))]
RolledBack(recs) == {c \in Covered(recs) : disk[c] = First(recs, c).pre}

(* Mutant: a write the power loss cut short is not recognised.             *)
MatchesWhole(now, rec) == now = rec.after \/ now = rec.pre

Matches(now, rec) == now = rec.after \/ now = rec.pre \/ now \in Partial(rec.pre, rec.after)

(* A record is checked against what undoing the later ones would leave.    *)
Later(recs, k) == {l \in Of(recs, recs[k].copy) : l > k}
Standing(recs, k) == IF Later(recs, k) = {} THEN disk[recs[k].copy]
                     ELSE recs[Min(Later(recs, k))].pre

ToReplay(recs) == {k \in DOMAIN recs : recs[k].copy \notin RolledBack(recs)}
PlanHolds(recs) == \A k \in ToReplay(recs) : Matches(Standing(recs, k), recs[k])

UndoAccepted == Reversibly(file) /\ PlanHolds(file.recs)

-----------------------------------------------------------------------------
(* The steps of a command, in the order its function makes them.           *)

Step(name) == [op |-> name]
Writes(v) == [k \in 1..2 |-> [op |-> "write", copy |-> Order[k], to |-> v]]
Repair == IF \E c \in CopyNames : disk[c] # Image(Table(disk)) THEN Writes(Table(disk)) ELSE <<>>

EditSteps(v) == Repair \o Writes(v)
(* Mutant: the barrier is recorded after the filesystem was grown.         *)
GrowStepsLateBarrier(job) ==
  Repair \o (IF Table(disk) = job.to THEN <<>> ELSE <<Step("save")>> \o Writes(job.to))
         \o <<Step("data"), Step("barrier"), Step("drop")>>

GrowSteps(job) ==
  Repair \o (IF Table(disk) = job.to THEN <<>> ELSE <<Step("save")>> \o Writes(job.to))
         \o <<Step("barrier"), Step("data"), Step("drop")>>
MoveSteps(job) ==
  (IF ckpt = NoJob THEN Repair ELSE <<>>)
    \o <<Step("save"), Step("barrier"), Step("data")>> \o Writes(job.to) \o <<Step("drop")>>
UndoSteps ==    \* one step for all the records to write back
  (IF ToReplay(file.recs) = {} THEN <<>> ELSE <<[op |-> "replay", left |-> ToReplay(file.recs)]>>)
    \o <<Step("clear"), Step("release")>>

(* Taking over the journal that lies there; a torn tail is archived and    *)
(* cut, an empty file gets its header.                                     *)
Adopted == IF file.kind = "empty" THEN [file EXCEPT !.kind = "headed"]
           ELSE [file EXCEPT !.torn = FALSE]

NoTxn == [origin |-> [c \in CopyNames |-> Image(0)], job |-> NoJob,
          moved |-> FALSE, meddled |-> {}, edited |-> {}]
Start(todo, job) ==
  /\ run' = [Idle EXCEPT !.busy = TRUE, !.todo = todo, !.job = job,
                         !.gen = file.gen, !.ino = file.ino]
  /\ file' = Adopted
  /\ txn' = IF file.recs # <<>> THEN txn
            ELSE [NoTxn EXCEPT !.origin = disk, !.job = job]

-----------------------------------------------------------------------------
(* Commands begin: TransactionManager::begin_or_resume.                    *)

Free == ~run.busy
(* Mutant: the gate looks for a checkpoint only.                           *)
FreshUngated == Free /\ ckpt = NoJob /\ used.commands < MaxCommands
                /\ used' = [used EXCEPT !.commands = @ + 1]

Fresh == Free /\ ~Active /\ used.commands < MaxCommands
         /\ used' = [used EXCEPT !.commands = @ + 1]

BeginEdit ==    \* add, delete, set: one commit
  /\ Fresh /\ Table(disk) # Damaged
  /\ \E v \in Versions : Start(EditSteps(v), NoJob)
  /\ UNCHANGED <<disk, ckpt, closing, history>>

BeginNew ==     \* new: a table in place of whatever is there
  /\ Fresh
  /\ \E v \in Versions : Start(Writes(v), NoJob)
  /\ UNCHANGED <<disk, ckpt, closing, history>>

BeginGrow ==    \* resize-part that extends a partition and its filesystem
  /\ Fresh /\ Table(disk) \in Versions
  /\ \E job \in Jobs : /\ job.kind = "grow" /\ job.from = Table(disk) /\ job.to # job.from
                       /\ Start(GrowSteps(job), job)
  /\ UNCHANGED <<disk, ckpt, closing, history>>

BeginMove ==    \* a relocation
  /\ Fresh /\ Table(disk) \in Versions
  /\ \E job \in Jobs : /\ job.kind = "move" /\ job.from = Table(disk) /\ job.to # job.from
                       /\ Start(MoveSteps(job), job)
  /\ UNCHANGED <<disk, ckpt, closing, history>>

ResumeAccepted == ckpt # NoJob /\ file.kind # "stub" /\ Table(disk) \in {ckpt.from, ckpt.to}
Resume ==       \* the command of the checkpoint is run again
  /\ Free /\ ResumeAccepted
  /\ Start(IF ckpt.kind = "grow" THEN GrowSteps(ckpt) ELSE MoveSteps(ckpt), ckpt)
  /\ UNCHANGED <<disk, ckpt, closing, history, used>>

Intrude ==      \* another job's command passes the gate and is refused after adoption
  /\ Free /\ ckpt # NoJob /\ file.kind # "stub" /\ file # Adopted
  /\ file' = Adopted
  /\ UNCHANGED <<disk, ckpt, run, closing, txn, history, used>>

BeginUndo ==
  /\ Free /\ UndoAccepted
  /\ run' = [Idle EXCEPT !.busy = TRUE, !.todo = UndoSteps]
  /\ UNCHANGED <<disk, file, ckpt, closing, txn, history, used>>

RemoveShell ==  \* undo of an empty journal
  /\ Free /\ Class(file) = "shell" /\ ckpt = NoJob
  /\ file' = NoFile
  /\ UNCHANGED <<disk, ckpt, run, closing, txn, history, used>>

(* Mutant: abandon renames a journal only when it can read it.             *)
AbandonReadable ==
  /\ Free /\ Active
  /\ run' = [Idle EXCEPT !.busy = TRUE,
       !.todo = (IF Class(file) = "records" THEN <<Step("retire")>> ELSE <<>>)
                \o (IF ckpt # NoJob THEN <<Step("release")>> ELSE <<>>)]
  /\ UNCHANGED <<disk, file, ckpt, closing, txn, history, used>>

BeginAbandon == \* renames the records that are active, the journal first
  /\ Free /\ Active
  /\ run' = [Idle EXCEPT !.busy = TRUE,
       !.todo = (IF Class(file) \in {"damaged", "records"} THEN <<Step("retire")>> ELSE <<>>)
                \o (IF ckpt # NoJob THEN <<Step("release")>> ELSE <<>>)]
  /\ UNCHANGED <<disk, file, ckpt, closing, txn, history, used>>

-----------------------------------------------------------------------------
(* ... and go on, one step at a time.                                      *)

At(name) == run.busy /\ run.todo # <<>> /\ Head(run.todo).op = name
Now == Head(run.todo)
Advance == run' = [run EXCEPT !.todo = Tail(@), !.recorded = FALSE]

(* Mutant: a record without the image the write leaves.                    *)
NextRecordPreOnly == IF At("barrier") THEN Barrier ELSE [copy |-> Now.copy, pre |-> disk[Now.copy]]

NextRecord == IF At("barrier") THEN Barrier
              ELSE [copy |-> Now.copy, pre |-> disk[Now.copy], after |-> Image(Now.to)]
Appending == At("barrier") \/ (At("write") /\ ~run.recorded)

(* A new journal: its inode may be one that is free.                       *)
NewFiles ==
  LET gen == used.files + 1
      inos == IF ReuseInode THEN 1..gen \ kept ELSE {gen} IN
  {[NoFile EXCEPT !.kind = "headed", !.gen = gen, !.ino = i] : i \in inos}
Headed == IF file.kind = "none" THEN NewFiles ELSE {file}
With(f, r) == [f EXCEPT !.recs = Append(@, r)]

Record ==       \* Journal::append, creating the file when it is the first record
  /\ Appending
  /\ \E f \in Headed :
       /\ file' = With(f, NextRecord)
       /\ run' = [run EXCEPT !.gen = f.gen, !.ino = f.ino,
                             !.recorded = At("write"),
                             !.todo = IF At("barrier") THEN Tail(@) ELSE @]
  /\ used' = [used EXCEPT !.files = IF file.kind = "none" THEN @ + 1 ELSE @]
  /\ UNCHANGED <<disk, ckpt, closing, txn, history>>

Touch(c) == txn' = [txn EXCEPT !.edited = @ \ ({c} \X (1..Sectors))]

(* Mutant: a write that is not recorded.                                   *)
WriteCopyUnrecorded ==
  /\ At("write")
  /\ disk' = [disk EXCEPT ![Now.copy] = Image(Now.to)]
  /\ Touch(Now.copy) /\ Advance
  /\ UNCHANGED <<file, ckpt, closing, history, used>>

WriteCopy ==    \* write_raw and the sync after it
  /\ At("write") /\ run.recorded
  /\ disk' = [disk EXCEPT ![Now.copy] = Image(Now.to)]
  /\ Touch(Now.copy) /\ Advance
  /\ UNCHANGED <<file, ckpt, closing, history, used>>

Save ==
  /\ At("save") /\ ckpt' = run.job /\ Advance
  /\ UNCHANGED <<disk, file, closing, txn, history, used>>

Data ==         \* chunks copied, or a filesystem grown by its tool
  /\ At("data") /\ txn' = [txn EXCEPT !.moved = TRUE] /\ Advance
  /\ UNCHANGED <<disk, file, ckpt, closing, history, used>>

Drop ==         \* nothing is pending: the checkpoint goes
  /\ At("drop") /\ ckpt' = NoJob /\ rewound' = FALSE /\ Advance
  /\ UNCHANGED <<disk, file, closing, txn, finished, kept, used>>

LeavePending == \* a step is owed: checkpoint and journal stay
  /\ At("drop") /\ used.deaths < MaxDeaths
  /\ used' = [used EXCEPT !.deaths = @ + 1] /\ run' = Idle
  /\ UNCHANGED <<disk, file, ckpt, closing, txn, history>>

(* The records are written back last first.                                *)
NoteRewind == rewound' = (rewound \/ (At("replay") /\ ckpt # NoJob /\ disk' # disk))
Latest == Max(Now.left)
WriteBack(rec) == disk' = [disk EXCEPT ![rec.copy] = rec.pre]
Replayed == IF Now.left = {Latest} THEN Advance
            ELSE run' = [run EXCEPT !.todo[1].left = @ \ {Latest}]

(* Mutant: undo trusts the check it made before its first write.           *)
ReplayUnchecked ==
  /\ At("replay") /\ WriteBack(file.recs[Latest]) /\ Replayed /\ NoteRewind
  /\ UNCHANGED <<file, ckpt, closing, txn, finished, kept, used>>

Replay ==       \* check_replay_entry, write, sync, read back
  /\ At("replay")
  /\ LET rec == file.recs[Latest] IN
     IF Matches(disk[rec.copy], rec) THEN WriteBack(rec) /\ Replayed
     ELSE run' = Idle /\ UNCHANGED disk
  /\ NoteRewind
  /\ UNCHANGED <<file, ckpt, closing, txn, finished, kept, used>>

Clear ==        \* undo: the journal is removed, or archived when its tail was torn
  /\ At("clear") /\ Advance
  /\ file' = NoFile /\ txn' = NoTxn
  /\ kept' = IF file.torn THEN kept \cup {file.ino} ELSE kept
  /\ UNCHANGED <<disk, ckpt, closing, finished, rewound, used>>

Retire ==       \* abandon: the journal is renamed
  /\ At("retire") /\ Advance
  /\ file' = NoFile /\ txn' = NoTxn
  /\ kept' = kept \cup {file.ino}
  /\ UNCHANGED <<disk, ckpt, closing, finished, rewound, used>>

Release ==      \* undo and abandon: the checkpoint goes
  /\ At("release") /\ ckpt' = NoJob /\ rewound' = FALSE /\ Advance
  /\ UNCHANGED <<disk, file, closing, txn, finished, kept, used>>

Return ==       \* the command returns and gives up the lock
  /\ run.busy /\ run.todo = <<>>
  /\ run' = Idle
  /\ closing' = IF run.gen = 0 THEN closing ELSE closing \cup {[gen |-> run.gen, ino |-> run.ino]}
  /\ finished' = IF run.gen = 0 THEN finished ELSE finished \cup {run.gen}
  /\ UNCHANGED <<disk, file, ckpt, txn, kept, rewound, used>>

(* Mutant: the journal is found by its path.                               *)
AnyJournal(s) == file.kind # "none"

(* TransactionManager::commit: only the file this run adopted or created.  *)
StillNames(s) == file.kind # "none" /\ file.ino = s.ino
Close(s) ==
  /\ Free
  /\ file' = IF StillNames(s) THEN NoFile ELSE file
  /\ txn' = IF StillNames(s) THEN NoTxn ELSE txn
  /\ closing' = closing \ {s}
  /\ UNCHANGED <<disk, ckpt, run, history, used>>
CloseBusy(s) == \* the lock is taken: the journal is left
  /\ run.busy
  /\ closing' = closing \ {s}
  /\ UNCHANGED <<disk, file, ckpt, run, txn, history, used>>

-----------------------------------------------------------------------------
(* Deaths, and writes by other tools.                                      *)

(* What a death inside an append leaves of the journal.                    *)
Interrupted ==
  {[f EXCEPT !.torn = TRUE] : f \in Headed} \cup {With(f, NextRecord) : f \in Headed} \cup
  (IF file.kind # "none" THEN {file}
   ELSE {NoFile} \cup {[f EXCEPT !.kind = k] : f \in NewFiles, k \in {"headed", "empty", "stub"}})

Die ==
  /\ run.busy /\ used.deaths < MaxDeaths
  /\ \/ /\ Appending /\ file' \in Interrupted
        /\ UNCHANGED <<disk, txn>>
     \/ /\ At("write") /\ run.recorded
        /\ \E c \in Partial(disk[Now.copy], Image(Now.to)) : disk' = [disk EXCEPT ![Now.copy] = c]
        /\ Touch(Now.copy) /\ UNCHANGED file
     \/ /\ At("replay") /\ TearUndo
        /\ LET rec == file.recs[Latest] IN
           /\ Matches(disk[rec.copy], rec)
           /\ \E c \in Partial(disk[rec.copy], rec.pre) : disk' = [disk EXCEPT ![rec.copy] = c]
        /\ UNCHANGED <<file, txn>>
     \/ /\ At("data") /\ txn' = [txn EXCEPT !.moved = TRUE]
        /\ UNCHANGED <<disk, file>>
     \/ UNCHANGED <<disk, file, txn>>
  /\ run' = Idle /\ closing' \in {closing, {}}
  /\ used' = [used EXCEPT !.deaths = @ + 1,
                          !.files = IF file'.gen > @ THEN file'.gen ELSE @]
  /\ NoteRewind
  /\ UNCHANGED <<ckpt, finished, kept>>

DieClosing ==   \* a finished command dies before it drops its journal
  /\ closing # {} /\ used.deaths < MaxDeaths
  /\ \E s \in closing : closing' = closing \ {s}
  /\ used' = [used EXCEPT !.deaths = @ + 1]
  /\ UNCHANGED <<disk, file, ckpt, run, txn, history>>

Undoing == run.busy /\ \E k \in DOMAIN run.todo : run.todo[k].op \in {"replay", "clear"}

Meddle ==       \* another tool writes some sectors of a copy
  /\ Free \/ Undoing
  /\ used.edits < MaxEdits
  /\ \E c \in CopyNames, hit \in SUBSET (1..Sectors) \ {{}} :
       /\ disk' = [disk EXCEPT ![c] = [i \in 1..Sectors |->
                                     IF i \in hit THEN Foreign(used.edits + 1) ELSE @[i]]]
       /\ txn' = [txn EXCEPT !.meddled = @ \cup ({c} \X hit), !.edited = @ \cup ({c} \X hit)]
  /\ used' = [used EXCEPT !.edits = @ + 1]
  /\ UNCHANGED <<file, ckpt, run, closing, history>>

-----------------------------------------------------------------------------
Init ==
  /\ disk \in {d \in [CopyNames -> {Image(0), Image(Damaged)}] : d["primary"] = Image(0)}
  /\ file = NoFile /\ ckpt = NoJob /\ run = Idle /\ closing = {}
  /\ txn = NoTxn
  /\ finished = {} /\ kept = {} /\ rewound = FALSE
  /\ used = [commands |-> 0, deaths |-> 0, edits |-> 0, files |-> 0]

Continue == Record \/ WriteCopy \/ Save \/ Data \/ Drop \/ LeavePending \/ Replay
            \/ Clear \/ Retire \/ Release \/ Return
            \/ \E s \in closing : Close(s) \/ CloseBusy(s)
Begin == BeginEdit \/ BeginNew \/ BeginGrow \/ BeginMove \/ Resume \/ Intrude
         \/ BeginUndo \/ RemoveShell \/ BeginAbandon
Next == Begin \/ Continue \/ Die \/ DieClosing \/ Meddle

(* The user does what the refused command said, and abandons when that is  *)
(* refused too.                                                            *)
FollowAdvice ==
  IF WayOut = "resume" /\ ResumeAccepted THEN Resume
  ELSE IF WayOut = "undo" /\ UndoAccepted THEN BeginUndo ELSE BeginAbandon

Spec == Init /\ [][Next]_vars /\ WF_vars(Continue) /\ WF_vars(FollowAdvice)

-----------------------------------------------------------------------------
TypeOK ==
  /\ disk \in [CopyNames -> Contents]
  /\ file \in Files
  /\ ckpt \in Jobs
  /\ run \in Runs
  /\ closing \subseteq Sessions
  /\ txn \in Txns /\ txn.edited \subseteq txn.meddled
  /\ finished \subseteq Inodes /\ kept \subseteq Inodes /\ rewound \in BOOLEAN
  /\ used \in [commands: 0..MaxCommands, deaths: 0..MaxDeaths, edits: 0..MaxEdits, files: Inodes]

(* While a transaction is open and no barrier is recorded, the journal     *)
(* brings back the target it began on: the first record of a copy holds    *)
(* its original, a copy without a record is still original (both but for   *)
(* what other tools wrote), and no byte outside the journal has changed.   *)
IsOriginal(c, content) ==
  \A i \in 1..Sectors : content[i] = txn.origin[c][i] \/ <<c, i>> \in txn.meddled
Reversible ==
  (\/ Reversibly(file)
   \/ Class(file) \in {"absent", "shell"} /\ run.busy /\ run.gen = file.gen /\ At("write"))
    => /\ ~txn.moved
       /\ \A c \in CopyNames :
            IsOriginal(c, IF c \in Covered(file.recs) THEN First(file.recs, c).pre ELSE disk[c])

(* When undo removes the journal the target is what it was when the        *)
(* transaction began, except where another tool has written since.         *)
UndoneMeansOrigin == At("clear") => ~txn.moved /\ \A c \in CopyNames : IsOriginal(c, disk[c])

(* undo never overwrites a sector another tool has written after the       *)
(* journaled write, not even one written while undo runs.                  *)
ForeignBytesStay ==
  [][At("replay") /\ used'.edits = used.edits =>
       \A s \in txn.edited : disk'[s[1]][s[2]] = disk[s[1]][s[2]]]_vars

(* The way out a refused user is given is open.  Without an edit by        *)
(* another tool, undo accepts the journal it is offered for, however often *)
(* it was interrupted, and the interrupted command can be run again unless *)
(* undo has begun to take back what it wrote.                              *)
AdviceHolds ==
  Free /\ Active /\ used.edits = 0 =>
    /\ WayOut = "undo" => UndoAccepted
    /\ WayOut = "resume" /\ ~rewound => ResumeAccepted \/ file.kind = "stub"

(* A journal with records only grows, until its own transaction has        *)
(* finished, undo has replayed it, or abandon has renamed it.              *)
RecordsStay ==
  [][Class(file) = "records" =>
       \/ file'.gen = file.gen /\ IsPrefix(file.recs, file'.recs)
       \/ file.gen \in finished \/ At("clear") \/ At("retire")]_vars

(* A checkpoint next to a journal with records is of the same job, which   *)
(* is why undo may remove both.                                            *)
OneTransaction == ckpt # NoJob /\ Class(file) = "records" => txn.job = ckpt

(* Whoever follows the advice gets the target back.                        *)
EventuallyReleased == Active ~> ~Active
=============================================================================
