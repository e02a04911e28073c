-------------------------- MODULE PartResizeProofs --------------------------
(***************************************************************************)
(* Proofs about PartResize, for every size of disk, partition, request and *)
(* chunk, and any number of crashes, failing tools and third parties: a    *)
(* filesystem never ends outside its partition, none of its sectors is     *)
(* lost, nobody else's is written, and a run that ends complete has done   *)
(* what interrupted runs of its job had promised.                          *)
(*                                                                         *)
(* The argument is in three layers.  IInv says what lengths and records    *)
(* mean and gives FsFits.  DataInv stands on it and follows the sectors:   *)
(* where each one is, given the entry and the record on disk, and which    *)
(* sectors hold nothing that could be mistaken for it.  DebtInv stands on  *)
(* both and follows what is owed, from one run of a job to the next.       *)
(***************************************************************************)
EXTENDS PartResize, WellFoundedInduction, TLAPS

(* The parts of the state the argument is about.                           *)
InJob == pc \notin {"down", "undone", "undonefiles"}
Deciding == {"shrink", "saveshrink"}
Moving == {"barrier", "copy", "sync", "save", "commit"}
BeforeTable == {"cut"} \cup Deciding \cup Moving
InPlace == pc \in BeforeTable \/ (pc = "prepared" /\ job.verb # "copy")
Growing == {"growfs", "pvresize"}
AfterTable == {"hidden", "grow", "settle", "pvbarrier", "lvextend", "pvsettle"} \cup Growing

IsSpan(r) == r.start \in Int /\ r.len \in Int
Lengths ==
  /\ label \in {"gpt", "mbr"} /\ fs \in Int
  /\ IsSpan(entry) /\ IsSpan(copy) /\ others \subseteq Int
  /\ IsSpan(ckpt.old) /\ IsSpan(ckpt.new) /\ IsSpan(jnl.entry)
  /\ IsSpan(job.old) /\ IsSpan(job.new)
  /\ {"shrunk", "old", "new", "committed", "act", "verb"} \subseteq DOMAIN job
  /\ {"state", "entry"} \subseteq DOMAIN jnl

(* An MBR job keeps no record.                                             *)
MbrUnrecorded == label = "mbr" => ckpt = NoCkpt

(* A shrink recorded as proved has happened.                               *)
ProvedShrink == ckpt.shrunk = "verified" => fs <= ckpt.new.len

(* While the journal can still be undone the filesystem fits what undo     *)
(* brings back, and a job under it that did not shrink was not to shrink.  *)
UndoFits ==
  jnl.state = "open" =>
    /\ fs <= jnl.entry.len
    /\ ckpt # NoCkpt /\ ckpt.shrunk # "verified" =>
         /\ ckpt.old.len <= ckpt.new.len /\ entry.len <= ckpt.new.len
         /\ jnl.entry.len <= ckpt.new.len

(* The record on disk is of the job that runs, and so is the entry: it is  *)
(* the old one until the commit and the new one after it.                  *)
OneJob ==
  /\ InJob => ckpt = NoCkpt \/ ckpt.new = job.new
  /\ InPlace =>
       /\ job.old = entry
       /\ job.committed => entry = job.new /\ label = "gpt"
       /\ ~job.committed /\ ckpt # NoCkpt => ckpt.old = job.old
  /\ pc \in Moving => ~job.committed
  /\ pc \in {"cut", "barrier", "copy", "sync", "save"} => label = "gpt"
  /\ pc \in AfterTable => entry = job.new

(* The table may be cut: the filesystem has room in the new range, by a    *)
(* proved shrink or because the range is no shorter.                       *)
Sound ==
  /\ fs <= job.new.len
  /\ ~job.committed /\ job.shrunk # "verified" => job.old.len <= job.new.len
  /\ ckpt # NoCkpt => ckpt.shrunk = job.shrunk
  /\ jnl.state = "open" /\ job.shrunk # "verified" => jnl.entry.len <= job.new.len
RunFits ==
  /\ pc = "prepared" /\ job.verb # "copy" /\ job.act # "shrink" => Sound
  /\ pc \in Deciding \/ (pc = "prepared" /\ job.verb # "copy" /\ job.act = "shrink") =>
       job.new.len <= entry.len /\ jnl.state # "open"
  /\ pc = "saveshrink" =>
       job.shrunk = "unverified" \/ (job.shrunk = "verified" /\ fs <= job.new.len)
  /\ pc \in Moving \cup {"cut"} => Sound
  /\ pc \in Growing => jnl.state = "barrier"

IInv ==
  Lengths /\ MbrUnrecorded /\ ProvedShrink /\ UndoFits /\ OneJob /\ RunFits /\ FsFits

-----------------------------------------------------------------------------
(* The end of the free room to the right of the partition is a number: a   *)
(* set of integers with a lower bound has a least member.                  *)
LEMMA LeastNatural ==
  ASSUME NEW T \in SUBSET Nat, T # {} PROVE \E x \in T : \A y \in T : x <= y
<1>1. PICK x \in T : \A y \in T : ~ (<<y, x>> \in OpToRel(<, Nat))
  BY WFMin, NatLessThanWellFounded
<1>2. ASSUME NEW y \in T PROVE x <= y
  <2>1. ~ (y < x)
    BY <1>1, <1>2 DEF OpToRel
  <2> QED BY <2>1
<1> QED BY <1>1, <1>2

LEMMA LeastInteger ==
  ASSUME NEW T \in SUBSET Int, T # {}, NEW low \in Int, \A y \in T : low <= y
  PROVE  /\ (CHOOSE s \in T : \A t \in T : s <= t) \in T
         /\ (CHOOSE s \in T : \A t \in T : s <= t) \in Int
<1> DEFINE U == { n \in Nat : low + n \in T }
<1>1. U # {}
  <2>1. PICK y \in T : TRUE
    OBVIOUS
  <2>2. y - low \in U
    BY <2>1
  <2> QED BY <2>2
<1>2. PICK n \in U : \A m \in U : n <= m
  <2> HIDE DEF U
  <2>1. U \in SUBSET Nat
    BY DEF U
  <2> QED BY <1>1, <2>1, LeastNatural
<1>3. low + n \in T /\ \A t \in T : low + n <= t
  <2>1. ASSUME NEW t \in T PROVE low + n <= t
    <3>1. t - low \in U
      OBVIOUS
    <3> QED BY <1>2, <3>1
  <2> QED BY <2>1
<1> QED BY <1>3

LEMMA FreeEndIsInteger == ASSUME Lengths PROVE FreeEnd \in Int
<1> DEFINE right == { s \in Taken : s > Last(entry) } \cup {Usable + 1}
<1>1. Usable \in Int /\ Last(entry) \in Int
  BY PartAssumption DEF Lengths, IsSpan, Last
<1>2. Taken \subseteq Int
  <2>1. others \subseteq Int /\ Covers(copy) \subseteq Int
    BY DEF Lengths, IsSpan, Covers, Last
  <2> QED BY <2>1 DEF Taken
<1>3. right \in SUBSET Int /\ right # {}
  <2>1. Usable + 1 \in right /\ Usable + 1 \in Int
    BY <1>1
  <2>2. \A s \in right : s \in Taken \/ s = Usable + 1
    OBVIOUS
  <2> QED BY <1>2, <2>1, <2>2
<1>4. PICK low \in Int : low <= Usable /\ low <= Last(entry)
  <2>1. CASE Usable <= Last(entry)
    BY <1>1, <2>1
  <2>2. CASE Last(entry) <= Usable
    BY <1>1, <2>2
  <2> QED BY <1>1, <2>1, <2>2
<1>5. \A y \in right : low <= y
  BY <1>1, <1>2, <1>4
<1>6. (CHOOSE s \in right : \A t \in right : s <= t) \in Int
  <2> HIDE DEF right
  <2> QED BY <1>3, <1>5, LeastInteger
<1> QED BY <1>6 DEF FreeEnd

-----------------------------------------------------------------------------
(* A step that leaves the table, the filesystem and the records alone, and *)
(* a run that is over, keep their parts of the invariant.                  *)
State == Lengths /\ MbrUnrecorded /\ ProvedShrink /\ UndoFits /\ FsFits

LEMMA SameState ==
  ASSUME State, UNCHANGED <<label, entry, others, copy, fs, ckpt, jnl>>,
         job' = job \/ job' = NoJob
  PROVE  State'
<1>1. Lengths'
  BY DEF State, Lengths, IsSpan, NoJob, NoEntry, At
<1>2. MbrUnrecorded' /\ ProvedShrink' /\ UndoFits' /\ FsFits'
  BY DEF State, MbrUnrecorded, ProvedShrink, UndoFits, FsFits
<1> QED BY <1>1, <1>2 DEF State

LEMMA AtRest ==
  ASSUME pc' \in {"down", "undone", "undonefiles"} PROVE OneJob' /\ RunFits'
BY DEF OneJob, RunFits, InJob, InPlace, Deciding, Moving, BeforeTable, Growing, AfterTable

LEMMA StopKeeps ==
  ASSUME State, UNCHANGED <<label, entry, others, copy, fs, ckpt, jnl>>, NEW o, Stop(o)
  PROVE  IInv'
BY SameState, AtRest DEF Stop, Forget, State, IInv

LEMMA ShrunkSet ==
  ASSUME Lengths, NEW a, job' = [job EXCEPT !.shrunk = a]
  PROVE  /\ job'.shrunk = a
         /\ job'.old = job.old /\ job'.new = job.new /\ job'.committed = job.committed
         /\ job'.act = job.act /\ job'.verb = job.verb
         /\ {"shrunk", "old", "new", "committed", "act", "verb"} \subseteq DOMAIN job'
BY DEF Lengths

LEMMA BarredJournal ==
  ASSUME Lengths
  PROVE  Barred.state = "barrier" /\ Barred.entry = jnl.entry
         /\ {"state", "entry"} \subseteq DOMAIN Barred
BY DEF Lengths, Barred

LEMMA RecordOfJob ==
  /\ Record(job).old = job.old /\ Record(job).new = job.new
  /\ Record(job).shrunk = job.shrunk
BY DEF Record

LEMMA BarKeeps ==
  ASSUME State, NEW next, Bar(next) PROVE State' /\ jnl'.state = "barrier" /\ UNCHANGED job
<1> USE DEF Bar, fixed, table, volume, records, Continue, inRun
<1>1. jnl'.state = "barrier" /\ UNCHANGED job
  BY BarredJournal DEF State
<1>2. Lengths'
  BY BarredJournal DEF State, Lengths, IsSpan
<1>3. MbrUnrecorded' /\ ProvedShrink' /\ UndoFits' /\ FsFits'
  BY <1>1 DEF State, MbrUnrecorded, ProvedShrink, UndoFits, FsFits
<1> QED BY <1>1, <1>2, <1>3 DEF State

-----------------------------------------------------------------------------
(* One lemma per action.                                                   *)
LEMMA RecheckKeeps == ASSUME IInv, Recheck PROVE IInv'
<1> USE DEF Recheck, fixed, table, volume, records
<1>1. CASE \E o : Stop(o)
  BY <1>1, StopKeeps DEF IInv, State
<1>2. CASE Continue(FirstStep)
  <2>1. State'
    BY <1>2, SameState DEF Continue, inRun, IInv, State
  <2>2. UNCHANGED <<label, entry, fs, ckpt, jnl, job>> /\ pc = "prepared"
    BY <1>2 DEF Continue, inRun
  <2>3. \/ pc' = "dupbarrier"
        \/ job.verb # "copy" /\ job.act = "shrink" /\ pc' = "shrink"
        \/ /\ job.verb # "copy" /\ job.act # "shrink"
           /\ \/ label = "gpt" /\ pc' = "cut"
              \/ label = "mbr" /\ pc' = "commit"
              \/ label = "mbr" /\ pc' = "hidden" /\ job.new = job.old
    BY <1>2 DEF Continue, Go, FirstStep, IInv, Lengths
  <2>4. OneJob'
    BY <2>2, <2>3 DEF IInv, OneJob, InJob, InPlace, BeforeTable, Deciding, Moving, Growing,
                      AfterTable
  <2>5. RunFits'
    BY <2>2, <2>3 DEF IInv, RunFits, Deciding, Moving, Growing, Sound
  <2> QED BY <2>1, <2>4, <2>5 DEF State, IInv
<1> QED BY <1>1, <1>2

LEMMA ReadBackKeeps == ASSUME IInv, ReadBack PROVE IInv'
<1> USE DEF ReadBack, Shrinking, fixed, table, volume, records, FsStays
<1>1. CASE \E o : Stop(o)
  BY <1>1, StopKeeps DEF IInv, State
<1>2. ASSUME NEW a, job' = [job EXCEPT !.shrunk = a], pc' \in Deciding, NoFault,
             pc' = "saveshrink" => a = "verified" /\ fs <= job.new.len
      PROVE  IInv'
  <2>1. Lengths'
    BY <1>2, ShrunkSet DEF IInv, Lengths, IsSpan
  <2>2. MbrUnrecorded' /\ ProvedShrink' /\ UndoFits' /\ FsFits'
    BY DEF IInv, MbrUnrecorded, ProvedShrink, UndoFits, FsFits
  <2>3. OneJob'
    BY <1>2, ShrunkSet DEF IInv, OneJob, InJob, InPlace, BeforeTable, Deciding, Moving,
                           Growing, AfterTable
  <2>4. RunFits'
    BY <1>2, ShrunkSet DEF IInv, RunFits, Deciding, Moving, Growing
  <2> QED BY <2>1, <2>2, <2>3, <2>4 DEF IInv
<1> QED BY <1>1, <1>2 DEF Measured, Go, Deciding

LEMMA ShrinkFsKeeps == ASSUME IInv, ShrinkFs PROVE IInv'
<1> USE DEF ShrinkFs, Shrinking, fixed, table, records
<1>1. /\ pc = "shrink" /\ UNCHANGED <<label, entry, others, copy, ckpt, jnl>>
      /\ fs' = fs \/ fs' = job.new.len
  BY DEF FsPerhapsTo, FsStays, FsTo
<1>2. job.new.len <= entry.len /\ jnl.state # "open" /\ (ckpt = NoCkpt \/ ckpt.new = job.new)
  BY <1>1 DEF IInv, RunFits, OneJob, InJob, Deciding
<1>3. MbrUnrecorded' /\ ProvedShrink' /\ UndoFits' /\ FsFits'
  BY <1>1, <1>2 DEF IInv, Lengths, IsSpan, MbrUnrecorded, ProvedShrink, UndoFits, FsFits, NoCkpt
<1>4. CASE \E o : Stop(o)
  <2>1. Lengths'
    BY <1>1, <1>4 DEF Stop, Forget, IInv, Lengths, IsSpan, NoJob, NoEntry, At
  <2> QED BY <1>3, <1>4, <2>1, AtRest DEF Stop, IInv
<1>5. ASSUME NEW a, job' = [job EXCEPT !.shrunk = a], pc' = "saveshrink",
             a = "unverified" \/ (a = "verified" /\ fs' = job.new.len)
      PROVE  IInv'
  <2>1. Lengths'
    BY <1>1, <1>5, ShrunkSet DEF IInv, Lengths, IsSpan
  <2>2. OneJob'
    BY <1>1, <1>5, ShrunkSet DEF IInv, OneJob, InJob, InPlace, BeforeTable, Deciding, Moving,
                                 Growing, AfterTable
  <2>3. RunFits'
    BY <1>1, <1>2, <1>5, ShrunkSet DEF IInv, Lengths, IsSpan, RunFits, Deciding, Moving, Growing
  <2> QED BY <1>3, <2>1, <2>2, <2>3 DEF IInv
<1> QED BY <1>4, <1>5 DEF Measured, Go, FsTo

LEMMA SaveShrinkKeeps == ASSUME IInv, SaveShrink PROVE IInv'
<1> USE DEF SaveShrink, fixed, table, volume
<1>1. /\ UNCHANGED <<label, entry, others, copy, fs, jnl>> /\ pc = "saveshrink"
      /\ ckpt' = IF label = "gpt" THEN Record(job) ELSE ckpt
  OBVIOUS
<1>2. jnl.state # "open" /\ job.old = entry /\ (job.shrunk = "verified" => fs <= job.new.len)
  BY <1>1 DEF IInv, RunFits, OneJob, InPlace, Deciding, BeforeTable
<1>3. MbrUnrecorded' /\ ProvedShrink' /\ UndoFits' /\ FsFits'
  BY <1>1, <1>2, RecordOfJob DEF IInv, Lengths, MbrUnrecorded, ProvedShrink, UndoFits, FsFits
<1>4. CASE \E o : Stop(o)
  <2>1. Lengths'
    BY <1>1, <1>4, RecordOfJob
       DEF Stop, Forget, IInv, Lengths, IsSpan, NoJob, NoEntry, At
  <2> QED BY <1>3, <1>4, <2>1, AtRest DEF Stop, IInv
<1>5. CASE /\ job.shrunk # "unverified" /\ UNCHANGED job
           /\ pc' = IF label = "gpt" THEN "cut" ELSE "commit"
  <2>1. Lengths'
    BY <1>1, <1>5, RecordOfJob DEF IInv, Lengths, IsSpan
  <2>2. OneJob'
    BY <1>1, <1>5, RecordOfJob DEF IInv, Lengths, MbrUnrecorded, OneJob, InJob, InPlace,
                                   BeforeTable, Deciding, Moving, Growing, AfterTable
  <2>3. job.shrunk = "verified" /\ fs <= job.new.len
    BY <1>1, <1>5 DEF IInv, RunFits
  <2>4. Sound'
    BY <1>1, <1>5, <2>3, RecordOfJob DEF IInv, Lengths, MbrUnrecorded, Sound
  <2>5. RunFits'
    BY <1>5, <2>4 DEF RunFits, Deciding, Moving, Growing
  <2> QED BY <1>3, <2>1, <2>2, <2>5 DEF IInv
<1> QED BY <1>4, <1>5 DEF Continue, Go, inRun

LEMMA CutKeeps == ASSUME IInv, Cut PROVE IInv'
<1> USE DEF Cut, fixed, table, volume
<1>1. CASE UNCHANGED ckpt /\ \E o : Stop(o)
  BY <1>1, StopKeeps DEF IInv, State
<1>2. CASE /\ ckpt' = IF Saves THEN Record(job) ELSE ckpt
           /\ UNCHANGED job
           /\ pc' = IF job.committed THEN "hidden"
                    ELSE IF Moved(job) # 0 THEN "barrier" ELSE "commit"
  <2>1. UNCHANGED <<label, entry, others, copy, fs, jnl, job>> /\ pc = "cut"
    BY <1>2
  <2>2. /\ Sound /\ job.old = entry /\ (ckpt = NoCkpt \/ ckpt.new = job.new)
        /\ job.committed => entry = job.new
        /\ ~job.committed /\ ckpt # NoCkpt => ckpt.old = job.old
        /\ label = "gpt"
    BY <2>1 DEF IInv, RunFits, OneJob, InJob, InPlace, BeforeTable
  <2>3. \/ ckpt' = ckpt
        \/ ckpt' = Record(job) /\ ~job.committed
    BY <1>2 DEF Saves
  <2>4. Lengths'
    BY <2>1, <2>3, RecordOfJob DEF IInv, Lengths, IsSpan
  <2>5. MbrUnrecorded' /\ ProvedShrink' /\ UndoFits' /\ FsFits'
    BY <2>1, <2>2, <2>3, RecordOfJob
       DEF IInv, Lengths, IsSpan, MbrUnrecorded, ProvedShrink, UndoFits, FsFits, Sound
  <2>6. OneJob'
    BY <1>2, <2>1, <2>2, <2>3, RecordOfJob
       DEF OneJob, InJob, InPlace, BeforeTable, Deciding, Moving, Growing, AfterTable
  <2>7. Sound'
    BY <2>1, <2>2, <2>3, RecordOfJob DEF Sound
  <2>8. RunFits'
    BY <1>2, <2>7 DEF RunFits, Deciding, Moving, Growing
  <2> QED BY <2>4, <2>5, <2>6, <2>8 DEF IInv
<1> QED BY <1>1, <1>2 DEF Continue, Go, inRun

LEMMA MoveBarrierKeeps == ASSUME IInv, MoveBarrier PROVE IInv'
<1>1. PICK next \in {"copy", "commit"} : Bar(next)
  BY DEF MoveBarrier
<1>2. /\ State' /\ UNCHANGED <<label, entry, fs, ckpt, job>> /\ jnl'.state = "barrier"
      /\ pc = "barrier" /\ pc' \in {"copy", "commit"}
  BY <1>1, BarKeeps
     DEF MoveBarrier, Bar, Continue, Go, inRun, fixed, table, volume, IInv, State
<1>3. OneJob'
  BY <1>2 DEF IInv, OneJob, InJob, InPlace, BeforeTable, Deciding, Moving, Growing, AfterTable
<1>4. RunFits'
  BY <1>2 DEF IInv, RunFits, Deciding, Moving, Growing, Sound
<1> QED BY <1>2, <1>3, <1>4 DEF State, IInv

LEMMA CopyKeeps == ASSUME IInv, CopyChunk \/ SyncData PROVE IInv'
<1>1. /\ UNCHANGED <<label, entry, others, copy, fs, ckpt, jnl, job>>
      /\ pc \in {"copy", "sync"} /\ pc' \in {"copy", "sync", "save"}
  BY DEF CopyChunk, SyncData, Continue, Go, inRun, fixed, table, volume, records
<1>2. State'
  BY <1>1, SameState DEF IInv, State
<1>3. OneJob'
  BY <1>1 DEF IInv, OneJob, InJob, InPlace, BeforeTable, Deciding, Moving, Growing, AfterTable
<1>4. RunFits'
  BY <1>1 DEF IInv, RunFits, Deciding, Moving, Growing, Sound
<1> QED BY <1>2, <1>3, <1>4 DEF State, IInv

LEMMA SaveProgressKeeps == ASSUME IInv, SaveProgress PROVE IInv'
<1>1. /\ UNCHANGED <<label, entry, others, copy, fs, jnl, job>>
      /\ ckpt' = Record(job) /\ pc = "save" /\ pc' \in {"copy", "commit"}
  BY DEF SaveProgress, Go, fixed, table, volume
<1>2. Sound /\ job.old = entry /\ ~job.committed /\ label = "gpt"
  BY <1>1 DEF IInv, RunFits, OneJob, InPlace, BeforeTable, Moving
<1>3. Lengths'
  BY <1>1, RecordOfJob DEF IInv, Lengths, IsSpan
<1>4. MbrUnrecorded' /\ ProvedShrink' /\ UndoFits' /\ FsFits'
  BY <1>1, <1>2, RecordOfJob
     DEF IInv, Lengths, IsSpan, MbrUnrecorded, ProvedShrink, UndoFits, FsFits, Sound
<1>5. OneJob'
  BY <1>1, <1>2, RecordOfJob
     DEF OneJob, InJob, InPlace, BeforeTable, Deciding, Moving, Growing, AfterTable
<1>6. Sound'
  BY <1>1, <1>2, RecordOfJob DEF Sound
<1>7. RunFits'
  BY <1>1, <1>6 DEF RunFits, Deciding, Moving, Growing
<1> QED BY <1>3, <1>4, <1>5, <1>7 DEF IInv

LEMMA CommitKeeps == ASSUME IInv, Commit PROVE IInv'
<1> USE DEF Commit, fixed, volume
<1>1. CASE MbrTaken
  BY <1>1, StopKeeps DEF IInv, State
<1>2. CASE /\ ~MbrTaken /\ entry' = job.new /\ pc' = "hidden" /\ UNCHANGED job
           /\ jnl' = IF jnl.state = "none"
                     THEN [state |-> "open", entry |-> entry, others |-> others] ELSE jnl
  <2>1. UNCHANGED <<label, others, copy, fs, ckpt, job>> /\ pc = "commit"
    BY <1>2
  <2>2. /\ Sound /\ job.old = entry /\ ~job.committed
        /\ ckpt = NoCkpt \/ (ckpt.new = job.new /\ ckpt.old = job.old)
    BY <2>1 DEF IInv, RunFits, OneJob, InJob, InPlace, BeforeTable, Moving
  <2>3. \/ jnl' = jnl
        \/ jnl'.state = "open" /\ jnl'.entry = entry /\ {"state", "entry"} \subseteq DOMAIN jnl'
    BY <1>2
  <2>4. Lengths'
    BY <1>2, <2>1, <2>3 DEF IInv, Lengths, IsSpan
  <2>5. MbrUnrecorded' /\ ProvedShrink' /\ FsFits'
    BY <1>2, <2>1, <2>2 DEF IInv, MbrUnrecorded, ProvedShrink, FsFits, Sound
  <2>6. UndoFits'
    BY <1>2, <2>1, <2>2, <2>3 DEF IInv, Lengths, IsSpan, UndoFits, FsFits, Sound
  <2>7. OneJob'
    BY <1>2, <2>1, <2>2 DEF OneJob, InJob, InPlace, BeforeTable, Deciding, Moving, Growing, AfterTable
  <2>8. RunFits'
    BY <1>2 DEF RunFits, Deciding, Moving, Growing
  <2> QED BY <2>4, <2>5, <2>6, <2>7, <2>8 DEF IInv
<1> QED BY <1>1, <1>2 DEF Continue, Go, inRun

(* Behind the commit only the filesystem and the records change.           *)
LEMMA AfterTableStep ==
  ASSUME IInv, pc \in AfterTable, UNCHANGED <<label, entry, job>>, State',
         pc' \in AfterTable \cup {"close"}, pc' \in Growing => jnl'.state = "barrier",
         ckpt' = ckpt \/ ckpt' = NoCkpt
  PROVE  IInv'
<1>1. OneJob'
  BY DEF IInv, OneJob, InJob, InPlace, BeforeTable, Deciding, Moving, Growing, AfterTable
<1>2. RunFits'
  BY DEF RunFits, Deciding, Moving, Growing, AfterTable
<1> QED BY <1>1, <1>2 DEF State, IInv

LEMMA HiddenSectorsKeeps == ASSUME IInv, HiddenSectors PROVE IInv'
<1>1. /\ UNCHANGED <<label, entry, others, copy, fs, ckpt, jnl, job>>
      /\ pc = "hidden" /\ pc' \in {"grow", "settle"}
  BY DEF HiddenSectors, Continue, Go, inRun, fixed, table, volume, records
<1>2. State'
  BY <1>1, SameState DEF IInv, State
<1> QED BY <1>1, <1>2, AfterTableStep DEF AfterTable, Growing

LEMMA GrowKeeps == ASSUME IInv, Grow PROVE IInv'
<1>1. /\ UNCHANGED <<label, entry, others, copy, fs, ckpt, job>> /\ pc = "grow"
      /\ \/ pc' = "settle" /\ jnl' = jnl
         \/ pc' = "growfs" /\ jnl' = Barred
  BY DEF Grow, GrowStays, FsStays, Owes, Continue, Go, inRun, fixed, table
<1>2. State' /\ (jnl' = Barred => jnl'.state = "barrier")
  <2>1. CASE jnl' = jnl
    BY <1>1, <2>1, SameState, BarredJournal DEF IInv, State
  <2>2. CASE jnl' = Barred
    <3>1. Lengths' /\ jnl'.state = "barrier"
      BY <1>1, <2>2, BarredJournal DEF IInv, Lengths, IsSpan
    <3>2. MbrUnrecorded' /\ ProvedShrink' /\ UndoFits' /\ FsFits'
      BY <1>1, <3>1 DEF IInv, MbrUnrecorded, ProvedShrink, UndoFits, FsFits
    <3> QED BY <3>1, <3>2 DEF State
  <2> QED BY <1>1, <2>1, <2>2
<1> QED BY <1>1, <1>2, AfterTableStep DEF AfterTable, Growing

(* A tool that grows the filesystem brings it to the end of the entry.     *)
LEMMA FilledKeeps ==
  ASSUME IInv, pc \in Growing, UNCHANGED <<label, entry, others, copy, ckpt, jnl>>,
         fs' = fs \/ fs' = entry.len, job' = job \/ job' = NoJob
  PROVE  State'
<1>1. entry = job.new /\ jnl.state = "barrier" /\ (ckpt = NoCkpt \/ ckpt.new = job.new)
  BY DEF IInv, OneJob, RunFits, InJob, Growing, AfterTable
<1>2. Lengths'
  BY DEF IInv, Lengths, IsSpan, NoJob, NoEntry, At
<1>3. MbrUnrecorded' /\ ProvedShrink' /\ UndoFits' /\ FsFits'
  BY <1>1 DEF IInv, Lengths, IsSpan, MbrUnrecorded, ProvedShrink, UndoFits, FsFits, NoCkpt
<1> QED BY <1>2, <1>3 DEF State

LEMMA GrowFsKeeps == ASSUME IInv, GrowFs PROVE IInv'
<1>1. /\ UNCHANGED <<label, entry, others, copy, ckpt, jnl, job>>
      /\ fs' = fs \/ fs' = entry.len
      /\ pc = "growfs" /\ pc' = "settle"
  BY DEF GrowFs, GrowStays, FsPerhapsTo, FsTo, FsStays, Owes, Continue, Go, inRun, fixed, table
<1>2. State'
  BY <1>1, FilledKeeps DEF Growing
<1> QED BY <1>1, <1>2, AfterTableStep DEF AfterTable, Growing

LEMMA RecordsGone ==
  ASSUME State, UNCHANGED <<label, entry, others, copy, fs>>, job' = job \/ job' = NoJob,
         ckpt' = ckpt \/ ckpt' = NoCkpt, jnl' = jnl \/ jnl' = NoJnl
  PROVE  State'
<1>1. Lengths'
  BY DEF State, Lengths, IsSpan, NoJob, NoCkpt, NoJnl, NoEntry, At
<1>2. MbrUnrecorded' /\ ProvedShrink' /\ UndoFits' /\ FsFits'
  BY DEF State, MbrUnrecorded, ProvedShrink, UndoFits, FsFits, NoCkpt, NoJnl
<1> QED BY <1>1, <1>2 DEF State

LEMMA SettleKeeps == ASSUME IInv, Settle \/ PvSettle PROVE IInv'
<1> USE DEF Settle, PvSettle, fixed, table, volume
<1>1. /\ UNCHANGED <<label, entry, others, copy, fs, jnl>> /\ pc \in {"settle", "pvsettle"}
      /\ ckpt' = ckpt \/ ckpt' = NoCkpt
      /\ (\E o : Stop(o)) \/ (UNCHANGED job /\ pc' \in {"close", "pvbarrier"})
  BY DEF Continue, Go, inRun
<1>2. State'
  BY <1>1, RecordsGone DEF IInv, State, Stop, Forget
<1>3. CASE \E o : Stop(o)
  BY <1>2, <1>3, AtRest DEF Stop, State, IInv
<1>4. CASE UNCHANGED job /\ pc' \in {"close", "pvbarrier"}
  BY <1>1, <1>2, <1>4, AfterTableStep DEF AfterTable, Growing
<1> QED BY <1>1, <1>3, <1>4

LEMMA PvBarrierKeeps == ASSUME IInv, PvBarrier PROVE IInv'
<1>1. Bar("pvresize") /\ pc = "pvbarrier"
  BY DEF PvBarrier
<1>2. /\ State' /\ UNCHANGED <<label, entry, ckpt, job>> /\ jnl'.state = "barrier"
      /\ pc' = "pvresize"
  BY <1>1, BarKeeps DEF Bar, Continue, Go, fixed, table, IInv, State
<1> QED BY <1>1, <1>2, AfterTableStep DEF AfterTable, Growing

LEMMA PvResizeKeeps == ASSUME IInv, PvResize PROVE IInv'
<1>1. /\ UNCHANGED <<label, entry, others, copy, ckpt, jnl>> /\ pc = "pvresize"
      /\ fs' = fs \/ fs' = entry.len
      /\ (\E o : Stop(o)) \/ (UNCHANGED job /\ pc' = "lvextend")
  BY DEF PvResize, FsPerhapsTo, FsTo, FsStays, Continue, Go, inRun, fixed, table, records
<1>2. State'
  BY <1>1, FilledKeeps DEF Growing, Stop, Forget
<1>3. CASE \E o : Stop(o)
  BY <1>2, <1>3, AtRest DEF Stop, State, IInv
<1>4. CASE UNCHANGED job /\ pc' = "lvextend"
  BY <1>1, <1>2, <1>4, AfterTableStep DEF AfterTable, Growing
<1> QED BY <1>1, <1>3, <1>4

LEMMA LvExtendKeeps == ASSUME IInv, LvExtend PROVE IInv'
<1>1. /\ UNCHANGED <<label, entry, others, copy, fs, ckpt, jnl>> /\ pc = "lvextend"
      /\ (\E o : Stop(o)) \/ (UNCHANGED job /\ pc' = "pvsettle")
  BY DEF LvExtend, AfterChain, Continue, Go, inRun, fixed, table, records
<1>2. CASE \E o : Stop(o)
  BY <1>1, <1>2, StopKeeps DEF IInv, State
<1>3. CASE UNCHANGED job /\ pc' = "pvsettle"
  <2>1. State'
    BY <1>1, <1>3, SameState DEF IInv, State
  <2> QED BY <1>1, <1>3, <2>1, AfterTableStep DEF AfterTable, Growing
<1> QED BY <1>1, <1>2, <1>3

LEMMA CloseKeeps == ASSUME IInv, Close PROVE IInv'
<1>1. /\ UNCHANGED <<label, entry, others, copy, fs, ckpt>> /\ (jnl' = jnl \/ jnl' = NoJnl)
      /\ \E o : Stop(o)
  BY DEF Close, fixed, table, volume
<1>2. State'
  BY <1>1, RecordsGone DEF IInv, State, Stop, Forget
<1> QED BY <1>1, <1>2, AtRest DEF Stop, State, IInv

(* A copy touches neither the partition nor a record.                      *)
LEMMA DupKeeps ==
  ASSUME IInv, DupBarrier \/ DupChunk \/ DupSync \/ DupHidden \/ DupAdd PROVE IInv'
<1>1. CASE \E o : Stop(o)
  <2>1. DupAdd /\ UNCHANGED <<label, entry, others, copy, fs, ckpt, jnl>>
    BY <1>1 DEF Stop, DupBarrier, Bar, DupChunk, DupSync, DupHidden, DupAdd, DupStays, Continue,
                Go, fixed, volume, records
  <2> QED BY <1>1, <2>1, StopKeeps DEF IInv, State
<1>2. CASE /\ UNCHANGED job /\ pc \in {"dupbarrier", "dup", "dupsync", "duphidden", "dupadd"}
           /\ pc' \in {"dup", "dupsync", "duphidden", "dupadd", "close"}
  <2>1. /\ UNCHANGED <<label, entry, others, fs, ckpt>>
        /\ \/ UNCHANGED <<copy, jnl>>
           \/ DupBarrier
           \/ UNCHANGED jnl /\ copy'.start = job.new.start /\ copy'.len = job.new.len
    BY <1>2 DEF DupChunk, DupSync, DupHidden, DupAdd, DupBarrier, Bar, DupStays, Stop,
                fixed, table, volume, records
  <2>2. State'
    <3>1. CASE UNCHANGED <<copy, jnl>>
      BY <1>2, <2>1, <3>1, SameState DEF IInv, State
    <3>2. CASE DupBarrier
      BY <3>2, BarKeeps DEF DupBarrier, IInv, State
    <3>3. CASE UNCHANGED jnl /\ copy'.start = job.new.start /\ copy'.len = job.new.len
      <4>1. Lengths'
        BY <1>2, <2>1, <3>3 DEF IInv, Lengths, IsSpan
      <4>2. MbrUnrecorded' /\ ProvedShrink' /\ UndoFits' /\ FsFits'
        BY <2>1, <3>3 DEF IInv, MbrUnrecorded, ProvedShrink, UndoFits, FsFits
      <4> QED BY <4>1, <4>2 DEF State
    <3> QED BY <2>1, <3>1, <3>2, <3>3
  <2>3. OneJob' /\ RunFits'
    BY <1>2, <2>1 DEF IInv, OneJob, RunFits, InJob, InPlace, BeforeTable, Deciding, Moving,
                      Growing, AfterTable
  <2> QED BY <2>2, <2>3 DEF State, IInv
<1> QED BY <1>1, <1>2
     DEF DupBarrier, Bar, DupChunk, DupSync, DupHidden, DupAdd, Continue, Go, inRun

-----------------------------------------------------------------------------
(* Undo, abandon and the environment.                                      *)
LEMMA UndoTableKeeps == ASSUME IInv, UndoTable PROVE IInv'
<1>1. /\ UNCHANGED <<label, others, copy, fs, ckpt, jnl, job>>
      /\ jnl.state = "open" /\ entry' = jnl.entry /\ pc' = "undone"
  BY DEF UndoTable, Idle, fixed, inRun, volume, records
<1>2. Lengths'
  BY <1>1 DEF IInv, Lengths, IsSpan
<1>3. MbrUnrecorded' /\ ProvedShrink' /\ UndoFits' /\ FsFits'
  BY <1>1 DEF IInv, MbrUnrecorded, ProvedShrink, UndoFits, FsFits
<1> QED BY <1>1, <1>2, <1>3, AtRest DEF IInv

LEMMA UndoFilesKeeps == ASSUME IInv, UndoFiles PROVE IInv'
<1>1. /\ UNCHANGED <<label, entry, others, copy, fs>> /\ (job' = job \/ job' = NoJob)
      /\ (ckpt' = ckpt \/ ckpt' = NoCkpt) /\ (jnl' = jnl \/ jnl' = NoJnl)
      /\ pc' \in {"undonefiles", "down"}
  BY DEF UndoFiles, Continue, Go, Stop, Forget, inRun, fixed, table, volume
<1>2. State'
  BY <1>1, RecordsGone DEF IInv, State
<1> QED BY <1>1, <1>2, AtRest DEF State, IInv

LEMMA AbandonKeeps == ASSUME IInv, Abandon \/ Unmount PROVE IInv'
<1>1. /\ UNCHANGED <<label, entry, others, copy, fs, job>>
      /\ (ckpt' = ckpt \/ ckpt' = NoCkpt) /\ (jnl' = jnl \/ jnl' = NoJnl) /\ pc' = "down"
  BY DEF Abandon, Unmount, Idle, inRun, fixed, table, volume, records
<1>2. State'
  BY <1>1, RecordsGone DEF IInv, State
<1> QED BY <1>1, <1>2, AtRest DEF State, IInv

LEMMA DeathKeeps == ASSUME IInv, Kill \/ PowerLoss PROVE IInv'
<1>1. UNCHANGED <<label, entry, others, copy, fs, ckpt, jnl>> /\ \E o : Stop(o)
  BY DEF Kill, PowerLoss, Die, fixed, table, volume, records
<1> QED BY <1>1, StopKeeps DEF IInv, State

LEMMA ThirdPartyKeeps == ASSUME IInv, ThirdParty PROVE IInv'
<1>1. /\ UNCHANGED <<label, entry, copy, fs, ckpt, jnl, job, pc>>
      /\ \E s \in Claimable : others' = others \cup {s}
  BY DEF ThirdParty, inRun, fixed, volume, records
<1>2. Lengths'
  BY <1>1, PartAssumption DEF IInv, Lengths, IsSpan
<1>3. MbrUnrecorded' /\ ProvedShrink' /\ UndoFits' /\ FsFits'
  BY <1>1 DEF IInv, MbrUnrecorded, ProvedShrink, UndoFits, FsFits
<1>4. OneJob' /\ RunFits'
  BY <1>1 DEF IInv, OneJob, RunFits, InJob, InPlace, Sound
<1> QED BY <1>2, <1>3, <1>4 DEF IInv

-----------------------------------------------------------------------------
(* What a command decides follows from what it finds.                      *)
LEMMA TargetIsSpan == ASSUME Lengths, NEW r \in Requests PROVE IsSpan(Target(r))
<1>1. r.verb \in {"part", "resize", "grow", "copy"} /\ r.start \in Int /\ r.len \in Int
  BY PartAssumption DEF RequestRecords, Sectors
<1>2. FreeEnd - entry.start + 1 \in Int
  BY FreeEndIsInteger DEF Lengths, IsSpan
<1> QED BY <1>1, <1>2 DEF Target, At, Lengths, IsSpan

(* A command that is not refused found no record, or the one of the very   *)
(* job it was asked for, before or after that job's commit.                *)
LEMMA Restored ==
  ASSUME NEW r \in Requests, ~Refused(r), r.verb # "copy"
  PROVE  /\ Active => ckpt # NoCkpt
         /\ ckpt = NoCkpt => Restore(r) # "committed"
         /\ ckpt # NoCkpt =>
              /\ ckpt.new = Target(r)
              /\ Restore(r) = "committed" => entry = ckpt.new
              /\ Restore(r) # "committed" => entry = ckpt.old
<1>1. Claimed(r) /\ Target(r).len # 0 /\ Restore(r) # "divergent"
  BY DEF Refused, OutOfPlace, NotNow
<1>2. Active => ckpt # NoCkpt
  BY <1>1 DEF Claimed, NoCkpt, NoFacts, FactsOf
<1>3. ckpt = NoCkpt => Restore(r) # "committed"
  BY <1>1 DEF Restore, NoCkpt, NoEntry, At
<1>4. ckpt # NoCkpt =>
        /\ ckpt.new = Target(r)
        /\ Restore(r) = "committed" => entry = ckpt.new
        /\ Restore(r) # "committed" => entry = ckpt.old
  BY <1>1 DEF Restore
<1> QED BY <1>2, <1>3, <1>4

LEMMA PrepareKeeps == ASSUME IInv, NEW r \in Requests, Prepare(r) PROVE IInv'
<1> USE DEF Prepare, fixed, table, volume, records
<1>1. CASE \E o : Stop(o)
  BY <1>1, StopKeeps DEF IInv, State
<1>2. CASE /\ ~Refused(r) \/ NothingToDo(r)
           /\ job' = Decision(r) /\ pc' = IF NothingToDo(r) THEN "close" ELSE "prepared"
  <2> DEFINE new == Target(r)
             committed == Restore(r) = "committed"
             base == IF committed THEN ckpt.old ELSE entry
  <2>1. UNCHANGED <<label, entry, others, copy, fs, ckpt, jnl>>
    BY <1>2
  <2>2. /\ job'.old = entry /\ job'.new = new /\ job'.committed = committed
        /\ job'.shrunk = ckpt.shrunk /\ job'.verb = r.verb
        /\ job'.act = IF new.len < base.len /\ ckpt.shrunk # "verified" THEN "shrink"
                      ELSE IF new.len > base.len /\ ~r.nofs THEN "grow" ELSE "leave"
        /\ {"shrunk", "old", "new", "committed", "act", "verb"} \subseteq DOMAIN job'
    BY <1>2 DEF Decision
  <2>3. IsSpan(new)
    BY TargetIsSpan DEF IInv
  <2> HIDE DEF new, committed, base
  <2>4. Lengths'
    BY <2>1, <2>2, <2>3 DEF IInv, Lengths, IsSpan
  <2>5. MbrUnrecorded' /\ ProvedShrink' /\ UndoFits' /\ FsFits'
    BY <2>1 DEF IInv, MbrUnrecorded, ProvedShrink, UndoFits, FsFits
  <2>6. CASE NothingToDo(r)
    <3>1. ckpt = NoCkpt /\ pc' = "close"
      BY <1>2, <2>6 DEF NothingToDo, Active
    <3>2. OneJob' /\ RunFits'
      BY <2>1, <3>1
         DEF OneJob, RunFits, InPlace, BeforeTable, Deciding, Moving, Growing, AfterTable
    <3> QED BY <2>4, <2>5, <3>2 DEF IInv
  <2>7. CASE ~NothingToDo(r) /\ r.verb = "copy"
    <3>1. ckpt = NoCkpt /\ pc' = "prepared"
      BY <1>2, <2>7 DEF Refused, Claimed, Active
    <3>2. OneJob' /\ RunFits'
      BY <2>1, <2>2, <2>7, <3>1
         DEF OneJob, RunFits, InPlace, BeforeTable, Deciding, Moving, Growing, AfterTable
    <3> QED BY <2>4, <2>5, <3>2 DEF IInv
  <2>8. CASE ~NothingToDo(r) /\ r.verb # "copy"
    <3>1. pc' = "prepared" /\ ~Refused(r)
      BY <1>2, <2>8
    <3>2. /\ jnl.state = "open" => ckpt # NoCkpt
          /\ ckpt = NoCkpt => ~committed
          /\ ckpt # NoCkpt =>
               ckpt.new = new /\ (IF committed THEN entry = ckpt.new ELSE entry = ckpt.old)
      BY <2>8, <3>1, Restored DEF Active, new, committed
    <3>3. IsSpan(base) /\ (committed => base = ckpt.old) /\ (~committed => base = entry)
      BY DEF IInv, Lengths, base
    <3>4. OneJob'
      BY <2>1, <2>2, <3>1, <3>2
         DEF IInv, Lengths, MbrUnrecorded, OneJob, InJob, InPlace, BeforeTable, Deciding, Moving,
             Growing, AfterTable
    <3>5. job'.act = "shrink" => job'.new.len <= entry.len /\ jnl.state # "open"
      BY <2>2, <2>3, <3>2, <3>3 DEF IInv, Lengths, IsSpan, UndoFits
    <3>6. job'.act # "shrink" => Sound'
      <4>1. ASSUME job'.act # "shrink" PROVE base.len <= new.len \/ ckpt.shrunk = "verified"
        BY <2>2, <2>3, <3>3, <4>1 DEF IsSpan
      <4>2. ckpt.shrunk = "verified" => ckpt # NoCkpt
        BY DEF NoCkpt
      <4>3. ASSUME job'.act # "shrink" PROVE fs <= new.len
        BY <2>3, <3>2, <3>3, <4>1, <4>2, <4>3
           DEF IInv, Lengths, IsSpan, ProvedShrink, FsFits
      <4> QED BY <2>1, <2>2, <3>2, <3>3, <4>1, <4>3 DEF IInv, UndoFits, Sound
    <3>7. RunFits'
      BY <2>1, <3>1, <3>5, <3>6 DEF RunFits, Deciding, Moving, Growing
    <3> QED BY <2>4, <2>5, <3>4, <3>7 DEF IInv
  <2> QED BY <2>6, <2>7, <2>8
<1> QED BY <1>1, <1>2

LEMMA InitHolds == Init => IInv
<1> SUFFICES ASSUME Init PROVE IInv
  OBVIOUS
<1>1. PICK s \in Situations :
        label = s.label /\ entry = s.entry /\ others = s.others /\ fs = s.fs
  BY DEF Init
<1>2. SituationOK(s)
  BY PartAssumption
<1>3. /\ label \in {"gpt", "mbr"} /\ IsSpan(entry) /\ others \subseteq Int
      /\ fs \in Int /\ fs <= entry.len
  BY <1>1, <1>2, PartAssumption DEF SituationOK, Ranges, IsSpan
<1>4. Lengths
  BY <1>3 DEF Init, Lengths, IsSpan, NoCkpt, NoJnl, NoJob, NoEntry, At
<1>5. MbrUnrecorded /\ ProvedShrink /\ UndoFits /\ FsFits
  BY <1>3 DEF Init, MbrUnrecorded, ProvedShrink, UndoFits, FsFits, NoCkpt, NoJnl
<1>6. OneJob /\ RunFits
  BY DEF Init, OneJob, RunFits, InJob, InPlace, BeforeTable, Deciding, Moving, Growing, AfterTable
<1> QED BY <1>4, <1>5, <1>6 DEF IInv

LEMMA StepKeeps == IInv /\ [Next]_vars => IInv'
<1> SUFFICES ASSUME IInv, [Next]_vars PROVE IInv'
  OBVIOUS
<1>1. CASE Run
  BY <1>1, PrepareKeeps, RecheckKeeps, ReadBackKeeps, ShrinkFsKeeps, SaveShrinkKeeps, CutKeeps,
     MoveBarrierKeeps, CopyKeeps, SaveProgressKeeps, CommitKeeps, HiddenSectorsKeeps, GrowKeeps,
     GrowFsKeeps, SettleKeeps, PvBarrierKeeps, PvResizeKeeps, LvExtendKeeps, CloseKeeps, DupKeeps
     DEF Run
<1>2. CASE Environment
  BY <1>2, UndoTableKeeps, UndoFilesKeeps, AbandonKeeps, DeathKeeps, ThirdPartyKeeps
     DEF Environment
<1>3. CASE UNCHANGED vars
  <2>1. UNCHANGED <<label, entry, others, copy, fs, ckpt, jnl, job, pc>>
    BY <1>3 DEF vars
  <2>2. State'
    BY <2>1, SameState DEF IInv, State
  <2>3. OneJob' /\ RunFits'
    BY <2>1 DEF IInv, OneJob, RunFits, InJob, InPlace, Sound
  <2> QED BY <2>2, <2>3 DEF State, IInv
<1> QED BY <1>1, <1>2, <1>3 DEF Next

(* The filesystem ends inside its partition in every reachable state: also *)
(* when a run dies between the shrink and the table, when a shrink cannot  *)
(* be proved, when a table change is undone, and when another run goes on. *)
THEOREM FilesystemFits == Spec => []FsFits
<1>1. Spec => []IInv
  BY InitHolds, StepKeeps, PTL DEF Spec
<1>2. IInv => FsFits
  BY DEF IInv
<1> QED BY <1>1, <1>2, PTL
-----------------------------------------------------------------------------
(***************************************************************************)
(* Content and neighbours.  The second invariant stands on the first; its  *)
(* parts are about the state between runs and about the run.               *)
(***************************************************************************)
(* A range of usable sectors.                                              *)
Proper(r) == r.start >= 1 /\ r.len >= 1 /\ Last(r) <= Usable

JobRecords ==
  [verb: {"part", "resize", "grow", "copy"}, old: Ranges, new: Ranges, base: Ranges,
   committed: BOOLEAN, shrunk: Shrunk, act: {"leave", "shrink", "grow"}, defer: BOOLEAN,
   growLv: BOOLEAN, facts: Facts, chunk: Nat \ {0}, seen: SUBSET Sectors]
CkptRecords ==
  [old: Ranges, new: Ranges, shrunk: Shrunk, done: Nat, chunk: Nat, facts: Facts]
JnlRecords == [state: {"none", "open", "barrier"}, entry: Ranges, others: SUBSET Sectors]
CopyRecords == [start: 0 .. DiskSize, len: 0 .. DiskSize, fs: 0 .. DiskSize]

TypedState ==
  /\ kind \in Kinds /\ lv \in Nat
  /\ entry \in Ranges /\ Proper(entry) /\ others \subseteq Sectors
  /\ copy \in CopyRecords /\ (copy.len > 0 => Proper(copy)) /\ copy.fs <= copy.len
  /\ fs >= 1 /\ disk \in [Sectors -> Int] /\ media \in [Sectors -> Int]
  /\ ckpt \in CkptRecords
  /\ ckpt # NoCkpt => Proper(ckpt.old) /\ Proper(ckpt.new) /\ ckpt.chunk >= 1
  /\ jnl \in JnlRecords /\ (jnl.state = "open" => Proper(jnl.entry))
TypedRun ==
  /\ job \in JobRecords /\ (InJob => Proper(job.old) /\ Proper(job.new))
  /\ at \in Nat /\ batch \in Nat \ {0}

(* The partition, other partitions and the copy share no sector, and a run *)
(* that is about to write has made sure of that for its new range.         *)
Dup == {"dupbarrier", "dup", "dupsync", "duphidden", "dupadd"}
Copying == pc \in Dup \/ (pc = "prepared" /\ job.verb = "copy")
Meets(s, r) == s \cap Covers(r) # {}
ApartState ==
  /\ ~Meets(others, entry) /\ ~Meets(Covers(copy), entry) /\ ~Meets(others, copy)
  /\ jnl.state = "open" => ~Meets(jnl.others, jnl.entry) /\ ~Meets(Covers(copy), jnl.entry)
ApartRun ==
  /\ InPlace \/ Copying => ~Meets(job.seen, job.new) /\ ~Meets(Covers(copy), job.new)
  /\ (pc \in Moving /\ label = "gpt") \/ pc \in Dup => others = job.seen
  /\ Copying => ~Meets(Covers(entry), job.new)

(* How far the copy is, against the record of it.                          *)
Moves(c) == c.old.start # c.new.start
Stepping == {"copy", "sync", "save"}
SameJob == ckpt # NoCkpt /\ ckpt.old = job.old /\ ckpt.new = job.new /\ ckpt.chunk = job.chunk
CountedState == ckpt.done > 0 => ckpt.shrunk = "verified" \/ ckpt.old.len <= ckpt.new.len
CountedRun ==
  /\ InPlace =>
       /\ batch <= BatchCap(job)
       /\ label = "mbr" => ~Moves(job)
       /\ ckpt = NoCkpt => jnl.state = "none"
       /\ ~job.committed /\ pc \notin Stepping \cup {"commit"} => at = ckpt.done
       /\ ~job.committed /\ ckpt # NoCkpt => SameJob
  /\ pc \in Deciding => job.act = "shrink"
  /\ pc \in Deciding \cup {"prepared"} /\ job.act = "shrink" => ckpt.done = 0
  /\ pc = "barrier" => Moves(job) /\ SameJob
  /\ pc \in Stepping =>
       /\ Moves(job) /\ SameJob /\ jnl.state = "barrier"
       /\ at >= ckpt.done
       /\ IF Overlaps(job) THEN at <= ckpt.done + 1 ELSE at - ckpt.done <= batch
  /\ pc = "copy" => /\ at < ChunkCount(job)
                    /\ IF Overlaps(job) THEN at = ckpt.done ELSE at - ckpt.done < batch
  /\ pc = "commit" /\ Moves(job) =>
       SameJob /\ ckpt.done >= ChunkCount(job) /\ jnl.state = "barrier"
  /\ pc = "close" => ckpt = NoCkpt
  /\ Copying =>
       /\ ckpt = NoCkpt /\ label = "gpt" /\ job.old = entry /\ job.new.len = entry.len
       /\ IF pc \in {"prepared", "dupbarrier"}
          THEN jnl.state = "none" /\ at = 0 ELSE jnl.state = "barrier"

(* A journal that can be undone is of a job that moves nothing.            *)
UndoState ==
  jnl.state = "open" =>
    /\ jnl.entry.start = entry.start
    /\ ckpt # NoCkpt => ~Moves(ckpt)
UndoRun ==
  /\ jnl.state = "open" /\ InJob => ~Moves(job)
  /\ pc = "undone" => jnl.state = "open"
  /\ pc = "undonefiles" => jnl.state = "none" /\ (ckpt # NoCkpt => ~Moves(ckpt))

(* Where the content is, given the entry e and the record c: what a half   *)
(* moved partition has counted as copied is at the new place.              *)
IsAt(kd, v, k) == IF kd = "ntfs" /\ k = 0 THEN v <= Boot(0) ELSE v = k
HalfMoved(e, c) == c # NoCkpt /\ Moves(c) /\ e = c.old
Counts(c, k) == \E n \in 0 .. c.done - 1 : k \in Offsets(c, n)
Spot(e, c, k) == IF HalfMoved(e, c) /\ Counts(c, k) THEN c.new.start + k ELSE e.start + k
Kept(kd, e, c, n, f) == \A k \in 0 .. n - 1 : IsAt(kd, f[Spot(e, c, k)], k)

(* Before a barrier no sector has another's content; a source not counted  *)
(* as copied has not either; and a sector of the source that reads as if   *)
(* it had never been overwritten has not been.                             *)
Own(kd, v, k) == v = Junk \/ (k >= 0 /\ IsAt(kd, v, k))
Clean(kd, e, taken, f) == \A s \in Sectors \ taken : Own(kd, f[s], s - e.start)
SourceOwn(kd, e, c, f) ==
  HalfMoved(e, c) =>
    \A k \in 0 .. CopyLen(c) - 1 : ~Counts(c, k) => Own(kd, f[e.start + k], k)
Agrees(kd, e, c, n, d, m) ==
  HalfMoved(e, c) =>
    \A k \in 0 .. n - 1 :
      Counts(c, k) /\ IsAt(kd, d[e.start + k], k) => IsAt(kd, m[e.start + k], k)
ContentKept ==
  /\ Kept(kind, entry, ckpt, fs, disk) /\ Kept(kind, entry, ckpt, fs, media)
  /\ jnl.state # "barrier" =>
       Clean(kind, entry, Taken, disk) /\ Clean(kind, entry, Taken, media)
  /\ SourceOwn(kind, entry, ckpt, disk) /\ SourceOwn(kind, entry, ckpt, media)
  /\ Agrees(kind, entry, ckpt, fs, disk, media)

(* What a running copy has written and not yet counted.                    *)
Arrived(kd, start, n, f, s) == \A k \in s : k < n => IsAt(kd, f[start + k], k)
Held(kd, start, k) == IF kd = "ntfs" /\ k = 0 THEN Boot(start) ELSE k
RunContent ==
  /\ pc \in Stepping => \A n \in ckpt.done .. at - 1 :
       Arrived(kind, job.new.start, fs, disk, Offsets(job, n))
  /\ pc = "save" => media = disk
  /\ pc \in {"dup", "dupsync", "duphidden"} => \A n \in 0 .. at - 1 :
       Arrived(kind, job.new.start, fs, disk, ChunkAt(job, n))
  /\ pc = "duphidden" => at >= ChunkCount(job)
  /\ pc = "dupadd" => \A k \in 0 .. fs - 1 : disk[job.new.start + k] = Held(kind, job.new.start, k)

(* What belongs to others.                                                 *)
AlienKept(o, f) == \A s \in o : f[s] = Alien
CopyKept(kd, c, f) == \A k \in 0 .. c.fs - 1 : f[c.start + k] = Held(kd, c.start, k)
OthersKept ==
  /\ AlienKept(others, disk) /\ AlienKept(others, media)
  /\ CopyKept(kind, copy, disk) /\ CopyKept(kind, copy, media)

StateOK == TypedState /\ ApartState /\ CountedState /\ UndoState /\ ContentKept /\ OthersKept
RunOK == TypedRun /\ ApartRun /\ CountedRun /\ UndoRun /\ RunContent
DataInv == IInv /\ StateOK /\ RunOK

-----------------------------------------------------------------------------
(* The chunks of a move.                                                   *)
GoodMove(j) ==
  /\ j.old.start \in Nat /\ j.new.start \in Nat
  /\ j.old.len \in Nat \ {0} /\ j.new.len \in Nat \ {0} /\ j.chunk \in Nat \ {0}

LEMMA Lengthwise ==
  ASSUME NEW j, GoodMove(j)
  PROVE  /\ Moved(j) \in Nat /\ (Moves(j) <=> Moved(j) # 0)
         /\ Forward(j) => j.new.start = j.old.start + Moved(j)
         /\ ~Forward(j) => j.new.start = j.old.start - Moved(j)
         /\ CopyLen(j) \in Nat \ {0} /\ CopyLen(j) <= j.old.len /\ CopyLen(j) <= j.new.len
         /\ j.old.len <= j.new.len => CopyLen(j) = j.old.len
         /\ j.new.len <= j.old.len => CopyLen(j) = j.new.len
         /\ ChunkLen(j) \in Nat \ {0}
         /\ Overlaps(j) => ChunkLen(j) <= Moved(j)
         /\ Overlaps(j) <=> Moved(j) # 0 /\ Moved(j) < j.old.len
BY DEF GoodMove, Moved, Moves, Forward, CopyLen, ChunkLen, Overlaps, Min2

LEMMA LaterMultiple ==
  ASSUME NEW l \in Nat \ {0}, NEW p \in Int, NEW q \in Int, p < q
  PROVE  p * l \in Int /\ q * l \in Int /\ (p + 1) * l \in Int /\ (p + 1) * l <= q * l
         /\ (p + 1) * l = p * l + l
<1>1. (q - (p + 1)) * l >= 0
  <2>1. q - (p + 1) \in Nat
    OBVIOUS
  <2> QED BY <2>1
<1>2. (q - (p + 1)) * l = q * l - (p + 1) * l
  OBVIOUS
<1>3. p * l \in Int /\ q * l \in Int /\ (p + 1) * l \in Int
  OBVIOUS
<1>4. (p + 1) * l = p * l + l
  OBVIOUS
<1> QED BY <1>1, <1>2, <1>3, <1>4

LEMMA InChunk ==
  ASSUME NEW j, GoodMove(j), NEW p \in Int, NEW k
  PROVE  k \in ChunkAt(j, p) <=>
           k \in Int /\ p * ChunkLen(j) <= k /\ k < (p + 1) * ChunkLen(j) /\ k < CopyLen(j)
<1>1. ChunkLen(j) \in Int /\ CopyLen(j) \in Int
  BY Lengthwise
<1>2. p * ChunkLen(j) \in Int /\ (p + 1) * ChunkLen(j) \in Int
  BY <1>1
<1> HIDE DEF CopyLen
<1> DEFINE a == p * ChunkLen(j)
           b == (p + 1) * ChunkLen(j)
<1>3. ChunkAt(j, p) = a .. Min2(b, CopyLen(j)) - 1
  BY DEF ChunkAt
<1>4. a \in Int /\ b \in Int
  BY <1>2
<1> HIDE DEF a, b
<1>5. k \in a .. Min2(b, CopyLen(j)) - 1 <=> k \in Int /\ a <= k /\ k < b /\ k < CopyLen(j)
  BY <1>1, <1>4 DEF Min2
<1> QED BY <1>3, <1>5 DEF a, b

(* Two chunks share no sector.                                             *)
LEMMA ChunksApart ==
  ASSUME NEW j, GoodMove(j), NEW p \in Int, NEW q \in Int, p # q,
         NEW k \in ChunkAt(j, p)
  PROVE  k \notin ChunkAt(j, q)
<1> DEFINE l == ChunkLen(j)
<1>1. l \in Nat \ {0}
  BY Lengthwise
<1>2. k \in Int /\ p * l <= k /\ k < (p + 1) * l
  BY InChunk
<1>3. ASSUME k \in ChunkAt(j, q) PROVE q * l <= k /\ k < (q + 1) * l
  BY <1>3, InChunk
<1> HIDE DEF l
<1>4. CASE p < q
  <2>1. (p + 1) * l <= q * l /\ (p + 1) * l \in Int /\ q * l \in Int
    BY <1>1, <1>4, LaterMultiple
  <2> QED BY <1>2, <1>3, <2>1
<1>5. CASE q < p
  <2>1. (q + 1) * l <= p * l /\ (q + 1) * l \in Int /\ p * l \in Int
    BY <1>1, <1>5, LaterMultiple
  <2> QED BY <1>2, <1>3, <2>1
<1> QED BY <1>4, <1>5

(* Rounding: the chunks cover what is copied, and the last is not empty.   *)
LEMMA Rounded ==
  ASSUME NEW n \in Nat, NEW l \in Nat \ {0}
  PROVE  LET c == (n + l - 1) \div l IN c \in Nat /\ n <= c * l /\ (n > 0 => c > 0)
<1> DEFINE c == (n + l - 1) \div l
           r == (n + l - 1) % l
<1>1. n + l - 1 \in Nat
  OBVIOUS
<1>2. n + l - 1 = l * c + r /\ r \in 0 .. l - 1 /\ c \in Int
  BY <1>1
<1> HIDE DEF c, r
<1>3. c * l = l * c /\ l * c \in Int
  BY <1>2
<1>4. n <= c * l
  BY <1>2, <1>3
<1>5. c >= 0
  <2>1. ASSUME c < 0 PROVE FALSE
    <3>1. c <= -1 /\ -1 - c \in Nat
      BY <1>2, <2>1
    <3>2. l * (-1 - c) \in Nat
      BY <3>1
    <3>3. l * (-1 - c) = -l - l * c
      BY <1>2
    <3> QED BY <1>2, <1>3, <3>2, <3>3
  <2> QED BY <1>2, <2>1
<1>6. n > 0 => c > 0
  <2>1. ASSUME c = 0 PROVE l * c = 0
    BY <2>1
  <2> QED BY <1>2, <1>3, <1>4, <1>5, <2>1
<1> QED BY <1>2, <1>4, <1>5, <1>6 DEF c

LEMMA Quotient ==
  ASSUME NEW k \in Nat, NEW l \in Nat \ {0}
  PROVE  \E q \in Nat : q * l <= k /\ k < (q + 1) * l
<1> DEFINE q == k \div l
           r == k % l
<1>1. k = l * q + r /\ r \in 0 .. l - 1 /\ q \in Int
  OBVIOUS
<1> HIDE DEF q, r
<1>2. q * l = l * q /\ (q + 1) * l = l * q + l /\ l * q \in Int
  BY <1>1
<1>3. q >= 0
  <2>1. ASSUME q < 0 PROVE FALSE
    <3>1. -1 - q \in Nat
      BY <1>1, <2>1
    <3>2. l * (-1 - q) \in Nat
      BY <3>1
    <3>3. l * (-1 - q) = -l - l * q
      BY <1>1
    <3> QED BY <1>1, <1>2, <3>2, <3>3
  <2> QED BY <1>1, <2>1
<1> QED BY <1>1, <1>2, <1>3

LEMMA CountFacts ==
  ASSUME NEW j, GoodMove(j)
  PROVE  ChunkCount(j) \in Nat /\ ChunkCount(j) > 0 /\ CopyLen(j) <= ChunkCount(j) * ChunkLen(j)
<1>1. CopyLen(j) \in Nat /\ CopyLen(j) > 0 /\ ChunkLen(j) \in Nat \ {0}
  BY Lengthwise
<1> QED BY <1>1, Rounded DEF ChunkCount

LEMMA ChunksCover ==
  ASSUME NEW j, GoodMove(j), NEW k \in 0 .. CopyLen(j) - 1
  PROVE  \E p \in 0 .. ChunkCount(j) - 1 : k \in ChunkAt(j, p)
<1> DEFINE l == ChunkLen(j)
           c == ChunkCount(j)
           n == CopyLen(j)
<1>1. l \in Nat \ {0} /\ n \in Nat /\ c \in Nat /\ n <= c * l
  BY Lengthwise, CountFacts
<1>2. k \in Nat /\ k < n
  BY <1>1
<1>3. PICK q \in Nat : q * l <= k /\ k < (q + 1) * l
  BY <1>1, <1>2, Quotient
<1>4. k \in ChunkAt(j, q)
  BY <1>2, <1>3, InChunk
<1> HIDE DEF l, c, n
<1>5. q < c
  <2>1. ASSUME c <= q PROVE FALSE
    <3>1. CASE c = q
      BY <1>1, <1>2, <1>3, <3>1
    <3>2. CASE c < q
      <4>1. (c + 1) * l <= q * l /\ (c + 1) * l = c * l + l /\ c * l \in Int /\ q * l \in Int
        BY <1>1, <3>2, LaterMultiple
      <4> QED BY <1>1, <1>2, <1>3, <4>1
    <3> QED BY <1>1, <2>1, <3>1, <3>2
  <2> QED BY <1>1, <2>1
<1>6. q \in 0 .. c - 1
  BY <1>1, <1>5
<1> QED BY <1>4, <1>6 DEF c

(* The same in the order of copying.                                       *)
Turn(j, n) == IF Forward(j) THEN ChunkCount(j) - 1 - n ELSE n

LEMMA TurnFacts ==
  ASSUME NEW j, GoodMove(j), NEW n \in Int
  PROVE  /\ Turn(j, n) \in Int /\ Offsets(j, n) = ChunkAt(j, Turn(j, n))
         /\ \A m \in Int : m # n => Turn(j, m) # Turn(j, n)
         /\ n \in 0 .. ChunkCount(j) - 1 <=> Turn(j, n) \in 0 .. ChunkCount(j) - 1
BY CountFacts DEF Turn, Offsets

LEMMA OffsetsApart ==
  ASSUME NEW j, GoodMove(j), NEW n \in Int, NEW m \in Int, n # m, NEW k \in Offsets(j, n)
  PROVE  k \notin Offsets(j, m)
BY TurnFacts, ChunksApart

LEMMA OffsetsCover ==
  ASSUME NEW j, GoodMove(j), NEW k \in 0 .. CopyLen(j) - 1
  PROVE  \E n \in 0 .. ChunkCount(j) - 1 : k \in Offsets(j, n)
<1>1. PICK p \in 0 .. ChunkCount(j) - 1 : k \in ChunkAt(j, p)
  BY ChunksCover
<1>2. ChunkCount(j) \in Nat
  BY CountFacts
<1>3. CASE Forward(j)
  <2>1. ChunkCount(j) - 1 - p \in 0 .. ChunkCount(j) - 1
    BY <1>2
  <2>2. Offsets(j, ChunkCount(j) - 1 - p) = ChunkAt(j, p)
    BY <1>2, <1>3 DEF Offsets
  <2> QED BY <1>1, <2>1, <2>2
<1>4. CASE ~Forward(j)
  BY <1>1, <1>4 DEF Offsets
<1> QED BY <1>3, <1>4

LEMMA OffsetsInside ==
  ASSUME NEW j, GoodMove(j), NEW n \in Nat, NEW k \in Offsets(j, n), k >= 0
  PROVE  k \in 0 .. CopyLen(j) - 1
<1>1. k \in ChunkAt(j, Turn(j, n)) /\ Turn(j, n) \in Int
  BY TurnFacts
<1> QED BY <1>1, InChunk, Lengthwise

LEMMA StepInside ==
  ASSUME NEW j, GoodMove(j), NEW n \in 0 .. ChunkCount(j) - 1, NEW k \in Offsets(j, n)
  PROVE  k \in 0 .. CopyLen(j) - 1
<1>1. /\ Turn(j, n) \in 0 .. ChunkCount(j) - 1 /\ k \in ChunkAt(j, Turn(j, n))
      /\ Turn(j, n) \in Int
  BY TurnFacts
<1>2. k \in Int /\ Turn(j, n) * ChunkLen(j) <= k /\ k < CopyLen(j)
  BY <1>1, InChunk
<1>3. Turn(j, n) \in Nat /\ ChunkLen(j) \in Nat
  BY <1>1, CountFacts, Lengthwise
<1>4. Turn(j, n) * ChunkLen(j) \in Nat
  BY <1>3
<1> QED BY <1>2, <1>4, Lengthwise

(* A chunk of a self-overlapping move never lands on a source that is not  *)
(* copied yet, itself included; any other move is clear of its source.     *)
LEMMA ChunkMisses ==
  ASSUME NEW j, GoodMove(j), Moves(j), NEW n \in 0 .. ChunkCount(j) - 1,
         NEW o \in Offsets(j, n), NEW k \in 0 .. CopyLen(j) - 1,
         Overlaps(j) => \A m \in 0 .. n - 1 : k \notin Offsets(j, m)
  PROVE  j.new.start + o # j.old.start + k
<1> DEFINE l == ChunkLen(j)
           c == ChunkCount(j)
           d == Moved(j)
<1>1. /\ l \in Nat \ {0} /\ d \in Nat \ {0} /\ c \in Nat
      /\ j.old.start \in Nat /\ j.new.start \in Nat /\ j.old.len \in Nat
      /\ Forward(j) => j.new.start = j.old.start + d
      /\ ~Forward(j) => j.new.start = j.old.start - d
      /\ Overlaps(j) => l <= d
      /\ ~Overlaps(j) => d >= j.old.len
      /\ CopyLen(j) <= j.old.len /\ CopyLen(j) \in Nat
  BY Lengthwise, CountFacts DEF GoodMove
<1>2. o \in 0 .. CopyLen(j) - 1
  BY StepInside
<1>3. CASE ~Overlaps(j)
  BY <1>1, <1>2, <1>3
<1>4. CASE Overlaps(j)
  <2>1. PICK m \in 0 .. c - 1 : k \in Offsets(j, m)
    BY OffsetsCover
  <2>2. m >= n
    BY <1>1, <1>4, <2>1
  <2>3. /\ Turn(j, m) \in Int /\ Turn(j, n) \in Int
        /\ Turn(j, m) * l <= k /\ k < (Turn(j, m) + 1) * l
        /\ Turn(j, n) * l <= o /\ o < (Turn(j, n) + 1) * l
    <3>1. m \in Int /\ n \in Int
      BY <1>1
    <3>2. /\ Turn(j, m) \in Int /\ Turn(j, n) \in Int
          /\ k \in ChunkAt(j, Turn(j, m)) /\ o \in ChunkAt(j, Turn(j, n))
      BY <2>1, <3>1, TurnFacts
    <3> QED BY <3>2, InChunk
  <2>4. /\ Forward(j) => Turn(j, m) <= Turn(j, n)
        /\ ~Forward(j) => Turn(j, m) >= Turn(j, n)
    BY <1>1, <2>2 DEF Turn
  <2> DEFINE p == Turn(j, m)
             q == Turn(j, n)
  <2> HIDE DEF p, q, l, c, d
  <2>5. /\ p \in Int /\ q \in Int /\ p * l <= k /\ k < (p + 1) * l /\ q * l <= o /\ o < (q + 1) * l
        /\ Forward(j) => p <= q
        /\ ~Forward(j) => p >= q
    BY <2>3, <2>4 DEF p, q, l
  <2>6. CASE p = q
    <3>1. (p + 1) * l = p * l + l /\ p * l \in Int
      BY <1>1, <2>5
    <3>2. k - o < l /\ o - k < l
      BY <1>1, <1>2, <2>5, <2>6, <3>1
    <3> QED BY <1>1, <1>2, <1>4, <3>2
  <2>7. CASE p < q
    <3>1. Forward(j) /\ (p + 1) * l <= q * l /\ (p + 1) * l \in Int /\ q * l \in Int
      BY <1>1, <2>5, <2>7, LaterMultiple
    <3>2. k < o
      BY <1>2, <2>5, <3>1
    <3> QED BY <1>1, <1>2, <3>1, <3>2
  <2>8. CASE p > q
    <3>1. ~Forward(j) /\ (q + 1) * l <= p * l /\ (q + 1) * l \in Int /\ p * l \in Int
      BY <1>1, <2>5, <2>8, LaterMultiple
    <3>2. o < k
      BY <1>2, <2>5, <3>1
    <3> QED BY <1>1, <1>2, <3>1, <3>2
  <2> QED BY <2>5, <2>6, <2>7, <2>8
<1> QED BY <1>3, <1>4

(* What a record counts as copied depends on its ranges and chunk only.    *)
LEMMA SameChunks ==
  ASSUME NEW i, NEW j, i.old = j.old, i.new = j.new, i.chunk = j.chunk
  PROVE  /\ ChunkLen(i) = ChunkLen(j) /\ ChunkCount(i) = ChunkCount(j) /\ CopyLen(i) = CopyLen(j)
         /\ Moves(i) <=> Moves(j)
         /\ \A n : Offsets(i, n) = Offsets(j, n)
<1>1. /\ Moved(i) = Moved(j) /\ CopyLen(i) = CopyLen(j)
      /\ Forward(i) <=> Forward(j)
      /\ Moves(i) <=> Moves(j)
  BY DEF Moved, CopyLen, Forward, Moves
<1>2. Overlaps(i) <=> Overlaps(j)
  BY <1>1 DEF Overlaps
<1>3. ChunkLen(i) = ChunkLen(j)
  BY <1>1, <1>2 DEF ChunkLen
<1>4. ChunkCount(i) = ChunkCount(j) /\ \A p : ChunkAt(i, p) = ChunkAt(j, p)
  BY <1>1, <1>3 DEF ChunkCount, ChunkAt
<1> QED BY <1>1, <1>3, <1>4 DEF Offsets

-----------------------------------------------------------------------------
(* The operators of the second invariant.                                  *)
LEMMA Sizes ==
  /\ DiskSize \in Nat /\ Usable \in Nat /\ Usable <= DiskSize /\ Sectors = 1 .. DiskSize
  /\ {MinFs, MaxCrashes, MaxFaults, MaxEdits} \subseteq Nat
  /\ {Extent, RedoWindow, MaxBatch} \subseteq Nat \ {0}
BY PartAssumption DEF Sectors

LEMMA IsIsAt == ASSUME NEW v, NEW k PROVE Is(v, k) <=> IsAt(kind, v, k)
BY DEF Is, IsAt

LEMMA IsAtFacts ==
  ASSUME NEW kd, NEW k \in Nat
  PROVE  /\ k >= 1 => IsAt(kd, k, k)
         /\ ~IsAt(kd, Junk, k)
         /\ \A h \in Nat : kd = "ntfs" => IsAt(kd, Boot(h), 0)
         /\ \A v \in Int, m \in Nat : IsAt(kd, v, k) /\ IsAt(kd, v, m) => k = m
         /\ \A v \in Int, m \in Nat : Own(kd, v, k) /\ IsAt(kd, v, m) => k = m
BY DEF IsAt, Junk, Boot, Own

LEMMA OwnIs ==
  ASSUME NEW kd, NEW k \in Nat, NEW m \in Nat, NEW v \in Int, Own(kd, v, k), IsAt(kd, v, m)
  PROVE  k = m
BY IsAtFacts

LEMMA ProperFacts ==
  ASSUME NEW r, r.start \in Nat, r.len \in Nat, Proper(r)
  PROVE  /\ Covers(r) \subseteq Sectors
         /\ \A k \in Int : 0 <= k /\ k < r.len => r.start + k \in Covers(r)
         /\ \A s \in Covers(r) : s - r.start \in 0 .. r.len - 1
<1> DEFINE a == r.start
           n == r.len
<1>1. a \in Nat /\ n \in Nat /\ a >= 1 /\ a + n - 1 <= DiskSize /\ DiskSize \in Nat
  <2>1. a + n - 1 <= Usable /\ a \in Nat /\ n \in Nat /\ a >= 1
    BY DEF Proper, Last
  <2> HIDE DEF a, n
  <2> QED BY <2>1, Sizes
<1>2. Covers(r) = a .. (a + n - 1)
  BY DEF Covers, Last
<1>3. Sectors = 1 .. DiskSize
  BY Sizes
<1> HIDE DEF a, n
<1>4. a .. (a + n - 1) \subseteq 1 .. DiskSize
  BY <1>1
<1>5. \A k \in Int : 0 <= k /\ k < n => a + k \in a .. (a + n - 1)
  BY <1>1
<1>6. \A s \in a .. (a + n - 1) : s - a \in 0 .. n - 1
  BY <1>1
<1> QED BY <1>2, <1>3, <1>4, <1>5, <1>6 DEF a, n

LEMMA RangeFacts ==
  ASSUME NEW r \in Ranges PROVE r.start \in Nat /\ r.len \in Nat
BY Sizes DEF Ranges

LEMMA StateFacts ==
  ASSUME TypedState
  PROVE  /\ entry.start \in Nat /\ entry.len \in Nat /\ Proper(entry)
         /\ copy.start \in Nat /\ copy.len \in Nat /\ copy.fs \in Nat
         /\ ckpt.done \in Nat /\ ckpt.chunk \in Nat /\ jnl.entry.start \in Nat
         /\ ckpt # NoCkpt => GoodMove(ckpt) /\ Proper(ckpt.old) /\ Proper(ckpt.new)
         /\ ckpt.old.start \in Nat /\ ckpt.old.len \in Nat
         /\ ckpt.new.start \in Nat /\ ckpt.new.len \in Nat
<1>1. entry \in Ranges /\ ckpt.old \in Ranges /\ ckpt.new \in Ranges /\ jnl.entry \in Ranges
  BY DEF TypedState, CkptRecords, JnlRecords
<1>2. /\ copy.start \in 0 .. DiskSize /\ copy.len \in 0 .. DiskSize /\ copy.fs \in 0 .. DiskSize
      /\ ckpt.done \in Nat /\ ckpt.chunk \in Nat
  BY DEF TypedState, CopyRecords, CkptRecords
<1>3. copy.start \in Nat /\ copy.len \in Nat /\ copy.fs \in Nat
  BY <1>2, Sizes
<1>4. /\ entry.start \in Nat /\ entry.len \in Nat /\ jnl.entry.start \in Nat
      /\ ckpt.old.start \in Nat /\ ckpt.old.len \in Nat
      /\ ckpt.new.start \in Nat /\ ckpt.new.len \in Nat
  BY <1>1, RangeFacts
<1>5. ckpt # NoCkpt => GoodMove(ckpt) /\ Proper(ckpt.old) /\ Proper(ckpt.new)
  <2>1. ckpt # NoCkpt => Proper(ckpt.old) /\ Proper(ckpt.new) /\ ckpt.chunk >= 1
    BY DEF TypedState
  <2> QED BY <1>2, <1>4, <2>1 DEF GoodMove, Proper
<1>6. Proper(entry)
  BY DEF TypedState
<1> QED BY <1>2, <1>3, <1>4, <1>5, <1>6

LEMMA RunFacts ==
  ASSUME TypedRun, InJob
  PROVE  /\ GoodMove(job) /\ Proper(job.old) /\ Proper(job.new)
         /\ job.old.start \in Nat /\ job.old.len \in Nat
         /\ job.new.start \in Nat /\ job.new.len \in Nat /\ job.chunk \in Nat \ {0}
<1>1. /\ job.old \in Ranges /\ job.new \in Ranges /\ job.chunk \in Nat \ {0}
      /\ Proper(job.old) /\ Proper(job.new)
  BY DEF TypedRun, JobRecords
<1>2. /\ job.old.start \in Nat /\ job.old.len \in Nat
      /\ job.new.start \in Nat /\ job.new.len \in Nat
  BY <1>1, RangeFacts
<1> QED BY <1>1, <1>2 DEF GoodMove, Proper

(* Room: the filesystem is inside the entry, which is no other's.          *)
LEMMA EntrySectors ==
  ASSUME TypedState, ApartState, NEW k \in Int, 0 <= k, k < entry.len
  PROVE  entry.start + k \in Sectors \ Taken /\ entry.start + k \in Covers(entry)
<1>1. entry.start + k \in Covers(entry) /\ Covers(entry) \subseteq Sectors
  BY StateFacts, ProperFacts
<1>2. entry.start + k \notin others /\ entry.start + k \notin Covers(copy)
  BY <1>1 DEF ApartState, Meets
<1> QED BY <1>1, <1>2 DEF Taken

LEMMA TakenSectors ==
  ASSUME TypedState PROVE Taken \subseteq Sectors
<1>1. others \subseteq Sectors
  BY DEF TypedState
<1>2. Covers(copy) \subseteq Sectors
  <2>1. CASE copy.len > 0
    <3>1. Proper(copy)
      BY <2>1 DEF TypedState
    <3> QED BY <3>1, StateFacts, ProperFacts
  <2>2. CASE copy.len = 0
    <3>1. Covers(copy) = {}
      BY <2>2, StateFacts DEF Covers, Last
    <3> QED BY <3>1
  <2> QED BY <2>1, <2>2, StateFacts
<1> QED BY <1>1, <1>2 DEF Taken

LEMMA CopySectors ==
  ASSUME TypedState, NEW k \in 0 .. copy.fs - 1
  PROVE  copy.start + k \in Covers(copy) /\ copy.start + k \in Taken
<1>1. /\ copy.fs <= copy.len /\ copy.start \in Nat /\ copy.len \in Nat /\ copy.fs \in Nat
  BY StateFacts DEF TypedState
<1>2. copy.start + k \in Covers(copy)
  BY <1>1 DEF Covers, Last
<1> QED BY <1>2 DEF Taken

(* Where the property looks is where the invariant says.                   *)
LEMMA PlaceIsSpot ==
  ASSUME TypedState, NEW k PROVE Place(k) = Spot(entry, ckpt, k)
<1>1. CASE HalfMoved(entry, ckpt)
  <2>1. ckpt # NoCkpt /\ entry = ckpt.old /\ ckpt.new.start # ckpt.old.start
    BY <1>1 DEF HalfMoved, Moves
  <2>2. Recorded.old = ckpt.old /\ Recorded.new = ckpt.new /\ Recorded.chunk = ckpt.chunk
    <3>1. ckpt.chunk \in Nat /\ ckpt.chunk >= 1 /\ ckpt \in CkptRecords
      BY <2>1 DEF TypedState, CkptRecords
    <3> QED BY <3>1 DEF Recorded, CkptRecords, Max2
  <2>3. \A n : Offsets(Recorded, n) = Offsets(ckpt, n)
    BY <2>2, SameChunks
  <2>4. CopiedOffsets = UNION { Offsets(Recorded, n) : n \in 0 .. ckpt.done - 1 }
    BY <2>1 DEF CopiedOffsets
  <2>5. k \in CopiedOffsets <=> Counts(ckpt, k)
    BY <2>3, <2>4 DEF Counts
  <2> QED BY <1>1, <2>5 DEF Place, Spot
<1>2. CASE ~HalfMoved(entry, ckpt)
  <2>1. CopiedOffsets = {}
    BY <1>2 DEF HalfMoved, Moves, CopiedOffsets
  <2> QED BY <1>2, <2>1 DEF Place, Spot
<1> QED BY <1>1, <1>2

(* What is counted as copied is in the new range.                          *)
LEMMA CountedInside ==
  ASSUME TypedState, ckpt # NoCkpt, NEW k \in Nat, Counts(ckpt, k)
  PROVE  k \in 0 .. CopyLen(ckpt) - 1 /\ ckpt.new.start + k \in Covers(ckpt.new)
         /\ ckpt.new.start + k \in Sectors
<1>1. GoodMove(ckpt) /\ Proper(ckpt.new) /\ ckpt.new.start \in Nat /\ ckpt.new.len \in Nat
  BY StateFacts
<1>2. PICK n \in 0 .. ckpt.done - 1 : k \in Offsets(ckpt, n)
  BY DEF Counts
<1>3. n \in Nat
  BY StateFacts
<1>4. k \in 0 .. CopyLen(ckpt) - 1
  BY <1>1, <1>2, <1>3, OffsetsInside
<1>5. k < ckpt.new.len
  BY <1>1, <1>4, Lengthwise
<1> QED BY <1>1, <1>4, <1>5, ProperFacts

(* All spots are on the disk.                                              *)
LEMMA SpotSectors ==
  ASSUME TypedState, ApartState, FsFits, fs \in Int, NEW k \in 0 .. fs - 1
  PROVE  Spot(entry, ckpt, k) \in Sectors /\ k \in Nat /\ k < entry.len
<1>1. k \in Nat /\ k < entry.len
  BY StateFacts DEF FsFits
<1>2. entry.start + k \in Sectors
  BY <1>1, EntrySectors
<1>3. CASE HalfMoved(entry, ckpt) /\ Counts(ckpt, k)
  BY <1>1, <1>3, CountedInside DEF HalfMoved, Spot
<1> QED BY <1>1, <1>2, <1>3 DEF Spot

-----------------------------------------------------------------------------
(* How steps of one kind keep the state.                                   *)
LEMMA StateSame ==
  ASSUME StateOK, UNCHANGED <<kind, entry, others, copy, fs, disk, media, ckpt, jnl>>,
         lv' \in Nat
  PROVE  StateOK'
<1>1. TypedState' /\ ApartState' /\ CountedState' /\ UndoState'
  BY DEF StateOK, TypedState, ApartState, CountedState, UndoState
<1>2. UNCHANGED Taken
  BY DEF Taken
<1>3. ContentKept' /\ OthersKept'
  BY <1>2 DEF StateOK, ContentKept, OthersKept
<1> QED BY <1>1, <1>3 DEF StateOK

LEMMA JournalBarred ==
  ASSUME StateOK, UNCHANGED <<kind, entry, others, copy, fs, disk, media, ckpt, lv>>,
         jnl' = Barred
  PROVE  StateOK' /\ jnl'.state = "barrier"
<1>1. jnl \in JnlRecords
  BY DEF StateOK, TypedState
<1>2. jnl' \in JnlRecords /\ jnl'.state = "barrier"
  BY <1>1 DEF Barred, JnlRecords
<1>3. TypedState' /\ ApartState' /\ CountedState' /\ UndoState'
  BY <1>2 DEF StateOK, TypedState, ApartState, CountedState, UndoState
<1>4. ContentKept' /\ OthersKept'
  BY <1>2 DEF StateOK, ContentKept, OthersKept
<1> QED BY <1>2, <1>3, <1>4 DEF StateOK

LEMMA CkptGone ==
  ASSUME StateOK, UNCHANGED <<kind, entry, others, copy, fs, disk, media, jnl, lv>>,
         ckpt' = NoCkpt, ~HalfMoved(entry, ckpt)
  PROVE  StateOK'
<1>1. NoCkpt \in CkptRecords /\ NoCkpt.done = 0
  BY Sizes DEF NoCkpt, CkptRecords, NoEntry, At, Ranges, Shrunk, NoFacts, FactsOf, Facts
<1>2. TypedState' /\ ApartState' /\ CountedState' /\ UndoState'
  BY <1>1 DEF StateOK, TypedState, ApartState, CountedState, UndoState
<1>3. ~HalfMoved(entry, NoCkpt) /\ \A k : Spot(entry, NoCkpt, k) = Spot(entry, ckpt, k)
  BY DEF HalfMoved, Spot
<1>4. UNCHANGED Taken
  BY DEF Taken
<1>5. ContentKept'
  BY <1>3, <1>4 DEF StateOK, ContentKept, Kept, SourceOwn, Agrees
<1>6. OthersKept'
  BY DEF StateOK, OthersKept
<1> QED BY <1>2, <1>5, <1>6 DEF StateOK

LEMMA JournalGone ==
  ASSUME StateOK, UNCHANGED <<kind, entry, others, copy, fs, disk, media, ckpt, lv>>,
         jnl' = NoJnl, jnl.state # "barrier"
  PROVE  StateOK'
<1>1. NoJnl \in JnlRecords /\ NoJnl.state = "none"
  BY Sizes DEF NoJnl, JnlRecords, NoEntry, At, Ranges
<1>2. TypedState' /\ ApartState' /\ CountedState' /\ UndoState'
  BY <1>1 DEF StateOK, TypedState, ApartState, CountedState, UndoState
<1>3. UNCHANGED Taken
  BY DEF Taken
<1>4. ContentKept' /\ OthersKept'
  BY <1>3 DEF StateOK, ContentKept, OthersKept
<1> QED BY <1>2, <1>4 DEF StateOK

(* Writes that spare the sectors of others.                                *)
LEMMA OthersFramed ==
  ASSUME TypedState, OthersKept, UNCHANGED <<kind, others, copy>>,
         \A s \in Taken : /\ disk'[s] \in {disk[s], media[s]}
                          /\ media'[s] \in {disk[s], media[s]}
  PROVE  OthersKept'
<1>1. AlienKept(others, disk)' /\ AlienKept(others, media)'
  BY DEF OthersKept, AlienKept, Taken
<1>2. CopyKept(kind, copy, disk)' /\ CopyKept(kind, copy, media)'
  BY CopySectors DEF OthersKept, CopyKept
<1> QED BY <1>1, <1>2 DEF OthersKept

(* Content that is all in the entry.                                       *)
Plain == HalfMoved(entry, ckpt) => ckpt.done = 0

LEMMA NothingCounted ==
  ASSUME NEW c, c.done = 0, NEW k PROVE ~Counts(c, k)
BY DEF Counts

LEMMA PlainSpots ==
  ASSUME Plain, NEW k PROVE Spot(entry, ckpt, k) = entry.start + k
BY NothingCounted DEF Plain, Spot

LEMMA PlainContent ==
  ASSUME Plain, ContentKept, NEW k \in 0 .. fs - 1
  PROVE  IsAt(kind, disk[entry.start + k], k) /\ IsAt(kind, media[entry.start + k], k)
BY PlainSpots DEF ContentKept, Kept

LEMMA WholeContent ==
  ASSUME ~HalfMoved(entry, ckpt)',
         \A k \in 0 .. fs' - 1 : /\ IsAt(kind', disk'[entry'.start + k], k)
                                 /\ IsAt(kind', media'[entry'.start + k], k),
         jnl'.state # "barrier" =>
           Clean(kind, entry, Taken, disk)' /\ Clean(kind, entry, Taken, media)'
  PROVE  ContentKept'
<1>1. SourceOwn(kind, entry, ckpt, disk)' /\ SourceOwn(kind, entry, ckpt, media)'
  BY DEF SourceOwn
<1>2. Agrees(kind, entry, ckpt, fs, disk, media)'
  BY DEF Agrees
<1>3. \A k : Spot(entry', ckpt', k) = entry'.start + k
  BY DEF Spot
<1>4. Kept(kind, entry, ckpt, fs, disk)' /\ Kept(kind, entry, ckpt, fs, media)'
  BY <1>3 DEF Kept
<1> QED BY <1>1, <1>2, <1>4 DEF ContentKept

(* A tool writes what it adds to the filesystem, in place.                 *)
LEMMA ToolWrites ==
  ASSUME TypedState, ApartState, NEW f \in [Sectors -> Int], NEW n \in Nat, n <= entry.len,
         fs \in Nat
  PROVE  /\ Written(f, n) \in [Sectors -> Int]
         /\ \A s \in Sectors :
              \/ Written(f, n)[s] = f[s]
              \/ /\ s \in Covers(entry) /\ Written(f, n)[s] = s - entry.start
                 /\ s - entry.start >= 1
         /\ \A k \in 0 .. n - 1 :
              IF k < fs THEN Written(f, n)[entry.start + k] = f[entry.start + k]
                        ELSE Written(f, n)[entry.start + k] = k
<1> DEFINE w == Written(f, n)
<1>1. /\ entry.start \in Nat /\ entry.len \in Nat /\ fs >= 1 /\ Sectors \subseteq Int
  BY StateFacts, Sizes DEF TypedState
<1>2. \A s \in Sectors : w[s] = IF s - entry.start \in fs .. n - 1 THEN s - entry.start ELSE f[s]
  BY DEF Written
<1>3. w \in [Sectors -> Int]
  BY <1>1 DEF Written
<1> HIDE DEF w
<1>4. ASSUME NEW s \in Sectors
      PROVE  \/ w[s] = f[s]
             \/ s \in Covers(entry) /\ w[s] = s - entry.start /\ s - entry.start >= 1
  <2>1. CASE s - entry.start \in fs .. n - 1
    <3>1. s - entry.start >= 1 /\ s - entry.start < entry.len /\ s \in Int
      BY <1>1, <2>1
    <3>2. s \in Covers(entry)
      BY <1>1, <3>1 DEF Covers, Last
    <3> QED BY <1>2, <2>1, <3>1, <3>2
  <2> QED BY <1>2, <2>1
<1>5. ASSUME NEW k \in 0 .. n - 1
      PROVE  IF k < fs THEN w[entry.start + k] = f[entry.start + k] ELSE w[entry.start + k] = k
  <2>1. k \in Int /\ 0 <= k /\ k < entry.len
    BY <1>1
  <2>2. entry.start + k \in Sectors
    BY <2>1, EntrySectors
  <2>3. (entry.start + k) - entry.start = k
    BY <1>1, <2>1
  <2>4. k < fs <=> k \notin fs .. n - 1
    BY <1>1, <2>1
  <2> QED BY <1>2, <2>2, <2>3, <2>4
<1> QED BY <1>3, <1>4, <1>5 DEF w

LEMMA ToolKeeps ==
  ASSUME StateOK, Plain, FsFits, fs \in Nat, NEW n \in Nat, 1 <= n, n <= entry.len, FsTo(n),
         UNCHANGED <<kind, entry, others, copy, ckpt, jnl, lv>>
  PROVE  StateOK'
<1>1. TypedState /\ ApartState /\ ContentKept
  BY DEF StateOK
<1>2. /\ fs' = n /\ disk' = Written(disk, n) /\ media' = Written(media, n)
      /\ disk \in [Sectors -> Int] /\ media \in [Sectors -> Int]
  BY <1>1 DEF FsTo, TypedState
<1>3. ASSUME NEW f \in [Sectors -> Int], Kept(kind, entry, ckpt, fs, f)
      PROVE  /\ Written(f, n) \in [Sectors -> Int]
             /\ \A s \in Taken : Written(f, n)[s] = f[s]
             /\ \A k \in 0 .. n - 1 : IsAt(kind, Written(f, n)[entry.start + k], k)
             /\ \A s \in Sectors : \/ Written(f, n)[s] = f[s]
                                   \/ Own(kind, Written(f, n)[s], s - entry.start)
  <2>1. \A s \in Taken : s \notin Covers(entry) /\ s \in Sectors
    BY <1>1, TakenSectors DEF ApartState, Meets, Taken
  <2>2. ASSUME NEW k \in 0 .. n - 1 PROVE IsAt(kind, Written(f, n)[entry.start + k], k)
    <3>1. CASE k < fs
      <4>1. IsAt(kind, f[entry.start + k], k)
        BY <1>3, <3>1, PlainSpots DEF Kept
      <4> QED BY <1>1, <1>3, <3>1, <4>1, ToolWrites
    <3>2. CASE ~(k < fs)
      <4>1. k >= 1 /\ k \in Nat
        BY <1>1, <3>2 DEF TypedState
      <4>2. IsAt(kind, k, k)
        BY <4>1, IsAtFacts
      <4> QED BY <1>1, <1>3, <3>2, <4>2, ToolWrites
    <3> QED BY <3>1, <3>2
  <2>3. ASSUME NEW s \in Sectors, Written(f, n)[s] # f[s]
        PROVE  Own(kind, Written(f, n)[s], s - entry.start)
    <3>1. Written(f, n)[s] = s - entry.start /\ s - entry.start >= 1
      BY <1>1, <1>3, <2>3, ToolWrites
    <3>2. s - entry.start \in Nat
      <4>1. s \in Int /\ entry.start \in Nat
        BY <1>1, <2>3, Sizes, StateFacts
      <4>2. \A d \in Int : d >= 1 => d \in Nat
        OBVIOUS
      <4> QED BY <3>1, <4>1, <4>2
    <3> QED BY <3>1, <3>2, IsAtFacts DEF Own
  <2>4. Written(f, n) \in [Sectors -> Int]
    BY <1>1, <1>3, ToolWrites
  <2>5. \A s \in Taken : Written(f, n)[s] = f[s]
    BY <1>1, <1>3, <2>1, ToolWrites
  <2> QED BY <2>2, <2>3, <2>4, <2>5
<1>4. Kept(kind, entry, ckpt, fs, disk) /\ Kept(kind, entry, ckpt, fs, media)
  BY <1>1 DEF ContentKept
<1>5. TypedState'
  BY <1>1, <1>2, <1>3, <1>4 DEF TypedState
<1>6. ApartState' /\ CountedState' /\ UndoState'
  BY DEF StateOK, ApartState, CountedState, UndoState
<1>7. OthersKept'
  <2>1. \A s \in Taken : disk'[s] = disk[s] /\ media'[s] = media[s]
    BY <1>2, <1>3, <1>4
  <2> QED BY <1>1, <2>1, OthersFramed DEF StateOK
<1>8. ContentKept'
  <2>1. \A k : Spot(entry, ckpt, k)' = entry.start + k
    BY PlainSpots
  <2>2. Kept(kind, entry, ckpt, fs, disk)' /\ Kept(kind, entry, ckpt, fs, media)'
    BY <1>2, <1>3, <1>4, <2>1 DEF Kept
  <2>3. jnl'.state # "barrier" =>
          Clean(kind, entry, Taken, disk)' /\ Clean(kind, entry, Taken, media)'
    <3>1. UNCHANGED Taken
      BY DEF Taken
    <3>2. \A s \in Sectors : disk'[s] = disk[s] \/ Own(kind, disk'[s], s - entry.start)
      BY <1>2, <1>3, <1>4
    <3>3. \A s \in Sectors : media'[s] = media[s] \/ Own(kind, media'[s], s - entry.start)
      BY <1>2, <1>3, <1>4
    <3> QED BY <1>1, <3>1, <3>2, <3>3 DEF ContentKept, Clean
  <2>4. SourceOwn(kind, entry, ckpt, disk)' /\ SourceOwn(kind, entry, ckpt, media)'
    <3>1. ASSUME HalfMoved(entry, ckpt), NEW k \in 0 .. CopyLen(ckpt) - 1
          PROVE  /\ entry.start + k \in Sectors /\ (entry.start + k) - entry.start = k
                 /\ ~Counts(ckpt, k)
      <4>1. ckpt # NoCkpt /\ entry = ckpt.old /\ ckpt.done = 0
        BY <3>1 DEF HalfMoved, Plain
      <4>2. GoodMove(ckpt)
        BY <1>1, <4>1, StateFacts
      <4>3. CopyLen(ckpt) \in Nat /\ CopyLen(ckpt) <= entry.len
        BY <4>1, <4>2, Lengthwise
      <4>4. k \in Int /\ 0 <= k /\ k < entry.len /\ entry.len \in Nat /\ entry.start \in Nat
        BY <1>1, <4>3, StateFacts
      <4> QED BY <1>1, <4>1, <4>4, EntrySectors, NothingCounted
    <3>2. ASSUME HalfMoved(entry, ckpt), NEW k \in 0 .. CopyLen(ckpt) - 1
          PROVE  /\ Own(kind, disk[entry.start + k], k) /\ Own(kind, media[entry.start + k], k)
      BY <1>1, <3>1, <3>2 DEF ContentKept, SourceOwn
    <3>3. ASSUME HalfMoved(entry, ckpt), NEW k \in 0 .. CopyLen(ckpt) - 1
          PROVE  /\ Own(kind, disk'[entry.start + k], k) /\ Own(kind, media'[entry.start + k], k)
      BY <1>2, <1>3, <1>4, <3>1, <3>2, <3>3
    <3> QED BY <3>3 DEF SourceOwn
  <2>5. Agrees(kind, entry, ckpt, fs, disk, media)'
    BY NothingCounted DEF Agrees, Plain
  <2> QED BY <2>2, <2>3, <2>4, <2>5 DEF ContentKept
<1> QED BY <1>5, <1>6, <1>7, <1>8 DEF StateOK

-----------------------------------------------------------------------------
(* How steps of one kind keep the run.                                     *)
LEMMA EmptyRecords ==
  /\ NoEntry \in Ranges /\ NoFacts \in Facts /\ NoJob \in JobRecords
  /\ NoCkpt \in CkptRecords /\ NoCkpt.done = 0 /\ NoJnl \in JnlRecords /\ NoJnl.state = "none"
<1>1. NoEntry \in Ranges
  BY Sizes DEF NoEntry, At, Ranges
<1>2. NoFacts \in Facts
  BY DEF NoFacts, FactsOf, Facts
<1>3. NoJob \in JobRecords
  BY <1>1, <1>2 DEF NoJob, JobRecords, Shrunk
<1>4. NoCkpt \in CkptRecords /\ NoCkpt.done = 0
  BY <1>1, <1>2 DEF NoCkpt, CkptRecords, Shrunk
<1>5. NoJnl \in JnlRecords /\ NoJnl.state = "none"
  BY <1>1 DEF NoJnl, JnlRecords
<1> QED BY <1>1, <1>2, <1>3, <1>4, <1>5

LEMMA AtRestRun ==
  ASSUME pc' = "down", job' \in JobRecords, at' \in Nat, batch' \in Nat \ {0}
  PROVE  RunOK'
<1>1. TypedRun'
  BY DEF TypedRun, InJob
<1>2. ApartRun' /\ CountedRun' /\ UndoRun'
  BY DEF ApartRun, CountedRun, UndoRun, InJob, InPlace, BeforeTable, Deciding, Moving, Stepping,
         Copying, Dup
<1>3. RunContent'
  BY DEF RunContent, Stepping
<1> QED BY <1>1, <1>2, <1>3 DEF RunOK

LEMMA StoppedRun == ASSUME NEW o, Stop(o) PROVE RunOK'
BY EmptyRecords, AtRestRun DEF Stop, Forget

(* Behind the table the run owes its invariant little.                     *)
LEMMA BehindTable ==
  ASSUME TypedRun, InJob, pc' \in AfterTable \cup {"close"}, pc' = "close" => ckpt' = NoCkpt,
         UNCHANGED <<job, at, batch>>, jnl'.state = "open" => ~Moves(job)
  PROVE  RunOK'
<1>1. TypedRun'
  BY DEF TypedRun
<1>2. ApartRun'
  BY DEF ApartRun, InPlace, BeforeTable, Deciding, Moving, Copying, Dup, AfterTable, Growing
<1>3. CountedRun'
  BY DEF CountedRun, InPlace, BeforeTable, Deciding, Moving, Stepping, Copying, Dup,
         AfterTable, Growing
<1>4. UndoRun'
  BY DEF UndoRun, AfterTable, Growing
<1>5. RunContent'
  BY DEF RunContent, Stepping, AfterTable, Growing
<1> QED BY <1>1, <1>2, <1>3, <1>4, <1>5 DEF RunOK

(* With the entry written nothing is counted any more.                     *)
LEMMA NotHalfMoved ==
  ASSUME IInv, pc \in AfterTable PROVE ~HalfMoved(entry, ckpt) /\ InJob
<1>1. InJob
  BY DEF InJob, AfterTable, Growing
<1>2. entry = job.new /\ (ckpt = NoCkpt \/ ckpt.new = job.new)
  BY <1>1 DEF IInv, OneJob
<1> QED BY <1>1, <1>2 DEF HalfMoved, Moves

(* A fresh record of the job that runs.                                    *)
LEMMA RecordFacts ==
  ASSUME TypedRun, InJob
  PROVE  /\ Record(job) \in CkptRecords /\ Record(job) # NoCkpt
         /\ Record(job).old = job.old /\ Record(job).new = job.new
         /\ Record(job).chunk = job.chunk /\ Record(job).done = at
         /\ Record(job).shrunk = job.shrunk
<1>1. /\ job \in JobRecords /\ at \in Nat /\ Proper(job.old)
  BY DEF TypedRun
<1>2. /\ job.old \in Ranges /\ job.new \in Ranges /\ job.shrunk \in Shrunk
      /\ job.chunk \in Nat \ {0} /\ job.facts \in Facts
  BY <1>1 DEF JobRecords
<1>3. /\ Record(job).old = job.old /\ Record(job).new = job.new
      /\ Record(job).chunk = job.chunk /\ Record(job).done = at
      /\ Record(job).shrunk = job.shrunk
  BY DEF Record
<1>4. Record(job) \in CkptRecords
  BY <1>1, <1>2 DEF Record, CkptRecords
<1>5. Record(job) # NoCkpt
  BY <1>2, <1>3 DEF NoCkpt
<1> QED BY <1>3, <1>4, <1>5

LEMMA CountsSame ==
  ASSUME NEW c, NEW d, c.old = d.old, c.new = d.new, c.chunk = d.chunk, c.done = d.done, NEW k
  PROVE  Counts(c, k) <=> Counts(d, k)
BY SameChunks DEF Counts

(* A record that counts no more than the one before, and no less.          *)
LEMMA CkptSaved ==
  ASSUME StateOK, TypedRun, InJob, ckpt' = Record(job), job.old = entry,
         UNCHANGED <<kind, entry, others, copy, fs, disk, media, jnl, lv>>,
         ~Moves(job) => ~HalfMoved(entry, ckpt),
         Moves(job) => at = ckpt.done /\ (SameJob \/ (ckpt = NoCkpt /\ jnl.state # "barrier")),
         fs \in Nat, fs <= entry.len,
         CountedState', jnl.state = "open" => ~Moves(job)
  PROVE  StateOK'
<1>1. /\ ckpt' \in CkptRecords /\ ckpt' # NoCkpt /\ ckpt'.old = job.old /\ ckpt'.new = job.new
      /\ ckpt'.chunk = job.chunk /\ ckpt'.done = at
  BY RecordFacts
<1>2. GoodMove(job) /\ Proper(job.old) /\ Proper(job.new) /\ job.chunk \in Nat \ {0}
  BY RunFacts
<1>3. TypedState'
  BY <1>1, <1>2 DEF StateOK, TypedState
<1>4. Moves(ckpt') <=> Moves(job)
  BY <1>1 DEF Moves
<1>5. ApartState' /\ UndoState' /\ OthersKept'
  BY <1>1, <1>4 DEF StateOK, ApartState, UndoState, OthersKept
<1>6. UNCHANGED Taken
  BY DEF Taken
<1>7. ContentKept'
  <2>1. CASE ~Moves(job)
    <3>1. ~HalfMoved(entry, ckpt)' /\ ~HalfMoved(entry, ckpt)
      BY <1>4, <2>1 DEF HalfMoved
    <3>2. Plain
      BY <3>1 DEF Plain
    <3>3. \A k \in 0 .. fs - 1 : /\ IsAt(kind, disk[entry.start + k], k)
                                 /\ IsAt(kind, media[entry.start + k], k)
      BY <3>2, PlainContent DEF StateOK
    <3>4. jnl.state # "barrier" =>
            Clean(kind, entry, Taken, disk) /\ Clean(kind, entry, Taken, media)
      BY DEF StateOK, ContentKept
    <3> QED BY <1>6, <3>1, <3>3, <3>4, WholeContent
  <2>2. CASE Moves(job) /\ SameJob
    <3>1. /\ ckpt # NoCkpt /\ ckpt.old = job.old /\ ckpt.new = job.new /\ ckpt.chunk = job.chunk
          /\ ckpt.done = at
      BY <2>2 DEF SameJob
    <3>2. (HalfMoved(entry, ckpt') <=> HalfMoved(entry, ckpt)) /\ CopyLen(ckpt') = CopyLen(ckpt)
      BY <1>1, <3>1 DEF HalfMoved, Moves, CopyLen
    <3>3. \A k : Counts(ckpt', k) <=> Counts(ckpt, k)
      BY <1>1, <3>1, CountsSame
    <3>4. \A k : Spot(entry, ckpt', k) = Spot(entry, ckpt, k)
      BY <1>1, <3>1, <3>2, <3>3 DEF Spot
    <3> QED BY <1>6, <3>2, <3>3, <3>4 DEF StateOK, ContentKept, Kept, SourceOwn, Agrees
  <2>3. CASE Moves(job) /\ ckpt = NoCkpt /\ jnl.state # "barrier"
    <3>1. ckpt'.done = 0 /\ ckpt.done = 0
      BY <1>1, <2>3, EmptyRecords
    <3>2. \A k : ~Counts(ckpt', k)
      BY <3>1, NothingCounted
    <3>3. ~HalfMoved(entry, ckpt) /\ \A k : Spot(entry, ckpt', k) = Spot(entry, ckpt, k)
      BY <2>3, <3>2 DEF HalfMoved, Spot
    <3>4. Kept(kind, entry, ckpt', fs, disk) /\ Kept(kind, entry, ckpt', fs, media)
      BY <3>3 DEF StateOK, ContentKept, Kept
    <3>5. Agrees(kind, entry, ckpt', fs, disk, media)
      BY <3>2 DEF Agrees
    <3>6. ASSUME NEW f, Clean(kind, entry, Taken, f) PROVE SourceOwn(kind, entry, ckpt', f)
      <4>1. ASSUME NEW k \in 0 .. CopyLen(job) - 1 PROVE Own(kind, f[entry.start + k], k)
        <5>1. CopyLen(job) \in Nat /\ CopyLen(job) <= entry.len
          BY <1>2, Lengthwise
        <5>2. k \in Int /\ 0 <= k /\ k < entry.len /\ entry.start \in Nat
          BY <5>1, StateFacts DEF StateOK
        <5>3. entry.start + k \in Sectors \ Taken /\ (entry.start + k) - entry.start = k
          BY <5>2, EntrySectors DEF StateOK
        <5> QED BY <3>6, <5>3 DEF Clean
      <4>2. CopyLen(ckpt') = CopyLen(job)
        BY <1>1 DEF CopyLen
      <4> QED BY <4>1, <4>2 DEF SourceOwn
    <3>7. Clean(kind, entry, Taken, disk) /\ Clean(kind, entry, Taken, media)
      BY <2>3 DEF StateOK, ContentKept
    <3>8. SourceOwn(kind, entry, ckpt', disk) /\ SourceOwn(kind, entry, ckpt', media)
      BY <3>6, <3>7
    <3> QED BY <1>6, <3>4, <3>5, <3>7, <3>8 DEF ContentKept
  <2> QED BY <2>1, <2>2, <2>3
<1> QED BY <1>3, <1>5, <1>7 DEF StateOK

-----------------------------------------------------------------------------
(* One lemma per action, for content and neighbours.                       *)
LEMMA StoppedData ==
  ASSUME StateOK, UNCHANGED <<kind, entry, others, copy, fs, disk, media, ckpt, jnl, lv>>,
         NEW o, Stop(o)
  PROVE  StateOK' /\ RunOK'
<1>1. lv' \in Nat
  BY DEF StateOK, TypedState
<1> QED BY <1>1, StateSame, StoppedRun

LEMMA StillData ==
  ASSUME StateOK, UNCHANGED <<kind, entry, others, copy, fs, disk, media, ckpt, jnl, lv>>
  PROVE  StateOK'
<1>1. lv' \in Nat
  BY DEF StateOK, TypedState
<1> QED BY <1>1, StateSame

LEMMA RecheckData == ASSUME DataInv, Recheck PROVE StateOK' /\ RunOK'
<1>1. /\ UNCHANGED <<label, kind, entry, others, copy, fs, disk, media, ckpt, jnl, lv>>
      /\ pc = "prepared"
      /\ \/ \E o : Stop(o)
         \/ /\ label = "gpt" => others = job.seen
            /\ Continue(FirstStep)
  BY DEF Recheck, fixed, table, volume, data, records
<1>2. StateOK /\ RunOK /\ label \in {"gpt", "mbr"}
  BY DEF DataInv, IInv, Lengths
<1>3. CASE \E o : Stop(o)
  BY <1>1, <1>2, <1>3, StoppedData
<1>4. CASE (label = "gpt" => others = job.seen) /\ Continue(FirstStep)
  <2>1. StateOK'
    BY <1>1, <1>2, StillData
  <2>2. UNCHANGED <<job, at, batch>>
    BY <1>4 DEF Continue, inRun
  <2>3. \/ job.verb = "copy" /\ pc' = "dupbarrier"
        \/ job.verb # "copy" /\ job.act = "shrink" /\ pc' = "shrink"
        \/ /\ job.verb # "copy" /\ job.act # "shrink"
           /\ \/ label = "gpt" /\ pc' = "cut"
              \/ label = "mbr" /\ pc' = "commit"
              \/ label = "mbr" /\ pc' = "hidden" /\ job.new = job.old
    BY <1>2, <1>4 DEF Continue, Go, FirstStep
  <2>4. InJob
    BY <1>1 DEF InJob
  <2>5. TypedRun'
    BY <1>2, <2>2, <2>4 DEF RunOK, TypedRun
  <2>6. ApartRun'
    BY <1>1, <1>2, <1>4, <2>2, <2>3
       DEF RunOK, ApartRun, CountedRun, InPlace, BeforeTable, Deciding, Moving, Copying, Dup
  <2>7. UndoRun'
    BY <1>1, <1>2, <2>2, <2>3, <2>4 DEF RunOK, UndoRun
  <2>8. RunContent'
    BY <2>3 DEF RunContent, Stepping
  <2>9. CountedRun'
    <3>1. UNCHANGED <<ChunkCount(job), BatchCap(job), Overlaps(job), SameJob, Moves(job)>>
      BY <1>1, <2>2 DEF ChunkCount, BatchCap, Overlaps, SameJob, Moves, CopyLen, ChunkLen, Moved,
                        Forward
    <3>2. CASE job.verb = "copy" /\ pc' = "dupbarrier"
      BY <1>1, <1>2, <2>2, <3>1, <3>2
         DEF RunOK, CountedRun, InPlace, BeforeTable, Deciding, Moving, Copying, Dup, Stepping
    <3>3. CASE job.verb # "copy" /\ pc' \in {"shrink", "cut", "commit", "hidden"}
      <4>1. /\ batch <= BatchCap(job)
            /\ label = "mbr" => ~Moves(job)
            /\ ckpt = NoCkpt => jnl.state = "none"
            /\ ~job.committed => at = ckpt.done
            /\ ~job.committed /\ ckpt # NoCkpt => SameJob
            /\ job.act = "shrink" => ckpt.done = 0
        BY <1>1, <1>2, <3>3 DEF RunOK, CountedRun, InPlace, Stepping
      <4>2. /\ pc' = "shrink" => job.act = "shrink"
            /\ pc' = "commit" => label = "mbr"
        BY <2>3
      <4> QED BY <1>1, <2>2, <3>1, <3>3, <4>1, <4>2
              DEF CountedRun, InPlace, BeforeTable, Deciding, Moving, Copying, Dup, Stepping
    <3> QED BY <2>3, <3>2, <3>3
  <2> QED BY <2>1, <2>5, <2>6, <2>7, <2>8, <2>9 DEF RunOK
<1> QED BY <1>1, <1>3, <1>4

(* The measure of a shrink is all a shrinking run changes of its job.      *)
LEMMA Measuring ==
  ASSUME RunOK, pc = "shrink", pc' \in Deciding, NEW a \in Shrunk, UNCHANGED <<at, batch>>,
         job' = [job EXCEPT !.shrunk = a],
         UNCHANGED <<label, entry, others, copy, ckpt, jnl>>
  PROVE  RunOK'
<1>1. InJob /\ pc' \notin {"down", "undone", "undonefiles"}
  BY DEF InJob, Deciding
<1>2. job \in JobRecords
  BY DEF RunOK, TypedRun
<1>3. /\ job' \in JobRecords /\ job'.old = job.old /\ job'.new = job.new
      /\ job'.seen = job.seen /\ job'.committed = job.committed /\ job'.act = job.act
      /\ job'.chunk = job.chunk
  BY <1>2 DEF JobRecords
<1>4. TypedRun'
  BY <1>1, <1>3 DEF RunOK, TypedRun
<1>5. ApartRun'
  BY <1>3 DEF RunOK, ApartRun, InPlace, BeforeTable, Deciding, Moving, Copying, Dup
<1>6. UndoRun'
  BY <1>1, <1>3 DEF RunOK, UndoRun, InJob, Moves, Deciding
<1>7. RunContent'
  BY DEF RunContent, Stepping, Deciding
<1>8. CountedRun'
  <2>1. /\ batch <= BatchCap(job)
        /\ label = "mbr" => ~Moves(job)
        /\ ckpt = NoCkpt => jnl.state = "none"
        /\ ~job.committed => at = ckpt.done
        /\ ~job.committed /\ ckpt # NoCkpt => SameJob
        /\ job.act = "shrink" /\ ckpt.done = 0
    BY DEF RunOK, CountedRun, InPlace, BeforeTable, Deciding, Moving, Stepping
  <2>2. UNCHANGED <<BatchCap(job), SameJob, Moves(job)>>
    BY <1>3 DEF BatchCap, SameJob, Moves, ChunkLen, Overlaps, Moved, Forward
  <2> QED BY <1>3, <2>1, <2>2
          DEF CountedRun, InPlace, BeforeTable, Deciding, Moving, Copying, Dup, Stepping
<1> QED BY <1>4, <1>5, <1>6, <1>7, <1>8 DEF RunOK

LEMMA ReadBackData == ASSUME DataInv, ReadBack PROVE StateOK' /\ RunOK'
<1>1. /\ UNCHANGED <<label, kind, entry, others, copy, fs, disk, media, ckpt, jnl, lv>>
      /\ pc = "shrink"
      /\ \/ \E o : Stop(o)
         \/ /\ pc' \in Deciding /\ UNCHANGED <<at, batch>>
            /\ \E a \in Shrunk : job' = [job EXCEPT !.shrunk = a]
  BY DEF ReadBack, Shrinking, FsStays, Measured, Go, Deciding, Shrunk, fixed, table, data,
         records, progress
<1>2. StateOK /\ RunOK
  BY DEF DataInv
<1> QED BY <1>1, <1>2, StoppedData, StillData, Measuring

LEMMA ShrinkFsData == ASSUME DataInv, ShrinkFs PROVE StateOK' /\ RunOK'
<1>1. /\ UNCHANGED <<label, kind, entry, others, copy, ckpt, jnl, lv>>
      /\ pc = "shrink"
      /\ FsTo(job.new.len) \/ FsStays
      /\ \/ \E o : Stop(o)
         \/ /\ pc' \in Deciding /\ UNCHANGED <<at, batch>>
            /\ \E a \in Shrunk : job' = [job EXCEPT !.shrunk = a]
  BY DEF ShrinkFs, Shrinking, FsPerhapsTo, Measured, Go, Deciding, Shrunk, fixed, table,
         records, progress
<1>2. StateOK /\ RunOK /\ IInv
  BY DEF DataInv
<1>3. /\ job.new.len <= entry.len /\ ckpt.done = 0 /\ FsFits /\ fs \in Int /\ fs >= 1
  BY <1>1, <1>2 DEF IInv, RunFits, Lengths, RunOK, CountedRun, Deciding, StateOK, TypedState
<1>4. job.new.len \in Nat /\ job.new.len >= 1 /\ fs \in Nat
  <2>1. InJob
    BY <1>1 DEF InJob
  <2> QED BY <1>2, <1>3, <2>1, RunFacts DEF RunOK, Proper
<1>5. StateOK'
  <2>1. CASE FsTo(job.new.len)
    <3>1. Plain
      BY <1>3 DEF Plain
    <3> QED BY <1>1, <1>2, <1>3, <1>4, <2>1, <3>1, ToolKeeps
  <2>2. CASE FsStays
    BY <1>1, <1>2, <2>2, StillData DEF FsStays, data
  <2> QED BY <1>1, <2>1, <2>2
<1> QED BY <1>1, <1>2, <1>5, StoppedRun, Measuring

(* What the invariants say of a run on the partition that is not committed.*)
LEMMA Underway ==
  ASSUME DataInv, InPlace
  PROVE  /\ StateOK /\ TypedRun /\ InJob /\ job.old = entry
         /\ fs \in Nat /\ fs >= 1 /\ fs <= entry.len
         /\ ckpt # NoCkpt => ckpt.new = job.new
         /\ job.committed => entry = job.new
         /\ label = "mbr" => ckpt = NoCkpt
<1>1. IInv /\ StateOK /\ TypedRun
  BY DEF DataInv, RunOK
<1>2. InJob
  BY DEF InPlace, InJob, BeforeTable, Deciding, Moving
<1>3. job.old = entry /\ (job.committed => entry = job.new) /\ (ckpt # NoCkpt => ckpt.new = job.new)
  BY <1>1, <1>2 DEF IInv, OneJob
<1>4. fs \in Nat /\ fs >= 1 /\ fs <= entry.len
  BY <1>1 DEF StateOK, TypedState, IInv, Lengths, FsFits
<1>5. label = "mbr" => ckpt = NoCkpt
  BY <1>1 DEF IInv, MbrUnrecorded
<1> QED BY <1>1, <1>2, <1>3, <1>4, <1>5

(* A run that takes its record for the first time.                         *)
LEMMA FirstRecord ==
  ASSUME DataInv, pc \in {"saveshrink", "cut"}, ckpt' = Record(job),
         UNCHANGED <<kind, entry, others, copy, fs, disk, media, jnl, lv>>,
         ckpt.done > 0 /\ ~job.committed => job.shrunk = "verified" \/ job.old.len <= job.new.len
  PROVE  StateOK'
<1>1. InPlace /\ pc \notin Stepping \cup {"commit"}
  BY DEF InPlace, BeforeTable, Deciding, Stepping
<1>2. /\ StateOK /\ TypedRun /\ InJob /\ job.old = entry /\ fs \in Nat /\ fs <= entry.len
      /\ ckpt # NoCkpt => ckpt.new = job.new
      /\ job.committed => entry = job.new
  BY <1>1, Underway
<1>3. /\ ~job.committed => at = ckpt.done /\ (ckpt = NoCkpt \/ SameJob)
      /\ ckpt = NoCkpt => jnl.state = "none"
      /\ jnl.state = "open" => ~Moves(job)
  BY <1>1, <1>2 DEF DataInv, RunOK, CountedRun, UndoRun
<1>4. job.committed => ~Moves(job) /\ job.old = job.new
  BY <1>2 DEF Moves
<1>5. ~Moves(job) => ~HalfMoved(entry, ckpt)
  <2>1. CASE job.committed
    BY <1>2, <2>1 DEF HalfMoved, Moves
  <2>2. CASE ~job.committed
    BY <1>3, <2>2 DEF HalfMoved, Moves, SameJob
  <2> QED BY <2>1, <2>2
<1>6. Moves(job) => at = ckpt.done /\ (SameJob \/ (ckpt = NoCkpt /\ jnl.state # "barrier"))
  BY <1>3, <1>4
<1>7. CountedState'
  <2>1. /\ ckpt'.done = at /\ ckpt'.shrunk = job.shrunk /\ ckpt'.old = job.old
        /\ ckpt'.new = job.new /\ job.old.len \in Nat
    BY <1>2, RecordFacts, RunFacts
  <2> QED BY <1>3, <1>4, <2>1 DEF CountedState
<1> QED BY <1>2, <1>3, <1>5, <1>6, <1>7, CkptSaved

LEMMA SaveShrinkData == ASSUME DataInv, SaveShrink PROVE StateOK' /\ RunOK'
<1>1. /\ UNCHANGED <<label, kind, entry, others, copy, fs, disk, media, jnl, lv>>
      /\ pc = "saveshrink"
      /\ ckpt' = IF label = "gpt" THEN Record(job) ELSE ckpt
      /\ \/ \E o : Stop(o)
         \/ Continue(IF label = "gpt" THEN "cut" ELSE "commit")
  BY DEF SaveShrink, fixed, table, volume, data
<1>2. InPlace /\ pc \in Deciding /\ pc \notin Stepping \cup {"commit"} /\ pc \notin Dup
  BY <1>1 DEF InPlace, BeforeTable, Deciding, Stepping, Dup
<1>3. /\ StateOK /\ TypedRun /\ InJob /\ job.old = entry /\ RunOK
      /\ label \in {"gpt", "mbr"}
  BY <1>2, Underway DEF DataInv, IInv, Lengths
<1>4. /\ batch <= BatchCap(job)
      /\ label = "mbr" => ~Moves(job)
      /\ ckpt = NoCkpt => jnl.state = "none"
      /\ ~job.committed => at = ckpt.done
      /\ ckpt.done = 0
      /\ jnl.state = "open" => ~Moves(job)
      /\ ~Meets(job.seen, job.new) /\ ~Meets(Covers(copy), job.new)
  BY <1>2, <1>3 DEF RunOK, CountedRun, UndoRun, ApartRun
<1>5. StateOK'
  <2>1. CASE label = "gpt"
    BY <1>1, <1>4, <2>1, FirstRecord
  <2>2. CASE label # "gpt"
    BY <1>1, <1>3, <2>2, StillData
  <2> QED BY <2>1, <2>2
<1>6. CASE \E o : Stop(o)
  BY <1>5, <1>6, StoppedRun
<1>7. CASE Continue(IF label = "gpt" THEN "cut" ELSE "commit")
  <2>1. /\ UNCHANGED <<job, at, batch>>
        /\ pc' = IF label = "gpt" THEN "cut" ELSE "commit"
    BY <1>7 DEF Continue, Go, inRun
  <2>2. TypedRun'
    BY <1>3, <2>1 DEF TypedRun
  <2>3. ApartRun'
    BY <1>1, <1>4, <2>1
       DEF ApartRun, InPlace, BeforeTable, Deciding, Moving, Copying, Dup
  <2>4. UndoRun'
    BY <1>1, <1>4, <2>1 DEF UndoRun, Moves
  <2>5. RunContent'
    BY <2>1 DEF RunContent, Stepping
  <2>6. CountedRun'
    <3>1. UNCHANGED <<BatchCap(job), Moves(job)>>
      BY <2>1 DEF BatchCap, Moves, ChunkLen, Overlaps, Moved, Forward
    <3>2. CASE label = "gpt"
      <4>1. /\ ckpt' # NoCkpt /\ ckpt'.done = at /\ SameJob'
        BY <1>1, <1>3, <2>1, <3>2, RecordFacts DEF SameJob
      <4> QED BY <1>1, <1>4, <2>1, <3>1, <3>2, <4>1
              DEF CountedRun, InPlace, BeforeTable, Deciding, Moving, Copying, Dup, Stepping
    <3>3. CASE label = "mbr"
      <4>1. ckpt' = NoCkpt /\ ckpt = NoCkpt
        BY <1>1, <1>2, <3>3, Underway
      <4> QED BY <1>1, <1>4, <2>1, <3>1, <3>3, <4>1
              DEF CountedRun, InPlace, BeforeTable, Deciding, Moving, Copying, Dup, Stepping
    <3> QED BY <1>3, <3>2, <3>3
  <2> QED BY <1>5, <2>2, <2>3, <2>4, <2>5, <2>6 DEF RunOK
<1> QED BY <1>1, <1>6, <1>7

LEMMA CutData == ASSUME DataInv, Cut PROVE StateOK' /\ RunOK'
<1>1. /\ UNCHANGED <<label, kind, entry, others, copy, fs, disk, media, jnl, lv>>
      /\ pc = "cut"
      /\ \/ UNCHANGED ckpt /\ \E o : Stop(o)
         \/ /\ others = job.seen
            /\ ckpt' = IF Saves THEN Record(job) ELSE ckpt
            /\ Continue(IF job.committed THEN "hidden"
                        ELSE IF Moved(job) # 0 THEN "barrier" ELSE "commit")
  BY DEF Cut, fixed, table, volume, data
<1>2. InPlace /\ pc \notin Stepping \cup {"commit"} /\ pc \notin Dup
  BY <1>1 DEF InPlace, BeforeTable, Deciding, Stepping, Dup
<1>3. /\ StateOK /\ TypedRun /\ InJob /\ job.old = entry /\ RunOK /\ IInv
  BY <1>2, Underway DEF DataInv
<1>4. /\ batch <= BatchCap(job)
      /\ ckpt = NoCkpt => jnl.state = "none"
      /\ ~job.committed => at = ckpt.done
      /\ ~job.committed /\ ckpt # NoCkpt => SameJob
      /\ jnl.state = "open" => ~Moves(job)
      /\ ~Meets(job.seen, job.new) /\ ~Meets(Covers(copy), job.new)
      /\ label = "gpt"
  BY <1>1, <1>2, <1>3 DEF RunOK, CountedRun, UndoRun, ApartRun, IInv, OneJob
<1>5. CASE UNCHANGED ckpt /\ \E o : Stop(o)
  BY <1>1, <1>3, <1>5, StoppedData
<1>6. CASE /\ others = job.seen
           /\ ckpt' = IF Saves THEN Record(job) ELSE ckpt
           /\ Continue(IF job.committed THEN "hidden"
                       ELSE IF Moved(job) # 0 THEN "barrier" ELSE "commit")
  <2>1. StateOK'
    <3>1. job.shrunk # "verified" /\ ~job.committed => job.old.len <= job.new.len
      BY <1>1, <1>3 DEF IInv, RunFits, Sound
    <3>2. CASE Saves
      BY <1>1, <1>6, <3>1, <3>2, FirstRecord
    <3>3. CASE ~Saves
      BY <1>1, <1>3, <1>6, <3>3, StillData
    <3> QED BY <3>2, <3>3
  <2>2. /\ UNCHANGED <<job, at, batch>>
        /\ pc' = IF job.committed THEN "hidden"
                 ELSE IF Moved(job) # 0 THEN "barrier" ELSE "commit"
    BY <1>6 DEF Continue, Go, inRun
  <2>3. CASE job.committed
    BY <1>3, <1>4, <1>1, <2>1, <2>2, <2>3, BehindTable DEF AfterTable
  <2>4. CASE ~job.committed
    <3>1. TypedRun'
      BY <1>3, <2>2 DEF TypedRun
    <3>2. pc' = IF Moves(job) THEN "barrier" ELSE "commit"
      <4>1. Moves(job) <=> Moved(job) # 0
        BY <1>3, RunFacts, Lengthwise
      <4> QED BY <2>2, <2>4, <4>1
    <3>3. ApartRun'
      BY <1>1, <1>4, <1>6, <2>2, <3>2
         DEF ApartRun, InPlace, BeforeTable, Deciding, Moving, Copying, Dup
    <3>4. UndoRun'
      BY <1>1, <1>4, <2>2, <3>2 DEF UndoRun, Moves
    <3>5. RunContent'
      BY <3>2 DEF RunContent, Stepping
    <3>6. /\ ckpt'.done = at /\ (ckpt' # NoCkpt => SameJob') /\ (Moves(job) => SameJob')
          /\ ckpt' = NoCkpt => jnl.state = "none"
      <4>1. CASE Saves
        BY <1>3, <1>6, <2>2, <4>1, RecordFacts DEF SameJob
      <4>2. CASE ~Saves
        <5>1. ckpt' = ckpt /\ Moved(job) = 0
          BY <1>6, <2>4, <4>2 DEF Saves
        <5>2. ~Moves(job)
          BY <1>3, <5>1, RunFacts, Lengthwise
        <5>3. ckpt # NoCkpt => SameJob'
          BY <1>4, <2>2, <2>4, <5>1 DEF SameJob
        <5> QED BY <1>4, <2>4, <5>1, <5>2, <5>3
      <4> QED BY <4>1, <4>2
    <3>7. UNCHANGED <<BatchCap(job), Moves(job)>>
      BY <2>2 DEF BatchCap, Moves, ChunkLen, Overlaps, Moved, Forward
    <3>8. CountedRun'
      BY <1>1, <1>4, <2>2, <3>2, <3>6, <3>7
         DEF CountedRun, InPlace, BeforeTable, Deciding, Moving, Copying, Dup, Stepping
    <3> QED BY <2>1, <3>1, <3>3, <3>4, <3>5, <3>8 DEF RunOK
  <2> QED BY <2>3, <2>4
<1> QED BY <1>1, <1>5, <1>6

(* What the invariants say of a run that copies.                           *)
LEMMA AtWork ==
  ASSUME DataInv, pc \in Stepping \cup {"barrier"}
  PROVE  /\ StateOK /\ TypedRun /\ InJob /\ job.old = entry /\ label = "gpt"
         /\ Moves(job) /\ SameJob /\ HalfMoved(entry, ckpt) /\ ~job.committed
         /\ batch <= BatchCap(job) /\ batch \in Nat \ {0} /\ at \in Nat
         /\ others = job.seen /\ ~Meets(job.seen, job.new) /\ ~Meets(Covers(copy), job.new)
         /\ fs \in Nat /\ fs >= 1 /\ fs <= CopyLen(job) /\ Sound
         /\ \A n : Offsets(ckpt, n) = Offsets(job, n)
         /\ CopyLen(ckpt) = CopyLen(job)
<1>1. InPlace /\ pc \in Moving
  BY DEF InPlace, BeforeTable, Moving, Stepping
<1>2. /\ StateOK /\ TypedRun /\ InJob /\ job.old = entry
      /\ fs \in Nat /\ fs >= 1 /\ fs <= entry.len
  BY <1>1, Underway
<1>3. IInv /\ RunOK
  BY DEF DataInv
<1>4. label = "gpt" /\ ~job.committed /\ Sound
  BY <1>1, <1>3 DEF IInv, OneJob, RunFits, Stepping
<1>5. Moves(job) /\ SameJob /\ batch <= BatchCap(job)
  BY <1>1, <1>3 DEF RunOK, CountedRun
<1>6. /\ others = job.seen /\ ~Meets(job.seen, job.new) /\ ~Meets(Covers(copy), job.new)
  BY <1>1, <1>3, <1>4 DEF RunOK, ApartRun
<1>7. HalfMoved(entry, ckpt)
  BY <1>2, <1>5 DEF HalfMoved, Moves, SameJob
<1>8. fs <= CopyLen(job)
  <2>1. GoodMove(job) /\ job.old.len \in Nat /\ job.new.len \in Nat
    BY <1>2, RunFacts
  <2>2. fs <= job.new.len /\ fs <= job.old.len
    BY <1>2, <1>4 DEF Sound
  <2>3. job.old.len <= job.new.len \/ job.new.len <= job.old.len
    BY <2>1
  <2> QED BY <2>1, <2>2, <2>3, Lengthwise
<1>9. (\A n : Offsets(ckpt, n) = Offsets(job, n)) /\ CopyLen(ckpt) = CopyLen(job)
  BY <1>5, SameChunks DEF SameJob
<1>10. batch \in Nat \ {0} /\ at \in Nat
  BY <1>2 DEF TypedRun
<1> QED BY <1>2, <1>4, <1>5, <1>6, <1>7, <1>8, <1>9, <1>10

(* What a run that copies, or has copied, owes its counts.                 *)
LEMMA CountsOfMove ==
  ASSUME pc' \in Stepping \cup {"commit"}, label' = "gpt", SameJob',
         (Moves(job) /\ jnl.state = "barrier" /\ batch <= BatchCap(job))',
         pc' \in Stepping =>
           (/\ at >= ckpt.done
            /\ IF Overlaps(job) THEN at <= ckpt.done + 1 ELSE at - ckpt.done <= batch)',
         pc' = "copy" =>
           (/\ at < ChunkCount(job)
            /\ IF Overlaps(job) THEN at = ckpt.done ELSE at - ckpt.done < batch)',
         pc' = "commit" => (ckpt.done >= ChunkCount(job))'
  PROVE  CountedRun'
<1>1. ckpt' # NoCkpt
  BY DEF SameJob
<1>2. /\ pc' \notin Deciding \cup {"prepared"} /\ pc' # "barrier" /\ pc' # "close" /\ ~Copying'
  BY DEF Deciding, Stepping, Copying, Dup
<1>3. (InPlace =>
       /\ batch <= BatchCap(job)
       /\ label = "mbr" => ~Moves(job)
       /\ ckpt = NoCkpt => jnl.state = "none"
       /\ ~job.committed /\ pc \notin Stepping \cup {"commit"} => at = ckpt.done
       /\ ~job.committed /\ ckpt # NoCkpt => SameJob)'
  BY <1>1
<1>4. (pc \in Stepping =>
       /\ Moves(job) /\ SameJob /\ jnl.state = "barrier"
       /\ at >= ckpt.done
       /\ IF Overlaps(job) THEN at <= ckpt.done + 1 ELSE at - ckpt.done <= batch)'
  OBVIOUS
<1>5. (pc = "commit" /\ Moves(job) =>
         SameJob /\ ckpt.done >= ChunkCount(job) /\ jnl.state = "barrier")'
  OBVIOUS
<1> QED BY <1>2, <1>3, <1>4, <1>5, Zenon DEF CountedRun

LEMMA MoveBarrierData == ASSUME DataInv, MoveBarrier PROVE StateOK' /\ RunOK'
<1>1. /\ UNCHANGED <<label, kind, entry, others, copy, fs, disk, media, ckpt, lv>>
      /\ UNCHANGED <<job, at, batch>>
      /\ pc = "barrier" /\ jnl' = Barred
      /\ pc' = IF at < ChunkCount(job) THEN "copy" ELSE "commit"
  BY DEF MoveBarrier, Bar, Continue, Go, inRun, fixed, table, volume, data
<1>2. /\ StateOK /\ TypedRun /\ InJob /\ label = "gpt" /\ Moves(job) /\ SameJob
      /\ ~job.committed /\ batch <= BatchCap(job) /\ batch \in Nat \ {0} /\ at \in Nat
      /\ others = job.seen /\ ~Meets(job.seen, job.new) /\ ~Meets(Covers(copy), job.new)
  BY <1>1, AtWork
<1>3. StateOK' /\ jnl'.state = "barrier"
  BY <1>1, <1>2, JournalBarred
<1>4. at = ckpt.done
  BY <1>1, <1>2 DEF DataInv, RunOK, CountedRun, InPlace, BeforeTable, Moving, Stepping
<1>5. TypedRun'
  BY <1>1, <1>2 DEF TypedRun
<1>6. ApartRun'
  BY <1>1, <1>2 DEF ApartRun, InPlace, BeforeTable, Deciding, Moving, Copying, Dup
<1>7. UndoRun'
  BY <1>1, <1>3 DEF UndoRun
<1>8. RunContent'
  BY <1>1, <1>4, <1>2 DEF RunContent
<1>9. CountedRun'
  <2>1. UNCHANGED <<BatchCap(job), Moves(job), SameJob, ChunkCount(job), Overlaps(job)>>
    BY <1>1 DEF BatchCap, Moves, ChunkLen, Overlaps, Moved, Forward, SameJob, ChunkCount, CopyLen
  <2>2. ckpt.done \in Nat /\ ChunkCount(job) \in Nat
    BY <1>2, StateFacts, RunFacts, CountFacts DEF StateOK
  <2>3. (/\ at >= ckpt.done
         /\ IF Overlaps(job) THEN at <= ckpt.done + 1 ELSE at - ckpt.done <= batch)'
    BY <1>1, <1>2, <1>4, <2>2
  <2>4. pc' = "copy" =>
          (/\ at < ChunkCount(job)
           /\ IF Overlaps(job) THEN at = ckpt.done ELSE at - ckpt.done < batch)'
    BY <1>1, <1>2, <1>4, <2>1, <2>2
  <2>5. pc' = "commit" => (ckpt.done >= ChunkCount(job))'
    BY <1>1, <1>2, <1>4, <2>1, <2>2
  <2>6. pc' \in Stepping \cup {"commit"}
    BY <1>1 DEF Stepping
  <2>7. SameJob' /\ (Moves(job) /\ jnl.state = "barrier" /\ batch <= BatchCap(job))' /\ label' = "gpt"
    BY <1>1, <1>2, <1>3, <2>1
  <2> QED BY <2>3, <2>4, <2>5, <2>6, <2>7, CountsOfMove
<1> QED BY <1>3, <1>5, <1>6, <1>7, <1>8, <1>9 DEF RunOK

-----------------------------------------------------------------------------
(* A chunk on its way: where it lands and what it spares.                  *)
LEMMA Landing ==
  ASSUME DataInv, pc = "copy", NEW s \in Sectors, s - job.new.start \in Offsets(job, at)
  PROVE  /\ s - job.new.start \in 0 .. CopyLen(job) - 1
         /\ s \in Covers(job.new) /\ s \notin Taken
         /\ job.old.start + (s - job.new.start) \in Sectors
         /\ ~Counts(ckpt, s - job.new.start)
<1>1. /\ StateOK /\ TypedRun /\ InJob /\ SameJob /\ others = job.seen
      /\ ~Meets(job.seen, job.new) /\ ~Meets(Covers(copy), job.new)
      /\ \A n : Offsets(ckpt, n) = Offsets(job, n)
  BY AtWork DEF Stepping
<1>2. at < ChunkCount(job) /\ at \in Nat /\ at >= ckpt.done
  BY <1>1 DEF DataInv, RunOK, CountedRun, TypedRun, Stepping
<1>3. /\ GoodMove(job) /\ Proper(job.old) /\ Proper(job.new)
      /\ job.old.start \in Nat /\ job.old.len \in Nat
      /\ job.new.start \in Nat /\ job.new.len \in Nat
  BY <1>1, RunFacts
<1>4. at \in 0 .. ChunkCount(job) - 1
  BY <1>2, <1>3, CountFacts
<1> DEFINE o == s - job.new.start
<1>5. o \in 0 .. CopyLen(job) - 1
  BY <1>3, <1>4, StepInside
<1>6. o \in Int /\ 0 <= o /\ o < job.old.len /\ o < job.new.len
  BY <1>3, <1>5, Lengthwise
<1>7. s \in Covers(job.new) /\ job.old.start + o \in Sectors
  <2>1. job.new.start + o = s
    BY <1>3, Sizes
  <2> HIDE DEF o
  <2>2. job.new.start + o \in Covers(job.new)
    BY <1>3, <1>6, ProperFacts
  <2>3. job.old.start + o \in Covers(job.old) /\ Covers(job.old) \subseteq Sectors
    BY <1>3, <1>6, ProperFacts
  <2> QED BY <2>1, <2>2, <2>3
<1>8. s \notin Taken
  BY <1>1, <1>7 DEF Taken, Meets
<1>9. ~Counts(ckpt, o)
  <2>1. ASSUME NEW n \in 0 .. ckpt.done - 1 PROVE o \notin Offsets(job, n)
    <3>1. n \in Int /\ at \in Int /\ at # n
      BY <1>1, <1>2, StateFacts DEF StateOK
    <3> QED BY <1>3, <3>1, OffsetsApart
  <2> QED BY <1>1, <2>1 DEF Counts
<1> QED BY <1>5, <1>7, <1>8, <1>9

(* The sectors the copy reads next, and those that hold what is not        *)
(* counted, are not where the chunk lands.                                 *)
LEMMA Spared ==
  ASSUME DataInv, pc = "copy", NEW k \in 0 .. CopyLen(job) - 1
  PROVE  /\ Counts(ckpt, k) => job.new.start + k \in Sectors /\
              (job.new.start + k) - job.new.start \notin Offsets(job, at)
         /\ ~Counts(ckpt, k) => job.old.start + k \in Sectors /\
              (job.old.start + k) - job.new.start \notin Offsets(job, at)
         /\ job.old.start + k \in Sectors
<1>1. /\ StateOK /\ TypedRun /\ InJob /\ SameJob /\ Moves(job)
      /\ \A n : Offsets(ckpt, n) = Offsets(job, n)
  BY AtWork DEF Stepping
<1>2. /\ at < ChunkCount(job) /\ at \in Nat /\ at >= ckpt.done
      /\ Overlaps(job) => at = ckpt.done
  BY <1>1 DEF DataInv, RunOK, CountedRun, TypedRun, Stepping
<1>3. /\ GoodMove(job) /\ Proper(job.old) /\ Proper(job.new)
      /\ job.old.start \in Nat /\ job.old.len \in Nat
      /\ job.new.start \in Nat /\ job.new.len \in Nat
  BY <1>1, RunFacts
<1>4. at \in 0 .. ChunkCount(job) - 1
  BY <1>2, <1>3, CountFacts
<1>5. k \in Int /\ 0 <= k /\ k < job.old.len /\ k < job.new.len
  BY <1>3, Lengthwise
<1>6. job.old.start + k \in Sectors /\ job.new.start + k \in Sectors
  <2>1. job.new.start + k \in Covers(job.new) /\ Covers(job.new) \subseteq Sectors
    BY <1>3, <1>5, ProperFacts
  <2>2. job.old.start + k \in Covers(job.old) /\ Covers(job.old) \subseteq Sectors
    BY <1>3, <1>5, ProperFacts
  <2> QED BY <2>1, <2>2
<1>7. ASSUME Counts(ckpt, k) PROVE (job.new.start + k) - job.new.start \notin Offsets(job, at)
  <2>1. (job.new.start + k) - job.new.start = k
    BY <1>3, <1>5
  <2>2. PICK n \in 0 .. ckpt.done - 1 : k \in Offsets(job, n)
    BY <1>1, <1>7 DEF Counts
  <2>3. n \in Int /\ at \in Int /\ at # n
    BY <1>1, <1>2, StateFacts DEF StateOK
  <2> QED BY <1>3, <2>1, <2>2, <2>3, OffsetsApart
<1>8. ASSUME ~Counts(ckpt, k) PROVE (job.old.start + k) - job.new.start \notin Offsets(job, at)
  <2>1. SUFFICES ASSUME (job.old.start + k) - job.new.start \in Offsets(job, at) PROVE FALSE
    OBVIOUS
  <2>2. Overlaps(job) => \A m \in 0 .. at - 1 : k \notin Offsets(job, m)
    BY <1>1, <1>2, <1>8 DEF Counts
  <2> DEFINE o == (job.old.start + k) - job.new.start
  <2>3. job.new.start + o = job.old.start + k
    BY <1>3, <1>5
  <2> HIDE DEF o
  <2>4. o \in Offsets(job, at)
    BY <2>1 DEF o
  <2> QED BY <1>1, <1>3, <1>4, <2>2, <2>3, <2>4, ChunkMisses
<1> QED BY <1>6, <1>7, <1>8

LEMMA CopyChunkState == ASSUME DataInv, CopyChunk PROVE StateOK'
<1>1. /\ UNCHANGED <<label, kind, entry, others, copy, fs, media, ckpt, jnl, lv>>
      /\ pc = "copy"
      /\ disk' = [s \in Sectors |->
           IF s - job.new.start \in Offsets(job, at)
           THEN disk[job.old.start + (s - job.new.start)] ELSE disk[s]]
  BY DEF CopyChunk, fixed, table, volume, records
<1>2. /\ StateOK /\ TypedRun /\ InJob /\ SameJob /\ Moves(job) /\ job.old = entry
      /\ HalfMoved(entry, ckpt) /\ CopyLen(ckpt) = CopyLen(job)
      /\ fs \in Nat /\ fs <= CopyLen(job)
  BY <1>1, AtWork DEF Stepping
<1>3. jnl.state = "barrier"
  BY <1>1 DEF DataInv, RunOK, CountedRun, Stepping
<1>4. /\ TypedState /\ ApartState /\ disk \in [Sectors -> Int] /\ media \in [Sectors -> Int]
      /\ ContentKept /\ OthersKept
  BY <1>2 DEF StateOK, TypedState
<1>5. \A s \in Sectors :
        disk'[s] = IF s - job.new.start \in Offsets(job, at)
                   THEN disk[job.old.start + (s - job.new.start)] ELSE disk[s]
  BY <1>1
<1>6. TypedState'
  <2>1. disk' \in [Sectors -> Int]
    <3>1. \A s \in Sectors : disk'[s] \in Int
      BY <1>1, <1>4, <1>5, Landing
    <3> QED BY <1>1, <3>1
  <2> QED BY <1>1, <1>4, <2>1 DEF TypedState
<1>7. ApartState' /\ CountedState' /\ UndoState'
  BY <1>1, <1>2 DEF StateOK, ApartState, CountedState, UndoState
<1>8. OthersKept'
  <2>1. \A s \in Taken : s \in Sectors /\ disk'[s] = disk[s]
    BY <1>1, <1>4, <1>5, TakenSectors, Landing
  <2> QED BY <1>1, <1>4, <2>1, OthersFramed
<1>9. ContentKept'
  <2>1. \A k : Spot(entry, ckpt, k) =
                 IF Counts(ckpt, k) THEN job.new.start + k ELSE job.old.start + k
    BY <1>2 DEF Spot, SameJob
  <2>2. ASSUME NEW k \in 0 .. CopyLen(job) - 1
        PROVE  Spot(entry, ckpt, k) \in Sectors
               /\ disk'[Spot(entry, ckpt, k)] = disk[Spot(entry, ckpt, k)]
    BY <1>1, <1>5, <2>1, Spared
  <2>3. CopyLen(job) \in Nat
    BY <1>2, RunFacts, Lengthwise
  <2>4. \A k \in 0 .. fs - 1 : k \in 0 .. CopyLen(job) - 1
    BY <1>2, <2>3
  <2>5. Kept(kind, entry, ckpt, fs, disk)'
    BY <1>1, <1>4, <2>2, <2>4 DEF ContentKept, Kept
  <2>6. Kept(kind, entry, ckpt, fs, media)'
    BY <1>1, <1>4 DEF ContentKept
  <2>7. SourceOwn(kind, entry, ckpt, disk)' /\ SourceOwn(kind, entry, ckpt, media)'
    <3>1. ASSUME NEW k \in 0 .. CopyLen(ckpt) - 1, ~Counts(ckpt, k)
          PROVE  Own(kind, disk'[entry.start + k], k)
      <4>1. disk'[entry.start + k] = disk[entry.start + k]
        BY <1>2, <2>1, <2>2, <3>1
      <4>2. Own(kind, disk[entry.start + k], k)
        BY <1>2, <1>4, <3>1 DEF ContentKept, SourceOwn
      <4> QED BY <4>1, <4>2
    <3> QED BY <1>1, <1>4, <3>1 DEF ContentKept, SourceOwn
  <2>8. Agrees(kind, entry, ckpt, fs, disk, media)'
    <3>1. ASSUME NEW k \in 0 .. fs - 1, Counts(ckpt, k), IsAt(kind, disk'[entry.start + k], k)
          PROVE  IsAt(kind, media[entry.start + k], k)
      <4> DEFINE s == entry.start + k
                 o == s - job.new.start
      <4>1. s \in Sectors /\ k \in Nat
        BY <1>1, <1>2, <2>4, Spared
      <4>2. CASE disk'[s] = disk[s]
        BY <1>2, <1>4, <3>1, <4>2 DEF ContentKept, Agrees
      <4>3. CASE disk'[s] # disk[s]
        <5>1. o \in Offsets(job, at) /\ disk'[s] = disk[job.old.start + o]
          BY <1>5, <4>1, <4>3
        <5>2. /\ o \in 0 .. CopyLen(job) - 1 /\ ~Counts(ckpt, o)
              /\ job.old.start + o \in Sectors
          BY <1>1, <4>1, <5>1, Landing
        <5> HIDE DEF o
        <5>3. Own(kind, disk[job.old.start + o], o)
          BY <1>2, <1>4, <5>2 DEF ContentKept, SourceOwn
        <5>4. o \in Nat /\ disk[job.old.start + o] \in Int
          BY <1>4, <5>2, <2>3
        <5>5. IsAt(kind, disk[job.old.start + o], k)
          BY <3>1, <5>1
        <5>6. k \in Nat
          BY <4>1
        <5>7. o = k
          BY <5>3, <5>4, <5>5, <5>6, OwnIs, Zenon
        <5> QED BY <3>1, <5>2, <5>7
      <4> QED BY <4>2, <4>3
    <3> QED BY <1>1, <3>1 DEF Agrees
  <2> QED BY <1>1, <1>3, <2>5, <2>6, <2>7, <2>8 DEF ContentKept
<1> QED BY <1>6, <1>7, <1>8, <1>9 DEF StateOK

LEMMA CopyChunkRun == ASSUME DataInv, CopyChunk PROVE RunOK'
<1>1. /\ UNCHANGED <<label, kind, entry, others, copy, fs, media, ckpt, jnl, job, batch>>
      /\ pc = "copy" /\ at' = at + 1 /\ pc' \in {"copy", "sync"}
      /\ pc' = IF Overlaps(job) \/ at' = ChunkCount(job) \/ at' - ckpt.done >= batch
               THEN "sync" ELSE "copy"
      /\ disk' = [s \in Sectors |->
           IF s - job.new.start \in Offsets(job, at)
           THEN disk[job.old.start + (s - job.new.start)] ELSE disk[s]]
  BY DEF CopyChunk, Go, fixed, table, volume, records
<1>2. /\ StateOK /\ TypedRun /\ InJob /\ SameJob /\ Moves(job) /\ job.old = entry
      /\ label = "gpt" /\ ~job.committed /\ HalfMoved(entry, ckpt)
      /\ batch <= BatchCap(job) /\ batch \in Nat \ {0} /\ at \in Nat
      /\ others = job.seen /\ ~Meets(job.seen, job.new) /\ ~Meets(Covers(copy), job.new)
      /\ fs \in Nat /\ fs <= CopyLen(job)
      /\ \A n : Offsets(ckpt, n) = Offsets(job, n)
  BY <1>1, AtWork DEF Stepping
<1>3. /\ jnl.state = "barrier" /\ at < ChunkCount(job) /\ at >= ckpt.done
      /\ IF Overlaps(job) THEN at = ckpt.done ELSE at - ckpt.done < batch
  BY <1>1 DEF DataInv, RunOK, CountedRun, Stepping
<1>4. TypedRun'
  BY <1>1, <1>2 DEF TypedRun, InJob
<1>5. ApartRun'
  BY <1>1, <1>2 DEF ApartRun, InPlace, BeforeTable, Deciding, Moving, Copying, Dup
<1>6. UndoRun'
  BY <1>1, <1>3 DEF UndoRun
<1>7. CountedRun'
  <2>1. UNCHANGED <<BatchCap(job), Moves(job), SameJob, ChunkCount(job), Overlaps(job)>>
    BY <1>1 DEF BatchCap, Moves, ChunkLen, Overlaps, Moved, Forward, SameJob, ChunkCount, CopyLen
  <2>2. ckpt.done \in Nat /\ ChunkCount(job) \in Nat
    BY <1>2, StateFacts, RunFacts, CountFacts DEF StateOK
  <2>3. (/\ at >= ckpt.done
         /\ IF Overlaps(job) THEN at <= ckpt.done + 1 ELSE at - ckpt.done <= batch)'
    BY <1>1, <1>2, <1>3, <2>1, <2>2
  <2>4. pc' = "copy" =>
          (/\ at < ChunkCount(job)
           /\ IF Overlaps(job) THEN at = ckpt.done ELSE at - ckpt.done < batch)'
    BY <1>1, <1>2, <1>3, <2>1, <2>2
  <2>5. pc' \in Stepping /\ pc' # "commit"
    BY <1>1 DEF Stepping
  <2>6. SameJob' /\ (Moves(job) /\ jnl.state = "barrier" /\ batch <= BatchCap(job))' /\ label' = "gpt"
    BY <1>1, <1>2, <1>3, <2>1
  <2> QED BY <2>3, <2>4, <2>5, <2>6, CountsOfMove
<1>8. RunContent'
  <2>1. ASSUME NEW n \in ckpt.done .. at, NEW k \in Offsets(job, n), k < fs
        PROVE  IsAt(kind, disk'[job.new.start + k], k)
    <3>1. n \in Nat /\ n \in Int /\ at \in Int /\ n < ChunkCount(job) /\ ChunkCount(job) \in Nat
      BY <1>2, <1>3, StateFacts, RunFacts, CountFacts DEF StateOK
    <3>2. k \in 0 .. CopyLen(job) - 1
      <4>1. n \in 0 .. ChunkCount(job) - 1
        BY <3>1
      <4> QED BY <1>2, <2>1, <4>1, RunFacts, StepInside
    <3>3. /\ GoodMove(job) /\ Proper(job.new) /\ job.new.start \in Nat /\ job.new.len \in Nat
          /\ CopyLen(job) \in Nat /\ CopyLen(job) <= job.new.len
      BY <1>2, RunFacts, Lengthwise
    <3>4. k \in Int /\ k \in Nat /\ 0 <= k /\ k < job.new.len /\ k \in 0 .. fs - 1
      BY <1>2, <2>1, <3>2, <3>3
    <3>5. job.new.start + k \in Sectors /\ (job.new.start + k) - job.new.start = k
      BY <3>3, <3>4, ProperFacts
    <3>6. CASE n # at
      <4>1. n \in ckpt.done .. at - 1
        BY <1>2, <3>1, <3>6, StateFacts DEF StateOK
      <4>2. IsAt(kind, disk[job.new.start + k], k)
        BY <1>1, <2>1, <4>1 DEF DataInv, RunOK, RunContent, Arrived, Stepping
      <4>3. k \notin Offsets(job, at)
        BY <2>1, <3>1, <3>3, <3>6, OffsetsApart
      <4> QED BY <1>1, <3>5, <4>2, <4>3
    <3>7. CASE n = at
      <4>1. disk'[job.new.start + k] = disk[job.old.start + k]
        BY <1>1, <2>1, <3>5, <3>7
      <4>2. ~Counts(ckpt, k)
        BY <1>1, <2>1, <3>5, <3>7, Landing
      <4>3. Spot(entry, ckpt, k) = job.old.start + k
        BY <1>2, <4>2 DEF Spot
      <4>4. IsAt(kind, disk[job.old.start + k], k)
        BY <1>2, <3>4, <4>3 DEF StateOK, ContentKept, Kept
      <4> QED BY <4>1, <4>4
    <3> QED BY <3>6, <3>7
  <2>2. at' - 1 = at /\ pc' \in {"copy", "sync"}
    BY <1>1, <1>2
  <2>3. \A n : Offsets(job, n)' = Offsets(job', n)
    OBVIOUS
  <2> QED BY <1>1, <2>1, <2>2 DEF RunContent, Arrived, Stepping
<1> QED BY <1>4, <1>5, <1>6, <1>7, <1>8 DEF RunOK

LEMMA SyncDataData == ASSUME DataInv, SyncData PROVE StateOK' /\ RunOK'
<1>1. /\ UNCHANGED <<label, kind, entry, others, copy, fs, lv, disk, ckpt, jnl, job, at, batch>>
      /\ pc = "sync" /\ pc' = "save" /\ media' = disk
  BY DEF SyncData, Continue, Go, inRun, fixed, table, volume, records
<1>2. /\ StateOK /\ TypedRun /\ InJob /\ SameJob /\ Moves(job) /\ label = "gpt"
      /\ batch <= BatchCap(job)
      /\ others = job.seen /\ ~Meets(job.seen, job.new) /\ ~Meets(Covers(copy), job.new)
  BY <1>1, AtWork DEF Stepping
<1>3. /\ jnl.state = "barrier" /\ at >= ckpt.done
      /\ IF Overlaps(job) THEN at <= ckpt.done + 1 ELSE at - ckpt.done <= batch
  BY <1>1 DEF DataInv, RunOK, CountedRun, Stepping
<1>4. StateOK'
  <2>1. TypedState' /\ ApartState' /\ CountedState' /\ UndoState'
    BY <1>1, <1>2 DEF StateOK, TypedState, ApartState, CountedState, UndoState
  <2>2. OthersKept'
    BY <1>1, <1>2 DEF StateOK, OthersKept
  <2>3. ContentKept'
    BY <1>1, <1>2, <1>3 DEF StateOK, ContentKept, Agrees
  <2> QED BY <2>1, <2>2, <2>3 DEF StateOK
<1>5. TypedRun'
  BY <1>1, <1>2 DEF TypedRun, InJob
<1>6. ApartRun'
  BY <1>1, <1>2 DEF ApartRun, InPlace, BeforeTable, Deciding, Moving, Copying, Dup
<1>7. UndoRun'
  BY <1>1, <1>3 DEF UndoRun
<1>8. CountedRun'
  <2>1. UNCHANGED <<BatchCap(job), Moves(job), SameJob, ChunkCount(job), Overlaps(job)>>
    BY <1>1 DEF BatchCap, Moves, ChunkLen, Overlaps, Moved, Forward, SameJob, ChunkCount, CopyLen
  <2>2. (/\ at >= ckpt.done
         /\ IF Overlaps(job) THEN at <= ckpt.done + 1 ELSE at - ckpt.done <= batch)'
    BY <1>1, <1>3, <2>1
  <2>3. pc' \in Stepping /\ pc' # "commit" /\ pc' # "copy"
    BY <1>1 DEF Stepping
  <2>4. SameJob' /\ (Moves(job) /\ jnl.state = "barrier" /\ batch <= BatchCap(job))' /\ label' = "gpt"
    BY <1>1, <1>2, <1>3, <2>1
  <2> QED BY <2>2, <2>3, <2>4, CountsOfMove
<1>9. RunContent'
  BY <1>1 DEF DataInv, RunOK, RunContent, Stepping
<1> QED BY <1>4, <1>5, <1>6, <1>7, <1>8, <1>9 DEF RunOK

(* The bound of a batch.                                                   *)
LEMMA BatchBound ==
  ASSUME NEW j, GoodMove(j)
  PROVE  /\ BatchCap(j) \in Nat \ {0}
         /\ \A b \in NextBatches(j) : batch \in Nat => b \in Nat \ {0} /\ b <= BatchCap(j)
<1>1. ChunkLen(j) \in Nat \ {0} /\ RedoWindow \in Nat \ {0} /\ MaxBatch \in Nat \ {0}
  BY Sizes, Lengthwise
<1>2. RedoWindow \div ChunkLen(j) \in Int
  BY <1>1
<1> DEFINE w == RedoWindow \div ChunkLen(j)
<1>3. BatchCap(j) = Min2(MaxBatch, Max2(1, w))
  BY DEF BatchCap
<1> HIDE DEF w
<1>4. w \in Int
  BY <1>2 DEF w
<1>5. BatchCap(j) \in Nat \ {0}
  BY <1>1, <1>3, <1>4 DEF Min2, Max2
<1>6. ASSUME batch \in Nat, NEW b \in NextBatches(j) PROVE b \in Nat \ {0} /\ b <= BatchCap(j)
  <2>1. PICK a \in {2 * batch, batch, batch \div 2} : b = Max2(1, Min2(a, BatchCap(j)))
    BY <1>6 DEF NextBatches
  <2>2. a \in Int
    BY <1>6, <2>1
  <2> QED BY <1>5, <2>1, <2>2 DEF Min2, Max2
<1> QED BY <1>5, <1>6

LEMMA SaveProgressState == ASSUME DataInv, SaveProgress PROVE StateOK'
<1>1. /\ UNCHANGED <<label, kind, entry, others, copy, fs, lv, disk, media, jnl, job, at>>
      /\ pc = "save" /\ ckpt' = Record(job)
  BY DEF SaveProgress, Go, fixed, table, volume, data
<1>2. /\ StateOK /\ TypedRun /\ InJob /\ SameJob /\ Moves(job) /\ job.old = entry
      /\ HalfMoved(entry, ckpt) /\ fs \in Nat /\ fs <= CopyLen(job) /\ Sound /\ ~job.committed
      /\ \A n : Offsets(ckpt, n) = Offsets(job, n)
      /\ CopyLen(ckpt) = CopyLen(job)
  BY <1>1, AtWork DEF Stepping
<1>3. /\ jnl.state = "barrier" /\ at >= ckpt.done /\ media = disk
      /\ \A n \in ckpt.done .. at - 1 : Arrived(kind, job.new.start, fs, disk, Offsets(job, n))
  BY <1>1 DEF DataInv, RunOK, CountedRun, RunContent, Stepping
<1>4. /\ ckpt' \in CkptRecords /\ ckpt' # NoCkpt /\ ckpt'.old = job.old /\ ckpt'.new = job.new
      /\ ckpt'.chunk = job.chunk /\ ckpt'.done = at /\ ckpt'.shrunk = job.shrunk
  BY <1>1, <1>2, RecordFacts
<1>5. /\ GoodMove(job) /\ Proper(job.old) /\ Proper(job.new) /\ job.chunk \in Nat \ {0}
      /\ CopyLen(job) \in Nat /\ at \in Nat /\ ckpt.done \in Nat
  BY <1>2, RunFacts, Lengthwise, StateFacts DEF StateOK, TypedRun
<1>6. TypedState'
  BY <1>1, <1>2, <1>4, <1>5 DEF StateOK, TypedState
<1>7. ApartState' /\ OthersKept'
  BY <1>1, <1>2 DEF StateOK, ApartState, OthersKept
<1>8. UndoState'
  BY <1>1, <1>3 DEF UndoState
<1>9. CountedState'
  BY <1>2, <1>4 DEF CountedState, Sound
<1>10. ContentKept'
  <2>1. /\ \A n : Offsets(ckpt', n) = Offsets(job, n)
        /\ CopyLen(ckpt') = CopyLen(job)
    BY <1>4, SameChunks
  <2>2. HalfMoved(entry, ckpt')
    BY <1>2, <1>4 DEF HalfMoved, Moves
  <2>3. ASSUME NEW k, Counts(ckpt, k) PROVE Counts(ckpt', k)
    <3>1. PICK n \in 0 .. ckpt.done - 1 : k \in Offsets(job, n)
      BY <1>2, <2>3 DEF Counts
    <3>2. n \in 0 .. at - 1
      BY <1>3, <1>5
    <3> QED BY <1>4, <2>1, <3>1, <3>2 DEF Counts
  <2>4. ASSUME NEW k \in 0 .. fs - 1
        PROVE  IsAt(kind, disk[Spot(entry, ckpt', k)], k)
    <3>1. IsAt(kind, disk[Spot(entry, ckpt, k)], k)
      BY <1>2 DEF StateOK, ContentKept, Kept
    <3>2. CASE Counts(ckpt', k) /\ ~Counts(ckpt, k)
      <4>1. PICK n \in 0 .. at - 1 : k \in Offsets(job, n)
        BY <1>4, <2>1, <3>2 DEF Counts
      <4>2. n \notin 0 .. ckpt.done - 1
        BY <1>2, <3>2, <4>1 DEF Counts
      <4>3. n \in ckpt.done .. at - 1
        BY <1>5, <4>1, <4>2
      <4>4. Spot(entry, ckpt', k) = job.new.start + k
        BY <1>4, <2>2, <3>2 DEF Spot
      <4>5. k < fs
        BY <1>2
      <4> QED BY <1>3, <4>1, <4>3, <4>4, <4>5 DEF Arrived
    <3>3. CASE Counts(ckpt', k) <=> Counts(ckpt, k)
      <4>1. Spot(entry, ckpt', k) = Spot(entry, ckpt, k)
        BY <1>2, <1>4, <2>2, <3>3 DEF Spot, SameJob
      <4> QED BY <3>1, <4>1
    <3> QED BY <2>3, <3>2, <3>3
  <2>5. Kept(kind, entry, ckpt, fs, disk)' /\ Kept(kind, entry, ckpt, fs, media)'
    BY <1>1, <1>3, <2>4 DEF Kept
  <2>6. SourceOwn(kind, entry, ckpt, disk)' /\ SourceOwn(kind, entry, ckpt, media)'
    <3>1. SourceOwn(kind, entry, ckpt', disk)
      BY <1>2, <2>1, <2>3 DEF StateOK, ContentKept, SourceOwn
    <3> QED BY <1>1, <1>3, <3>1
  <2>7. Agrees(kind, entry, ckpt, fs, disk, media)'
    BY <1>1, <1>3 DEF Agrees
  <2> QED BY <1>1, <1>3, <2>5, <2>6, <2>7 DEF ContentKept
<1> QED BY <1>6, <1>7, <1>8, <1>9, <1>10 DEF StateOK

LEMMA SaveProgressRun == ASSUME DataInv, SaveProgress PROVE RunOK'
<1>1. /\ UNCHANGED <<label, kind, entry, others, copy, fs, lv, disk, media, jnl, job, at>>
      /\ pc = "save" /\ ckpt' = Record(job)
      /\ batch' = batch \/ batch' \in NextBatches(job)
      /\ pc' = IF at < ChunkCount(job) THEN "copy" ELSE "commit"
  BY DEF SaveProgress, Go, fixed, table, volume, data
<1>2. /\ StateOK /\ TypedRun /\ InJob /\ Moves(job) /\ label = "gpt"
      /\ batch <= BatchCap(job) /\ batch \in Nat \ {0} /\ at \in Nat
      /\ others = job.seen /\ ~Meets(job.seen, job.new) /\ ~Meets(Covers(copy), job.new)
  BY <1>1, AtWork DEF Stepping
<1>3. jnl.state = "barrier"
  BY <1>1 DEF DataInv, RunOK, CountedRun, Stepping
<1>4. /\ ckpt' # NoCkpt /\ ckpt'.old = job.old /\ ckpt'.new = job.new
      /\ ckpt'.chunk = job.chunk /\ ckpt'.done = at
  BY <1>1, <1>2, RecordFacts
<1>5. GoodMove(job) /\ ChunkCount(job) \in Nat
  BY <1>2, RunFacts, CountFacts
<1>6. batch' \in Nat \ {0} /\ batch' <= BatchCap(job)
  BY <1>1, <1>2, <1>5, BatchBound
<1>7. TypedRun'
  BY <1>1, <1>2, <1>6 DEF TypedRun, InJob
<1>8. ApartRun'
  BY <1>1, <1>2 DEF ApartRun, InPlace, BeforeTable, Deciding, Moving, Copying, Dup
<1>9. UndoRun'
  BY <1>1, <1>3 DEF UndoRun
<1>10. CountedRun'
  <2>1. UNCHANGED <<BatchCap(job), Moves(job), ChunkCount(job), Overlaps(job)>> /\ SameJob'
    BY <1>1, <1>4
       DEF BatchCap, Moves, ChunkLen, Overlaps, Moved, Forward, SameJob, ChunkCount, CopyLen
  <2>2. at' = at /\ ckpt'.done = at
    BY <1>1, <1>4
  <2>3. (/\ at >= ckpt.done
         /\ IF Overlaps(job) THEN at <= ckpt.done + 1 ELSE at - ckpt.done <= batch)'
    BY <1>2, <1>6, <2>1, <2>2
  <2>4. pc' = "copy" =>
          (/\ at < ChunkCount(job)
           /\ IF Overlaps(job) THEN at = ckpt.done ELSE at - ckpt.done < batch)'
    BY <1>1, <1>2, <1>6, <2>1, <2>2
  <2>5. pc' = "commit" => (ckpt.done >= ChunkCount(job))'
    BY <1>1, <1>2, <1>5, <2>1, <2>2
  <2>6. pc' \in Stepping \cup {"commit"}
    BY <1>1 DEF Stepping
  <2>7. SameJob' /\ (Moves(job) /\ jnl.state = "barrier" /\ batch <= BatchCap(job))' /\ label' = "gpt"
    BY <1>1, <1>2, <1>3, <1>6, <2>1
  <2> QED BY <2>3, <2>4, <2>5, <2>6, <2>7, CountsOfMove
<1>11. RunContent'
  <2>1. pc' \in {"copy", "commit"} /\ ckpt'.done = at /\ at' = at /\ at \in Nat
    BY <1>1, <1>2, <1>4
  <2>2. \A n \in ckpt'.done .. at' - 1 : FALSE
    BY <2>1
  <2> QED BY <2>1, <2>2 DEF RunContent, Stepping
<1> QED BY <1>7, <1>8, <1>9, <1>10, <1>11 DEF RunOK

(* Once everything is counted all of the content is at the new place.      *)
LEMMA AllThere ==
  ASSUME DataInv, pc = "commit", Moves(job), NEW k \in 0 .. fs - 1
  PROVE  IsAt(kind, disk[job.new.start + k], k)
<1>1. InPlace
  BY DEF InPlace, BeforeTable, Moving
<1>2. /\ StateOK /\ TypedRun /\ InJob /\ job.old = entry
      /\ fs \in Nat /\ fs <= entry.len
  BY <1>1, Underway
<1>3. SameJob /\ ckpt.done >= ChunkCount(job) /\ Sound
  BY DEF DataInv, RunOK, CountedRun, IInv, RunFits, Moving
<1>4. GoodMove(job) /\ job.old.len \in Nat /\ job.new.len \in Nat
  BY <1>2, RunFacts
<1>5. fs <= CopyLen(job) /\ CopyLen(job) \in Nat
  <2>1. fs <= job.new.len /\ fs <= job.old.len
    BY <1>2, <1>3 DEF Sound
  <2>2. job.old.len <= job.new.len \/ job.new.len <= job.old.len
    BY <1>4
  <2> QED BY <1>4, <2>1, <2>2, Lengthwise
<1>6. k \in 0 .. CopyLen(job) - 1
  BY <1>2, <1>5
<1>7. PICK n \in 0 .. ChunkCount(job) - 1 : k \in Offsets(job, n)
  BY <1>4, <1>6, OffsetsCover
<1>8. n \in 0 .. ckpt.done - 1
  BY <1>2, <1>3, <1>4, CountFacts, StateFacts DEF StateOK
<1>9. Counts(ckpt, k)
  <2>1. Offsets(ckpt, n) = Offsets(job, n)
    BY <1>3, SameChunks DEF SameJob
  <2> QED BY <1>7, <1>8, <2>1 DEF Counts
<1>10. HalfMoved(entry, ckpt) /\ Spot(entry, ckpt, k) = job.new.start + k
  BY <1>2, <1>3, <1>9 DEF HalfMoved, Moves, SameJob, Spot
<1> QED BY <1>2, <1>10 DEF StateOK, ContentKept, Kept

LEMMA CommitData == ASSUME DataInv, Commit PROVE StateOK' /\ RunOK'
<1>1. /\ UNCHANGED <<label, kind, others, copy, fs, lv, disk, ckpt>>
      /\ pc = "commit"
      /\ \/ (\E o : Stop(o)) /\ UNCHANGED <<entry, media, jnl>>
         \/ /\ ~MbrTaken /\ entry' = job.new /\ media' = disk /\ Continue("hidden")
            /\ jnl' = IF jnl.state = "none"
                      THEN [state |-> "open", entry |-> entry, others |-> others] ELSE jnl
  BY DEF Commit, fixed, volume
<1>2. InPlace /\ pc \notin Stepping
  BY <1>1 DEF InPlace, BeforeTable, Moving, Stepping
<1>3. /\ StateOK /\ TypedRun /\ InJob /\ job.old = entry /\ RunOK /\ IInv
      /\ fs \in Nat /\ fs >= 1 /\ fs <= entry.len
      /\ label = "mbr" => ckpt = NoCkpt
  BY <1>2, Underway DEF DataInv
<1>4. CASE (\E o : Stop(o)) /\ UNCHANGED <<entry, media, jnl>>
  BY <1>1, <1>3, <1>4, StoppedData
<1>5. CASE /\ ~MbrTaken /\ entry' = job.new /\ media' = disk /\ Continue("hidden")
           /\ jnl' = IF jnl.state = "none"
                     THEN [state |-> "open", entry |-> entry, others |-> others] ELSE jnl
  <2>1. /\ ~job.committed /\ Sound
        /\ label = "mbr" => ~Moves(job)
        /\ ckpt # NoCkpt => SameJob
        /\ jnl.state = "open" => ~Moves(job)
        /\ Moves(job) => jnl.state = "barrier"
        /\ ~Meets(job.seen, job.new) /\ ~Meets(Covers(copy), job.new)
        /\ label = "gpt" => others = job.seen
        /\ label \in {"gpt", "mbr"}
    BY <1>1, <1>2, <1>3
       DEF IInv, Lengths, OneJob, RunFits, RunOK, CountedRun, UndoRun, ApartRun, Moving
  <2>2. /\ job.old \in Ranges /\ job.new \in Ranges /\ Proper(job.old) /\ Proper(job.new)
    BY <1>3 DEF TypedRun, JobRecords
  <2>3. ~Meets(others, job.new)
    <3>1. CASE label = "mbr"
      <4>1. Covers(job.new) \cap others = {}
        BY <1>5, <3>1 DEF MbrTaken
      <4> QED BY <4>1 DEF Meets
    <3> QED BY <2>1, <3>1
  <2>4. \/ jnl' = jnl /\ jnl.state # "none"
        \/ /\ jnl.state = "none" /\ jnl'.state = "open" /\ jnl'.entry = entry
           /\ jnl'.others = others
           /\ jnl' = [state |-> "open", entry |-> entry, others |-> others]
    BY <1>5
  <2>5. TypedState'
    <3>1. jnl' \in JnlRecords /\ (jnl'.state = "open" => Proper(jnl'.entry))
      BY <1>3, <2>4 DEF StateOK, TypedState, JnlRecords
    <3>2. media' \in [Sectors -> Int] /\ entry' \in Ranges /\ Proper(entry')
      BY <1>3, <1>5, <2>2 DEF StateOK, TypedState
    <3> QED BY <1>1, <1>3, <3>1, <3>2 DEF StateOK, TypedState
  <2>6. ApartState'
    <3>1. ~Meets(others, job.new) /\ ~Meets(Covers(copy), job.new) /\ ~Meets(others, copy)
      BY <1>3, <2>1, <2>3 DEF StateOK, ApartState
    <3>2. jnl'.state = "open" => ~Meets(jnl'.others, jnl'.entry) /\ ~Meets(Covers(copy), jnl'.entry)
      BY <1>3, <2>4 DEF StateOK, ApartState
    <3> QED BY <1>1, <1>5, <3>1, <3>2 DEF ApartState
  <2>7. CountedState' /\ OthersKept'
    BY <1>1, <1>3, <1>5 DEF StateOK, CountedState, OthersKept
  <2>8. UndoState'
    <3>1. ASSUME jnl'.state = "open" PROVE ~Moves(job)
      BY <2>1, <2>4, <3>1
    <3>2. ASSUME jnl'.state = "open" PROVE jnl'.entry.start = entry'.start
      BY <1>3, <1>5, <2>4, <3>1, <3>2 DEF StateOK, UndoState, Moves
    <3>3. ASSUME jnl'.state = "open", ckpt # NoCkpt PROVE ~Moves(ckpt)
      BY <2>1, <3>1, <3>3 DEF Moves, SameJob
    <3> QED BY <1>1, <3>2, <3>3 DEF UndoState
  <2>9. ContentKept'
    <3>1. ~HalfMoved(entry, ckpt)'
      BY <1>1, <1>5, <2>1 DEF HalfMoved, Moves, SameJob
    <3>2. CASE Moves(job)
      <4>1. \A k \in 0 .. fs - 1 : IsAt(kind, disk[job.new.start + k], k)
        BY <1>1, <3>2, AllThere
      <4>2. jnl'.state = "barrier"
        BY <2>1, <2>4, <3>2
      <4> QED BY <1>1, <1>5, <3>1, <4>1, <4>2, WholeContent
    <3>3. CASE ~Moves(job)
      <4>1. Plain
        BY <2>1, <3>3 DEF Plain, HalfMoved, Moves, SameJob
      <4>2. entry'.start = entry.start
        BY <1>3, <1>5, <3>3 DEF Moves
      <4>3. \A k \in 0 .. fs - 1 : IsAt(kind, disk[entry.start + k], k)
        BY <1>3, <4>1, PlainContent DEF StateOK
      <4>4. jnl'.state # "barrier" => Clean(kind, entry, Taken, disk)
        BY <1>3, <2>4 DEF StateOK, ContentKept
      <4>5. UNCHANGED Taken
        BY <1>1 DEF Taken
      <4>6. jnl'.state # "barrier" =>
              Clean(kind, entry, Taken, disk)' /\ Clean(kind, entry, Taken, media)'
        BY <1>1, <1>5, <4>2, <4>4, <4>5 DEF Clean
      <4> QED BY <1>1, <1>5, <3>1, <4>2, <4>3, <4>6, WholeContent
    <3> QED BY <3>2, <3>3
  <2>10. StateOK'
    BY <2>5, <2>6, <2>7, <2>8, <2>9 DEF StateOK
  <2>11. RunOK'
    <3>1. UNCHANGED <<job, at, batch>> /\ pc' = "hidden"
      BY <1>5 DEF Continue, Go, inRun
    <3>2. jnl'.state = "open" => ~Moves(job)
      BY <2>1, <2>4
    <3> QED BY <1>3, <3>1, <3>2, BehindTable DEF AfterTable
  <2> QED BY <2>10, <2>11
<1> QED BY <1>1, <1>4, <1>5

(* What the invariants say behind the table.                               *)
LEMMA Behind ==
  ASSUME DataInv, pc \in AfterTable
  PROVE  /\ StateOK /\ TypedRun /\ InJob /\ entry = job.new /\ ~HalfMoved(entry, ckpt) /\ Plain
         /\ jnl.state = "open" => ~Moves(job)
         /\ fs \in Nat /\ FsFits /\ entry.len \in Nat /\ entry.len >= 1
         /\ entry.start \in Nat
<1>1. IInv /\ StateOK /\ RunOK
  BY DEF DataInv
<1>2. ~HalfMoved(entry, ckpt) /\ InJob
  BY <1>1, NotHalfMoved
<1>3. entry = job.new /\ FsFits /\ fs \in Int
  BY <1>1 DEF IInv, OneJob, Lengths
<1>4. fs >= 1 /\ Proper(entry) /\ entry.len \in Nat /\ entry.start \in Nat
  BY <1>1, StateFacts DEF StateOK, TypedState
<1>5. jnl.state = "open" => ~Moves(job)
  BY <1>1, <1>2 DEF RunOK, UndoRun
<1> QED BY <1>1, <1>2, <1>3, <1>4, <1>5 DEF RunOK, Plain, Proper

(* The HiddenSectors of an NTFS in its new place.                          *)
LEMMA BootKeeps ==
  ASSUME StateOK, ~HalfMoved(entry, ckpt), fs \in Nat, fs <= entry.len, kind = "ntfs",
         UNCHANGED <<kind, entry, others, copy, fs, lv, ckpt, jnl>>, FixBoot(entry.start)
  PROVE  StateOK'
<1>1. /\ TypedState /\ ApartState /\ disk \in [Sectors -> Int] /\ media \in [Sectors -> Int]
      /\ ContentKept /\ OthersKept /\ fs >= 1
  BY DEF StateOK, TypedState
<1>2. entry.start \in Nat /\ entry.len \in Nat
  BY <1>1, StateFacts
<1>3. entry.start \in Sectors /\ entry.start \notin Taken
  <2>1. entry.start + 0 = entry.start
    BY <1>2
  <2>2. 0 \in Int /\ 0 <= 0 /\ 0 < entry.len
    BY <1>1, <1>2
  <2>3. entry.start + 0 \in Sectors \ Taken
    BY <1>1, <2>2, EntrySectors
  <2> QED BY <2>1, <2>3
<1>4. Boot(entry.start) \in Int /\ IsAt(kind, Boot(entry.start), 0)
  BY <1>2 DEF Boot, IsAt
<1>5. /\ disk' = [disk EXCEPT ![entry.start] = Boot(entry.start)] /\ media' = disk'
  BY DEF FixBoot
<1>6. /\ disk' \in [Sectors -> Int] /\ disk'[entry.start] = Boot(entry.start)
      /\ \A s \in Sectors : s # entry.start => disk'[s] = disk[s]
  BY <1>1, <1>3, <1>4, <1>5
<1>7. TypedState'
  BY <1>1, <1>5, <1>6 DEF TypedState
<1>8. ApartState' /\ CountedState' /\ UndoState'
  BY DEF StateOK, ApartState, CountedState, UndoState
<1>9. OthersKept'
  <2>1. \A s \in Taken : disk'[s] = disk[s] /\ media'[s] = disk[s]
    BY <1>1, <1>3, <1>5, <1>6, TakenSectors
  <2> QED BY <1>1, <2>1, OthersFramed
<1>10. ContentKept'
  <2>1. ASSUME NEW k \in 0 .. fs - 1 PROVE IsAt(kind, disk'[entry.start + k], k)
    <3>1. k \in Int /\ 0 <= k /\ k < entry.len
      BY <1>2
    <3>2. entry.start + k \in Sectors
      BY <1>1, <3>1, EntrySectors
    <3>3. CASE k = 0
      <4>1. entry.start + k = entry.start
        BY <1>2, <3>3
      <4> QED BY <1>4, <1>6, <3>3, <4>1
    <3>4. CASE k # 0
      <4>1. entry.start + k # entry.start
        BY <1>2, <3>1, <3>4
      <4>2. IsAt(kind, disk[entry.start + k], k)
        BY <1>1, PlainContent DEF Plain
      <4> QED BY <1>6, <3>2, <4>1, <4>2
    <3> QED BY <3>3, <3>4
  <2>2. ASSUME jnl.state # "barrier" PROVE Clean(kind, entry, Taken, disk')
    <3>1. Clean(kind, entry, Taken, disk)
      BY <1>1, <2>2 DEF ContentKept
    <3>2. Own(kind, disk'[entry.start], entry.start - entry.start)
      <4>1. entry.start - entry.start = 0
        BY <1>2
      <4>2. Own(kind, Boot(entry.start), 0)
        BY <1>4 DEF Own
      <4> QED BY <1>6, <4>1, <4>2
    <3>3. ASSUME NEW s \in Sectors \ Taken PROVE Own(kind, disk'[s], s - entry.start)
      <4>1. CASE s = entry.start
        BY <3>2, <4>1
      <4>2. CASE s # entry.start
        BY <1>6, <3>1, <4>2 DEF Clean
      <4> QED BY <4>1, <4>2
    <3> QED BY <3>3 DEF Clean
  <2>3. UNCHANGED Taken /\ ~HalfMoved(entry, ckpt)'
    BY DEF Taken
  <2>4. jnl'.state # "barrier" =>
          Clean(kind, entry, Taken, disk)' /\ Clean(kind, entry, Taken, media)'
    BY <1>5, <2>2, <2>3
  <2>5. \A k \in 0 .. fs' - 1 : /\ IsAt(kind', disk'[entry'.start + k], k)
                                /\ IsAt(kind', media'[entry'.start + k], k)
    BY <1>5, <2>1
  <2> QED BY <2>3, <2>4, <2>5, WholeContent
<1> QED BY <1>7, <1>8, <1>9, <1>10 DEF StateOK

LEMMA HiddenSectorsData == ASSUME DataInv, HiddenSectors PROVE StateOK' /\ RunOK'
<1>1. /\ UNCHANGED <<kind, entry, others, copy, fs, lv, ckpt, jnl, job, at, batch>>
      /\ pc = "hidden" /\ pc' \in {"grow", "settle"}
      /\ \/ kind = "ntfs" /\ FixBoot(job.new.start)
         \/ UNCHANGED <<disk, media>>
  BY DEF HiddenSectors, Continue, Go, inRun, fixed, table, volume, records, data
<1>2. /\ StateOK /\ TypedRun /\ InJob /\ entry = job.new /\ ~HalfMoved(entry, ckpt)
      /\ jnl.state = "open" => ~Moves(job)
      /\ fs \in Nat /\ FsFits
  BY <1>1, Behind DEF AfterTable
<1>3. StateOK'
  BY <1>1, <1>2, BootKeeps, StillData DEF FsFits
<1> QED BY <1>1, <1>2, <1>3, BehindTable DEF AfterTable

LEMMA GrowData == ASSUME DataInv, Grow PROVE StateOK' /\ RunOK'
<1>1. /\ UNCHANGED <<kind, entry, others, copy, fs, disk, media, lv, ckpt, job, at, batch>>
      /\ pc = "grow" /\ pc' \in {"growfs", "settle"} /\ (jnl' = jnl \/ jnl' = Barred)
  BY DEF Grow, GrowStays, FsStays, Owes, Continue, Go, inRun, fixed, table, data, progress
<1>2. StateOK /\ TypedRun /\ InJob /\ (jnl.state = "open" => ~Moves(job))
  BY <1>1, Behind DEF AfterTable
<1>3. StateOK' /\ (jnl'.state = "open" => ~Moves(job))
  BY <1>1, <1>2, StillData, JournalBarred
<1> QED BY <1>1, <1>2, <1>3, BehindTable DEF AfterTable, Growing

LEMMA ToolGrows ==
  ASSUME DataInv, pc \in Growing, FsTo(entry.len) \/ FsStays,
         UNCHANGED <<kind, entry, others, copy, lv, ckpt, jnl>>
  PROVE  StateOK'
<1>1. /\ StateOK /\ Plain /\ fs \in Nat /\ FsFits /\ entry.len \in Nat /\ entry.len >= 1
  BY Behind DEF AfterTable
<1>2. CASE FsTo(entry.len)
  <2>1. 1 <= entry.len /\ entry.len <= entry.len
    BY <1>1
  <2> QED BY <1>1, <1>2, <2>1, ToolKeeps
<1>3. CASE FsStays
  BY <1>1, <1>3, StillData DEF FsStays, data
<1> QED BY <1>2, <1>3

LEMMA GrowFsData == ASSUME DataInv, GrowFs PROVE StateOK' /\ RunOK'
<1>1. /\ UNCHANGED <<kind, entry, others, copy, lv, ckpt, jnl, job, at, batch>>
      /\ pc = "growfs" /\ pc' = "settle" /\ (FsTo(entry.len) \/ FsStays)
  BY DEF GrowFs, GrowStays, FsPerhapsTo, Owes, Continue, Go, inRun, fixed, table, progress
<1>2. TypedRun /\ InJob /\ (jnl.state = "open" => ~Moves(job))
  BY <1>1, Behind DEF AfterTable, Growing
<1>3. StateOK'
  BY <1>1, ToolGrows DEF Growing
<1> QED BY <1>1, <1>2, <1>3, BehindTable DEF AfterTable

LEMMA SettleData == ASSUME DataInv, Settle \/ PvSettle PROVE StateOK' /\ RunOK'
<1>1. /\ UNCHANGED <<kind, entry, others, copy, fs, disk, media, lv, jnl>>
      /\ pc \in {"settle", "pvsettle"}
      /\ \/ ckpt' = NoCkpt /\ Continue("close")
         \/ UNCHANGED ckpt /\ \E o : Stop(o)
         \/ UNCHANGED ckpt /\ Continue("pvbarrier")
  BY DEF Settle, PvSettle, fixed, table, volume, data
<1>2. /\ StateOK /\ TypedRun /\ InJob /\ ~HalfMoved(entry, ckpt)
      /\ jnl.state = "open" => ~Moves(job)
  BY <1>1, Behind DEF AfterTable
<1>3. StateOK'
  BY <1>1, <1>2, CkptGone, StillData
<1>4. CASE \E o : Stop(o)
  BY <1>3, <1>4, StoppedRun
<1>5. CASE ckpt' = NoCkpt /\ Continue("close")
  BY <1>1, <1>2, <1>3, <1>5, BehindTable DEF Continue, Go, inRun
<1>6. CASE Continue("pvbarrier")
  <2>1. UNCHANGED <<job, at, batch>> /\ pc' = "pvbarrier"
    BY <1>6 DEF Continue, Go, inRun
  <2> QED BY <1>1, <1>2, <1>3, <2>1, BehindTable DEF AfterTable
<1> QED BY <1>1, <1>4, <1>5, <1>6

LEMMA PvBarrierData == ASSUME DataInv, PvBarrier PROVE StateOK' /\ RunOK'
<1>1. /\ UNCHANGED <<kind, entry, others, copy, fs, disk, media, lv, ckpt, job, at, batch>>
      /\ pc = "pvbarrier" /\ pc' = "pvresize" /\ jnl' = Barred
  BY DEF PvBarrier, Bar, Continue, Go, inRun, fixed, table, volume, data
<1>2. StateOK /\ TypedRun /\ InJob
  BY <1>1, Behind DEF AfterTable
<1>3. StateOK' /\ jnl'.state = "barrier"
  BY <1>1, <1>2, JournalBarred
<1> QED BY <1>1, <1>2, <1>3, BehindTable DEF AfterTable, Growing

LEMMA PvResizeData == ASSUME DataInv, PvResize PROVE StateOK' /\ RunOK'
<1>1. /\ UNCHANGED <<kind, entry, others, copy, lv, ckpt, jnl>>
      /\ pc = "pvresize" /\ (FsTo(entry.len) \/ FsStays)
      /\ (\E o : Stop(o)) \/ (pc' = "lvextend" /\ UNCHANGED <<job, at, batch>>)
  BY DEF PvResize, FsPerhapsTo, Continue, Go, inRun, fixed, table, records
<1>2. TypedRun /\ InJob /\ (jnl.state = "open" => ~Moves(job))
  BY <1>1, Behind DEF AfterTable, Growing
<1>3. StateOK'
  BY <1>1, ToolGrows DEF Growing
<1>4. CASE \E o : Stop(o)
  BY <1>3, <1>4, StoppedRun
<1>5. CASE pc' = "lvextend" /\ UNCHANGED <<job, at, batch>>
  BY <1>1, <1>2, <1>3, <1>5, BehindTable DEF AfterTable
<1> QED BY <1>1, <1>4, <1>5

LEMMA NaturalProduct ==
  ASSUME NEW a \in Nat, NEW b \in Nat PROVE a * b \in Nat
OBVIOUS

(* A volume grows by whole extents.                                        *)
LEMMA VolumeIsNatural ==
  ASSUME StateOK, IInv, TypedRun, InJob, Extents > 0 PROVE lv + Extent * Extents \in Nat
<1>1. /\ lv \in Nat /\ fs \in Int /\ ckpt \in CkptRecords /\ entry.len \in Nat
      /\ Extent \in Nat \ {0}
  BY Sizes, StateFacts DEF StateOK, TypedState, IInv, Lengths
<1>2. ckpt.facts \in Facts /\ job.old.len \in Nat
  BY <1>1, RunFacts DEF CkptRecords
<1>3. /\ ckpt.facts.kind \in {"none", "pv", "lv"}
      /\ ckpt.facts.before \in Nat /\ ckpt.facts.target \in Nat
  BY <1>2 DEF Facts
<1>4. Free \in Int
  <2>1. fs \div Extent \in Int /\ lv \div Extent \in Int
    BY <1>1
  <2> QED BY <2>1 DEF Free, Max2
<1>5. Added \in Nat
  BY <1>1, <1>2 DEF Added, Max2
<1>6. FinishLvGrowth(ckpt.facts, lv, Free, Extent) \in Int
  <2>1. (ckpt.facts.target - ckpt.facts.before) \div Extent \in Int
    BY <1>1, <1>3
  <2> QED BY <2>1 DEF FinishLvGrowth
<1>7. ExtendByDelta(Added, Free, Extent) \in Int
  <2>1. Added \div Extent \in Int
    BY <1>1, <1>5
  <2> QED BY <2>1 DEF ExtendByDelta
<1>8. Extents \in Int
  <2>1. \/ Extents = 0 \/ Extents = FinishLvGrowth(ckpt.facts, lv, Free, Extent)
        \/ Extents = ExtendByDelta(Added, Free, Extent)
    BY <1>3 DEF Extents, LvExtents
  <2> QED BY <1>6, <1>7, <2>1
<1>9. Extents \in Nat
  BY <1>8
<1>10. Extent * Extents \in Nat
  BY <1>1, <1>9, NaturalProduct
<1> QED BY <1>1, <1>10

LEMMA LvExtendData == ASSUME DataInv, LvExtend PROVE StateOK' /\ RunOK'
<1>1. /\ UNCHANGED <<kind, entry, others, copy, fs, disk, media, ckpt, jnl>>
      /\ pc = "lvextend"
      /\ lv' = lv \/ (Extents > 0 /\ lv' = lv + Extent * Extents)
      /\ (\E o : Stop(o)) \/ (pc' = "pvsettle" /\ UNCHANGED <<job, at, batch>>)
  BY DEF LvExtend, AfterChain, Continue, Go, inRun, fixed, table, data, records
<1>2. /\ StateOK /\ IInv /\ TypedRun /\ InJob /\ (jnl.state = "open" => ~Moves(job))
  BY <1>1, Behind DEF AfterTable, DataInv
<1>3. lv' \in Nat
  BY <1>1, <1>2, VolumeIsNatural DEF StateOK, TypedState
<1>4. StateOK'
  BY <1>1, <1>2, <1>3, StateSame
<1>5. CASE \E o : Stop(o)
  BY <1>4, <1>5, StoppedRun
<1>6. CASE pc' = "pvsettle" /\ UNCHANGED <<job, at, batch>>
  BY <1>1, <1>2, <1>4, <1>6, BehindTable DEF AfterTable
<1> QED BY <1>1, <1>5, <1>6

(* The vacated sectors are given up.                                       *)
LEMMA TidyKeeps ==
  ASSUME StateOK, fs \in Nat, fs <= entry.len,
         UNCHANGED <<kind, entry, others, copy, fs, lv>>, ckpt' = NoCkpt, jnl' = NoJnl,
         disk' = Tidy(disk), media' = Tidy(media),
         \A k \in 0 .. fs - 1 : /\ IsAt(kind, disk[entry.start + k], k)
                                /\ IsAt(kind, media[entry.start + k], k)
  PROVE  StateOK'
<1>1. /\ TypedState /\ ApartState /\ disk \in [Sectors -> Int] /\ media \in [Sectors -> Int]
      /\ ContentKept /\ OthersKept
  BY DEF StateOK, TypedState
<1>2. entry.start \in Nat /\ entry.len \in Nat
  BY <1>1, StateFacts
<1>3. Covers(At(entry.start, fs)) = entry.start .. entry.start + fs - 1
  BY DEF Covers, At, Last
<1>4. ASSUME NEW f \in [Sectors -> Int],
             \A k \in 0 .. fs - 1 : IsAt(kind, f[entry.start + k], k)
      PROVE  /\ Tidy(f) \in [Sectors -> Int]
             /\ \A s \in Taken : Tidy(f)[s] = f[s]
             /\ \A k \in 0 .. fs - 1 : IsAt(kind, Tidy(f)[entry.start + k], k)
             /\ Clean(kind, entry, Taken, Tidy(f))
  <2>1. \A s \in Sectors : Tidy(f)[s] = IF Vacated(s) THEN Junk ELSE f[s]
    BY DEF Tidy
  <2>2. Tidy(f) \in [Sectors -> Int]
    BY <1>4 DEF Tidy, Junk
  <2>3. \A s \in Taken : Tidy(f)[s] = f[s]
    BY <1>1, <2>1, TakenSectors DEF Vacated
  <2>4. ASSUME NEW k \in 0 .. fs - 1 PROVE IsAt(kind, Tidy(f)[entry.start + k], k)
    <3>1. k \in Int /\ 0 <= k /\ k < entry.len
      BY <1>2
    <3>2. entry.start + k \in Sectors
      BY <1>1, <3>1, EntrySectors
    <3>3. entry.start + k \in entry.start .. entry.start + fs - 1
      BY <1>2
    <3>4. ~Vacated(entry.start + k)
      BY <1>3, <3>3 DEF Vacated
    <3> QED BY <1>4, <2>1, <3>2, <3>4
  <2>5. ASSUME NEW s \in Sectors \ Taken PROVE Own(kind, Tidy(f)[s], s - entry.start)
    <3>1. CASE Vacated(s)
      BY <2>1, <3>1 DEF Own
    <3>2. CASE ~Vacated(s)
      <4>1. s \in entry.start .. entry.start + fs - 1
        BY <1>3, <3>2 DEF Vacated
      <4>2. s - entry.start \in 0 .. fs - 1 /\ entry.start + (s - entry.start) = s
        BY <1>2, <4>1
      <4>3. IsAt(kind, Tidy(f)[s], s - entry.start)
        BY <2>4, <4>2
      <4>4. s - entry.start >= 0
        BY <4>2
      <4> QED BY <4>3, <4>4 DEF Own
    <3> QED BY <3>1, <3>2
  <2>6. Clean(kind, entry, Taken, Tidy(f))
    BY <2>5 DEF Clean
  <2> QED BY <2>2, <2>3, <2>4, <2>6
<1>5. /\ disk' \in [Sectors -> Int] /\ media' \in [Sectors -> Int]
      /\ \A s \in Taken : disk'[s] = disk[s] /\ media'[s] = media[s]
      /\ \A k \in 0 .. fs - 1 : /\ IsAt(kind, disk'[entry.start + k], k)
                                /\ IsAt(kind, media'[entry.start + k], k)
      /\ Clean(kind, entry, Taken, disk') /\ Clean(kind, entry, Taken, media')
  BY <1>1, <1>4
<1>6. TypedState'
  BY <1>1, <1>5, EmptyRecords DEF TypedState
<1>7. ApartState' /\ CountedState' /\ UndoState'
  BY <1>1, EmptyRecords DEF ApartState, CountedState, UndoState
<1>8. OthersKept'
  BY <1>1, <1>5, OthersFramed
<1>9. ContentKept'
  <2>1. ~HalfMoved(entry, ckpt)' /\ UNCHANGED Taken
    BY DEF HalfMoved, Taken
  <2>2. Clean(kind, entry, Taken, disk)' /\ Clean(kind, entry, Taken, media)'
    BY <1>5, <2>1
  <2> QED BY <1>5, <2>1, <2>2, WholeContent
<1> QED BY <1>6, <1>7, <1>8, <1>9 DEF StateOK

LEMMA CloseData == ASSUME DataInv, Close PROVE StateOK' /\ RunOK'
<1>1. /\ UNCHANGED <<kind, entry, others, copy, fs, lv, ckpt>> /\ pc = "close"
      /\ \/ UNCHANGED <<disk, media, jnl>>
         \/ jnl' = NoJnl /\ disk' = Tidy(disk) /\ media' = Tidy(media)
      /\ \E o : Stop(o)
  BY DEF Close, fixed, table, volume, data
<1>2. /\ StateOK /\ ckpt = NoCkpt /\ fs \in Nat /\ fs <= entry.len
  BY <1>1 DEF DataInv, RunOK, CountedRun, IInv, Lengths, StateOK, TypedState, FsFits
<1>3. RunOK'
  BY <1>1, StoppedRun
<1>4. CASE UNCHANGED <<disk, media, jnl>>
  BY <1>1, <1>2, <1>3, <1>4, StillData
<1>5. CASE jnl' = NoJnl /\ disk' = Tidy(disk) /\ media' = Tidy(media)
  <2>1. Plain
    BY <1>2 DEF Plain, HalfMoved
  <2>2. \A k \in 0 .. fs - 1 : /\ IsAt(kind, disk[entry.start + k], k)
                               /\ IsAt(kind, media[entry.start + k], k)
    BY <1>2, <2>1, PlainContent DEF StateOK
  <2> QED BY <1>1, <1>2, <1>3, <1>5, <2>2, TidyKeeps
<1> QED BY <1>1, <1>4, <1>5

-----------------------------------------------------------------------------
(* A copy writes in its own range only.                                    *)
LEMMA CopyUnderway ==
  ASSUME DataInv, pc \in Dup
  PROVE  /\ StateOK /\ TypedRun /\ InJob /\ ckpt = NoCkpt /\ label = "gpt"
         /\ job.old = entry /\ job.new.len = entry.len /\ others = job.seen
         /\ ~Meets(job.seen, job.new) /\ ~Meets(Covers(copy), job.new)
         /\ ~Meets(Covers(entry), job.new)
         /\ fs \in Nat /\ fs >= 1 /\ fs <= entry.len /\ CopyLen(job) = entry.len
         /\ ~HalfMoved(entry, ckpt) /\ Plain
         /\ IF pc = "dupbarrier" THEN jnl.state = "none" /\ at = 0 ELSE jnl.state = "barrier"
<1>1. IInv /\ StateOK /\ RunOK /\ Copying /\ pc # "prepared"
  BY DEF DataInv, Copying, Dup
<1>2. InJob
  BY DEF InJob, Dup
<1>3. /\ ckpt = NoCkpt /\ label = "gpt" /\ job.old = entry /\ job.new.len = entry.len
      /\ IF pc = "dupbarrier" THEN jnl.state = "none" /\ at = 0 ELSE jnl.state = "barrier"
  BY <1>1 DEF RunOK, CountedRun
<1>4. /\ others = job.seen /\ ~Meets(job.seen, job.new) /\ ~Meets(Covers(copy), job.new)
      /\ ~Meets(Covers(entry), job.new)
  BY <1>1 DEF RunOK, ApartRun
<1>5. fs \in Nat /\ fs >= 1 /\ fs <= entry.len
  BY <1>1 DEF StateOK, TypedState, IInv, Lengths, FsFits
<1>6. CopyLen(job) = entry.len
  BY <1>3 DEF CopyLen, Min2
<1>7. ~HalfMoved(entry, ckpt) /\ Plain
  BY <1>3 DEF HalfMoved, Plain
<1> QED BY <1>1, <1>2, <1>3, <1>4, <1>5, <1>6, <1>7 DEF RunOK

LEMMA DupWrites ==
  ASSUME DataInv, pc \in Dup, pc # "dupbarrier",
         UNCHANGED <<kind, entry, others, copy, fs, lv, ckpt, jnl>>,
         disk' \in [Sectors -> Int], media' \in [Sectors -> Int],
         \A s \in Sectors \ Covers(job.new) :
           disk'[s] = disk[s] /\ media'[s] \in {disk[s], media[s]}
  PROVE  StateOK'
<1>1. /\ StateOK /\ TypedRun /\ InJob /\ others = job.seen /\ jnl.state = "barrier"
      /\ ~Meets(job.seen, job.new) /\ ~Meets(Covers(copy), job.new)
      /\ ~Meets(Covers(entry), job.new)
      /\ fs \in Nat /\ fs <= entry.len /\ ~HalfMoved(entry, ckpt) /\ Plain
  BY CopyUnderway
<1>2. TypedState /\ ApartState /\ ContentKept /\ OthersKept /\ entry.len \in Nat
  BY <1>1, StateFacts DEF StateOK
<1>3. TypedState'
  BY <1>2 DEF TypedState
<1>4. ApartState' /\ CountedState' /\ UndoState'
  BY <1>1 DEF StateOK, ApartState, CountedState, UndoState
<1>5. OthersKept'
  <2>1. \A s \in Taken : s \in Sectors \ Covers(job.new)
    BY <1>1, <1>2, TakenSectors DEF Taken, Meets
  <2> QED BY <1>2, <2>1, OthersFramed
<1>6. ASSUME NEW k \in 0 .. fs - 1
      PROVE  IsAt(kind, disk'[entry.start + k], k) /\ IsAt(kind, media'[entry.start + k], k)
  <2>1. k \in Int /\ 0 <= k /\ k < entry.len
    BY <1>1, <1>2
  <2>2. entry.start + k \in Sectors \ Covers(job.new)
    BY <1>1, <1>2, <2>1, EntrySectors DEF Meets
  <2>3. IsAt(kind, disk[entry.start + k], k) /\ IsAt(kind, media[entry.start + k], k)
    BY <1>1, <1>2, PlainContent
  <2> QED BY <2>2, <2>3
<1>7. ContentKept'
  BY <1>1, <1>6, WholeContent
<1> QED BY <1>3, <1>4, <1>5, <1>7 DEF StateOK

LEMMA DupRun ==
  ASSUME DataInv, pc \in Dup, pc' \in Dup, pc' # "dupbarrier", jnl'.state = "barrier",
         UNCHANGED <<label, entry, others, copy, ckpt, job, batch>>, at' \in Nat, RunContent'
  PROVE  RunOK'
<1>1. /\ TypedRun /\ InJob /\ ckpt = NoCkpt /\ label = "gpt"
      /\ job.old = entry /\ job.new.len = entry.len /\ others = job.seen
      /\ ~Meets(job.seen, job.new) /\ ~Meets(Covers(copy), job.new)
      /\ ~Meets(Covers(entry), job.new)
  BY CopyUnderway
<1>2. TypedRun'
  BY <1>1 DEF TypedRun
<1>3. ApartRun'
  BY <1>1 DEF ApartRun, InPlace, BeforeTable, Deciding, Moving, Copying, Dup
<1>4. CountedRun'
  BY <1>1 DEF CountedRun, InPlace, BeforeTable, Deciding, Moving, Copying, Dup, Stepping
<1>5. UndoRun'
  BY DEF UndoRun, Dup
<1> QED BY <1>2, <1>3, <1>4, <1>5 DEF RunOK

LEMMA DupBarrierData == ASSUME DataInv, DupBarrier PROVE StateOK' /\ RunOK'
<1>1. /\ UNCHANGED <<label, kind, entry, others, copy, fs, disk, media, lv, ckpt, job, at, batch>>
      /\ pc = "dupbarrier" /\ pc' = "dup" /\ jnl' = Barred
  BY DEF DupBarrier, Bar, Continue, Go, inRun, fixed, table, volume, data
<1>2. StateOK /\ TypedRun /\ at = 0
  BY <1>1, CopyUnderway DEF Dup
<1>3. StateOK' /\ jnl'.state = "barrier"
  BY <1>1, <1>2, JournalBarred
<1>4. RunContent'
  <2>1. at' = 0 /\ pc' = "dup"
    BY <1>1, <1>2
  <2>2. \A n \in 0 .. at' - 1 : FALSE
    BY <2>1
  <2> QED BY <2>1, <2>2 DEF RunContent, Stepping
<1>5. RunOK'
  BY <1>1, <1>2, <1>3, <1>4, DupRun DEF Dup, TypedRun
<1> QED BY <1>3, <1>5

LEMMA DupChunkData == ASSUME DataInv, DupChunk PROVE StateOK' /\ RunOK'
<1>1. /\ UNCHANGED <<label, kind, entry, others, copy, fs, media, lv, ckpt, jnl, job, batch>>
      /\ pc = "dup" /\ pc' = "dupsync" /\ at' = at + 1
      /\ disk' = [s \in Sectors |->
           IF s - job.new.start \in ChunkAt(job, at)
           THEN disk[job.old.start + (s - job.new.start)] ELSE disk[s]]
  BY DEF DupChunk, DupStays, Go, fixed, volume, records
<1>2. /\ StateOK /\ TypedRun /\ InJob /\ job.old = entry /\ CopyLen(job) = entry.len
      /\ job.new.len = entry.len
      /\ jnl.state = "barrier" /\ fs \in Nat /\ fs <= entry.len /\ Plain /\ at \in Nat
  BY <1>1, CopyUnderway DEF Dup, TypedRun
<1>3. /\ GoodMove(job) /\ Proper(job.old) /\ Proper(job.new)
      /\ job.old.start \in Nat /\ job.old.len \in Nat
      /\ job.new.start \in Nat /\ job.new.len \in Nat
  BY <1>2, RunFacts
<1>4. disk \in [Sectors -> Int] /\ media \in [Sectors -> Int]
  BY <1>2 DEF StateOK, TypedState
<1>5. ASSUME NEW o \in ChunkAt(job, at)
      PROVE  o \in 0 .. entry.len - 1 /\ job.old.start + o \in Sectors
             /\ job.new.start + o \in Covers(job.new) /\ job.new.start + o \in Sectors
  <2>1. /\ o \in Int /\ at * ChunkLen(job) <= o /\ o < entry.len
    BY <1>2, <1>3, <1>5, InChunk
  <2>2. ChunkLen(job) \in Nat
    BY <1>3, Lengthwise
  <2>3. at * ChunkLen(job) \in Nat
    BY <1>2, <2>2, NaturalProduct
  <2>4. 0 <= o
    BY <2>1, <2>3
  <2>5. o \in 0 .. entry.len - 1
    BY <1>2, <1>3, <2>1, <2>4
  <2>6. job.old.start + o \in Covers(job.old) /\ Covers(job.old) \subseteq Sectors
    BY <1>2, <1>3, <2>1, <2>4, ProperFacts
  <2>7. job.new.start + o \in Covers(job.new) /\ Covers(job.new) \subseteq Sectors
    BY <1>2, <1>3, <2>1, <2>4, ProperFacts
  <2> QED BY <2>5, <2>6, <2>7
<1>6. \A s \in Sectors :
        disk'[s] = IF s - job.new.start \in ChunkAt(job, at)
                   THEN disk[job.old.start + (s - job.new.start)] ELSE disk[s]
  BY <1>1
<1>7. disk' \in [Sectors -> Int]
  <2>1. \A s \in Sectors : disk'[s] \in Int
    BY <1>4, <1>5, <1>6
  <2> QED BY <1>1, <2>1
<1>8. \A s \in Sectors \ Covers(job.new) : disk'[s] = disk[s]
  <2>1. ASSUME NEW s \in Sectors, s - job.new.start \in ChunkAt(job, at) PROVE s \in Covers(job.new)
    <3>1. job.new.start + (s - job.new.start) = s
      BY <1>3, Sizes
    <3>2. job.new.start + (s - job.new.start) \in Covers(job.new)
      BY <1>5, <2>1
    <3> QED BY <3>1, <3>2
  <2> QED BY <1>6, <2>1
<1>9. StateOK'
  BY <1>1, <1>4, <1>7, <1>8, DupWrites DEF Dup
<1>10. RunContent'
  <2>1. ASSUME NEW n \in 0 .. at, NEW k \in ChunkAt(job, n), k < fs
        PROVE  IsAt(kind, disk'[job.new.start + k], k)
    <3>1. n \in Int /\ at \in Int /\ n \in Nat
      BY <1>2
    <3>2. /\ k \in Int /\ n * ChunkLen(job) <= k /\ k < entry.len /\ ChunkLen(job) \in Nat
      BY <1>2, <1>3, <2>1, <3>1, InChunk, Lengthwise
    <3>3. n * ChunkLen(job) \in Nat
      BY <3>1, <3>2, NaturalProduct
    <3>4. 0 <= k /\ k \in 0 .. fs - 1
      BY <1>2, <2>1, <3>2, <3>3
    <3>5. job.new.start + k \in Sectors /\ (job.new.start + k) - job.new.start = k
      BY <1>2, <1>3, <3>2, <3>4, ProperFacts
    <3>6. CASE n # at
      <4>1. n \in 0 .. at - 1
        BY <1>2, <3>6
      <4>2. IsAt(kind, disk[job.new.start + k], k)
        BY <1>1, <2>1, <4>1 DEF DataInv, RunOK, RunContent, Arrived
      <4>3. k \notin ChunkAt(job, at)
        BY <1>3, <2>1, <3>1, <3>6, ChunksApart
      <4> QED BY <1>6, <3>5, <4>2, <4>3
    <3>7. CASE n = at
      <4>1. disk'[job.new.start + k] = disk[entry.start + k]
        BY <1>2, <1>6, <2>1, <3>5, <3>7
      <4>2. IsAt(kind, disk[entry.start + k], k)
        BY <1>2, <3>4, PlainContent DEF StateOK
      <4> QED BY <4>1, <4>2
    <3> QED BY <3>6, <3>7
  <2>2. at' - 1 = at /\ pc' = "dupsync"
    BY <1>1, <1>2
  <2> QED BY <1>1, <2>1, <2>2 DEF RunContent, Arrived, Stepping
<1>11. at' \in Nat
  BY <1>1, <1>2
<1>12. RunOK'
  BY <1>1, <1>2, <1>10, <1>11, DupRun DEF Dup
<1> QED BY <1>9, <1>12

LEMMA DupSyncData == ASSUME DataInv, DupSync PROVE StateOK' /\ RunOK'
<1>1. /\ UNCHANGED <<label, kind, entry, others, copy, fs, disk, lv, ckpt, jnl, job, at, batch>>
      /\ pc = "dupsync" /\ media' = disk
      /\ pc' = IF at < ChunkCount(job) THEN "dup" ELSE "duphidden"
  BY DEF DupSync, DupStays, Continue, Go, inRun, fixed, volume, records
<1>2. /\ StateOK /\ TypedRun /\ InJob /\ jnl.state = "barrier" /\ at \in Nat
      /\ disk \in [Sectors -> Int]
  BY <1>1, CopyUnderway DEF Dup, TypedRun, StateOK, TypedState
<1>3. StateOK'
  BY <1>1, <1>2, DupWrites DEF Dup
<1>4. RunContent'
  <2>1. UNCHANGED ChunkCount(job) /\ ChunkCount(job) \in Nat
    BY <1>1, <1>2, RunFacts, CountFacts DEF ChunkCount, CopyLen, ChunkLen, Overlaps, Moved, Forward
  <2>2. pc' = "duphidden" => at' >= ChunkCount(job)'
    BY <1>1, <1>2, <2>1
  <2>3. (\A n \in 0 .. at - 1 : Arrived(kind, job.new.start, fs, disk, ChunkAt(job, n)))'
    BY <1>1 DEF DataInv, RunOK, RunContent
  <2>4. pc' \in {"dup", "duphidden"}
    BY <1>1
  <2> QED BY <2>2, <2>3, <2>4 DEF RunContent, Stepping
<1>5. RunOK'
  BY <1>1, <1>2, <1>4, DupRun DEF Dup
<1> QED BY <1>3, <1>5

LEMMA DupHiddenData == ASSUME DataInv, DupHidden PROVE StateOK' /\ RunOK'
<1>1. /\ UNCHANGED <<label, kind, entry, others, copy, fs, lv, ckpt, jnl, job, at, batch>>
      /\ pc = "duphidden" /\ pc' = "dupadd"
      /\ IF kind = "ntfs" THEN FixBoot(job.new.start) ELSE UNCHANGED <<disk, media>>
  BY DEF DupHidden, DupStays, Continue, Go, inRun, fixed, volume, records, data
<1>2. /\ StateOK /\ TypedRun /\ InJob /\ jnl.state = "barrier" /\ at \in Nat
      /\ CopyLen(job) = entry.len /\ job.new.len = entry.len
      /\ fs \in Nat /\ fs >= 1 /\ fs <= entry.len
      /\ disk \in [Sectors -> Int] /\ media \in [Sectors -> Int]
  BY <1>1, CopyUnderway DEF Dup, TypedRun, StateOK, TypedState
<1>3. /\ GoodMove(job) /\ Proper(job.new) /\ job.new.start \in Nat /\ job.new.len \in Nat
  BY <1>2, RunFacts
<1>4. job.new.start \in Covers(job.new) /\ job.new.start \in Sectors
  <2>1. job.new.start + 0 = job.new.start /\ 0 < job.new.len
    BY <1>2, <1>3
  <2>2. job.new.start + 0 \in Covers(job.new) /\ Covers(job.new) \subseteq Sectors
    BY <1>3, <2>1, ProperFacts
  <2> QED BY <2>1, <2>2
<1>5. Boot(job.new.start) \in Int
  BY <1>3 DEF Boot
<1>6. /\ disk' \in [Sectors -> Int] /\ media' \in [Sectors -> Int]
      /\ kind = "ntfs" => disk'[job.new.start] = Boot(job.new.start)
      /\ kind # "ntfs" => disk' = disk
      /\ \A s \in Sectors : s # job.new.start =>
           disk'[s] = disk[s] /\ media'[s] \in {disk[s], media[s]}
  <2>1. CASE kind = "ntfs"
    <3>1. /\ disk' = [disk EXCEPT ![job.new.start] = Boot(job.new.start)]
          /\ media' = [disk EXCEPT ![job.new.start] = Boot(job.new.start)]
      BY <1>1, <2>1 DEF FixBoot
    <3> QED BY <1>2, <1>4, <1>5, <2>1, <3>1
  <2>2. CASE kind # "ntfs"
    BY <1>1, <1>2, <2>2
  <2> QED BY <2>1, <2>2
<1>7. StateOK'
  BY <1>1, <1>4, <1>6, DupWrites DEF Dup
<1>8. RunContent'
  <2>1. ASSUME NEW k \in 0 .. fs - 1
        PROVE  disk'[job.new.start + k] = Held(kind, job.new.start, k)
    <3>1. k \in Nat /\ k < entry.len /\ k < fs /\ k \in 0 .. CopyLen(job) - 1
      BY <1>2, <1>3
    <3>2. PICK p \in 0 .. ChunkCount(job) - 1 : k \in ChunkAt(job, p)
      BY <1>3, <3>1, ChunksCover
    <3>3. at >= ChunkCount(job) /\ ChunkCount(job) \in Nat
      BY <1>1, <1>3, CountFacts DEF DataInv, RunOK, RunContent
    <3>4. p \in 0 .. at - 1
      BY <1>2, <3>2, <3>3
    <3>5. IsAt(kind, disk[job.new.start + k], k)
      BY <1>1, <3>1, <3>2, <3>4 DEF DataInv, RunOK, RunContent, Arrived
    <3>6. job.new.start + k \in Sectors
      BY <1>2, <1>3, <3>1, ProperFacts
    <3>7. CASE kind = "ntfs" /\ k = 0
      <4>1. job.new.start + k = job.new.start
        BY <1>3, <3>7
      <4> QED BY <1>6, <3>7, <4>1 DEF Held
    <3>8. CASE ~(kind = "ntfs" /\ k = 0)
      <4>1. disk[job.new.start + k] = k
        BY <3>5, <3>8 DEF IsAt
      <4>2. kind = "ntfs" => job.new.start + k # job.new.start
        BY <1>3, <3>1, <3>8
      <4>3. disk'[job.new.start + k] = disk[job.new.start + k]
        BY <1>6, <3>6, <4>2
      <4> QED BY <3>8, <4>1, <4>3 DEF Held
    <3> QED BY <3>7, <3>8
  <2>2. pc' = "dupadd"
    BY <1>1
  <2> QED BY <1>1, <2>1, <2>2 DEF RunContent, Stepping
<1>9. RunOK'
  BY <1>1, <1>2, <1>8, DupRun DEF Dup
<1> QED BY <1>7, <1>9

LEMMA DupAddData == ASSUME DataInv, DupAdd PROVE StateOK' /\ RunOK'
<1>1. /\ UNCHANGED <<label, kind, entry, others, fs, lv, disk, ckpt, jnl>> /\ pc = "dupadd"
      /\ \/ UNCHANGED <<copy, media>> /\ \E o : Stop(o)
         \/ /\ copy' = [start |-> job.new.start, len |-> job.new.len, fs |-> fs]
            /\ media' = disk /\ pc' = "close" /\ UNCHANGED <<job, at, batch>>
  BY DEF DupAdd, DupStays, Continue, Go, inRun, fixed, volume, records
<1>2. /\ StateOK /\ TypedRun /\ InJob /\ jnl.state = "barrier" /\ ckpt = NoCkpt
      /\ others = job.seen /\ ~Meets(job.seen, job.new) /\ ~Meets(Covers(entry), job.new)
      /\ job.new.len = entry.len /\ fs \in Nat /\ fs <= entry.len
      /\ ~HalfMoved(entry, ckpt) /\ Plain
  BY <1>1, CopyUnderway DEF Dup
<1>3. CASE UNCHANGED <<copy, media>> /\ \E o : Stop(o)
  BY <1>1, <1>2, <1>3, StoppedData
<1>4. CASE /\ copy' = [start |-> job.new.start, len |-> job.new.len, fs |-> fs]
           /\ media' = disk /\ pc' = "close" /\ UNCHANGED <<job, at, batch>>
  <2>1. /\ job.new \in Ranges /\ Proper(job.new) /\ entry \in Ranges
        /\ disk \in [Sectors -> Int]
    BY <1>2 DEF TypedRun, JobRecords, StateOK, TypedState
  <2>2. /\ job.new.start \in 0 .. DiskSize /\ job.new.len \in 0 .. DiskSize
    BY <2>1 DEF Ranges
  <2>3. fs \in 0 .. DiskSize
    BY <1>2, <2>2, Sizes
  <2>4. /\ copy' \in CopyRecords /\ copy'.start = job.new.start /\ copy'.len = job.new.len
        /\ copy'.fs = fs /\ copy'.fs <= copy'.len
    BY <1>2, <1>4, <2>2, <2>3 DEF CopyRecords
  <2>5. Proper(copy') /\ Covers(copy') = Covers(job.new)
    BY <2>1, <2>4 DEF Proper, Covers, Last
  <2>6. TypedState'
    BY <1>1, <1>2, <1>4, <2>1, <2>4, <2>5 DEF StateOK, TypedState
  <2>7. ApartState'
    <3>1. /\ ~Meets(others, entry) /\ ~Meets(Covers(copy'), entry) /\ ~Meets(others, copy')
      BY <1>2, <2>5 DEF StateOK, ApartState, Meets
    <3> QED BY <1>1, <1>2, <3>1 DEF ApartState
  <2>8. CountedState' /\ UndoState'
    BY <1>1, <1>2 DEF StateOK, CountedState, UndoState
  <2>9. OthersKept'
    <3>1. CopyKept(kind, copy', disk)
      BY <1>1, <2>4 DEF DataInv, RunOK, RunContent, CopyKept
    <3>2. AlienKept(others, disk)
      BY <1>2 DEF StateOK, OthersKept
    <3> QED BY <1>1, <1>4, <3>1, <3>2 DEF OthersKept
  <2>10. ContentKept'
    <3>1. \A k \in 0 .. fs - 1 : IsAt(kind, disk[entry.start + k], k)
      BY <1>2, PlainContent DEF StateOK
    <3>2. ~HalfMoved(entry, ckpt)' /\ jnl'.state = "barrier"
      BY <1>1, <1>2
    <3> QED BY <1>1, <1>4, <3>1, <3>2, WholeContent
  <2>11. RunOK'
    BY <1>1, <1>2, <1>4, BehindTable
  <2> QED BY <2>6, <2>7, <2>8, <2>9, <2>10, <2>11 DEF StateOK
<1> QED BY <1>1, <1>3, <1>4

-----------------------------------------------------------------------------
(* Undo, abandon and the environment.                                      *)
LEMMA UndoTableData == ASSUME DataInv, UndoTable PROVE StateOK' /\ RunOK'
<1>1. /\ UNCHANGED <<kind, others, copy, fs, lv, disk, media, ckpt, jnl, job, at, batch>>
      /\ pc = "down" /\ pc' = "undone" /\ jnl.state = "open" /\ others = jnl.others
      /\ entry' = jnl.entry
  BY DEF UndoTable, Idle, fixed, inRun, volume, data, records
<1>2. StateOK /\ RunOK
  BY DEF DataInv
<1>3. /\ entry'.start = entry.start /\ Proper(entry') /\ entry' \in Ranges
      /\ ckpt # NoCkpt => ~Moves(ckpt)
  BY <1>1, <1>2 DEF StateOK, TypedState, UndoState, JnlRecords
<1>4. TypedState'
  BY <1>1, <1>2, <1>3 DEF StateOK, TypedState
<1>5. ApartState'
  BY <1>1, <1>2 DEF StateOK, ApartState
<1>6. CountedState' /\ UndoState' /\ OthersKept'
  BY <1>1, <1>2, <1>3 DEF StateOK, CountedState, UndoState, OthersKept
<1>7. ContentKept'
  <2>1. Plain /\ ~HalfMoved(entry, ckpt)'
    BY <1>1, <1>3 DEF Plain, HalfMoved
  <2>2. \A k \in 0 .. fs - 1 : /\ IsAt(kind, disk[entry.start + k], k)
                               /\ IsAt(kind, media[entry.start + k], k)
    BY <1>2, <2>1, PlainContent DEF StateOK
  <2>3. Clean(kind, entry, Taken, disk) /\ Clean(kind, entry, Taken, media) /\ UNCHANGED Taken
    BY <1>1, <1>2 DEF StateOK, ContentKept, Taken
  <2>4. Clean(kind, entry, Taken, disk)' /\ Clean(kind, entry, Taken, media)'
    BY <1>1, <1>3, <2>3 DEF Clean
  <2> QED BY <1>1, <1>3, <2>1, <2>2, <2>4, WholeContent
<1>8. RunOK'
  <2>1. TypedRun'
    BY <1>1, <1>2 DEF RunOK, TypedRun, InJob
  <2>2. ApartRun' /\ CountedRun' /\ UndoRun'
    BY <1>1 DEF ApartRun, CountedRun, UndoRun, InJob, InPlace, BeforeTable, Deciding, Moving,
                Stepping, Copying, Dup
  <2>3. RunContent'
    BY <1>1 DEF RunContent, Stepping
  <2> QED BY <2>1, <2>2, <2>3 DEF RunOK
<1> QED BY <1>4, <1>5, <1>6, <1>7, <1>8 DEF StateOK

LEMMA UndoFilesData == ASSUME DataInv, UndoFiles PROVE StateOK' /\ RunOK'
<1>1. /\ UNCHANGED <<kind, entry, others, copy, fs, lv, disk, media>>
      /\ \/ /\ pc = "undone" /\ jnl' = NoJnl /\ UNCHANGED <<ckpt, job, at, batch>>
            /\ pc' = "undonefiles"
         \/ pc = "undonefiles" /\ ckpt' = NoCkpt /\ UNCHANGED jnl /\ \E o : Stop(o)
  BY DEF UndoFiles, Continue, Go, inRun, fixed, table, volume, data
<1>2. StateOK /\ RunOK
  BY DEF DataInv
<1>3. CASE /\ pc = "undone" /\ jnl' = NoJnl /\ UNCHANGED <<ckpt, job, at, batch>>
           /\ pc' = "undonefiles"
  <2>1. jnl.state = "open"
    BY <1>2, <1>3 DEF RunOK, UndoRun
  <2>2. StateOK'
    BY <1>1, <1>2, <1>3, <2>1, JournalGone
  <2>3. TypedRun'
    BY <1>2, <1>3 DEF RunOK, TypedRun, InJob
  <2>4. ApartRun' /\ CountedRun'
    BY <1>3 DEF ApartRun, CountedRun, InPlace, BeforeTable, Deciding, Moving, Stepping, Copying, Dup
  <2>5. UndoRun'
    BY <1>2, <1>3, <2>1, EmptyRecords DEF StateOK, UndoState, UndoRun
  <2>6. RunContent'
    BY <1>3 DEF RunContent, Stepping
  <2> QED BY <2>2, <2>3, <2>4, <2>5, <2>6 DEF RunOK
<1>4. CASE pc = "undonefiles" /\ ckpt' = NoCkpt /\ UNCHANGED jnl /\ \E o : Stop(o)
  <2>1. ~HalfMoved(entry, ckpt)
    BY <1>2, <1>4 DEF RunOK, UndoRun, HalfMoved
  <2> QED BY <1>1, <1>2, <1>4, <2>1, CkptGone, StoppedRun
<1> QED BY <1>1, <1>3, <1>4

LEMMA RestingRun ==
  ASSUME RunOK, pc' = "down", UNCHANGED <<job, at, batch>> PROVE RunOK'
BY AtRestRun DEF RunOK, TypedRun

LEMMA AbandonData == ASSUME DataInv, Abandon PROVE StateOK' /\ RunOK'
<1>1. /\ UNCHANGED <<kind, entry, others, copy, fs, lv, job, at, batch>> /\ pc' = "down"
      /\ \A k \in 0 .. fs - 1 : Is(disk[entry.start + k], k)
      /\ ckpt' = NoCkpt /\ jnl' = NoJnl /\ disk' = Tidy(disk) /\ media' = Tidy(media)
  BY DEF Abandon, Idle, fixed, inRun, table, volume
<1>2. /\ StateOK /\ RunOK /\ fs \in Nat /\ fs <= entry.len
  BY DEF DataInv, IInv, Lengths, StateOK, TypedState, FsFits
<1>3. ASSUME NEW k \in 0 .. fs - 1
      PROVE  IsAt(kind, disk[entry.start + k], k) /\ IsAt(kind, media[entry.start + k], k)
  <2>1. IsAt(kind, disk[entry.start + k], k)
    BY <1>1, IsIsAt
  <2>2. CASE HalfMoved(entry, ckpt) /\ Counts(ckpt, k)
    BY <1>2, <2>1, <2>2 DEF StateOK, ContentKept, Agrees
  <2>3. CASE ~(HalfMoved(entry, ckpt) /\ Counts(ckpt, k))
    <3>1. Spot(entry, ckpt, k) = entry.start + k
      BY <2>3 DEF Spot
    <3>2. IsAt(kind, media[Spot(entry, ckpt, k)], k)
      BY <1>2 DEF StateOK, ContentKept, Kept
    <3> QED BY <2>1, <3>1, <3>2
  <2> QED BY <2>1, <2>2, <2>3
<1> QED BY <1>1, <1>2, <1>3, TidyKeeps, RestingRun

LEMMA UnmountData == ASSUME DataInv, Unmount PROVE StateOK' /\ RunOK'
<1>1. /\ UNCHANGED <<kind, entry, others, copy, fs, disk, media, ckpt, jnl, lv, job, at, batch>>
      /\ pc' = "down"
  BY DEF Unmount, Idle, fixed, inRun, table, volume, data, records
<1> QED BY <1>1, StillData, RestingRun DEF DataInv

LEMMA KillData == ASSUME DataInv, Kill PROVE StateOK' /\ RunOK'
<1>1. /\ UNCHANGED <<kind, entry, others, copy, fs, disk, media, ckpt, jnl, lv>>
      /\ \E o : Stop(o)
  BY DEF Kill, Die, fixed, table, volume, data, records
<1> QED BY <1>1, StoppedData DEF DataInv

(* A power loss leaves a mixture of what was read and what was durable.    *)
LEMMA PowerLossData == ASSUME DataInv, PowerLoss PROVE StateOK' /\ RunOK'
<1>1. /\ UNCHANGED <<kind, entry, others, copy, fs, ckpt, jnl, lv>> /\ media' = disk'
      /\ \E o : Stop(o)
  BY DEF PowerLoss, Die, fixed, table, volume, records
<1>2. PICK kept \in SUBSET { s \in Sectors : disk[s] # media[s] } :
        disk' = [s \in Sectors |-> IF s \in kept THEN disk[s] ELSE media[s]]
  BY DEF PowerLoss
<1>3. \A s \in Sectors : disk'[s] \in {disk[s], media[s]}
  BY <1>2
<1>4. /\ StateOK /\ TypedState /\ ApartState /\ OthersKept /\ ContentKept
      /\ disk \in [Sectors -> Int] /\ media \in [Sectors -> Int]
      /\ fs \in Nat /\ fs <= entry.len
  BY DEF DataInv, StateOK, TypedState, IInv, Lengths, FsFits
<1>5. disk' \in [Sectors -> Int]
  <2>1. \A s \in Sectors : disk'[s] \in Int
    BY <1>3, <1>4
  <2> QED BY <1>2, <2>1
<1>6. TypedState'
  BY <1>1, <1>4, <1>5 DEF TypedState
<1>7. ApartState' /\ CountedState' /\ UndoState'
  BY <1>1, <1>4 DEF StateOK, ApartState, CountedState, UndoState
<1>8. OthersKept'
  <2>1. \A s \in Taken : s \in Sectors
    BY <1>4, TakenSectors
  <2> QED BY <1>1, <1>3, <1>4, <2>1, OthersFramed
<1>9. ContentKept'
  <2>1. Kept(kind, entry, ckpt, fs, disk')
    <3>1. \A k \in 0 .. fs - 1 : Spot(entry, ckpt, k) \in Sectors
      BY <1>4, SpotSectors DEF FsFits
    <3> QED BY <1>3, <1>4, <3>1 DEF ContentKept, Kept
  <2>2. jnl.state # "barrier" => Clean(kind, entry, Taken, disk')
    BY <1>3, <1>4 DEF ContentKept, Clean
  <2>3. SourceOwn(kind, entry, ckpt, disk')
    <3>1. ASSUME HalfMoved(entry, ckpt), NEW k \in 0 .. CopyLen(ckpt) - 1
          PROVE  entry.start + k \in Sectors
      <4>1. ckpt # NoCkpt /\ entry = ckpt.old
        BY <3>1 DEF HalfMoved
      <4>2. GoodMove(ckpt)
        BY <1>4, <4>1, StateFacts
      <4>3. CopyLen(ckpt) \in Nat /\ CopyLen(ckpt) <= entry.len
        BY <4>1, <4>2, Lengthwise
      <4>4. k \in Int /\ 0 <= k /\ k < entry.len
        BY <1>4, <4>3, StateFacts
      <4> QED BY <1>4, <4>4, EntrySectors
    <3>2. SourceOwn(kind, entry, ckpt, disk) /\ SourceOwn(kind, entry, ckpt, media)
      BY <1>4 DEF ContentKept
    <3> QED BY <1>3, <3>1, <3>2 DEF SourceOwn
  <2>4. Agrees(kind, entry, ckpt, fs, disk', disk')
    BY DEF Agrees
  <2>5. UNCHANGED Taken
    BY <1>1 DEF Taken
  <2> QED BY <1>1, <2>1, <2>2, <2>3, <2>4, <2>5 DEF ContentKept
<1> QED BY <1>1, <1>6, <1>7, <1>8, <1>9, StoppedRun DEF StateOK

LEMMA ThirdPartyData == ASSUME DataInv, ThirdParty PROVE StateOK' /\ RunOK'
<1>1. /\ UNCHANGED <<label, kind, entry, copy, fs, lv, ckpt, jnl, pc, job, at, batch>>
      /\ pc \in {"down", "prepared", "shrink", "saveshrink", "cut"} \/ (label = "mbr" /\ pc = "commit")
  BY DEF ThirdParty, Looking, fixed, inRun, volume, records
<1>2. PICK s \in Claimable \ (Taken \cup Covers(entry)) :
        /\ ckpt # NoCkpt => s \notin Covers(ckpt.new)
        /\ others' = others \cup {s}
        /\ disk' = [disk EXCEPT ![s] = Alien] /\ media' = [media EXCEPT ![s] = Alien]
  BY DEF ThirdParty
<1>3. /\ StateOK /\ TypedState /\ ApartState /\ OthersKept /\ ContentKept /\ RunOK
      /\ disk \in [Sectors -> Int] /\ media \in [Sectors -> Int]
      /\ fs \in Nat /\ fs <= entry.len /\ label \in {"gpt", "mbr"}
  BY DEF DataInv, StateOK, TypedState, IInv, Lengths, FsFits
<1>4. s \in Sectors /\ s \notin Taken /\ s \notin Covers(entry)
  <2>1. s \in Claimable /\ s \notin Taken /\ s \notin Covers(entry)
    BY <1>2
  <2>2. Claimable \subseteq 1 .. Usable
    BY PartAssumption
  <2>3. 1 .. Usable \subseteq 1 .. DiskSize
    BY Sizes
  <2> QED BY <2>1, <2>2, <2>3 DEF Sectors
<1>5. /\ disk' \in [Sectors -> Int] /\ media' \in [Sectors -> Int]
      /\ disk'[s] = Alien /\ media'[s] = Alien
      /\ \A x \in Sectors : x # s => disk'[x] = disk[x] /\ media'[x] = media[x]
  BY <1>2, <1>3, <1>4 DEF Alien
<1>6. Taken' = Taken \cup {s}
  BY <1>1, <1>2 DEF Taken
<1>7. TypedState'
  BY <1>1, <1>2, <1>3, <1>4, <1>5 DEF TypedState
<1>8. ApartState'
  <2>1. ~Meets(others', entry) /\ ~Meets(others', copy)
    BY <1>2, <1>3, <1>4 DEF ApartState, Meets, Taken
  <2> QED BY <1>1, <1>3, <2>1 DEF ApartState
<1>9. CountedState' /\ UndoState'
  BY <1>1, <1>3 DEF StateOK, CountedState, UndoState
<1>10. OthersKept'
  <2>1. AlienKept(others, disk)' /\ AlienKept(others, media)'
    <3>1. others \subseteq Sectors
      BY <1>3 DEF TypedState
    <3> QED BY <1>2, <1>3, <1>5, <3>1 DEF OthersKept, AlienKept
  <2>2. \A x \in Taken : disk'[x] = disk[x] /\ media'[x] = media[x]
    BY <1>3, <1>4, <1>5, TakenSectors
  <2>3. CopyKept(kind, copy, disk)' /\ CopyKept(kind, copy, media)'
    BY <1>1, <1>3, <2>2, CopySectors DEF OthersKept, CopyKept
  <2> QED BY <2>1, <2>3 DEF OthersKept
<1>11. ContentKept'
  <2>1. ASSUME NEW k \in Int, 0 <= k, k < entry.len
        PROVE  /\ disk'[entry.start + k] = disk[entry.start + k]
               /\ media'[entry.start + k] = media[entry.start + k]
    <3>1. entry.start + k \in Sectors /\ entry.start + k \in Covers(entry)
      BY <1>3, <2>1, EntrySectors
    <3> QED BY <1>4, <1>5, <3>1
  <2>2. ASSUME NEW k \in 0 .. fs - 1
        PROVE  /\ disk'[Spot(entry, ckpt, k)] = disk[Spot(entry, ckpt, k)]
               /\ media'[Spot(entry, ckpt, k)] = media[Spot(entry, ckpt, k)]
    <3>1. k \in Nat /\ k \in Int /\ 0 <= k /\ k < entry.len
      BY <1>3, StateFacts
    <3>2. CASE HalfMoved(entry, ckpt) /\ Counts(ckpt, k)
      <4>1. ckpt # NoCkpt /\ Spot(entry, ckpt, k) = ckpt.new.start + k
        BY <3>2 DEF HalfMoved, Spot
      <4>2. ckpt.new.start + k \in Covers(ckpt.new) /\ ckpt.new.start + k \in Sectors
        BY <1>3, <3>1, <3>2, <4>1, CountedInside
      <4> QED BY <1>2, <1>5, <4>1, <4>2
    <3>3. CASE ~(HalfMoved(entry, ckpt) /\ Counts(ckpt, k))
      <4>1. Spot(entry, ckpt, k) = entry.start + k
        BY <3>3 DEF Spot
      <4> QED BY <2>1, <3>1, <4>1
    <3> QED BY <3>2, <3>3
  <2>3. Kept(kind, entry, ckpt, fs, disk)' /\ Kept(kind, entry, ckpt, fs, media)'
    BY <1>1, <1>3, <2>2 DEF ContentKept, Kept
  <2>4. jnl'.state # "barrier" =>
          Clean(kind, entry, Taken, disk)' /\ Clean(kind, entry, Taken, media)'
    <3>1. \A x \in Sectors \ Taken' : x \in Sectors \ Taken /\ x # s
      BY <1>6
    <3> QED BY <1>1, <1>3, <1>5, <3>1 DEF ContentKept, Clean
  <2>5. SourceOwn(kind, entry, ckpt, disk)' /\ SourceOwn(kind, entry, ckpt, media)'
    <3>1. ASSUME HalfMoved(entry, ckpt), NEW k \in 0 .. CopyLen(ckpt) - 1
          PROVE  /\ disk'[entry.start + k] = disk[entry.start + k]
                 /\ media'[entry.start + k] = media[entry.start + k]
      <4>1. ckpt # NoCkpt /\ entry = ckpt.old
        BY <3>1 DEF HalfMoved
      <4>2. GoodMove(ckpt)
        BY <1>3, <4>1, StateFacts
      <4>3. CopyLen(ckpt) \in Nat /\ CopyLen(ckpt) <= entry.len
        BY <4>1, <4>2, Lengthwise
      <4>4. k \in Int /\ 0 <= k /\ k < entry.len
        BY <1>3, <4>3, StateFacts
      <4> QED BY <2>1, <4>4
    <3> QED BY <1>1, <1>3, <3>1 DEF ContentKept, SourceOwn
  <2>6. Agrees(kind, entry, ckpt, fs, disk, media)'
    <3>1. \A k \in 0 .. fs - 1 : k \in Int /\ 0 <= k /\ k < entry.len
      BY <1>3, StateFacts
    <3> QED BY <1>1, <1>3, <2>1, <3>1 DEF ContentKept, Agrees
  <2> QED BY <2>3, <2>4, <2>5, <2>6 DEF ContentKept
<1>12. RunOK'
  <2>1. TypedRun' /\ UndoRun'
    BY <1>1, <1>3 DEF RunOK, TypedRun, UndoRun, InJob, Moves
  <2>2. ApartRun'
    BY <1>1, <1>3 DEF RunOK, ApartRun, InPlace, BeforeTable, Deciding, Moving, Copying, Dup
  <2>3. CountedRun'
    <3>1. UNCHANGED <<BatchCap(job), Moves(job), SameJob, ChunkCount(job), Overlaps(job), Copying>>
      BY <1>1 DEF BatchCap, Moves, ChunkLen, Overlaps, Moved, Forward, SameJob, ChunkCount, CopyLen,
                  Copying
    <3> HIDE DEF BatchCap, Moves, SameJob, ChunkCount, Overlaps, Copying
    <3> QED BY <1>1, <1>3, <3>1 DEF RunOK, CountedRun, InPlace
  <2>4. RunContent'
    BY <1>1 DEF RunContent, Stepping
  <2> QED BY <2>1, <2>2, <2>3, <2>4 DEF RunOK
<1> QED BY <1>7, <1>8, <1>9, <1>10, <1>11, <1>12 DEF StateOK

-----------------------------------------------------------------------------
(* What a command decides about ranges follows from what it finds.         *)
LEMMA FreeEndBeyond ==
  ASSUME Lengths, Last(entry) <= Usable PROVE FreeEnd \in Int /\ FreeEnd >= Last(entry)
<1> DEFINE right == { s \in Taken : s > Last(entry) } \cup {Usable + 1}
           least == CHOOSE s \in right : \A t \in right : s <= t
<1>1. Usable \in Int /\ Last(entry) \in Int
  BY PartAssumption DEF Lengths, IsSpan, Last
<1>2. Taken \subseteq Int
  <2>1. others \subseteq Int /\ Covers(copy) \subseteq Int
    BY DEF Lengths, IsSpan, Covers, Last
  <2> QED BY <2>1 DEF Taken
<1>3. \A y \in right : y \in Int /\ Last(entry) + 1 <= y
  <2>1. \A y \in right : y = Usable + 1 \/ (y \in Taken /\ y > Last(entry))
    OBVIOUS
  <2>2. \A y \in Int : y > Last(entry) => Last(entry) + 1 <= y
    BY <1>1
  <2>3. Usable + 1 \in Int /\ Last(entry) + 1 <= Usable + 1
    BY <1>1
  <2> HIDE DEF right
  <2> QED BY <1>2, <2>1, <2>2, <2>3
<1>4. right # {} /\ right \in SUBSET Int /\ Last(entry) + 1 \in Int
  <2>1. Usable + 1 \in right
    OBVIOUS
  <2> HIDE DEF right
  <2> QED BY <1>1, <1>3, <2>1
<1>5. least \in right /\ least \in Int
  <2> HIDE DEF right
  <2> QED BY <1>3, <1>4, LeastInteger
<1>6. least >= Last(entry) + 1
  <2> HIDE DEF right, least
  <2> QED BY <1>1, <1>3, <1>5
<1>7. FreeEnd = least - 1
  BY DEF FreeEnd
<1> HIDE DEF least
<1> QED BY <1>1, <1>5, <1>6, <1>7

LEMMA RequestFacts ==
  ASSUME NEW r \in Requests
  PROVE  /\ r.verb \in {"part", "resize", "grow", "copy"} /\ r.start \in Nat /\ r.start >= 1
         /\ r.start <= DiskSize /\ r.len \in Nat /\ r.chunk \in Nat \ {0}
         /\ r.nofs \in BOOLEAN /\ r.growLv \in BOOLEAN
<1>1. r \in RequestRecords
  BY PartAssumption
<1>2. /\ r.verb \in {"part", "resize", "grow", "copy"} /\ r.start \in Sectors
      /\ r.len \in Nat /\ r.chunk \in Nat \ {0} /\ r.nofs \in BOOLEAN /\ r.growLv \in BOOLEAN
  BY <1>1 DEF RequestRecords
<1>3. r.start \in 1 .. DiskSize
  BY <1>2 DEF Sectors
<1>4. r.start \in Nat /\ r.start >= 1 /\ r.start <= DiskSize
  BY <1>3, Sizes
<1> QED BY <1>2, <1>4

(* The range a command that is not refused makes for.                      *)
LEMMA TargetProper ==
  ASSUME StateOK, IInv, NEW r \in Requests, ~OutOfPlace(r)
  PROVE  Target(r) \in Ranges /\ Proper(Target(r))
<1> DEFINE new == Target(r)
<1>1. /\ r.verb \in {"part", "resize", "grow", "copy"} /\ r.start \in Nat /\ r.start >= 1
      /\ r.start <= DiskSize /\ r.len \in Nat
  BY RequestFacts
<1>2. /\ TypedState /\ entry.start \in Nat /\ entry.len \in Nat
      /\ entry.start >= 1 /\ entry.len >= 1 /\ Last(entry) <= Usable
  BY StateFacts DEF StateOK, Proper
<1>3. new.len # 0 /\ ~(new.start + new.len - 1 > Usable)
  BY Zenon DEF OutOfPlace
<1>4. ckpt # NoCkpt => ckpt.new \in Ranges /\ Proper(ckpt.new)
  BY <1>2 DEF TypedState, CkptRecords
<1>5. Usable \in Nat /\ Usable <= DiskSize /\ DiskSize \in Nat
  BY Sizes
<1>6. ASSUME NEW s \in Nat, NEW n \in Nat, s >= 1, n # 0, ~(s + n - 1 > Usable)
      PROVE  At(s, n) \in Ranges /\ Proper(At(s, n))
  <2>1. s \in 0 .. DiskSize /\ n \in 0 .. DiskSize /\ n >= 1
    BY <1>5, <1>6
  <2>2. At(s, n).start = s /\ At(s, n).len = n
    BY DEF At
  <2>3. At(s, n) \in Ranges
    BY <2>1 DEF At, Ranges
  <2>4. Last(At(s, n)) = s + n - 1
    BY <2>2, Zenon DEF Last
  <2>5. s + n - 1 <= Usable
    BY <1>5, <1>6
  <2>6. At(s, n).start >= 1 /\ At(s, n).len >= 1 /\ Last(At(s, n)) <= Usable
    BY <1>6, <2>1, <2>2, <2>4, <2>5
  <2> QED BY <2>3, <2>6, Zenon DEF Proper
<1>7. CASE r.verb = "part"
  <2>1. new = At(r.start, r.len)
    BY <1>7 DEF Target
  <2> HIDE DEF new
  <2>2. new.start = r.start /\ new.len = r.len
    BY <2>1 DEF At
  <2>3. new \in Ranges /\ Proper(new)
    BY <1>1, <1>3, <1>6, <2>1, <2>2
  <2> QED BY <2>3 DEF new
<1>8. CASE r.verb = "copy"
  <2>1. new = At(r.start, entry.len)
    BY <1>8 DEF Target
  <2> HIDE DEF new
  <2>2. new.start = r.start /\ new.len = entry.len
    BY <2>1 DEF At
  <2>3. new \in Ranges /\ Proper(new)
    BY <1>1, <1>2, <1>3, <1>6, <2>1, <2>2
  <2> QED BY <2>3 DEF new
<1>9. CASE r.verb = "resize"
  <2>1. new = At(entry.start, r.len)
    BY <1>9 DEF Target
  <2> HIDE DEF new
  <2>2. new.start = entry.start /\ new.len = r.len
    BY <2>1 DEF At
  <2>3. new \in Ranges /\ Proper(new)
    BY <1>1, <1>2, <1>3, <1>6, <2>1, <2>2
  <2> QED BY <2>3 DEF new
<1>10. CASE r.verb = "grow"
  <2>1. CASE ckpt # NoCkpt
    <3>1. new = ckpt.new
      BY <1>10, <2>1 DEF Target
    <3> QED BY <1>4, <2>1, <3>1
  <2>2. CASE ckpt = NoCkpt
    <3>1. new = At(entry.start, FreeEnd - entry.start + 1)
      BY <1>10, <2>2 DEF Target
    <3>2. FreeEnd \in Int /\ FreeEnd >= Last(entry)
      BY <1>2, FreeEndBeyond DEF IInv
    <3>3. FreeEnd - entry.start + 1 \in Nat
      BY <1>2, <3>2 DEF Last
    <3> HIDE DEF new
    <3>4. new.start = entry.start /\ new.len = FreeEnd - entry.start + 1
      BY <3>1 DEF At
    <3>5. new \in Ranges /\ Proper(new)
      BY <1>2, <1>3, <1>6, <3>1, <3>3, <3>4
    <3> QED BY <3>5 DEF new
  <2> QED BY <2>1, <2>2
<1> QED BY <1>1, <1>7, <1>8, <1>9, <1>10

LEMMA ExtentsNatural == ASSUME NEW d \in Nat PROVE d \div Extent \in Nat
<1> DEFINE q == d \div Extent
           m == d % Extent
<1>1. Extent \in Nat \ {0}
  BY Sizes
<1>2. d = Extent * q + m /\ m \in 0 .. Extent - 1 /\ q \in Int
  BY <1>1
<1> HIDE DEF q, m
<1>3. ASSUME q < 0 PROVE FALSE
  <2>1. -1 - q \in Nat
    BY <1>2, <1>3
  <2>2. Extent * (-1 - q) \in Nat
    BY <1>1, <2>1, NaturalProduct
  <2>3. Extent * (-1 - q) = -Extent - Extent * q /\ Extent * q \in Int
    BY <1>1, <1>2
  <2> QED BY <1>1, <1>2, <2>2, <2>3
<1>4. q \in Nat
  BY <1>2, <1>3
<1> QED BY <1>4 DEF q

LEMMA PostFacts ==
  ASSUME NEW g \in BOOLEAN, NEW v \in Nat, NEW old \in Nat, NEW new \in Nat
  PROVE  LvmPost(g, v, old, new, Extent) \in Facts
<1>1. Extent \in Nat \ {0}
  BY Sizes
<1>2. CASE new <= old \/ ~g
  BY <1>2 DEF LvmPost, NoFacts, FactsOf, Facts
<1>3. CASE ~(new <= old) /\ g
  <2>1. (new - old) \div Extent \in Nat
    <3>1. new - old \in Nat
      BY <1>3
    <3> QED BY <3>1, ExtentsNatural
  <2>2. Extent * ((new - old) \div Extent) \in Nat
    BY <1>1, <2>1, NaturalProduct
  <2>3. v + Extent * ((new - old) \div Extent) \in Nat
    BY <2>2
  <2>4. LvmPost(g, v, old, new, Extent) =
          FactsOf("lv", v, v + Extent * ((new - old) \div Extent))
    BY <1>3 DEF LvmPost
  <2> QED BY <2>3, <2>4 DEF FactsOf, Facts
<1> QED BY <1>2, <1>3

LEMMA DecisionTyped ==
  ASSUME StateOK, NEW r \in Requests, Target(r) \in Ranges
  PROVE  /\ Decision(r) \in JobRecords
         /\ Decision(r).verb = r.verb /\ Decision(r).old = entry /\ Decision(r).new = Target(r)
         /\ Decision(r).committed = (Restore(r) = "committed")
         /\ Decision(r).chunk = r.chunk /\ Decision(r).seen = others
         /\ Decision(r).act =
              LET base == IF Restore(r) = "committed" THEN ckpt.old ELSE entry
              IN IF Target(r).len < base.len /\ ckpt.shrunk # "verified" THEN "shrink"
                 ELSE IF Target(r).len > base.len /\ ~r.nofs THEN "grow" ELSE "leave"
<1> DEFINE new == Target(r)
           base == IF Restore(r) = "committed" THEN ckpt.old ELSE entry
           act == IF new.len < base.len /\ ckpt.shrunk # "verified" THEN "shrink"
                  ELSE IF new.len > base.len /\ ~r.nofs THEN "grow" ELSE "leave"
           facts == IF ckpt.facts.kind # "none" THEN ckpt.facts
                    ELSE IF Deferred(r) /\ label = "gpt"
                         THEN LvmPost(r.growLv, lv, base.len, new.len, Extent)
                         ELSE NoFacts
<1>1. Decision(r) = [verb |-> r.verb, old |-> entry, new |-> new, base |-> base,
        committed |-> Restore(r) = "committed", shrunk |-> ckpt.shrunk,
        act |-> act, defer |-> Deferred(r), growLv |-> r.growLv, facts |-> facts,
        chunk |-> r.chunk, seen |-> others]
  BY DEF Decision
<1>2. /\ r.verb \in {"part", "resize", "grow", "copy"} /\ r.chunk \in Nat \ {0}
      /\ r.growLv \in BOOLEAN
  BY RequestFacts
<1>3. /\ entry \in Ranges /\ ckpt \in CkptRecords /\ others \subseteq Sectors /\ lv \in Nat
  BY DEF StateOK, TypedState
<1>4. ckpt.old \in Ranges /\ ckpt.shrunk \in Shrunk /\ ckpt.facts \in Facts
  BY <1>3 DEF CkptRecords
<1>5. base \in Ranges
  BY <1>3, <1>4
<1>6. act \in {"leave", "shrink", "grow"}
  OBVIOUS
<1>7. Deferred(r) \in BOOLEAN
  BY DEF Deferred
<1>8. facts \in Facts
  <2>1. base.len \in Nat /\ new.len \in Nat
    BY <1>5, RangeFacts
  <2>2. LvmPost(r.growLv, lv, base.len, new.len, Extent) \in Facts
    BY <1>2, <1>3, <2>1, PostFacts
  <2> HIDE DEF base, new
  <2> QED BY <1>4, <2>2, EmptyRecords
<1> HIDE DEF base, act, facts
<1>9. Decision(r) \in JobRecords
  BY <1>1, <1>2, <1>3, <1>4, <1>5, <1>6, <1>7, <1>8 DEF JobRecords
<1>10. /\ Decision(r).verb = r.verb /\ Decision(r).old = entry /\ Decision(r).new = new
       /\ Decision(r).committed = (Restore(r) = "committed")
       /\ Decision(r).chunk = r.chunk /\ Decision(r).seen = others /\ Decision(r).act = act
  BY <1>1
<1> QED BY <1>9, <1>10 DEF act, base

LEMMA PrepareData ==
  ASSUME DataInv, NEW r \in Requests, Prepare(r) PROVE StateOK' /\ RunOK'
<1>1. /\ UNCHANGED <<label, kind, entry, others, copy, fs, disk, media, ckpt, jnl, lv>>
      /\ \/ \E o : Stop(o)
         \/ /\ ~Refused(r) \/ NothingToDo(r)
            /\ job' = Decision(r) /\ at' = ckpt.done /\ batch' = BatchCap(job')
            /\ pc' = IF NothingToDo(r) THEN "close" ELSE "prepared"
  BY DEF Prepare, fixed, table, volume, data, records
<1>2. StateOK /\ IInv
  BY DEF DataInv
<1>3. CASE \E o : Stop(o)
  BY <1>1, <1>2, <1>3, StoppedData
<1>4. CASE /\ ~Refused(r) \/ NothingToDo(r)
           /\ job' = Decision(r) /\ at' = ckpt.done /\ batch' = BatchCap(job')
           /\ pc' = IF NothingToDo(r) THEN "close" ELSE "prepared"
  <2>1. StateOK'
    BY <1>1, <1>2, StillData
  <2>2. Target(r) \in Ranges /\ Proper(Target(r)) /\ entry \in Ranges /\ Proper(entry)
    <3>1. entry \in Ranges /\ Proper(entry)
      BY <1>2 DEF StateOK, TypedState
    <3>2. CASE NothingToDo(r)
      BY <3>1, <3>2 DEF NothingToDo
    <3>3. CASE ~Refused(r)
      BY <1>2, <3>1, <3>3, TargetProper DEF Refused
    <3> QED BY <1>4, <3>1, <3>2, <3>3
  <2>3. /\ job' \in JobRecords /\ job'.verb = r.verb /\ job'.old = entry
        /\ job'.new = Target(r) /\ job'.committed = (Restore(r) = "committed")
        /\ job'.chunk = r.chunk /\ job'.seen = others
        /\ job'.act =
             LET base == IF Restore(r) = "committed" THEN ckpt.old ELSE entry
             IN IF Target(r).len < base.len /\ ckpt.shrunk # "verified" THEN "shrink"
                ELSE IF Target(r).len > base.len /\ ~r.nofs THEN "grow" ELSE "leave"
    BY <1>2, <1>4, <2>2, DecisionTyped
  <2>4. /\ ckpt.done \in Nat /\ entry.start \in Nat /\ entry.len \in Nat
        /\ Target(r).start \in Nat /\ Target(r).len \in Nat
        /\ ckpt.old.len \in Nat
    BY <1>2, <2>2, StateFacts, RangeFacts DEF StateOK
  <2>5. GoodMove(job')
    BY <2>2, <2>3, <2>4, RequestFacts DEF GoodMove, Proper
  <2>6. TypedRun'
    BY <1>4, <2>2, <2>3, <2>4, <2>5, BatchBound DEF TypedRun
  <2>7. RunContent'
    BY <1>4 DEF RunContent, Stepping
  <2>8. CASE NothingToDo(r)
    <3>1. ckpt = NoCkpt /\ jnl.state = "none" /\ pc' = "close"
      BY <1>4, <2>8 DEF NothingToDo, Active
    <3>2. ApartRun'
      BY <3>1 DEF ApartRun, InPlace, BeforeTable, Deciding, Moving, Copying, Dup
    <3>3. CountedRun'
      BY <1>1, <3>1
         DEF CountedRun, InPlace, BeforeTable, Deciding, Moving, Copying, Dup, Stepping
    <3>4. UndoRun'
      BY <1>1, <3>1 DEF UndoRun
    <3> QED BY <2>1, <2>6, <2>7, <3>2, <3>3, <3>4 DEF RunOK
  <2>9. CASE ~NothingToDo(r) /\ ~Refused(r)
    <3>1. pc' = "prepared" /\ (r.verb # "copy" => Restore(r) # "divergent") /\ Claimed(r)
      BY <1>4, <2>9 DEF Refused, NotNow
    <3>2. /\ ~Meets(others, Target(r)) /\ ~Meets(Covers(copy), Target(r))
          /\ r.verb = "copy" => ~Meets(Covers(entry), Target(r))
      BY <2>9 DEF Refused, OutOfPlace, Taken, Meets
    <3>3. ApartRun'
      BY <1>1, <2>3, <3>1, <3>2
         DEF ApartRun, InPlace, BeforeTable, Deciding, Moving, Copying, Dup
    <3>4. CASE r.verb = "copy"
      <4>1. ckpt = NoCkpt /\ jnl.state = "none" /\ label = "gpt"
        BY <1>2, <2>9, <3>1, <3>4 DEF Claimed, Active, Refused, IInv, Lengths
      <4>2. at' = 0 /\ ckpt.done = 0
        BY <1>4, <4>1, EmptyRecords
      <4>3. job'.new.len = entry.len
        BY <2>3, <3>4 DEF Target, At
      <4>4. CountedRun'
        BY <1>1, <2>3, <3>1, <3>4, <4>1, <4>2, <4>3
           DEF CountedRun, InPlace, BeforeTable, Deciding, Moving, Copying, Dup, Stepping
      <4>5. UndoRun'
        BY <1>1, <3>1, <4>1 DEF UndoRun
      <4> QED BY <2>1, <2>6, <2>7, <3>3, <4>4, <4>5 DEF RunOK
    <3>5. CASE r.verb # "copy"
      <4>1. /\ jnl.state # "none" => ckpt # NoCkpt
            /\ ckpt # NoCkpt =>
                 /\ ckpt.new = Target(r)
                 /\ Restore(r) = "committed" => entry = ckpt.new
                 /\ Restore(r) # "committed" => entry = ckpt.old
        BY <2>9, <3>5, Restored DEF Active
      <4>2. ASSUME ckpt # NoCkpt, Restore(r) # "committed"
            PROVE  ckpt.old = job'.old /\ ckpt.new = job'.new /\ ckpt.chunk = job'.chunk
        <5>1. ckpt.chunk = r.chunk
          BY <3>1, <3>5, <4>2 DEF Restore
        <5> QED BY <2>3, <4>1, <4>2, <5>1
      <4>3. label = "mbr" => ~Moves(job')
        <5>1. SUFFICES ASSUME label = "mbr" PROVE Target(r).start = entry.start
          BY <2>3 DEF Moves
        <5>2. ckpt = NoCkpt /\ r.verb \in {"resize", "grow"}
          BY <1>2, <2>9, <5>1 DEF IInv, MbrUnrecorded, Refused
        <5> QED BY <5>2 DEF Target, At
      <4>4. job'.act = "shrink" => ckpt.done = 0
        <5>1. SUFFICES ASSUME job'.act = "shrink", ckpt.done # 0 PROVE FALSE
          OBVIOUS
        <5>2. ckpt # NoCkpt
          BY <5>1, EmptyRecords
        <5>3. ckpt.shrunk # "verified" /\ Target(r).len < ckpt.old.len
          BY <2>3, <4>1, <5>1, <5>2
        <5>4. ckpt.done > 0
          BY <2>4, <5>1
        <5>5. ckpt.old.len <= ckpt.new.len
          BY <1>2, <5>3, <5>4 DEF StateOK, CountedState
        <5> QED BY <2>4, <4>1, <5>2, <5>3, <5>5
      <4>5. batch' <= BatchCap(job')
        <5>1. BatchCap(job') \in Nat
          BY <2>5, BatchBound
        <5>2. BatchCap(job') <= BatchCap(job')
          BY <5>1
        <5> QED BY <1>4, <5>2
      <4>6. CountedRun'
        <5>1. (batch <= BatchCap(job) /\ (label = "mbr" => ~Moves(job)))'
          BY <1>1, <4>3, <4>5
        <5>2. (ckpt = NoCkpt => jnl.state = "none")'
          BY <1>1, <4>1
        <5>3. (~job.committed /\ ckpt # NoCkpt => SameJob)' /\ (~job.committed => at = ckpt.done)'
          BY <1>1, <1>4, <2>3, <4>2 DEF SameJob
        <5>4. (job.act = "shrink" => ckpt.done = 0)'
          BY <1>1, <4>4
        <5>5. pc' = "prepared" /\ job'.verb # "copy"
          BY <2>3, <3>1, <3>5
        <5> QED BY <5>1, <5>2, <5>3, <5>4, <5>5
                DEF CountedRun, InPlace, BeforeTable, Deciding, Moving, Copying, Dup, Stepping
      <4>7. UndoRun'
        <5>1. ASSUME jnl.state = "open" PROVE ~Moves(job')
          <6>1. ckpt # NoCkpt /\ ~Moves(ckpt)
            BY <1>2, <4>1, <5>1 DEF StateOK, UndoState
          <6> QED BY <2>3, <4>1, <6>1 DEF Moves
        <5> QED BY <1>1, <3>1, <5>1 DEF UndoRun
      <4> QED BY <2>1, <2>6, <2>7, <3>3, <4>6, <4>7 DEF RunOK
    <3> QED BY <3>4, <3>5
  <2> QED BY <1>4, <2>8, <2>9
<1> QED BY <1>1, <1>3, <1>4

-----------------------------------------------------------------------------
LEMMA DataInit == Init => DataInv
<1> SUFFICES ASSUME Init PROVE DataInv
  OBVIOUS
<1>1. PICK x \in Situations :
        /\ label = x.label /\ kind = x.kind /\ entry = x.entry /\ others = x.others
        /\ fs = x.fs /\ lv = x.lv
        /\ disk = [s \in Sectors |->
             IF s \in x.others THEN Alien
             ELSE IF s - x.entry.start \notin 0 .. x.fs - 1 THEN Junk
             ELSE IF x.kind = "ntfs" /\ s = x.entry.start THEN Boot(s)
             ELSE s - x.entry.start]
  BY DEF Init
<1>2. /\ media = disk /\ copy = [start |-> 0, len |-> 0, fs |-> 0]
      /\ ckpt = NoCkpt /\ jnl = NoJnl /\ pc = "down" /\ job = NoJob /\ at = 0 /\ batch = 1
  BY DEF Init
<1>3. SituationOK(x)
  BY PartAssumption
<1>4. /\ kind \in Kinds /\ entry \in Ranges /\ entry.len > 0 /\ Covers(entry) \subseteq 1 .. Usable
      /\ fs \in 1 .. entry.len /\ lv \in Nat
      /\ others \subseteq 1 .. Usable /\ others \cap Covers(entry) = {}
  BY <1>1, <1>3 DEF SituationOK
<1>5. entry.start \in Nat /\ entry.len \in Nat /\ fs \in Nat /\ fs >= 1 /\ fs <= entry.len
  BY <1>4, RangeFacts
<1>6. Proper(entry)
  <2>1. entry.start \in Covers(entry) /\ Last(entry) \in Covers(entry)
    BY <1>4, <1>5 DEF Covers, Last
  <2>2. entry.start \in 1 .. Usable /\ Last(entry) \in 1 .. Usable
    BY <1>4, <2>1
  <2>3. entry.start >= 1 /\ Last(entry) <= Usable
    BY <2>2, Sizes
  <2> QED BY <1>4, <1>5, <2>3 DEF Proper
<1>7. others \subseteq Sectors /\ Covers(copy) = {}
  <2>1. 1 .. Usable \subseteq 1 .. DiskSize
    BY Sizes
  <2>2. Covers(copy) = {}
    BY <1>2 DEF Covers, Last
  <2> QED BY <1>4, <2>1, <2>2 DEF Sectors
<1>8. ASSUME NEW s \in Sectors
      PROVE  /\ disk[s] \in Int
             /\ s \in others => disk[s] = Alien
             /\ s \notin others => Own(kind, disk[s], s - entry.start)
             /\ s \notin others /\ s - entry.start \in 0 .. fs - 1 =>
                  IsAt(kind, disk[s], s - entry.start)
  <2>1. disk[s] = IF s \in others THEN Alien
                  ELSE IF s - entry.start \notin 0 .. fs - 1 THEN Junk
                  ELSE IF kind = "ntfs" /\ s = entry.start THEN Boot(s)
                  ELSE s - entry.start
    BY <1>1
  <2>2. s \in Nat /\ s - entry.start \in Int
    BY <1>5, Sizes
  <2>3. CASE s \in others
    BY <2>1, <2>3 DEF Alien
  <2>4. CASE s \notin others /\ s - entry.start \notin 0 .. fs - 1
    BY <2>1, <2>4 DEF Junk, Own
  <2>5. CASE s \notin others /\ s - entry.start \in 0 .. fs - 1
    <3>1. s - entry.start \in Nat /\ s - entry.start >= 0
      BY <1>5, <2>5
    <3>2. CASE kind = "ntfs" /\ s = entry.start
      <4>1. disk[s] = Boot(s) /\ s - entry.start = 0
        BY <1>5, <2>1, <2>5, <3>2
      <4>2. Boot(s) \in Int /\ IsAt(kind, Boot(s), 0)
        BY <2>2, <3>2 DEF Boot, IsAt
      <4> QED BY <2>5, <4>1, <4>2 DEF Own
    <3>3. CASE ~(kind = "ntfs" /\ s = entry.start)
      <4>1. disk[s] = s - entry.start
        BY <2>1, <2>5, <3>3
      <4>2. kind = "ntfs" => s - entry.start # 0
        BY <1>5, <2>2, <3>3
      <4>3. IsAt(kind, disk[s], s - entry.start)
        BY <4>1, <4>2 DEF IsAt
      <4> QED BY <2>2, <2>5, <3>1, <4>1, <4>3 DEF Own
    <3> QED BY <3>2, <3>3
  <2> QED BY <2>3, <2>4, <2>5
<1>9. TypedState
  <2>1. disk \in [Sectors -> Int]
    BY <1>1, <1>8
  <2>2. copy \in CopyRecords /\ ~(copy.len > 0) /\ copy.fs <= copy.len
    BY <1>2, Sizes DEF CopyRecords
  <2> QED BY <1>2, <1>4, <1>5, <1>6, <1>7, <2>1, <2>2, EmptyRecords DEF TypedState
<1>10. ApartState /\ CountedState /\ UndoState
  BY <1>2, <1>4, <1>7, EmptyRecords DEF ApartState, CountedState, UndoState, Meets
<1>11. Taken = others
  BY <1>7 DEF Taken
<1>12. ContentKept
  <2>1. ~HalfMoved(entry, ckpt)
    BY <1>2 DEF HalfMoved
  <2>2. ASSUME NEW k \in 0 .. fs - 1 PROVE IsAt(kind, disk[entry.start + k], k)
    <3>1. k \in Int /\ 0 <= k /\ k < entry.len
      BY <1>5
    <3>2. entry.start + k \in Sectors \ others
      BY <1>9, <1>10, <1>11, <3>1, EntrySectors
    <3>3. (entry.start + k) - entry.start = k
      BY <1>5, <3>1
    <3> QED BY <1>8, <3>2, <3>3
  <2>3. Clean(kind, entry, Taken, disk)
    BY <1>8, <1>11 DEF Clean
  <2>4. \A k : Spot(entry, ckpt, k) = entry.start + k
    BY <2>1 DEF Spot
  <2>5. Kept(kind, entry, ckpt, fs, disk)
    BY <2>2, <2>4 DEF Kept
  <2>6. SourceOwn(kind, entry, ckpt, disk) /\ Agrees(kind, entry, ckpt, fs, disk, disk)
    BY <2>1 DEF SourceOwn, Agrees
  <2> QED BY <1>2, <2>3, <2>5, <2>6 DEF ContentKept
<1>13. OthersKept
  <2>1. AlienKept(others, disk)
    BY <1>7, <1>8 DEF AlienKept
  <2>2. \A k \in 0 .. copy.fs - 1 : FALSE
    BY <1>2
  <2> QED BY <1>2, <2>1, <2>2 DEF OthersKept, CopyKept
<1>14. RunOK
  <2>1. TypedRun
    BY <1>2, EmptyRecords DEF TypedRun, InJob
  <2>2. ApartRun /\ CountedRun /\ UndoRun
    BY <1>2 DEF ApartRun, CountedRun, UndoRun, InJob, InPlace, BeforeTable, Deciding, Moving,
                Stepping, Copying, Dup
  <2>3. RunContent
    BY <1>2 DEF RunContent, Stepping
  <2> QED BY <2>1, <2>2, <2>3 DEF RunOK
<1> QED BY <1>9, <1>10, <1>12, <1>13, <1>14, InitHolds DEF DataInv, StateOK

LEMMA DataStep == DataInv /\ [Next]_vars => DataInv'
<1> SUFFICES ASSUME DataInv, [Next]_vars PROVE DataInv'
  OBVIOUS
<1>1. IInv'
  BY StepKeeps DEF DataInv
<1>2. CASE Run
  BY <1>1, <1>2, PrepareData, RecheckData, ReadBackData, ShrinkFsData, SaveShrinkData, CutData,
     MoveBarrierData, CopyChunkState, CopyChunkRun, SyncDataData, SaveProgressState,
     SaveProgressRun, CommitData, HiddenSectorsData, GrowData, GrowFsData, SettleData,
     PvBarrierData, PvResizeData, LvExtendData, CloseData, DupBarrierData, DupChunkData,
     DupSyncData, DupHiddenData, DupAddData
     DEF Run, DataInv
<1>3. CASE Environment
  BY <1>1, <1>3, UndoTableData, UndoFilesData, AbandonData, UnmountData, KillData, PowerLossData,
     ThirdPartyData
     DEF Environment, DataInv
<1>4. CASE UNCHANGED vars
  <2>1. /\ UNCHANGED <<label, kind, entry, others, copy, fs, disk, media, ckpt, jnl, lv>>
        /\ UNCHANGED <<pc, job, at, batch>>
    BY <1>4 DEF vars
  <2>2. StateOK'
    BY <2>1, StillData DEF DataInv
  <2>3. RunOK'
    <3>1. TypedRun' /\ ApartRun' /\ UndoRun'
      BY <2>1 DEF DataInv, RunOK, TypedRun, ApartRun, UndoRun, InJob, InPlace, BeforeTable,
                  Copying, Moves
    <3>2. CountedRun'
      <4>1. UNCHANGED <<BatchCap(job), Moves(job), SameJob, ChunkCount(job), Overlaps(job), Copying>>
        BY <2>1 DEF BatchCap, Moves, ChunkLen, Overlaps, Moved, Forward, SameJob, ChunkCount,
                    CopyLen, Copying
      <4> HIDE DEF BatchCap, Moves, SameJob, ChunkCount, Overlaps, Copying
      <4> QED BY <2>1, <4>1 DEF DataInv, RunOK, CountedRun, InPlace
    <3>3. RunContent'
      BY <2>1 DEF DataInv, RunOK, RunContent
    <3> QED BY <3>1, <3>2, <3>3 DEF RunOK
  <2> QED BY <1>1, <2>2, <2>3 DEF DataInv
<1> QED BY <1>2, <1>3, <1>4 DEF Next

LEMMA DataHolds == Spec => []DataInv
BY DataInit, DataStep, PTL DEF Spec

(* What is copied and not yet saved is within the window.                  *)
LEMMA WithinWindow ==
  ASSUME DataInv, pc \in Stepping
  PROVE  (at - ckpt.done) * ChunkLen(job) <= Max2(RedoWindow, ChunkLen(job))
<1>1. /\ batch <= BatchCap(job) /\ batch \in Nat \ {0} /\ at \in Nat /\ ckpt.done \in Nat
      /\ GoodMove(job)
  BY AtWork, RunFacts, StateFacts DEF StateOK
<1>2. /\ at >= ckpt.done
      /\ IF Overlaps(job) THEN at <= ckpt.done + 1 ELSE at - ckpt.done <= batch
  BY DEF DataInv, RunOK, CountedRun
<1> DEFINE l == ChunkLen(job)
           d == at - ckpt.done
           q == RedoWindow \div l
<1>3. l \in Nat \ {0} /\ RedoWindow \in Nat \ {0} /\ MaxBatch \in Nat \ {0}
  BY <1>1, Lengthwise, Sizes
<1>4. d \in Nat
  BY <1>1, <1>2
<1>5. q \in Int /\ q * l <= RedoWindow /\ q * l \in Int
  <2> DEFINE r == RedoWindow % l
  <2> HIDE DEF l
  <2>1. RedoWindow = l * q + r /\ r \in 0 .. l - 1 /\ q \in Int
    BY <1>3
  <2> HIDE DEF q, r
  <2>2. q * l = l * q /\ l * q \in Int
    BY <1>3, <2>1
  <2> QED BY <1>3, <2>1, <2>2
<1>6. BatchCap(job) = Min2(MaxBatch, Max2(1, q))
  BY DEF BatchCap
<1>7. d <= Max2(1, q)
  <2>1. BatchCap(job) <= Max2(1, q) /\ BatchCap(job) \in Int /\ Max2(1, q) \in Int
    <3> HIDE DEF l, q
    <3> QED BY <1>3, <1>5, <1>6 DEF Min2, Max2
  <2>2. CASE Overlaps(job)
    <3>1. d <= 1
      BY <1>1, <1>2, <2>2
    <3> HIDE DEF l, d, q
    <3> QED BY <1>4, <1>5, <3>1 DEF Max2
  <2>3. CASE ~Overlaps(job)
    <3>1. d <= batch
      BY <1>2, <2>3
    <3> HIDE DEF l, d, q
    <3> QED BY <1>1, <1>4, <2>1, <3>1
  <2> QED BY <2>2, <2>3
<1> HIDE DEF l, d, q
<1>8. CASE d = 0
  <2>1. d * l = 0
    BY <1>3, <1>8
  <2>2. d * l <= Max2(RedoWindow, l)
    BY <1>3, <2>1 DEF Max2
  <2> QED BY <2>2 DEF l, d
<1>9. CASE d = 1
  <2>1. d * l = l
    BY <1>3, <1>9
  <2>2. d * l <= Max2(RedoWindow, l)
    BY <1>3, <2>1 DEF Max2
  <2> QED BY <2>2 DEF l, d
<1>10. CASE d > 1
  <2>1. d <= q /\ d \in Int /\ d * l \in Int
    BY <1>3, <1>4, <1>5, <1>7, <1>10, NaturalProduct DEF Max2
  <2>2. d * l <= q * l
    <3>1. CASE d = q
      BY <1>5, <3>1
    <3>2. CASE d < q
      <4>1. (d + 1) * l <= q * l /\ (d + 1) * l = d * l + l
        BY <1>3, <1>5, <2>1, <3>2, LaterMultiple
      <4> QED BY <1>3, <1>5, <2>1, <4>1
    <3> QED BY <1>5, <2>1, <3>1, <3>2
  <2>3. d * l <= Max2(RedoWindow, l)
    BY <1>3, <1>5, <2>1, <2>2 DEF Max2
  <2> QED BY <2>3 DEF l, d
<1> QED BY <1>4, <1>8, <1>9, <1>10

(* Every sector of the filesystem is where the table and the record on     *)
(* disk say it is, in the cache and on the medium, in every reachable      *)
(* state: a run may die, or the power fail, at any step of the move, the   *)
(* shrink, the growth or an undo, and another run may find what is left.   *)
(* And what would have to be copied again is within the redo window.       *)
THEOREM ContentRecoverable == Spec => []Recoverable
<1>1. DataInv => Recoverable
  <2> SUFFICES ASSUME DataInv PROVE Recoverable
    OBVIOUS
  <2>1. TypedState /\ ContentKept
    BY DEF DataInv, StateOK
  <2>2. ASSUME NEW k \in 0 .. fs - 1 PROVE Is(disk[Place(k)], k) /\ Is(media[Place(k)], k)
    <3>1. Place(k) = Spot(entry, ckpt, k)
      BY <2>1, PlaceIsSpot
    <3>2. IsAt(kind, disk[Spot(entry, ckpt, k)], k) /\ IsAt(kind, media[Spot(entry, ckpt, k)], k)
      BY <2>1 DEF ContentKept, Kept
    <3> QED BY <3>1, <3>2, IsIsAt
  <2>3. pc \in {"copy", "sync", "save"} =>
          (at - ckpt.done) * ChunkLen(job) <= Max2(RedoWindow, ChunkLen(job))
    BY WithinWindow DEF Stepping
  <2> QED BY <2>2, <2>3 DEF Recoverable
<1> QED BY <1>1, DataHolds, PTL

(* The partition, other partitions and a finished copy share no sector and *)
(* hold their own content in every reachable state: also partitions that   *)
(* others create while a job runs or between two runs of it.               *)
THEOREM OthersUntouched == Spec => []OthersHoldTheirs
<1>1. DataInv => OthersHoldTheirs
  <2> SUFFICES ASSUME DataInv PROVE OthersHoldTheirs
    OBVIOUS
  <2>1. OthersKept /\ ApartState
    BY DEF DataInv, StateOK
  <2>2. \A s \in others : disk[s] = Alien /\ media[s] = Alien
    BY <2>1 DEF OthersKept, AlienKept
  <2>3. (others \cup Covers(copy)) \cap Covers(entry) = {}
    BY <2>1 DEF ApartState, Meets
  <2>4. ASSUME NEW k \in 0 .. copy.fs - 1
        PROVE  LET s == copy.start + k
                   held == IF kind = "ntfs" /\ k = 0 THEN Boot(copy.start) ELSE k
               IN disk[s] = held /\ media[s] = held
    BY <2>1 DEF OthersKept, CopyKept, Held
  <2> QED BY <2>2, <2>3, <2>4 DEF OthersHoldTheirs
<1> QED BY <1>1, DataHolds, PTL

-----------------------------------------------------------------------------
(***************************************************************************)
(* What a complete run means.  The third invariant keeps the account of    *)
(* `debt`: what a run has promised with its commit and not yet done is     *)
(* either owed by the steps the run has left, or the record on disk says   *)
(* enough for the next run to decide for the same steps; with no record    *)
(* the journal stays, and every command is refused until it is undone.     *)
(***************************************************************************)
Working == InJob /\ pc # "close"
Chain == {"pvbarrier", "pvresize", "lvextend", "pvsettle"}

DebtRecorded ==
  /\ debt \subseteq {"fs", "pv", "lv", "hidden"}
  /\ debt # {} => jnl.state # "none"
  /\ debt # {} /\ ckpt # NoCkpt =>
       /\ entry = ckpt.new
       /\ ckpt.shrunk = "verified" \/ ckpt.old.len <= ckpt.new.len
       /\ "fs" \in debt => ckpt.new.len > ckpt.old.len /\ kind # "pv"
       /\ "pv" \in debt => ckpt.facts.kind # "none"
       /\ "lv" \in debt => ckpt.facts.kind = "lv"
       /\ "hidden" \in debt => kind = "ntfs" /\ Moves(ckpt)

(* What is owed at each step has a step left that does it, or the run does *)
(* not end complete.                                                       *)
WillDo ==
  /\ "fs" \in debt => job.act = "grow" /\ kind # "pv"
  /\ "pv" \in debt => job.defer \/ job.facts.kind # "none"
  /\ "lv" \in debt => job.facts.kind = "lv"
  /\ "hidden" \in debt => kind = "ntfs" /\ StartMoved(job)
DebtFree ==
  Deciding \cup Moving \cup Dup \cup {"pvsettle", "close", "undone", "undonefiles"}
DebtDue ==
  /\ pc \in DebtFree => debt = {}
  /\ pc \in {"prepared", "cut"} /\ debt # {} => job.committed /\ job.act # "shrink"
  /\ pc \in {"prepared", "cut", "hidden", "grow", "growfs", "settle"} => WillDo
  /\ pc \in {"grow", "growfs", "settle"} \cup Chain => "hidden" \notin debt
  /\ pc \in Chain \/ (pc = "settle" /\ ~owed) => "fs" \notin debt
  /\ pc = "lvextend" => "pv" \notin debt

(* The goal recorded for a logical volume is whole extents away.           *)
Goal(f) == f.kind = "lv" => \E q \in Nat : f.target = f.before + Extent * q

(* What Prepare decided, and the record it decided by or has saved.        *)
Decided ==
  /\ job.defer => kind = "pv"
  /\ job.act = "grow" => job.new.len > job.base.len
  /\ job.defer /\ job.act = "grow" /\ label = "gpt" => job.facts.kind # "none"
  /\ label = "mbr" => job.facts.kind = "none"
  /\ job.committed => ckpt # NoCkpt
  /\ ckpt # NoCkpt =>
       job.facts = ckpt.facts \/ (job.facts.kind = "none" /\ ckpt.facts.kind = "none")
  /\ job.facts.kind # "none" /\ ckpt = NoCkpt => job.act = "grow"
DecidedAt ==
  /\ InPlace /\ ~job.committed => job.base = job.old
  /\ pc \in Moving \cup AfterTable /\ job.facts.kind # "none" => ckpt # NoCkpt
  /\ pc \in BeforeTable \cup AfterTable => job.verb # "copy"
  /\ Copying => job.verb = "copy" /\ ~job.defer
  /\ pc \in Chain => job.defer

(* What the steps behind the table have done.                              *)
Carried ==
  /\ pc = "settle" /\ ~owed /\ job.act = "grow" /\ kind # "pv" => fs = entry.len
  /\ pc \in {"lvextend", "pvsettle"} => fs = entry.len
  /\ pc = "pvsettle" /\ job.facts.kind = "lv" => lv >= job.facts.target
Finished ==
  /\ job.verb = "copy" => copy.start = job.new.start /\ ~job.defer
  /\ job.verb # "copy" => entry = job.new
  /\ job.verb # "copy" /\ job.act = "grow" /\ kind # "pv" => fs = entry.len
  /\ job.defer => fs = entry.len /\ (job.facts.kind = "lv" => lv >= job.facts.target)

DebtInv ==
  /\ DebtRecorded /\ DebtDue /\ Goal(ckpt.facts) /\ (InJob => Goal(job.facts))
  /\ Working => Decided /\ DecidedAt /\ Carried
  /\ pc = "close" => Finished

-----------------------------------------------------------------------------
(* A run that is over owes nothing more than the record says.              *)
LEMMA DebtAtRest ==
  ASSUME pc' = "down", DebtRecorded', Goal(ckpt.facts)' PROVE DebtInv'
BY DEF DebtInv, DebtDue, DebtFree, Deciding, Moving, Dup, Chain, Working, InJob

LEMMA DebtStopped ==
  ASSUME DebtInv, NEW o, Stop(o), UNCHANGED <<kind, entry, ckpt, jnl, debt>>
  PROVE  DebtInv'
<1>1. DebtRecorded' /\ Goal(ckpt.facts)'
  BY DEF DebtInv, DebtRecorded, Goal
<1> QED BY <1>1, DebtAtRest DEF Stop

(* A step of a run that keeps the record, the decision and what is owed.   *)
LEMMA DecidedStays ==
  ASSUME Decided, UNCHANGED <<label, kind, ckpt, job>> PROVE Decided'
BY DEF Decided

LEMMA DecidedSaved ==
  ASSUME DataInv, Working, Decided, UNCHANGED <<label, kind, job>>, ckpt' = Record(job)
  PROVE  Decided' /\ ckpt' # NoCkpt
<1>1. ckpt' # NoCkpt /\ ckpt'.facts = job.facts
  BY RecordFacts DEF DataInv, RunOK, Record, Working
<1> QED BY <1>1 DEF Decided

LEMMA RecordedStays ==
  ASSUME DebtInv, UNCHANGED <<kind, entry, ckpt, jnl, debt>>
  PROVE  DebtRecorded' /\ Goal(ckpt.facts)'
BY DEF DebtInv, DebtRecorded, Goal

LEMMA RecordedFree == ASSUME debt' = {} PROVE DebtRecorded'
BY DEF DebtRecorded

(* Before the table.                                                       *)
LEMMA RecheckDebt == ASSUME DataInv, DebtInv, Recheck PROVE DebtInv'
<1>1. UNCHANGED <<label, kind, entry, ckpt, jnl, debt>>
  BY DEF Recheck, fixed, table, records
<1>2. CASE label = "gpt" /\ others # job.seen
  BY <1>1, <1>2, DebtStopped DEF Recheck
<1>3. CASE ~(label = "gpt" /\ others # job.seen)
  <2>1. /\ pc = "prepared" /\ pc' = FirstStep /\ UNCHANGED job
    BY <1>3 DEF Recheck, Continue, Go, inRun
  <2>2. /\ Decided /\ DecidedAt /\ DebtDue /\ Goal(job.facts) /\ label \in {"gpt", "mbr"}
    BY <2>1 DEF DebtInv, Working, InJob, DataInv, IInv, Lengths
  <2>3. Decided'
    BY <1>1, <2>1, <2>2, DecidedStays
  <2>4. job.verb # "copy" /\ label = "mbr" => ~job.committed /\ job.facts.kind = "none"
    BY <2>1, <2>2 DEF DataInv, IInv, OneJob, InPlace, Decided
  <2>5. CASE job.verb = "copy"
    <3>1. pc' = "dupbarrier" /\ ~job.defer /\ ckpt = NoCkpt
      BY <2>1, <2>2, <2>5
         DEF FirstStep, DecidedAt, Copying, DataInv, RunOK, CountedRun
    <3>2. debt = {}
      BY <2>1, <2>2, <3>1 DEF DebtDue, Decided
    <3> QED BY <1>1, <2>1, <2>2, <2>3, <2>5, <3>1, <3>2, RecordedStays
         DEF DebtInv, DebtDue, DebtFree, Deciding, Moving, Dup, Chain, Working, InJob,
             DecidedAt, InPlace, Copying, BeforeTable, AfterTable, Growing, Carried, Goal
  <2>6. CASE job.verb # "copy"
    <3>1. pc' \in {"shrink", "cut", "hidden", "commit"}
      BY <2>1, <2>2, <2>6 DEF FirstStep
    <3>2. pc' = "shrink" => job.act = "shrink"
      BY <2>1, <2>2, <2>6 DEF FirstStep
    <3>3. pc' \in {"hidden", "commit"} => label = "mbr"
      BY <2>1, <2>2, <2>6 DEF FirstStep
    <3>4. DebtDue'
      BY <1>1, <2>1, <2>2, <2>4, <2>6, <3>1, <3>2, <3>3
         DEF DebtDue, DebtFree, Deciding, Moving, Dup, Chain, WillDo, StartMoved
    <3>5. DecidedAt'
      BY <1>1, <2>1, <2>2, <2>4, <2>6, <3>1, <3>3
         DEF DecidedAt, InPlace, Copying, BeforeTable, AfterTable, Growing, Deciding, Moving,
             Dup, Chain
    <3> QED BY <1>1, <2>1, <2>2, <2>3, <3>1, <3>4, <3>5, RecordedStays
         DEF DebtInv, Working, InJob, Carried, Goal
  <2> QED BY <2>5, <2>6
<1> QED BY <1>2, <1>3

LEMMA ShrinkDebt == ASSUME DataInv, DebtInv, ReadBack \/ ShrinkFs PROVE DebtInv'
<1>1. pc = "shrink" /\ UNCHANGED <<label, kind, entry, ckpt, jnl, debt>>
  BY DEF ReadBack, ShrinkFs, Shrinking, fixed, table, records
<1>2. CASE \E o : Stop(o)
  BY <1>1, <1>2, DebtStopped
<1>3. CASE ~\E o : Stop(o)
  <2>1. /\ pc' \in {"shrink", "saveshrink"}
        /\ job' = job \/ \E a : job' = [job EXCEPT !.shrunk = a]
    BY <1>3 DEF ReadBack, ShrinkFs, Measured, Go
  <2>2. job \in JobRecords
    BY DEF DataInv, RunOK, TypedRun
  <2>3. /\ job'.facts = job.facts /\ job'.act = job.act /\ job'.defer = job.defer
        /\ job'.new = job.new /\ job'.old = job.old /\ job'.base = job.base
        /\ job'.committed = job.committed /\ job'.verb = job.verb
    BY <2>1, <2>2 DEF JobRecords
  <2>4. Decided /\ DecidedAt /\ DebtDue /\ Goal(job.facts)
    BY <1>1 DEF DebtInv, Working, InJob
  <2>5. Decided'
    BY <1>1, <2>3, <2>4 DEF Decided
  <2>6. DebtDue'
    BY <1>1, <2>1, <2>4 DEF DebtDue, DebtFree, Deciding, Chain, Moving, Dup
  <2>7. DecidedAt'
    BY <1>1, <2>1, <2>3, <2>4
       DEF DecidedAt, InPlace, Copying, BeforeTable, AfterTable, Growing, Deciding, Moving,
           Dup, Chain
  <2> QED BY <1>1, <2>1, <2>3, <2>4, <2>5, <2>6, <2>7, RecordedStays
       DEF DebtInv, Working, InJob, Carried, Goal
<1> QED BY <1>2, <1>3

LEMMA SaveShrinkDebt == ASSUME DataInv, DebtInv, SaveShrink PROVE DebtInv'
<1>1. /\ pc = "saveshrink" /\ UNCHANGED <<label, kind, entry, jnl, debt>>
      /\ ckpt' = IF label = "gpt" THEN Record(job) ELSE ckpt
  BY DEF SaveShrink, fixed, table
<1>2. /\ Decided /\ DecidedAt /\ debt = {} /\ Goal(job.facts) /\ Goal(ckpt.facts) /\ Working
      /\ label \in {"gpt", "mbr"}
  BY <1>1 DEF DebtInv, DebtDue, DebtFree, Deciding, Working, InJob, DataInv, IInv, Lengths
<1>3. DebtRecorded' /\ Goal(ckpt'.facts)
  BY <1>1, <1>2, RecordedFree DEF Record
<1>4. CASE \E o : Stop(o)
  BY <1>1, <1>3, <1>4, DebtAtRest DEF Stop, Goal
<1>5. CASE ~\E o : Stop(o)
  <2>1. UNCHANGED job /\ pc' = IF label = "gpt" THEN "cut" ELSE "commit"
    BY <1>5 DEF SaveShrink, Continue, Go, inRun
  <2>2. Decided' /\ (label = "gpt" => ckpt' # NoCkpt)
    BY <1>1, <1>2, <2>1, DecidedStays, DecidedSaved
  <2>3. DebtDue'
    BY <1>1, <1>2, <2>1 DEF DebtDue, WillDo, DebtFree, Chain
  <2>4. DecidedAt'
    BY <1>1, <1>2, <2>1, <2>2
       DEF DecidedAt, InPlace, Copying, BeforeTable, AfterTable, Growing, Deciding, Moving,
           Dup, Chain, Decided
  <2> QED BY <1>1, <1>2, <1>3, <2>1, <2>2, <2>3, <2>4
       DEF DebtInv, Working, InJob, Carried, Goal
<1> QED BY <1>4, <1>5

LEMMA CutDebt == ASSUME DataInv, DebtInv, Cut PROVE DebtInv'
<1>1. pc = "cut" /\ UNCHANGED <<label, kind, entry, jnl, debt>>
  BY DEF Cut, fixed, table
<1>2. Decided /\ DecidedAt /\ DebtDue /\ Goal(job.facts) /\ Goal(ckpt.facts) /\ Working
  BY <1>1 DEF DebtInv, Working, InJob
<1>3. CASE others # job.seen
  BY <1>1, <1>3, DebtStopped DEF Cut
<1>4. CASE others = job.seen
  <2>1. /\ UNCHANGED job /\ ckpt' = IF Saves THEN Record(job) ELSE ckpt
        /\ pc' = IF job.committed THEN "hidden"
                 ELSE IF Moved(job) # 0 THEN "barrier" ELSE "commit"
    BY <1>4 DEF Cut, Continue, Go, inRun
  <2>2. Decided' /\ (Saves => ckpt' # NoCkpt)
    BY <1>1, <1>2, <2>1, DecidedStays, DecidedSaved
  <2>3. DebtRecorded' /\ Goal(ckpt'.facts)
    <3>1. CASE debt = {}
      BY <1>1, <1>2, <2>1, <3>1, RecordedFree DEF Record
    <3>2. CASE debt # {}
      <4>1. ckpt' = ckpt
        BY <1>1, <1>2, <2>1, <3>2 DEF DebtDue, Saves
      <4> QED BY <1>1, <1>2, <4>1, RecordedStays
    <3> QED BY <3>1, <3>2
  <2>4. DebtDue'
    BY <1>1, <1>2, <2>1
       DEF DebtDue, WillDo, DebtFree, Chain, Deciding, Moving, Dup, StartMoved
  <2>5. job.facts.kind # "none" => ckpt' # NoCkpt
    BY <1>1, <1>2, <2>1, <2>2 DEF Decided, Saves
  <2>6. DecidedAt'
    BY <1>1, <1>2, <2>1, <2>2, <2>5
       DEF DecidedAt, InPlace, Copying, BeforeTable, AfterTable, Growing, Deciding, Moving,
           Dup, Chain
  <2> QED BY <1>1, <1>2, <2>1, <2>2, <2>3, <2>4, <2>6
       DEF DebtInv, Working, InJob, Carried, Goal
<1> QED BY <1>3, <1>4

(* From the barrier to the last save nothing is owed.                      *)
LEMMA MovingDebt ==
  ASSUME DataInv, DebtInv, MoveBarrier \/ CopyChunk \/ SyncData \/ SaveProgress
  PROVE  DebtInv'
<1>1. /\ pc \in Moving \ {"commit"} /\ pc' \in Moving
      /\ UNCHANGED <<label, kind, entry, debt, job>>
      /\ ckpt' = ckpt \/ ckpt' = Record(job)
  BY DEF MoveBarrier, Bar, CopyChunk, SyncData, SaveProgress, Continue, Go, inRun, Moving,
         fixed, table, records
<1>2. Decided /\ DecidedAt /\ debt = {} /\ Goal(job.facts) /\ Goal(ckpt.facts) /\ Working
  BY <1>1 DEF DebtInv, DebtDue, DebtFree, Working, InJob, Moving
<1>3. Decided' /\ (ckpt' = ckpt \/ ckpt' # NoCkpt)
  BY <1>1, <1>2, DecidedStays, DecidedSaved
<1>4. DebtRecorded' /\ Goal(ckpt'.facts)
  BY <1>1, <1>2, RecordedFree DEF Record
<1>5. DebtDue'
  BY <1>1, <1>2 DEF DebtDue, Moving, Chain
<1>6. DecidedAt'
  BY <1>1, <1>2, <1>3
     DEF DecidedAt, InPlace, Copying, BeforeTable, AfterTable, Growing, Deciding, Moving,
         Dup, Chain
<1>7. Carried' /\ pc' # "close"
  BY <1>1 DEF Carried, Moving
<1> QED BY <1>1, <1>2, <1>3, <1>4, <1>5, <1>6, <1>7 DEF DebtInv, Working, InJob, Goal

(* The commit: the promises of the run are those of its record.            *)
LEMMA CommitDebt == ASSUME DataInv, DebtInv, Commit PROVE DebtInv'
<1>1. pc = "commit" /\ UNCHANGED <<label, kind, ckpt>>
  BY DEF Commit, fixed
<1>2. /\ Decided /\ DecidedAt /\ debt = {} /\ Goal(job.facts) /\ Goal(ckpt.facts)
      /\ Working /\ InJob
  BY <1>1 DEF DebtInv, DebtDue, DebtFree, Working, InJob, Moving
<1>3. CASE MbrTaken
  BY <1>1, <1>3, DebtStopped DEF Commit
<1>4. CASE ~MbrTaken
  <2>1. /\ entry' = job.new /\ debt' = Promised /\ jnl'.state # "none"
        /\ pc' = "hidden" /\ UNCHANGED job
    BY <1>2, <1>4 DEF Commit, Continue, Go, inRun
  <2>2. /\ ~job.committed /\ InPlace /\ job.base = job.old
        /\ ckpt # NoCkpt =>
             /\ ckpt.old = job.old /\ ckpt.new = job.new /\ label = "gpt"
             /\ ckpt.shrunk = job.shrunk
             /\ job.shrunk = "verified" \/ job.old.len <= job.new.len
    <3>1. ~job.committed /\ InPlace
      BY <1>1 DEF DataInv, IInv, OneJob, Moving, InPlace, BeforeTable
    <3>2. job.base = job.old
      BY <1>2, <3>1 DEF DecidedAt
    <3>3. ckpt # NoCkpt => ckpt.old = job.old /\ ckpt.new = job.new /\ label = "gpt"
      BY <1>2, <3>1 DEF DataInv, IInv, OneJob, MbrUnrecorded, Lengths
    <3>4. Sound
      BY <1>1 DEF DataInv, IInv, RunFits, Moving
    <3> QED BY <3>1, <3>2, <3>3, <3>4 DEF Sound
  <2>3. /\ debt' \subseteq {"fs", "pv", "lv", "hidden"}
        /\ "fs" \in debt' => job.act = "grow" /\ kind # "pv"
        /\ "pv" \in debt' => job.act = "grow" /\ job.defer
        /\ "lv" \in debt' => job.facts.kind = "lv"
        /\ "hidden" \in debt' => kind = "ntfs" /\ StartMoved(job)
    BY <2>1 DEF Promised
  <2>4. DebtRecorded'
    <3>1. ASSUME ckpt # NoCkpt
          PROVE  /\ "fs" \in debt' => ckpt.new.len > ckpt.old.len /\ kind # "pv"
                 /\ "pv" \in debt' => ckpt.facts.kind # "none"
                 /\ "lv" \in debt' => ckpt.facts.kind = "lv"
                 /\ "hidden" \in debt' => kind = "ntfs" /\ Moves(ckpt)
      BY <1>2, <2>2, <2>3, <3>1 DEF Decided, StartMoved, Moves
    <3>2. ckpt # NoCkpt =>
            entry' = ckpt.new /\ (ckpt.shrunk = "verified" \/ ckpt.old.len <= ckpt.new.len)
      BY <2>1, <2>2
    <3> QED BY <1>1, <2>1, <2>3, <3>1, <3>2 DEF DebtRecorded, Moves
  <2>5. DebtDue'
    BY <1>1, <2>1, <2>3
       DEF DebtDue, WillDo, DebtFree, Chain, Deciding, Moving, Dup, StartMoved
  <2>6. DecidedAt'
    BY <1>1, <1>2, <2>1
       DEF DecidedAt, InPlace, Copying, BeforeTable, AfterTable, Growing, Deciding, Moving,
           Dup, Chain
  <2> QED BY <1>1, <1>2, <2>1, <2>4, <2>5, <2>6, DecidedStays
       DEF DebtInv, Working, InJob, Carried, Goal
<1> QED BY <1>3, <1>4

(* Behind the table each step does what it is for.                         *)
LEMMA BehindDebt ==
  ASSUME DebtInv, pc \in AfterTable, pc' \in AfterTable,
         UNCHANGED <<label, kind, entry, ckpt, job>>,
         jnl'.state = "none" => jnl.state = "none", debt' \subseteq debt,
         DebtDue', Carried', pc' \in Chain => job.defer
  PROVE  DebtInv'
<1>1. /\ Decided /\ DecidedAt /\ Goal(job.facts) /\ Goal(ckpt.facts) /\ DebtRecorded
      /\ pc' # "close"
  BY DEF DebtInv, Working, InJob, AfterTable, Growing
<1>2. DebtRecorded'
  <2>1. /\ debt' \subseteq {"fs", "pv", "lv", "hidden"}
        /\ debt' # {} => jnl'.state # "none"
    BY <1>1 DEF DebtRecorded
  <2>2. debt' # {} /\ ckpt # NoCkpt =>
          /\ entry = ckpt.new
          /\ ckpt.shrunk = "verified" \/ ckpt.old.len <= ckpt.new.len
          /\ "fs" \in debt' => ckpt.new.len > ckpt.old.len /\ kind # "pv"
          /\ "pv" \in debt' => ckpt.facts.kind # "none"
          /\ "lv" \in debt' => ckpt.facts.kind = "lv"
          /\ "hidden" \in debt' => kind = "ntfs" /\ Moves(ckpt)
    BY <1>1 DEF DebtRecorded
  <2> QED BY <2>1, <2>2 DEF DebtRecorded, Moves
<1>3. DecidedAt'
  BY <1>1
     DEF DecidedAt, InPlace, Copying, BeforeTable, AfterTable, Growing, Deciding, Moving,
         Dup, Chain
<1> QED BY <1>1, <1>2, <1>3, DecidedStays DEF DebtInv, Working, InJob, Goal

LEMMA HiddenDebt == ASSUME DebtInv, HiddenSectors PROVE DebtInv'
<1>1. /\ pc = "hidden" /\ pc' \in {"grow", "settle"} /\ (job.act = "grow" => pc' = "grow")
      /\ UNCHANGED <<label, kind, entry, fs, ckpt, jnl, job, owed>>
      /\ debt' = IF kind = "ntfs" /\ StartMoved(job) THEN debt \ {"hidden"} ELSE debt
  BY DEF HiddenSectors, fixed, table, volume, records, Continue, Go, inRun
<1>2. WillDo /\ DecidedAt
  BY <1>1 DEF DebtInv, DebtDue, Working, InJob
<1>3. DebtDue' /\ Carried'
  BY <1>1, <1>2
     DEF DebtDue, WillDo, DebtFree, Deciding, Moving, Dup, Chain, Carried, StartMoved
<1> QED BY <1>1, <1>3, BehindDebt DEF AfterTable, Growing, Chain

LEMMA GrowDebt == ASSUME DataInv, DebtInv, Grow PROVE DebtInv'
<1>1. /\ pc = "grow" /\ UNCHANGED <<label, kind, entry, fs, ckpt, job, debt>>
      /\ jnl' = jnl \/ jnl' = Barred
      /\ \/ pc' = "settle" /\ owed'
         \/ pc' = "settle" /\ kind = "pv"
         \/ pc' = "growfs"
  BY DEF Grow, GrowStays, FsStays, Owes, Continue, Go, inRun, fixed, table
<1>2. WillDo /\ "hidden" \notin debt
  BY <1>1 DEF DebtInv, DebtDue
<1>3. jnl'.state = "none" => jnl.state = "none"
  BY <1>1, BarredJournal DEF DataInv, IInv
<1>4. DebtDue' /\ Carried'
  BY <1>1, <1>2
     DEF DebtDue, WillDo, DebtFree, Deciding, Moving, Dup, Chain, Carried, StartMoved
<1> QED BY <1>1, <1>3, <1>4, BehindDebt DEF AfterTable, Growing, Chain

LEMMA GrowFsDebt == ASSUME DebtInv, GrowFs PROVE DebtInv'
<1>1. /\ pc = "growfs" /\ pc' = "settle" /\ UNCHANGED <<label, kind, entry, ckpt, jnl, job>>
      /\ debt' \subseteq debt
      /\ owed' \/ (fs' = entry.len /\ debt' = debt \ {"fs"})
  BY DEF GrowFs, GrowStays, FsTo, Owes, Continue, Go, inRun, fixed, table
<1>2. WillDo /\ "hidden" \notin debt
  BY <1>1 DEF DebtInv, DebtDue
<1>3. DebtDue' /\ Carried'
  BY <1>1, <1>2
     DEF DebtDue, WillDo, DebtFree, Deciding, Moving, Dup, Chain, Carried, StartMoved
<1> QED BY <1>1, <1>3, BehindDebt DEF AfterTable, Growing, Chain

(* The run that removes the record has done all of it.                     *)
LEMMA ClosingDebt ==
  ASSUME DataInv, DebtInv, pc \in {"settle", "pvsettle"}, pc' = "close", ckpt' = NoCkpt,
         UNCHANGED <<kind, entry, fs, lv, job, debt>>, debt = {},
         job.act = "grow" /\ kind # "pv" => fs = entry.len,
         job.defer => fs = entry.len /\ (job.facts.kind = "lv" => lv >= job.facts.target)
  PROVE  DebtInv'
<1>1. job.verb # "copy" /\ Goal(job.facts)
  BY DEF DebtInv, Working, InJob, DecidedAt, AfterTable
<1>2. entry = job.new
  BY DEF DataInv, IInv, OneJob, AfterTable
<1>3. Finished'
  BY <1>1, <1>2 DEF Finished
<1>4. Goal(ckpt'.facts)
  BY DEF Goal, NoCkpt, NoFacts, FactsOf
<1>5. DebtDue'
  BY DEF DebtDue, Chain
<1> QED BY <1>1, <1>3, <1>4, <1>5, RecordedFree DEF DebtInv, Working, Goal

LEMMA SettleDebt == ASSUME DataInv, DebtInv, Settle PROVE DebtInv'
<1>1. pc = "settle" /\ UNCHANGED <<label, kind, entry, fs, lv, jnl, debt>>
  BY DEF Settle, fixed, table, volume
<1>2. /\ WillDo /\ "hidden" \notin debt /\ (~owed => "fs" \notin debt) /\ DebtRecorded
      /\ Decided /\ Carried
  BY <1>1 DEF DebtInv, DebtDue, Working, InJob
<1>3. CASE \E o : Stop(o) /\ UNCHANGED ckpt
  BY <1>1, <1>3, DebtStopped
<1>4. CASE ~owed /\ ~job.defer /\ ~LvmLeft /\ ckpt' = NoCkpt /\ Continue("close")
  <2>1. job.facts.kind = "none" /\ ~job.defer /\ UNCHANGED job /\ pc' = "close"
    BY <1>4 DEF LvmLeft, Continue, Go, inRun
  <2>2. debt = {}
    BY <1>2, <1>4, <2>1 DEF WillDo, DebtRecorded
  <2>3. job.act = "grow" /\ kind # "pv" => fs = entry.len
    BY <1>1, <1>2, <1>4 DEF Carried
  <2> QED BY <1>1, <1>4, <2>1, <2>2, <2>3, ClosingDebt
<1>5. CASE job.defer /\ UNCHANGED ckpt /\ Continue("pvbarrier")
  <2>1. UNCHANGED <<job, owed>> /\ pc' = "pvbarrier" /\ kind = "pv"
    BY <1>2, <1>5 DEF Continue, Go, inRun, Decided
  <2>2. DebtDue' /\ Carried'
    BY <1>1, <1>2, <1>5, <2>1
       DEF DebtDue, WillDo, DebtFree, Deciding, Moving, Dup, Chain, Carried, StartMoved
  <2> QED BY <1>1, <1>5, <2>1, <2>2, BehindDebt DEF AfterTable, Growing, Chain
<1> QED BY <1>3, <1>4, <1>5 DEF Settle

LEMMA PvBarrierDebt == ASSUME DataInv, DebtInv, PvBarrier PROVE DebtInv'
<1>1. /\ pc = "pvbarrier" /\ pc' = "pvresize" /\ jnl' = Barred
      /\ UNCHANGED <<label, kind, entry, ckpt, job, debt>>
  BY DEF PvBarrier, Bar, Continue, Go, inRun, fixed, table
<1>2. "hidden" \notin debt /\ "fs" \notin debt /\ job.defer
  BY <1>1 DEF DebtInv, DebtDue, Chain, Working, InJob, DecidedAt
<1>3. jnl'.state = "none" => jnl.state = "none"
  BY <1>1, BarredJournal DEF DataInv, IInv
<1>4. DebtDue' /\ Carried'
  BY <1>1, <1>2 DEF DebtDue, DebtFree, Deciding, Moving, Dup, Chain, Carried
<1> QED BY <1>1, <1>2, <1>3, <1>4, BehindDebt DEF AfterTable, Growing

LEMMA PvResizeDebt == ASSUME DebtInv, PvResize PROVE DebtInv'
<1>1. pc = "pvresize" /\ UNCHANGED <<label, kind, entry, ckpt, jnl>>
  BY DEF PvResize, fixed, table, records
<1>2. "hidden" \notin debt /\ "fs" \notin debt /\ job.defer
  BY <1>1 DEF DebtInv, DebtDue, Chain, Working, InJob, DecidedAt
<1>3. CASE UNCHANGED debt /\ Stop("partial")
  BY <1>1, <1>3, DebtStopped
<1>4. CASE FsTo(entry.len) /\ debt' = debt \ {"pv"} /\ Continue("lvextend")
  <2>1. fs' = entry.len /\ pc' = "lvextend" /\ UNCHANGED job
    BY <1>4 DEF FsTo, Continue, Go, inRun
  <2>2. DebtDue' /\ Carried'
    BY <1>1, <1>2, <1>4, <2>1
       DEF DebtDue, DebtFree, Deciding, Moving, Dup, Chain, Carried
  <2> QED BY <1>1, <1>2, <1>4, <2>1, <2>2, BehindDebt DEF AfterTable, Growing
<1> QED BY <1>3, <1>4 DEF PvResize

(* Whole extents are added, so the goal is met exactly.                    *)
LEMMA WholeExtents ==
  ASSUME NEW q \in Nat PROVE (Extent * q) \div Extent = q
<1>1. Extent \in Nat \ {0}
  BY Sizes
<1> DEFINE p == Extent * q
           d == p \div Extent
           m == p % Extent
<1>2. p \in Int /\ d \in Int /\ p = Extent * d + m /\ m \in 0 .. Extent - 1
  BY <1>1
<1> HIDE DEF d, m
<1>3. CASE d > q
  <2>1. d - q - 1 \in Nat /\ Extent * (d - q - 1) \in Nat
    BY <1>1, <1>2, <1>3, NaturalProduct
  <2>2. Extent * (d - q - 1) = Extent * d - Extent * q - Extent
    BY <1>1, <1>2
  <2> QED BY <1>1, <1>2, <2>1, <2>2
<1>4. CASE d < q
  <2>1. q - d - 1 \in Nat /\ Extent * (q - d - 1) \in Nat
    BY <1>1, <1>2, <1>4, NaturalProduct
  <2>2. Extent * (q - d - 1) = Extent * q - Extent * d - Extent
    BY <1>1, <1>2
  <2> QED BY <1>1, <1>2, <2>1, <2>2
<1> QED BY <1>2, <1>3, <1>4 DEF d

LEMMA LvExtendDebt == ASSUME DataInv, DebtInv, LvExtend PROVE DebtInv'
<1>1. pc = "lvextend" /\ UNCHANGED <<label, kind, entry, fs, ckpt, jnl>>
  BY DEF LvExtend, fixed, table, records
<1>2. /\ "hidden" \notin debt /\ "fs" \notin debt /\ "pv" \notin debt /\ job.defer
      /\ fs = entry.len /\ Decided /\ DecidedAt /\ Goal(job.facts) /\ DebtRecorded
  BY <1>1 DEF DebtInv, DebtDue, Chain, Working, InJob, DecidedAt, Carried
<1>3. lv \in Nat /\ job.facts \in Facts
  BY DEF DataInv, StateOK, TypedState, RunOK, TypedRun, JobRecords
<1>4. CASE UNCHANGED debt /\ Stop("partial")
  BY <1>1, <1>4, DebtStopped
<1>5. CASE /\ \/ Extents = 0 /\ UNCHANGED lv
              \/ Extents > 0 /\ lv' = lv + Extent * Extents
           /\ debt' = debt \ {"lv"} /\ AfterChain
  <2>1. debt' = {}
    BY <1>2, <1>5 DEF DebtRecorded
  <2>2. CASE \E o : Stop(o)
    <3>1. DebtRecorded' /\ Goal(ckpt'.facts)
      BY <1>1, <2>1, RecordedFree DEF DebtInv
    <3> QED BY <2>2, <3>1, DebtAtRest DEF Stop, Goal
  <2>3. CASE ~\E o : Stop(o)
    <3>1. pc' = "pvsettle" /\ UNCHANGED job
      BY <1>5, <2>3 DEF AfterChain, Continue, Go, inRun
    <3>2. job.facts.kind = "lv" => lv' >= job.facts.target
      <4> SUFFICES ASSUME job.facts.kind = "lv" PROVE lv' >= job.facts.target
        OBVIOUS
      <4>1. ckpt.facts = job.facts
        BY <1>1, <1>2 DEF Decided, DecidedAt, AfterTable, Growing
      <4>2. Extents = FinishLvGrowth(job.facts, lv, Free, Extent)
        BY <4>1 DEF Extents, LvExtents
      <4>3. PICK q \in Nat : job.facts.target = job.facts.before + Extent * q
        BY <1>2 DEF Goal
      <4>4. job.facts.before \in Nat /\ job.facts.target \in Nat /\ Extent * q \in Int
        BY <1>3, Sizes DEF Facts
      <4>5. (job.facts.target - job.facts.before) \div Extent = q
        <5>1. job.facts.target - job.facts.before = Extent * q
          BY <4>3, <4>4
        <5> QED BY <5>1, WholeExtents
      <4>6. CASE lv >= job.facts.target
        <5>1. Extents = 0
          BY <4>2, <4>6 DEF FinishLvGrowth
        <5> QED BY <1>5, <4>6, <5>1
      <4>7. CASE ~(lv >= job.facts.target)
        <5>1. lv = job.facts.before /\ Extents = q
          BY <1>5, <4>2, <4>5, <4>7 DEF FinishLvGrowth
        <5>2. q # 0
          <6>1. ASSUME q = 0 PROVE FALSE
            <7>1. Extent * q = 0
              BY <6>1, Sizes
            <7> QED BY <1>3, <4>3, <4>4, <4>7, <5>1, <7>1
          <6> QED BY <6>1
        <5>3. lv' = lv + Extent * q
          BY <1>5, <5>1, <5>2
        <5> QED BY <1>3, <4>3, <4>4, <5>1, <5>3
      <4> QED BY <4>6, <4>7
    <3>3. DebtDue' /\ Carried'
      BY <1>1, <1>2, <2>1, <3>1, <3>2
         DEF DebtDue, DebtFree, Deciding, Moving, Dup, Chain, Carried
    <3> QED BY <1>1, <1>2, <2>1, <3>1, <3>3, BehindDebt DEF AfterTable, Growing
  <2> QED BY <2>2, <2>3
<1> QED BY <1>4, <1>5 DEF LvExtend

LEMMA PvSettleDebt == ASSUME DataInv, DebtInv, PvSettle PROVE DebtInv'
<1>1. pc = "pvsettle" /\ UNCHANGED <<label, kind, entry, fs, lv, jnl, debt>>
  BY DEF PvSettle, fixed, table, volume
<1>2. debt = {} /\ Decided /\ DecidedAt /\ Carried
  BY <1>1 DEF DebtInv, DebtDue, DebtFree, Working, InJob
<1>3. CASE \E o : Stop(o) /\ UNCHANGED ckpt
  BY <1>1, <1>3, DebtStopped
<1>4. CASE ckpt' = NoCkpt /\ Continue("close")
  <2>1. UNCHANGED job /\ pc' = "close" /\ job.defer
    BY <1>1, <1>2, <1>4 DEF Continue, Go, inRun, DecidedAt, Chain
  <2>2. fs = entry.len /\ (job.facts.kind = "lv" => lv >= job.facts.target)
    BY <1>1, <1>2 DEF Carried
  <2> QED BY <1>1, <1>2, <1>4, <2>1, <2>2, ClosingDebt
<1> QED BY <1>3, <1>4 DEF PvSettle

LEMMA CloseDebt == ASSUME DebtInv, Close PROVE DebtInv'
<1>1. pc = "close" /\ pc' = "down" /\ debt = {} /\ UNCHANGED <<ckpt, debt>>
  BY DEF Close, Stop, DebtInv, DebtDue, DebtFree
<1>2. DebtRecorded' /\ Goal(ckpt.facts)'
  BY <1>1, RecordedFree DEF DebtInv, Goal
<1> QED BY <1>1, <1>2, DebtAtRest

(* The copy of a partition promises nothing before its entry is there.     *)
LEMMA DupDebt ==
  ASSUME DebtInv, DupBarrier \/ DupChunk \/ DupSync \/ DupHidden \/ DupAdd
  PROVE  DebtInv'
<1>1. /\ pc \in Dup /\ UNCHANGED <<label, kind, entry, ckpt, debt>>
      /\ \/ \E o : Stop(o)
         \/ pc' \in Dup /\ UNCHANGED job
         \/ pc' = "close" /\ UNCHANGED job /\ copy'.start = job.new.start
  BY DEF DupBarrier, Bar, DupChunk, DupSync, DupHidden, DupAdd, DupStays, Continue, Go, inRun,
         Dup, fixed, table, records
<1>2. /\ debt = {} /\ Decided /\ DecidedAt /\ Goal(job.facts) /\ Goal(ckpt.facts)
      /\ job.verb = "copy" /\ ~job.defer
  BY <1>1 DEF DebtInv, DebtDue, DebtFree, Working, InJob, DecidedAt, Copying, Dup
<1>3. DebtRecorded' /\ Goal(ckpt'.facts)
  BY <1>1, <1>2, RecordedFree
<1>4. CASE \E o : Stop(o)
  BY <1>3, <1>4, DebtAtRest DEF Stop, Goal
<1>5. CASE pc' \in Dup /\ UNCHANGED job
  <2>1. DebtDue' /\ Carried' /\ pc' # "close"
    BY <1>1, <1>2, <1>5 DEF DebtDue, DebtFree, Chain, Carried, Dup
  <2>2. DecidedAt'
    BY <1>2, <1>5
       DEF DecidedAt, InPlace, Copying, BeforeTable, AfterTable, Growing, Deciding, Moving,
           Dup, Chain
  <2> QED BY <1>1, <1>2, <1>3, <1>5, <2>1, <2>2, DecidedStays DEF DebtInv, Working, InJob, Goal
<1>6. CASE pc' = "close" /\ UNCHANGED job /\ copy'.start = job.new.start
  <2>1. Finished'
    BY <1>2, <1>6 DEF Finished
  <2>2. DebtDue'
    BY <1>1, <1>2, <1>6 DEF DebtDue, Chain
  <2> QED BY <1>1, <1>2, <1>3, <1>6, <2>1, <2>2 DEF DebtInv, Working, InJob, Goal
<1> QED BY <1>1, <1>4, <1>5, <1>6

(* What Prepare decides about the growth and the volume.                   *)
LEMMA DecidesGrowth ==
  ASSUME StateOK, NEW r \in Requests, NEW j, j = Decision(r)
  PROVE  /\ j.verb = r.verb /\ j.old = entry /\ j.new = Target(r)
         /\ j.committed = (Restore(r) = "committed")
         /\ j.base = IF Restore(r) = "committed" THEN ckpt.old ELSE entry
         /\ j.act = IF j.new.len < j.base.len /\ ckpt.shrunk # "verified" THEN "shrink"
                    ELSE IF j.new.len > j.base.len /\ ~r.nofs THEN "grow" ELSE "leave"
         /\ j.defer = Deferred(r)
         /\ j.facts = IF ckpt.facts.kind # "none" THEN ckpt.facts
                      ELSE IF Deferred(r) /\ label = "gpt"
                           THEN LvmPost(r.growLv, lv, j.base.len, j.new.len, Extent)
                           ELSE NoFacts
BY DEF Decision

LEMMA PostGoal ==
  ASSUME NEW g \in BOOLEAN, NEW v \in Nat, NEW old \in Nat, NEW new \in Nat
  PROVE  /\ Goal(LvmPost(g, v, old, new, Extent))
         /\ LvmPost(g, v, old, new, Extent).kind # "none" <=> new > old
<1>1. CASE new <= old
  BY <1>1 DEF LvmPost, NoFacts, FactsOf, Goal
<1>2. CASE new > old /\ ~g
  BY <1>2 DEF LvmPost, FactsOf, Goal
<1>3. CASE new > old /\ g
  <2>1. new - old \in Nat
    BY <1>3
  <2>2. (new - old) \div Extent \in Nat
    BY <2>1, ExtentsNatural
  <2>3. LvmPost(g, v, old, new, Extent) =
          FactsOf("lv", v, v + Extent * ((new - old) \div Extent))
    BY <1>3 DEF LvmPost
  <2> DEFINE q == (new - old) \div Extent
             f == FactsOf("lv", v, v + Extent * q)
  <2>4. q \in Nat /\ f.kind = "lv" /\ f.target = f.before + Extent * q
    BY <2>2 DEF FactsOf
  <2> HIDE DEF q, f
  <2>5. Goal(f) /\ f.kind # "none"
    BY <2>4 DEF Goal
  <2> QED BY <1>3, <2>3, <2>5 DEF f, q
<1> QED BY <1>1, <1>2, <1>3

LEMMA Unrestored ==
  ASSUME NEW r \in Requests, ckpt = NoCkpt, Target(r).len # 0 PROVE Restore(r) # "committed"
BY DEF Restore, NoCkpt, NoEntry, At

(* Whoever finds something owed and is not refused is a run of the job     *)
(* that owes it, and decides for the steps that are left.                  *)
LEMMA PrepareDebt ==
  ASSUME DataInv, DebtInv, NEW r \in Requests, Prepare(r) PROVE DebtInv'
<1>1. /\ pc = "down" /\ UNCHANGED <<label, kind, entry, copy, fs, lv, ckpt, jnl, debt>>
      /\ \/ \E o : Stop(o)
         \/ /\ ~Refused(r) \/ NothingToDo(r)
            /\ job' = Decision(r) /\ owed' = FALSE
            /\ pc' = IF NothingToDo(r) THEN "close" ELSE "prepared"
  BY DEF Prepare, fixed, table, volume, data, records
<1>2. /\ DebtRecorded /\ Goal(ckpt.facts) /\ StateOK /\ IInv /\ lv \in Nat
      /\ entry.len \in Nat /\ ckpt.old.len \in Nat /\ label \in {"gpt", "mbr"}
  BY StateFacts DEF DebtInv, DataInv, StateOK, TypedState, IInv, Lengths
<1>3. CASE \E o : Stop(o)
  BY <1>1, <1>3, DebtStopped
<1>4. CASE /\ ~Refused(r) \/ NothingToDo(r)
           /\ job' = Decision(r) /\ owed' = FALSE
           /\ pc' = IF NothingToDo(r) THEN "close" ELSE "prepared"
  <2> DEFINE j == Decision(r)
  <2>1. /\ j.verb = r.verb /\ j.old = entry /\ j.new = Target(r)
        /\ j.committed = (Restore(r) = "committed")
        /\ j.base = IF Restore(r) = "committed" THEN ckpt.old ELSE entry
        /\ j.act = IF j.new.len < j.base.len /\ ckpt.shrunk # "verified" THEN "shrink"
                   ELSE IF j.new.len > j.base.len /\ ~r.nofs THEN "grow" ELSE "leave"
        /\ j.defer = Deferred(r)
        /\ j.facts = IF ckpt.facts.kind # "none" THEN ckpt.facts
                     ELSE IF Deferred(r) /\ label = "gpt"
                          THEN LvmPost(r.growLv, lv, j.base.len, j.new.len, Extent)
                          ELSE NoFacts
    BY <1>2, DecidesGrowth
  <2> HIDE DEF j
  <2>2. DebtRecorded' /\ Goal(ckpt.facts)' /\ job' = j
    BY <1>1, <1>4, RecordedStays DEF j
  <2>3. j.base.len \in Nat /\ j.new.len \in Nat
    <3>1. Target(r).len \in Nat
      <4>1. CASE NothingToDo(r)
        BY <1>2, <4>1 DEF NothingToDo
      <4>2. CASE ~Refused(r)
        BY <1>2, <4>2, TargetProper, RangeFacts DEF Refused
      <4> QED BY <1>4, <4>1, <4>2
    <3> QED BY <1>2, <2>1, <3>1
  <2>4. Goal(j.facts)
    <3>1. Goal(NoFacts)
      BY DEF Goal, NoFacts, FactsOf
    <3> QED BY <1>2, <2>1, <2>3, <3>1, PostGoal, RequestFacts
  <2>5. /\ ckpt = NoCkpt => ckpt.facts.kind = "none"
        /\ NoFacts.kind = "none"
    BY DEF NoCkpt, NoFacts, FactsOf
  <2>6. CASE NothingToDo(r)
    <3>1. /\ r.verb = "resize" /\ ckpt = NoCkpt /\ jnl.state = "none" /\ kind # "pv"
          /\ Target(r) = entry
      BY <2>6 DEF NothingToDo, Active
    <3>2. debt = {} /\ ~Deferred(r) /\ Restore(r) # "committed"
      <4>1. Target(r).len # 0
        BY <1>2, <3>1 DEF StateOK, TypedState, Proper
      <4> QED BY <1>2, <3>1, <4>1, Unrestored DEF DebtRecorded, Deferred
    <3>3. Finished'
      BY <1>1, <1>2, <2>1, <2>2, <3>1, <3>2 DEF Finished
    <3>4. DebtDue' /\ pc' = "close"
      BY <1>1, <1>4, <2>6, <3>2 DEF DebtDue, Chain
    <3> QED BY <2>2, <2>4, <3>3, <3>4 DEF DebtInv, Working, Goal
  <2>7. CASE ~NothingToDo(r)
    <3>1. ~Refused(r) /\ pc' = "prepared" /\ Claimed(r)
      BY <1>4, <2>7 DEF Refused
    <3>2. r.verb = "copy" => ckpt = NoCkpt /\ jnl.state = "none" /\ label = "gpt"
      BY <1>2, <3>1 DEF Claimed, Active, Refused
    <3>3. r.verb # "copy" =>
            /\ jnl.state # "none" => ckpt # NoCkpt
            /\ ckpt = NoCkpt => Restore(r) # "committed"
            /\ ckpt # NoCkpt =>
                 /\ ckpt.new = Target(r)
                 /\ Restore(r) # "divergent"
                 /\ entry = ckpt.new => Restore(r) = "committed"
      <4>1. r.verb # "copy" => Restore(r) # "divergent"
        BY <3>1 DEF Refused, NotNow
      <4>2. ckpt # NoCkpt /\ entry = ckpt.new /\ ckpt.new = Target(r) =>
              Restore(r) = "committed"
        BY DEF Restore
      <4> QED BY <3>1, <4>1, <4>2, Restored DEF Active
    <3>4. /\ r.verb = "copy" => Restore(r) # "committed"
          /\ Deferred(r) => kind = "pv" /\ r.verb # "copy"
      <4>1. Target(r).len # 0
        BY <3>1 DEF Refused, OutOfPlace
      <4> QED BY <3>2, <4>1, Unrestored DEF Deferred
    <3>5. Decided'
      <4>1. Deferred(r) /\ ckpt # NoCkpt => ckpt.facts.kind # "none"
        <5>1. Deferred(r) => r.verb \notin {"part", "copy"}
          BY DEF Deferred
        <5> QED BY <3>1, <5>1 DEF Claimed, Active
      <4>2. label = "mbr" => ckpt = NoCkpt
        BY <1>2 DEF IInv, MbrUnrecorded
      <4>3. j.act = "grow" <=> j.new.len > j.base.len /\ ~r.nofs
        BY <2>1, <2>3
      <4>4. Deferred(r) => ~r.nofs
        BY <3>1 DEF Refused, NotNow, Deferred
      <4>5. Deferred(r) /\ label = "gpt" /\ ckpt.facts.kind = "none" =>
              (j.facts.kind # "none" <=> j.new.len > j.base.len)
        BY <1>2, <2>1, <2>3, PostGoal, RequestFacts
      <4>6. j.facts.kind # "none" /\ ckpt.facts.kind = "none" => Deferred(r) /\ label = "gpt"
        BY <2>1, <2>5
      <4>7. ckpt.facts.kind # "none" => j.facts = ckpt.facts
        BY <2>1
      <4> QED BY <1>1, <1>2, <2>1, <2>2, <2>5, <3>3, <3>4, <4>1, <4>2, <4>3, <4>4, <4>5, <4>6,
                 <4>7
           DEF Decided
    <3>6. DecidedAt'
      BY <1>1, <2>1, <2>2, <3>1, <3>4
         DEF DecidedAt, InPlace, Copying, BeforeTable, AfterTable, Growing, Deciding, Moving,
             Dup, Chain
    <3>7. DebtDue'
      <4>1. CASE debt = {}
        BY <1>1, <3>1, <4>1 DEF DebtDue, WillDo, Chain
      <4>2. CASE debt # {}
        <5>1. r.verb # "copy" /\ ckpt # NoCkpt /\ entry = ckpt.new
          BY <1>2, <3>2, <3>3, <4>2 DEF DebtRecorded
        <5>2. Restore(r) = "committed" /\ j.base = ckpt.old /\ j.new = ckpt.new
          BY <2>1, <3>3, <5>1
        <5>3. j.act # "shrink"
          BY <1>2, <2>1, <2>3, <4>2, <5>1, <5>2 DEF DebtRecorded
        <5>4. "fs" \in debt => j.act = "grow" /\ kind # "pv"
          <6> SUFFICES ASSUME "fs" \in debt PROVE j.act = "grow" /\ kind # "pv"
            OBVIOUS
          <6>1. j.new.len > j.base.len /\ kind # "pv"
            BY <1>2, <4>2, <5>1, <5>2 DEF DebtRecorded
          <6>2. ~NoFsRefused(r, j)
            BY <3>1, <5>1 DEF Refused, j
          <6>3. ~r.nofs
            BY <2>1, <5>2, <6>1, <6>2 DEF NoFsRefused
          <6> QED BY <2>1, <2>3, <6>1, <6>3
        <5>5. /\ "pv" \in debt => j.facts.kind # "none"
              /\ "lv" \in debt => j.facts.kind = "lv"
          BY <1>2, <2>1, <4>2, <5>1 DEF DebtRecorded
        <5>6. "hidden" \in debt => kind = "ntfs" /\ StartMoved(j)
          BY <1>2, <2>1, <4>2, <5>1, <5>2 DEF DebtRecorded, StartMoved, Moves
        <5>7. WillDo'
          BY <1>1, <2>2, <5>4, <5>5, <5>6 DEF WillDo, StartMoved
        <5> QED BY <1>1, <2>1, <2>2, <3>1, <5>2, <5>3, <5>7
             DEF DebtDue, DebtFree, Deciding, Moving, Dup, Chain
      <4> QED BY <4>1, <4>2
    <3> QED BY <2>2, <2>4, <3>1, <3>5, <3>6, <3>7 DEF DebtInv, Working, Carried, Goal
  <2> QED BY <2>6, <2>7
<1> QED BY <1>1, <1>3, <1>4

(* `undo`, `abandon` and the environment.                                  *)
LEMMA UndoDebt == ASSUME DebtInv, UndoTable \/ UndoFiles PROVE DebtInv'
<1>1. /\ pc' \in {"down", "undone", "undonefiles"} /\ debt' = {}
      /\ ckpt' = ckpt \/ ckpt' = NoCkpt
  BY DEF UndoTable, UndoFiles, Idle, Continue, Go, Stop, records, DebtInv, DebtDue, DebtFree
<1>2. Goal(ckpt'.facts)
  BY <1>1 DEF DebtInv, Goal, NoCkpt, NoFacts, FactsOf
<1>3. DebtDue'
  BY <1>1 DEF DebtDue, Chain
<1> QED BY <1>1, <1>2, <1>3, RecordedFree DEF DebtInv, Working, InJob, Goal

LEMMA AbandonDebt == ASSUME DebtInv, Abandon \/ Unmount PROVE DebtInv'
<1>1. pc = "down" /\ pc' = "down"
  BY DEF Abandon, Unmount, Idle
<1>2. CASE Abandon
  <2>1. debt' = {} /\ Goal(ckpt'.facts)
    BY <1>2 DEF Abandon, Goal, NoCkpt, NoFacts, FactsOf
  <2> QED BY <1>1, <2>1, RecordedFree, DebtAtRest DEF Goal
<1>3. CASE Unmount
  <2>1. UNCHANGED <<kind, entry, ckpt, jnl, debt>>
    BY <1>3 DEF Unmount, Idle, fixed, table, records
  <2> QED BY <1>1, <2>1, RecordedStays, DebtAtRest
<1> QED BY <1>2, <1>3

LEMMA DeathDebt == ASSUME DebtInv, Kill \/ PowerLoss PROVE DebtInv'
<1>1. Stop("none") /\ UNCHANGED <<kind, entry, ckpt, jnl, debt>>
  BY DEF Kill, PowerLoss, Die, fixed, table, records
<1> QED BY <1>1, DebtStopped

LEMMA SameDebt ==
  ASSUME DebtInv,
         UNCHANGED <<label, kind, entry, copy, fs, lv, ckpt, jnl, debt, pc, job, owed>>
  PROVE  DebtInv'
<1>1. DebtRecorded' /\ Goal(ckpt.facts)'
  BY RecordedStays
<1>2. DebtDue'
  BY DEF DebtInv, DebtDue, WillDo, StartMoved, DebtFree, Deciding, Moving, Dup, Chain
<1>3. (Working => Decided /\ DecidedAt /\ Carried)' /\ (pc = "close" => Finished)'
  BY DEF DebtInv, Working, InJob, Decided, DecidedAt, Carried, Finished, InPlace, Copying,
         BeforeTable, AfterTable, Growing, Deciding, Moving, Dup, Chain
<1> QED BY <1>1, <1>2, <1>3 DEF DebtInv, InJob, Goal

LEMMA ThirdPartyDebt == ASSUME DebtInv, ThirdParty PROVE DebtInv'
BY SameDebt DEF ThirdParty, fixed, inRun, volume, records

-----------------------------------------------------------------------------
LEMMA DebtInit == Init => DebtInv
<1> SUFFICES ASSUME Init PROVE DebtInv
  OBVIOUS
<1>1. pc = "down" /\ debt = {} /\ ckpt = NoCkpt
  BY DEF Init
<1>2. Goal(ckpt.facts)
  BY <1>1 DEF Goal, NoCkpt, NoFacts, FactsOf
<1> QED BY <1>1, <1>2
     DEF DebtInv, DebtRecorded, DebtDue, DebtFree, Deciding, Moving, Dup, Chain, Working, InJob

LEMMA DebtStep == DataInv /\ DebtInv /\ [Next]_vars => DebtInv'
<1> SUFFICES ASSUME DataInv, DebtInv, [Next]_vars PROVE DebtInv'
  OBVIOUS
<1>1. CASE Run
  BY <1>1, PrepareDebt, RecheckDebt, ShrinkDebt, SaveShrinkDebt, CutDebt, MovingDebt, CommitDebt,
     HiddenDebt, GrowDebt, GrowFsDebt, SettleDebt, PvBarrierDebt, PvResizeDebt, LvExtendDebt,
     PvSettleDebt, CloseDebt, DupDebt
     DEF Run
<1>2. CASE Environment
  BY <1>2, UndoDebt, AbandonDebt, DeathDebt, ThirdPartyDebt DEF Environment
<1>3. CASE UNCHANGED vars
  BY <1>3, SameDebt DEF vars
<1> QED BY <1>1, <1>2, <1>3 DEF Next

LEMMA DebtHolds == Spec => []DebtInv
BY DebtInit, DebtStep, DataHolds, PTL DEF Spec

(* Only Close ends complete.                                               *)
LEMMA EndsByClose == ASSUME DataInv, Next, Ended("done") PROVE Close
<1>1. pc # "down" /\ pc' = "down" /\ outcome' = "done"
  BY DEF Ended
<1>2. CASE Run
  <2>1. \A o : Stop(o) => o = "done"
    BY <1>1 DEF Stop
  <2>2. \A next : Go(next) => next = "down"
    BY <1>1 DEF Go
  <2>3. ~(Recheck \/ ReadBack \/ ShrinkFs \/ SaveShrink \/ Cut \/ MoveBarrier)
    <3>1. FirstStep # "down"
      BY DEF FirstStep, DataInv, IInv, Lengths
    <3>2. ~Recheck
      BY <2>1, <2>2, <3>1 DEF Recheck, Continue
    <3>3. ~ReadBack /\ ~ShrinkFs
      BY <2>1, <2>2 DEF ReadBack, ShrinkFs, Measured
    <3>4. ~SaveShrink /\ ~Cut /\ ~MoveBarrier
      BY <2>1, <2>2 DEF SaveShrink, Cut, MoveBarrier, Bar, Continue
    <3> QED BY <3>2, <3>3, <3>4
  <2>4. ~(CopyChunk \/ SyncData \/ SaveProgress \/ Commit \/ HiddenSectors)
    BY <2>1, <2>2 DEF CopyChunk, SyncData, SaveProgress, Commit, HiddenSectors, Continue
  <2>5. ~(Grow \/ GrowFs \/ Settle \/ PvBarrier \/ PvResize \/ LvExtend \/ PvSettle)
    BY <2>1, <2>2
       DEF Grow, Owes, GrowFs, Settle, PvBarrier, Bar, PvResize, LvExtend, AfterChain, PvSettle,
           Continue
  <2>6. ~(DupBarrier \/ DupChunk \/ DupSync \/ DupHidden \/ DupAdd)
    BY <2>1, <2>2 DEF DupBarrier, Bar, DupChunk, DupSync, DupHidden, DupAdd, Continue
  <2>7. ~\E r \in Requests : Prepare(r)
    BY <1>1 DEF Prepare
  <2> QED BY <1>2, <2>3, <2>4, <2>5, <2>6, <2>7 DEF Run
<1>3. CASE Environment
  BY <1>1, <1>3
     DEF Environment, UndoTable, UndoFiles, Idle, Continue, Go, Stop, Abandon, Unmount, Kill,
         PowerLoss, Die, ThirdParty
<1> QED BY <1>2, <1>3 DEF Next

(* A run that ends complete leaves nothing to do, whatever its job's       *)
(* earlier runs had promised before they died, failed or lost power.       *)
THEOREM PromisesKept == Spec => DoneMeansDone
<1>1. DataInv /\ DebtInv /\ Next /\ Ended("done") =>
        /\ IF job.verb = "copy" THEN copy'.start = job.new.start ELSE entry' = job.new
        /\ ckpt' = NoCkpt /\ jnl' = NoJnl /\ debt' = {}
        /\ job.verb # "copy" /\ job.act = "grow" /\ kind # "pv" => fs' = entry'.len
        /\ job.defer => fs' = entry'.len /\ (job.facts.kind = "lv" => lv' >= job.facts.target)
        /\ kind = "ntfs" => Is(disk'[entry'.start], 0)
  <2> SUFFICES ASSUME DataInv, DebtInv, Next, Ended("done")
      PROVE /\ IF job.verb = "copy" THEN copy'.start = job.new.start ELSE entry' = job.new
            /\ ckpt' = NoCkpt /\ jnl' = NoJnl /\ debt' = {}
            /\ job.verb # "copy" /\ job.act = "grow" /\ kind # "pv" => fs' = entry'.len
            /\ job.defer =>
                 fs' = entry'.len /\ (job.facts.kind = "lv" => lv' >= job.facts.target)
            /\ kind = "ntfs" => Is(disk'[entry'.start], 0)
    OBVIOUS
  <2>1. Close /\ outcome' = "done"
    BY EndsByClose DEF Ended
  <2>2. /\ pc = "close" /\ jnl' = NoJnl /\ disk' = Tidy(disk)
        /\ UNCHANGED <<entry, copy, fs, lv, ckpt, debt>>
    BY <2>1 DEF Close, Stop, table, volume
  <2>3. debt = {} /\ Finished
    BY <2>2 DEF DebtInv, DebtDue, DebtFree
  <2>4. ckpt = NoCkpt
    BY <2>2 DEF DataInv, RunOK, CountedRun
  <2>5. Is(disk'[entry'.start], 0)
    <3>1. TypedState' /\ ContentKept' /\ kind' = kind
      BY <2>1, DataStep DEF DataInv, StateOK, Close, fixed
    <3>2. 0 \in 0 .. fs' - 1
      BY <2>2, <3>1 DEF DataInv, StateOK, TypedState, IInv, Lengths
    <3>3. Spot(entry', ckpt', 0) = entry'.start
      BY <2>2, <2>4, StateFacts DEF Spot, HalfMoved, DataInv, StateOK
    <3>4. IsAt(kind', disk'[Spot(entry', ckpt', 0)], 0)
      BY <3>1, <3>2 DEF ContentKept, Kept
    <3> QED BY <3>1, <3>3, <3>4, IsIsAt
  <2> QED BY <2>2, <2>3, <2>4, <2>5 DEF Finished
<1>2. DataInv /\ DebtInv /\ [Next]_vars =>
        [Ended("done") =>
           /\ IF job.verb = "copy" THEN copy'.start = job.new.start ELSE entry' = job.new
           /\ ckpt' = NoCkpt /\ jnl' = NoJnl /\ debt' = {}
           /\ job.verb # "copy" /\ job.act = "grow" /\ kind # "pv" => fs' = entry'.len
           /\ job.defer => fs' = entry'.len /\ (job.facts.kind = "lv" => lv' >= job.facts.target)
           /\ kind = "ntfs" => Is(disk'[entry'.start], 0)]_vars
  BY <1>1
<1> QED BY <1>2, DataHolds, DebtHolds, PTL DEF Spec, DoneMeansDone
=============================================================================
