------------------------- MODULE UndoJournalProofs -------------------------
(***************************************************************************)
(* Proofs about UndoJournal, for copies of any length, any tables, and any *)
(* number of commands, deaths and edits by other tools.                    *)
(*                                                                         *)
(* The invariant has five parts.  Sound: the plan of a run ends with the   *)
(* removal of the checkpoint, and no more journals are created than        *)
(* commands started and runs died.  OneJob: the records of a journal and   *)
(* the checkpoint beside it are of one job.  Keeps: until a barrier is     *)
(* recorded the first record of a copy holds its original, and bytes       *)
(* outside the journal change only behind a barrier.  UndoKeeps: what undo *)
(* has still to write back is enough.  EditsKnown: a sector another tool   *)
(* has written is not what a record says was written there.                *)
(*                                                                         *)
(* That the advice to a refused user holds needs three more, AInv at the   *)
(* end of the module: what is still planned (PlansEnd), that the table on  *)
(* disk is one the job of the checkpoint accepts (JobStands), and that the *)
(* records and the disk fit together (RecordsFit).                         *)
(***************************************************************************)
EXTENDS UndoJournal, SequenceTheorems, WellFoundedInduction, TLAPS

WorkOps == {"write", "save", "barrier", "data", "drop"}
UndoOps == {"replay", "clear", "retire", "release"}

Has(todo, ops) == \E k \in 1..Len(todo) : todo[k].op \in ops
Only(todo, ops) == \A k \in 1..Len(todo) : todo[k].op \in ops
LastOp(todo) == todo[Len(todo)].op

Working == run.busy /\ run.todo # <<>> /\ run.todo[1].op \in WorkOps

(* A headed journal is the only one with records, and the only one a       *)
(* command writes to.                                                      *)
FileShape ==
  /\ file.kind # "headed" => file.recs = <<>>
  /\ Working => file.kind \in {"none", "headed"}

(* A plan is of one kind, and takes care of the checkpoint at its end.     *)
EndsWell(todo, job) ==
  /\ todo = <<>> => job = NoJob
  /\ todo # <<>> /\ (job # NoJob \/ Has(todo, {"save"})) => LastOp(todo) \in {"drop", "release"}
PlanShape ==
  /\ Only(run.todo, WorkOps) \/ Only(run.todo, UndoOps)
  /\ run.busy => EndsWell(run.todo, ckpt)
  /\ run.recorded => At("write")
  /\ ~run.busy => run.todo = <<>>

(* The journals made, and the one a running or resumed command may make.   *)
Owing ==
  IF Working THEN file.kind = "none" /\ Has(run.todo, {"write", "barrier"}) ELSE ckpt # NoJob
Budget ==
  /\ used.files + (IF Owing THEN 1 ELSE 0) <= used.commands + used.deaths
  /\ file.gen <= used.files

Sound == TypeOK /\ FileShape /\ PlanShape /\ Budget

(* The checkpoint, the run and the transaction are of one job.             *)
OneJob == OneTransaction /\ (Working => txn.job = run.job /\ ckpt \in {NoJob, run.job})

(* What undo would bring back of a copy, and that all of it is original.   *)
BringsBack(recs, d, c) == IF c \in Covered(recs) THEN First(recs, c).pre ELSE d[c]
AllOriginal(recs, d, t) ==
  /\ ~t.moved
  /\ \A c \in CopyNames, i \in 1..Sectors :
       BringsBack(recs, d, c)[i] = t.origin[c][i] \/ <<c, i>> \in t.meddled

(* ... as long as no barrier is recorded; and bytes outside the journal    *)
(* are written only behind one.                                            *)
Intact(recs) == Barrier \notin Range(recs)
Barred(todo) ==
  \A k \in 1..Len(todo) : todo[k].op = "data" => \E l \in 1..k - 1 : todo[l].op = "barrier"
Keeps ==
  /\ Intact(file.recs) /\ (Reversibly(file) \/ Working) => AllOriginal(file.recs, disk, txn)
  /\ run.recorded => run.todo[1].copy \in Covered(file.recs)
  /\ Intact(file.recs) => Barred(run.todo)

(* A copy undo has no more record to write back for is as it was, but for  *)
(* other tools; for the others the first record is still to come.          *)
Left(todo) == IF todo # <<>> /\ todo[1].op = "replay" THEN todo[1].left ELSE {}
WillBeBack(recs, left, d, t) ==
  \A c \in Covered(recs) :
    \/ Min(Of(recs, c)) \in left
    \/ /\ left \cap Of(recs, c) = {}
       /\ \A i \in 1..Sectors : d[c][i] = First(recs, c).pre[i] \/ <<c, i>> \in t.meddled
UndoShape(todo, recs) ==
  /\ \A k \in 1..Len(todo) : todo[k].op = "clear" => k = 1 \/ (k = 2 /\ todo[1].op = "replay")
  /\ \A k \in 1..Len(todo) : todo[k].op = "replay" =>
       /\ k = 1 /\ Len(todo) > 1 /\ todo[2].op = "clear"
       /\ todo[1].left # {} /\ todo[1].left \subseteq DOMAIN recs
UndoKeeps ==
  /\ UndoShape(run.todo, file.recs)
  /\ Has(run.todo, {"replay", "clear"}) =>
       Reversibly(file) /\ WillBeBack(file.recs, Left(run.todo), disk, txn)

(* What the journal and the disk hold was written before the next edit by  *)
(* another tool; and no record has left what such an edit left.            *)
Oldest(edits) == -1 - edits
Old(content, edits) == \A i \in 1..Sectors : content[i] >= Oldest(edits)
RecordsOld(recs, edits) ==
  \A k \in DOMAIN recs : recs[k] # Barrier => Old(recs[k].pre, edits) /\ Old(recs[k].after, edits)
DiskOld(d, edits) == \A c \in CopyNames : Old(d[c], edits)
PlanOld(todo, edits) ==
  \A k \in 1..Len(todo) : todo[k].op = "write" => todo[k].to >= Oldest(edits)
NotOurs(recs, d, edited) ==
  \A s \in edited, k \in DOMAIN recs :
    recs[k].copy = s[1] /\ recs[k].after[s[2]] = d[s[1]][s[2]] => recs[k].pre[s[2]] = d[s[1]][s[2]]
EditsKnown ==
  /\ RecordsOld(file.recs, used.edits) /\ DiskOld(disk, used.edits)
  /\ PlanOld(run.todo, used.edits)
  /\ NotOurs(file.recs, disk, txn.edited)

IInv == Sound /\ OneJob /\ Keeps /\ UndoKeeps /\ EditsKnown

(* Inodes that are never given away again name their journals.             *)
OwnInodes ==
  /\ file.ino = file.gen /\ run.ino = run.gen
  /\ \A s \in closing : s.ino = s.gen /\ s.gen \in finished

-----------------------------------------------------------------------------
(* Constants.                                                              *)
LEMMA Names == CopyNames = {"backup", "primary"}
  BY DEF CopyNames, Order, Range

LEMMA Numbers ==
  /\ Sectors \in Nat \ {0} /\ 0 \in Versions /\ Versions \subseteq Nat
  /\ MaxCommands \in Nat /\ MaxDeaths \in Nat /\ MaxEdits \in Nat
  /\ Readable \subseteq Int /\ Versions \subseteq Readable
  /\ Contents = [1..Sectors -> Readable \cup {-1}]
<1>1. /\ Sectors \in Nat \ {0} /\ 0 \in Versions /\ Versions \subseteq Nat
      /\ MaxCommands \in Nat /\ MaxDeaths \in Nat /\ MaxEdits \in Nat
  BY UndoJournalAssumption
<1>2. Foreigns \subseteq Int
  BY <1>1 DEF Foreigns, Foreign
<1>3. Readable \subseteq Int /\ Versions \subseteq Readable
  BY <1>1, <1>2 DEF Readable
<1>4. Contents = [1..Sectors -> Readable \cup {-1}]
  BY DEF Contents, Damaged
<1> QED BY <1>1, <1>3, <1>4

LEMMA ContentFacts ==
  ASSUME NEW x \in Contents, NEW i \in 1..Sectors PROVE x[i] \in Int
<1>1. x \in [1..Sectors -> Readable \cup {-1}] /\ Readable \cup {-1} \subseteq Int
  BY Numbers
<1> QED BY <1>1

LEMMA StepFacts ==
  ASSUME NEW s \in Steps
  PROVE  /\ s.op \in WorkOps \cup UndoOps
         /\ s.op = "write" => s.copy \in CopyNames /\ s.to \in Readable
         /\ s.op = "replay" => s.left \in SUBSET Nat
  BY DEF Steps, WorkOps, UndoOps

(* A new copy, and what a cut write leaves, are contents.                  *)
LEMMA ImageIsContent ==
  ASSUME NEW v \in Readable \cup {-1} PROVE Image(v) \in Contents
  BY Numbers DEF Image

LEMMA PartialIsContent ==
  ASSUME NEW old \in Contents, NEW new \in Contents, NEW c \in Partial(old, new)
  PROVE  /\ c \in Contents
         /\ \A i \in 1..Sectors : c[i] = old[i] \/ c[i] = new[i]
<1>1. PICK k \in 0..Sectors : c = [i \in 1..Sectors |-> IF i <= k THEN new[i] ELSE old[i]]
  BY DEF Partial
<1> QED BY <1>1, Numbers

(* The table that is read is one a copy holds.                             *)
LEMMA TableIsRead ==
  ASSUME NEW d \in [CopyNames -> Contents]
  PROVE  /\ Table(d) \in Readable \cup {Damaged}
         /\ Table(d) # Damaged => \E c \in CopyNames : Table(d) = d[c][1]
<1>1. ASSUME NEW c \in CopyNames, Whole(d[c]) PROVE d[c][1] \in Readable
  <2>1. PICK v \in Readable : d[c] = Image(v)
    BY <1>1 DEF Whole
  <2> QED BY <2>1, Numbers DEF Image
<1> QED BY <1>1, Names DEF Table

-----------------------------------------------------------------------------
(* Least and greatest elements.                                            *)
LEMMA LeastNatural ==
  ASSUME NEW T \in SUBSET Nat, T # {} PROVE \E x \in T : \A y \in T : x <= y
<1>1. PICK x \in T : \A y \in T : ~ (<<y, x>> \in OpToRel(<, Nat))
  BY WFMin, NatLessThanWellFounded
<1>2. ASSUME NEW y \in T PROVE x <= y
  <2>1. ~ (y < x)
    BY <1>1, <1>2 DEF OpToRel
  <2> QED BY <2>1
<1> QED BY <1>1, <1>2

LEMMA MinFacts ==
  ASSUME NEW T \in SUBSET Nat, T # {}
  PROVE  Min(T) \in T /\ \A y \in T : Min(T) <= y
<1>1. \E x \in T : \A y \in T : x =< y
  BY LeastNatural
<1> QED BY <1>1 DEF Min

LEMMA MaxFacts ==
  ASSUME NEW n \in Nat, NEW T \in SUBSET (1..n), T # {}
  PROVE  Max(T) \in T /\ \A y \in T : y <= Max(T)
<1> DEFINE U == {m \in 0..n : n - m \in T}
<1>1. U \in SUBSET Nat /\ U # {}
  <2>1. PICK y \in T : y \in 1..n
    OBVIOUS
  <2>2. PICK m \in 0..n : m = n - y
    BY <2>1
  <2>3. n - m = y
    BY <2>1, <2>2
  <2> QED BY <2>1, <2>3
<1>2. PICK x \in U : \A m \in U : x <= m
  BY <1>1, LeastNatural
<1>3. ASSUME NEW y \in T PROVE n - x >= y
  <2>1. PICK m \in 0..n : m = n - y
    OBVIOUS
  <2>2. n - m = y
    BY <2>1
  <2>3. x <= m
    BY <1>2, <1>3, <2>2
  <2> QED BY <1>2, <2>2, <2>3
<1>4. n - x \in T
  BY <1>2
<1>5. \E z \in T : \A y \in T : z >= y
  BY <1>3, <1>4
<1>6. Max(T) \in T /\ \A y \in T : Max(T) >= y
  BY <1>5 DEF Max
<1> QED BY <1>6

-----------------------------------------------------------------------------
(* Records.                                                                *)
Records == PreImages \cup {Barrier}

LEMMA RecordFacts ==
  ASSUME NEW recs \in Seq(Records), NEW k \in DOMAIN recs, recs[k].copy \in CopyNames
  PROVE  recs[k] \in PreImages /\ recs[k] # Barrier
<1>1. recs[k] \in Records
  BY ElementOfSeq
<1>2. Barrier.copy \notin CopyNames
  BY Names DEF Barrier
<1> QED BY <1>1, <1>2 DEF Records

LEMMA FirstFacts ==
  ASSUME NEW recs \in Seq(Records), NEW c \in Covered(recs)
  PROVE  /\ c \in CopyNames
         /\ Min(Of(recs, c)) \in Of(recs, c)
         /\ Min(Of(recs, c)) \in DOMAIN recs
         /\ \A k \in Of(recs, c) : Min(Of(recs, c)) <= k
         /\ First(recs, c) \in PreImages /\ First(recs, c).copy = c
<1>1. c \in CopyNames /\ Of(recs, c) # {}
  BY DEF Covered
<1>2. Of(recs, c) \in SUBSET Nat
  BY DEF Of
<1>3. Min(Of(recs, c)) \in Of(recs, c) /\ \A k \in Of(recs, c) : Min(Of(recs, c)) <= k
  BY <1>1, <1>2, MinFacts
<1>4. Min(Of(recs, c)) \in DOMAIN recs /\ recs[Min(Of(recs, c))].copy = c
  BY <1>3 DEF Of
<1>5. recs[Min(Of(recs, c))] \in PreImages
  BY <1>1, <1>4, RecordFacts
<1> QED BY <1>1, <1>3, <1>4, <1>5 DEF First

LEMMA AppendFacts ==
  ASSUME NEW recs \in Seq(Records), NEW r \in Records
  PROVE  /\ Append(recs, r) \in Seq(Records)
         /\ Append(recs, r) # <<>>
         /\ Len(Append(recs, r)) = Len(recs) + 1
         /\ DOMAIN Append(recs, r) = 1..Len(recs) + 1 /\ DOMAIN recs = 1..Len(recs)
         /\ \A k \in DOMAIN recs : Append(recs, r)[k] = recs[k]
         /\ Append(recs, r)[Len(recs) + 1] = r
         /\ Range(Append(recs, r)) = Range(recs) \cup {r}
<1>1. /\ Append(recs, r) \in Seq(Records)
      /\ Len(Append(recs, r)) = Len(recs) + 1
      /\ DOMAIN Append(recs, r) = 1..Len(recs) + 1 /\ DOMAIN recs = 1..Len(recs)
      /\ \A k \in DOMAIN recs : Append(recs, r)[k] = recs[k]
      /\ Append(recs, r)[Len(recs) + 1] = r /\ Len(recs) \in Nat
  OBVIOUS
<1>2. Range(Append(recs, r)) = Range(recs) \cup {r}
  <2>1. \A k \in 1..Len(recs) + 1 : k \in 1..Len(recs) \/ k = Len(recs) + 1
    BY <1>1
  <2>2. 1..Len(recs) \subseteq 1..Len(recs) + 1 /\ Len(recs) + 1 \in 1..Len(recs) + 1
    BY <1>1
  <2>3. ASSUME NEW x PROVE x \in Range(Append(recs, r)) <=> x \in Range(recs) \cup {r}
    BY <1>1, <2>1, <2>2 DEF Range
  <2> QED BY <2>3
<1>3. Append(recs, r) # <<>>
  BY <1>1
<1> QED BY <1>1, <1>2, <1>3

(* Appending changes nothing of what undo would bring back, if the new     *)
(* record holds what its copy holds.                                       *)
LEMMA AppendKeepsFirst ==
  ASSUME NEW recs \in Seq(Records), NEW r \in Records, NEW c \in CopyNames
  PROVE  /\ c \in Covered(recs) =>
              c \in Covered(Append(recs, r)) /\ First(Append(recs, r), c) = First(recs, c)
         /\ c \notin Covered(recs) /\ r.copy = c =>
              c \in Covered(Append(recs, r)) /\ First(Append(recs, r), c) = r
         /\ c \notin Covered(recs) /\ r.copy # c => c \notin Covered(Append(recs, r))
<1> DEFINE new == Append(recs, r)
           n == Len(recs) + 1
<1>1. /\ DOMAIN new = 1..n /\ DOMAIN recs = 1..n - 1 /\ n \in Nat \ {0}
      /\ \A k \in DOMAIN recs : new[k] = recs[k]
      /\ new[n] = r /\ new \in Seq(Records)
  BY AppendFacts
<1> HIDE DEF new, n
<1>2. Of(recs, c) = Of(new, c) \cap DOMAIN recs
  BY <1>1 DEF Of
<1>3. Of(new, c) \subseteq Of(recs, c) \cup {n}
  BY <1>1 DEF Of
<1>4. n \in Of(new, c) <=> r.copy = c
  BY <1>1 DEF Of
<1>5. CASE c \in Covered(recs)
  <2>1. c \in Covered(new)
    BY <1>2, <1>5 DEF Covered
  <2>2. /\ Min(Of(recs, c)) \in Of(recs, c) /\ Min(Of(recs, c)) \in DOMAIN recs
        /\ \A k \in Of(recs, c) : Min(Of(recs, c)) <= k
    BY <1>5, FirstFacts
  <2>3. /\ Min(Of(new, c)) \in Of(new, c)
        /\ \A k \in Of(new, c) : Min(Of(new, c)) <= k
    BY <2>1, <1>1, FirstFacts
  <2>4. Min(Of(new, c)) <= Min(Of(recs, c))
    BY <2>2, <2>3, <1>2
  <2>5. Min(Of(new, c)) # n
    BY <2>2, <2>4, <1>1
  <2>6. Min(Of(new, c)) \in Of(recs, c)
    BY <2>3, <2>5, <1>3
  <2>7. Min(Of(recs, c)) <= Min(Of(new, c))
    BY <2>2, <2>6
  <2>8. Min(Of(recs, c)) = Min(Of(new, c))
    <3>1. Min(Of(recs, c)) \in Int /\ Min(Of(new, c)) \in Int
      BY <2>2, <2>3, <1>1 DEF Of
    <3> QED BY <3>1, <2>4, <2>7
  <2>9. First(new, c) = First(recs, c)
    BY <2>8, <2>2, <1>1 DEF First
  <2> QED BY <2>1, <2>9, <1>5 DEF new
<1>6. CASE c \notin Covered(recs)
  <2>1. Of(recs, c) = {}
    BY <1>6 DEF Covered
  <2>2. CASE r.copy = c
    <3>1. Of(new, c) = {n}
      BY <2>1, <2>2, <1>3, <1>4
    <3>2. c \in Covered(new)
      BY <3>1 DEF Covered
    <3>3. Min(Of(new, c)) = n
      BY <3>1, <3>2, <1>1, FirstFacts
    <3>4. First(new, c) = r
      BY <3>3, <1>1 DEF First
    <3> QED BY <3>2, <3>4, <2>2, <1>6 DEF new
  <2>3. CASE r.copy # c
    <3>1. Of(new, c) = {}
      BY <2>1, <2>3, <1>3, <1>4
    <3> QED BY <3>1, <2>3, <1>6 DEF Covered, new
  <2> QED BY <2>2, <2>3
<1> QED BY <1>5, <1>6

-----------------------------------------------------------------------------
(* What undo would bring back, step by step.                               *)
LEMMA FreshOriginal ==
  ASSUME NEW d, NEW t, t.origin = d, t.moved = FALSE PROVE AllOriginal(<<>>, d, t)
<1>1. Covered(<<>>) = {}
  BY DEF Covered, Of
<1> QED BY <1>1 DEF AllOriginal, BringsBack

LEMMA RecordedOriginal ==
  ASSUME NEW recs \in Seq(Records), NEW r \in Records, NEW d, NEW t,
         r.copy \in CopyNames, r.pre = d[r.copy], AllOriginal(recs, d, t)
  PROVE  AllOriginal(Append(recs, r), d, t)
<1>1. ASSUME NEW c \in CopyNames
      PROVE  BringsBack(Append(recs, r), d, c) = BringsBack(recs, d, c)
  BY AppendKeepsFirst DEF BringsBack
<1> QED BY <1>1 DEF AllOriginal

LEMMA CoveredWriteOriginal ==
  ASSUME NEW recs, NEW d \in [CopyNames -> Contents], NEW c \in Covered(recs), NEW x,
         NEW t, NEW u, AllOriginal(recs, d, t),
         u.moved = t.moved, u.origin = t.origin, u.meddled = t.meddled
  PROVE  AllOriginal(recs, [d EXCEPT ![c] = x], u)
<1> DEFINE e == [d EXCEPT ![c] = x]
<1>1. ASSUME NEW b \in CopyNames PROVE BringsBack(recs, e, b) = BringsBack(recs, d, b)
  BY DEF BringsBack
<1> HIDE DEF e
<1>2. AllOriginal(recs, e, u)
  BY <1>1 DEF AllOriginal
<1> QED BY <1>2 DEF e

(* What another tool leaves of the copies.                                 *)
Edited(d, b, hit, v) ==
  [d EXCEPT ![b] = [i \in 1..Sectors |-> IF i \in hit THEN v ELSE @[i]]]

LEMMA EditedFacts ==
  ASSUME NEW d \in [CopyNames -> Contents], NEW b \in CopyNames, NEW hit, NEW v,
         NEW c \in CopyNames, NEW i \in 1..Sectors
  PROVE  Edited(d, b, hit, v)[c][i] = IF c = b /\ i \in hit THEN v ELSE d[c][i]
  BY DEF Edited

LEMMA MeddledOriginal ==
  ASSUME NEW recs, NEW d \in [CopyNames -> Contents], NEW b \in CopyNames,
         NEW hit \in SUBSET (1..Sectors), NEW v, NEW t, NEW u,
         AllOriginal(recs, d, t), u.moved = t.moved, u.origin = t.origin,
         u.meddled = t.meddled \cup ({b} \X hit)
  PROVE  AllOriginal(recs, Edited(d, b, hit, v), u)
<1> DEFINE e == Edited(d, b, hit, v)
<1>1. ASSUME NEW c \in CopyNames, NEW i \in 1..Sectors
      PROVE  e[c][i] = d[c][i] \/ (c = b /\ i \in hit)
  BY EditedFacts
<1>2. ASSUME NEW c \in CopyNames, NEW i \in 1..Sectors
      PROVE  \/ BringsBack(recs, e, c)[i] = BringsBack(recs, d, c)[i]
             \/ <<c, i>> \in {b} \X hit
  BY <1>1 DEF BringsBack
<1> HIDE DEF e
<1>3. ~u.moved
  BY DEF AllOriginal
<1>4. ASSUME NEW c \in CopyNames, NEW i \in 1..Sectors
      PROVE  BringsBack(recs, e, c)[i] = u.origin[c][i] \/ <<c, i>> \in u.meddled
  BY <1>2 DEF AllOriginal
<1>5. AllOriginal(recs, e, u)
  BY <1>3, <1>4 DEF AllOriginal
<1> QED BY <1>5 DEF e

(* ... and what is left to write back.                                     *)
LEMMA ReplayPlanned ==
  ASSUME NEW recs \in Seq(Records), NEW left, NEW t, left = ToReplay(recs)
  PROVE  WillBeBack(recs, left, disk, t)
<1> SUFFICES ASSUME NEW c \in Covered(recs)
             PROVE  \/ Min(Of(recs, c)) \in left
                    \/ /\ left \cap Of(recs, c) = {}
                       /\ \A i \in 1..Sectors :
                            disk[c][i] = First(recs, c).pre[i] \/ <<c, i>> \in t.meddled
  BY DEF WillBeBack
<1>1. Min(Of(recs, c)) \in DOMAIN recs /\ recs[Min(Of(recs, c))].copy = c
  BY FirstFacts DEF Of
<1>2. CASE c \in RolledBack(recs)
  <2>1. disk[c] = First(recs, c).pre
    BY <1>2 DEF RolledBack
  <2>2. left \cap Of(recs, c) = {}
    BY <1>2 DEF ToReplay, Of
  <2> QED BY <2>1, <2>2
<1>3. CASE c \notin RolledBack(recs)
  BY <1>1, <1>3 DEF ToReplay
<1> QED BY <1>2, <1>3

LEMMA ReplayedBack ==
  ASSUME NEW recs \in Seq(Records), NEW left \in SUBSET DOMAIN recs, left # {},
         NEW d \in [CopyNames -> Contents], NEW t, WillBeBack(recs, left, d, t),
         recs[Max(left)].copy \in CopyNames
  PROVE  WillBeBack(recs, left \ {Max(left)},
                    [d EXCEPT ![recs[Max(left)].copy] = recs[Max(left)].pre], t)
<1> DEFINE k == Max(left)
           e == [d EXCEPT ![recs[k].copy] = recs[k].pre]
<1>1. Len(recs) \in Nat /\ DOMAIN recs = 1..Len(recs)
  OBVIOUS
<1>2. k \in left /\ \A y \in left : y <= k
  BY <1>1, MaxFacts
<1> HIDE DEF k
<1> SUFFICES ASSUME NEW c \in Covered(recs)
             PROVE  \/ Min(Of(recs, c)) \in left \ {k}
                    \/ /\ (left \ {k}) \cap Of(recs, c) = {}
                       /\ \A i \in 1..Sectors :
                            e[c][i] = First(recs, c).pre[i] \/ <<c, i>> \in t.meddled
  BY DEF WillBeBack, k
<1>3. /\ c \in CopyNames /\ Min(Of(recs, c)) \in Of(recs, c)
      /\ Min(Of(recs, c)) \in DOMAIN recs
      /\ \A l \in Of(recs, c) : Min(Of(recs, c)) <= l
      /\ recs[Min(Of(recs, c))].copy = c
  BY FirstFacts DEF Of
<1>4. CASE recs[k].copy # c
  <2>1. e[c] = d[c] /\ k \notin Of(recs, c)
    BY <1>3, <1>4 DEF Of
  <2>2. Min(Of(recs, c)) # k
    BY <1>3, <1>4
  <2> QED BY <2>1, <2>2 DEF WillBeBack
<1>5. CASE recs[k].copy = c /\ k = Min(Of(recs, c))
  <2>1. e[c] = First(recs, c).pre
    BY <1>3, <1>5 DEF First
  <2>2. ASSUME NEW l \in left, l \in Of(recs, c) PROVE l = k
    <3>1. k <= l /\ l <= k /\ l \in Int /\ k \in Int
      BY <1>1, <1>2, <1>3, <1>5, <2>2
    <3> QED BY <3>1
  <2> QED BY <2>1, <2>2
<1>6. CASE recs[k].copy = c /\ k # Min(Of(recs, c))
  <2>1. k \in Of(recs, c)
    BY <1>1, <1>2, <1>6 DEF Of
  <2>2. Min(Of(recs, c)) \in left
    BY <1>2, <2>1 DEF WillBeBack
  <2> QED BY <2>2, <1>6
<1> QED BY <1>4, <1>5, <1>6

LEMMA MeddledBack ==
  ASSUME NEW recs, NEW left, NEW d \in [CopyNames -> Contents], NEW b \in CopyNames,
         NEW hit \in SUBSET (1..Sectors), NEW v, NEW t, NEW u,
         WillBeBack(recs, left, d, t), u.meddled = t.meddled \cup ({b} \X hit)
  PROVE  WillBeBack(recs, left, Edited(d, b, hit, v), u)
<1> DEFINE e == Edited(d, b, hit, v)
<1>1. ASSUME NEW c \in CopyNames, NEW i \in 1..Sectors
      PROVE  e[c][i] = d[c][i] \/ <<c, i>> \in {b} \X hit
  BY EditedFacts
<1>2. Covered(recs) \subseteq CopyNames
  BY DEF Covered
<1> HIDE DEF e
<1>3. WillBeBack(recs, left, e, u)
  BY <1>1, <1>2 DEF WillBeBack
<1> QED BY <1>3 DEF e

-----------------------------------------------------------------------------
(* What is known of the edits by other tools.                              *)
LEMMA MatchFacts ==
  ASSUME NEW now \in Contents, NEW rec \in PreImages, Matches(now, rec)
  PROVE  \A i \in 1..Sectors : now[i] = rec.pre[i] \/ now[i] = rec.after[i]
<1>1. rec.pre \in Contents /\ rec.after \in Contents
  BY DEF PreImages
<1> QED BY <1>1, PartialIsContent DEF Matches

LEMMA ImageIsOld ==
  ASSUME NEW edits \in Nat, NEW v, v >= Oldest(edits) PROVE Old(Image(v), edits)
  BY DEF Old, Image

LEMMA RecordedKnown ==
  ASSUME NEW recs \in Seq(Records), NEW r \in PreImages, NEW d, NEW edits, NEW edited \in Marks,
         r.pre = d[r.copy], Old(r.pre, edits), Old(r.after, edits),
         RecordsOld(recs, edits), NotOurs(recs, d, edited)
  PROVE  /\ RecordsOld(Append(recs, r), edits)
         /\ NotOurs(Append(recs, r), d, edited)
<1> DEFINE new == Append(recs, r)
           n == Len(recs) + 1
<1>1. /\ DOMAIN new = 1..n /\ DOMAIN recs = 1..n - 1 /\ n \in Nat \ {0}
      /\ \A k \in DOMAIN recs : new[k] = recs[k]
      /\ new[n] = r
  BY AppendFacts DEF Records
<1> HIDE DEF new, n
<1>2. \A k \in DOMAIN new : k = n \/ (k \in DOMAIN recs /\ new[k] = recs[k])
  BY <1>1
<1>3. RecordsOld(new, edits)
  BY <1>1, <1>2 DEF RecordsOld
<1>4. NotOurs(new, d, edited)
  BY <1>1, <1>2 DEF NotOurs
<1> QED BY <1>3, <1>4 DEF new

LEMMA BarrierKnown ==
  ASSUME NEW recs \in Seq(Records), NEW d, NEW edits, NEW edited \in Marks,
         RecordsOld(recs, edits), NotOurs(recs, d, edited)
  PROVE  /\ RecordsOld(Append(recs, Barrier), edits)
         /\ NotOurs(Append(recs, Barrier), d, edited)
<1> DEFINE new == Append(recs, Barrier)
           n == Len(recs) + 1
<1>1. /\ DOMAIN new = 1..n /\ DOMAIN recs = 1..n - 1 /\ n \in Nat \ {0}
      /\ \A k \in DOMAIN recs : new[k] = recs[k]
      /\ new[n] = Barrier
  BY AppendFacts DEF Records
<1> HIDE DEF new, n
<1>2. \A k \in DOMAIN new : k = n \/ (k \in DOMAIN recs /\ new[k] = recs[k])
  BY <1>1
<1>3. RecordsOld(new, edits)
  BY <1>1, <1>2 DEF RecordsOld
<1>4. \A s \in edited : s[1] # new[n].copy
  BY <1>1, Names DEF Marks, Barrier
<1>5. NotOurs(new, d, edited)
  BY <1>2, <1>4 DEF NotOurs
<1> QED BY <1>3, <1>5 DEF new

LEMMA WrittenKnown ==
  ASSUME NEW recs, NEW d \in [CopyNames -> Contents], NEW c \in CopyNames, NEW x, NEW edits,
         NEW edited \in Marks, NEW left \in SUBSET edited,
         Old(x, edits), DiskOld(d, edits), NotOurs(recs, d, edited),
         \A s \in left : s[1] = c => x[s[2]] = d[c][s[2]]
  PROVE  /\ DiskOld([d EXCEPT ![c] = x], edits)
         /\ NotOurs(recs, [d EXCEPT ![c] = x], left)
<1> DEFINE e == [d EXCEPT ![c] = x]
<1>1. \A b \in CopyNames : e[b] = IF b = c THEN x ELSE d[b]
  OBVIOUS
<1> HIDE DEF e
<1>2. DiskOld(e, edits)
  BY <1>1 DEF DiskOld
<1>3. \A s \in left : s[1] \in CopyNames /\ e[s[1]][s[2]] = d[s[1]][s[2]]
  BY <1>1 DEF Marks
<1>4. NotOurs(recs, e, left)
  BY <1>3 DEF NotOurs
<1> QED BY <1>2, <1>4 DEF e

LEMMA OldStaysOld ==
  ASSUME NEW edits \in Nat, NEW recs, NEW d \in [CopyNames -> Contents], NEW todo,
         RecordsOld(recs, edits), DiskOld(d, edits), PlanOld(todo, edits),
         recs \in Seq(Records), todo \in Seq(Steps)
  PROVE  /\ RecordsOld(recs, edits + 1) /\ DiskOld(d, edits + 1) /\ PlanOld(todo, edits + 1)
<1>1. \A v \in Int : v >= Oldest(edits) => v >= Oldest(edits + 1)
  BY DEF Oldest
<1>2. ASSUME NEW x \in Contents, Old(x, edits) PROVE Old(x, edits + 1)
  BY <1>1, <1>2, ContentFacts DEF Old
<1>3. DiskOld(d, edits + 1)
  BY <1>2 DEF DiskOld
<1>4. \A k \in DOMAIN recs : recs[k] # Barrier => recs[k].pre \in Contents /\ recs[k].after \in Contents
  BY ElementOfSeq DEF Records, PreImages
<1>5. RecordsOld(recs, edits + 1)
  BY <1>2, <1>4 DEF RecordsOld
<1>6. \A k \in 1..Len(todo) : todo[k].op = "write" => todo[k].to \in Int
  BY ElementOfSeq, StepFacts, Numbers
<1>7. PlanOld(todo, edits + 1)
  BY <1>1, <1>6 DEF PlanOld
<1> QED BY <1>3, <1>5, <1>7

LEMMA MeddledKnown ==
  ASSUME NEW edits \in Nat, NEW recs \in Seq(Records), NEW d \in [CopyNames -> Contents],
         NEW b \in CopyNames, NEW hit \in SUBSET (1..Sectors), NEW edited \in Marks,
         RecordsOld(recs, edits), DiskOld(d, edits), NotOurs(recs, d, edited),
         NEW e, e = Edited(d, b, hit, Foreign(edits + 1))
  PROVE  /\ DiskOld(e, edits + 1)
         /\ NotOurs(recs, e, edited \cup ({b} \X hit))
<1>1. \A c \in CopyNames : \A i \in 1..Sectors :
        e[c][i] = IF c = b /\ i \in hit THEN Foreign(edits + 1) ELSE d[c][i]
  BY EditedFacts
<1>2. \A v \in Int : v >= Oldest(edits) => v >= Oldest(edits + 1) /\ v # Foreign(edits + 1)
  BY DEF Oldest, Foreign
<1>3. Foreign(edits + 1) >= Oldest(edits + 1)
  BY DEF Oldest, Foreign
<1>4. \A c \in CopyNames : \A i \in 1..Sectors : d[c][i] \in Int
  BY ContentFacts
<1>5. DiskOld(e, edits + 1)
  BY <1>1, <1>2, <1>3, <1>4 DEF DiskOld, Old
<1>6. ASSUME NEW s \in edited \cup ({b} \X hit), NEW k \in DOMAIN recs, recs[k].copy = s[1],
             recs[k].after[s[2]] = e[s[1]][s[2]]
      PROVE  recs[k].pre[s[2]] = e[s[1]][s[2]]
  <2>1. s[1] \in CopyNames /\ s[2] \in 1..Sectors
    BY DEF Marks
  <2>2. CASE s[1] = b /\ s[2] \in hit
    <3>1. recs[k] \in PreImages /\ recs[k] # Barrier
      BY <1>6, <2>1, RecordFacts
    <3>2. recs[k].after[s[2]] \in Int /\ recs[k].after[s[2]] >= Oldest(edits)
      <4>1. recs[k].after \in Contents /\ Old(recs[k].after, edits)
        BY <3>1 DEF RecordsOld, PreImages
      <4> QED BY <2>1, <4>1, ContentFacts DEF Old
    <3> QED BY <1>1, <1>2, <1>6, <2>1, <2>2, <3>2
  <2>3. CASE ~(s[1] = b /\ s[2] \in hit)
    <3>1. s \in edited
      BY <2>3
    <3>2. e[s[1]][s[2]] = d[s[1]][s[2]]
      BY <1>1, <2>1, <2>3
    <3> QED BY <1>6, <3>1, <3>2 DEF NotOurs
  <2> QED BY <2>2, <2>3
<1>7. NotOurs(recs, e, edited \cup ({b} \X hit))
  BY <1>6 DEF NotOurs
<1> QED BY <1>5, <1>7

-----------------------------------------------------------------------------
(* Plans.                                                                  *)
(* One step of a plan is done.                                             *)
LEMMA TailFacts ==
  ASSUME NEW todo \in Seq(Steps), todo # <<>>
  PROVE  /\ Tail(todo) \in Seq(Steps)
         /\ Len(todo) \in Nat \ {0} /\ Len(Tail(todo)) = Len(todo) - 1
         /\ \A k \in 1..Len(todo) - 1 : Tail(todo)[k] = todo[k + 1] /\ k + 1 \in 1..Len(todo)
         /\ Tail(todo) # <<>> => Len(todo) > 1 /\ LastOp(Tail(todo)) = LastOp(todo)
         /\ Tail(todo) = <<>> => Len(todo) = 1
         /\ Head(todo) = todo[1] /\ todo[1] \in Steps
<1>1. /\ Tail(todo) \in Seq(Steps) /\ Len(todo) \in Nat \ {0} /\ Len(Tail(todo)) = Len(todo) - 1
      /\ \A k \in 1..Len(todo) - 1 : Tail(todo)[k] = todo[k + 1]
  BY HeadTailProperties, EmptySeq
<1>2. \A k \in 1..Len(todo) - 1 : k + 1 \in 1..Len(todo)
  BY <1>1
<1>3. ASSUME Tail(todo) # <<>> PROVE Len(todo) > 1 /\ LastOp(Tail(todo)) = LastOp(todo)
  <2>1. Len(Tail(todo)) \in Nat \ {0}
    BY <1>1, <1>3, EmptySeq
  <2>2. Len(todo) > 1 /\ Len(todo) - 1 \in 1..Len(todo) - 1 /\ (Len(todo) - 1) + 1 = Len(todo)
    BY <1>1, <2>1
  <2>3. Tail(todo)[Len(todo) - 1] = todo[Len(todo)]
    BY <1>1, <2>2
  <2> QED BY <1>1, <2>2, <2>3 DEF LastOp
<1>4. Tail(todo) = <<>> => Len(todo) = 1
  BY <1>1
<1>5. Head(todo) = todo[1] /\ todo[1] \in Steps
  BY <1>1
<1> QED BY <1>1, <1>2, <1>3, <1>4, <1>5

LEMMA TailPlan ==
  ASSUME NEW todo \in Seq(Steps), todo # <<>>
  PROVE  /\ \A ops : Only(todo, ops) => Only(Tail(todo), ops)
         /\ \A ops : Has(Tail(todo), ops) => Has(todo, ops)
         /\ \A edits : PlanOld(todo, edits) => PlanOld(Tail(todo), edits)
         /\ Barred(todo) /\ todo[1].op # "barrier" => Barred(Tail(todo))
<1>1. /\ Len(todo) \in Nat \ {0} /\ Len(Tail(todo)) = Len(todo) - 1
      /\ \A k \in 1..Len(todo) - 1 : Tail(todo)[k] = todo[k + 1] /\ k + 1 \in 1..Len(todo)
  BY TailFacts
<1>2. \A ops : Only(todo, ops) => Only(Tail(todo), ops)
  BY <1>1 DEF Only
<1>3. \A ops : Has(Tail(todo), ops) => Has(todo, ops)
  BY <1>1 DEF Has
<1>4. \A edits : PlanOld(todo, edits) => PlanOld(Tail(todo), edits)
  BY <1>1 DEF PlanOld
<1>5. ASSUME Barred(todo), todo[1].op # "barrier",
             NEW k \in 1..Len(todo) - 1, Tail(todo)[k].op = "data"
      PROVE  \E l \in 1..k - 1 : Tail(todo)[l].op = "barrier"
  <2>1. PICK l \in 1..(k + 1) - 1 : todo[l].op = "barrier"
    BY <1>1, <1>5 DEF Barred
  <2>2. l # 1 /\ l - 1 \in 1..k - 1 /\ l - 1 \in 1..Len(todo) - 1 /\ (l - 1) + 1 = l
    BY <1>1, <1>5, <2>1
  <2>3. Tail(todo)[l - 1].op = "barrier"
    BY <1>1, <2>1, <2>2
  <2> QED BY <2>2, <2>3
<1>6. Barred(todo) /\ todo[1].op # "barrier" => Barred(Tail(todo))
  BY <1>1, <1>5 DEF Barred
<1> QED BY <1>2, <1>3, <1>4, <1>6

(* A plan a command starts with: a job's ends by dropping the checkpoint.  *)
Plain(p, ops, edits) == p \in Seq(Steps) /\ Only(p, ops) /\ PlanOld(p, edits)
GoodPlan(p, job, edits) ==
  /\ p \in Seq(Steps) /\ p # <<>> /\ Only(p, WorkOps)
  /\ PlanOld(p, edits) /\ Barred(p)
  /\ job # NoJob => LastOp(p) = "drop"
  /\ job = NoJob => ~Has(p, {"save"})

LEMMA Joined ==
  ASSUME NEW p \in Seq(Steps), NEW q \in Seq(Steps)
  PROVE  /\ p \o q \in Seq(Steps) /\ Len(p \o q) = Len(p) + Len(q)
         /\ Len(p) \in Nat /\ Len(q) \in Nat
         /\ \A i \in 1..Len(p) + Len(q) :
              \/ i \in 1..Len(p) /\ (p \o q)[i] = p[i]
              \/ i > Len(p) /\ i - Len(p) \in 1..Len(q) /\ (p \o q)[i] = q[i - Len(p)]
<1>1. /\ p \o q \in Seq(Steps) /\ Len(p \o q) = Len(p) + Len(q)
      /\ Len(p) \in Nat /\ Len(q) \in Nat
      /\ \A i \in 1..Len(p) + Len(q) : (p \o q)[i] = IF i <= Len(p) THEN p[i] ELSE q[i - Len(p)]
  BY ConcatProperties, LenProperties
<1>2. \A i \in 1..Len(p) + Len(q) :
        IF i <= Len(p) THEN i \in 1..Len(p) ELSE i > Len(p) /\ i - Len(p) \in 1..Len(q)
  BY <1>1
<1> QED BY <1>1, <1>2

LEMMA PlainConcat ==
  ASSUME NEW ops, NEW edits, NEW p, NEW q, Plain(p, ops, edits), Plain(q, ops, edits)
  PROVE  Plain(p \o q, ops, edits)
<1>1. p \in Seq(Steps) /\ q \in Seq(Steps)
  BY DEF Plain
<1>2. /\ p \o q \in Seq(Steps) /\ Len(p \o q) = Len(p) + Len(q)
      /\ \A i \in 1..Len(p) + Len(q) : (p \o q)[i] = IF i <= Len(p) THEN p[i] ELSE q[i - Len(p)]
      /\ Len(p) \in Nat /\ Len(q) \in Nat
  BY <1>1, ConcatProperties, LenProperties
<1>3. \A i \in 1..Len(p) + Len(q) :
        IF i <= Len(p) THEN i \in 1..Len(p) ELSE i - Len(p) \in 1..Len(q)
  BY <1>2
<1>4. Only(p \o q, ops)
  BY <1>2, <1>3 DEF Plain, Only
<1>5. PlanOld(p \o q, edits)
  BY <1>2, <1>3 DEF Plain, PlanOld
<1> QED BY <1>2, <1>4, <1>5 DEF Plain

LEMMA WritesPlain ==
  ASSUME NEW v \in Readable, NEW edits, v >= Oldest(edits)
  PROVE  Plain(Writes(v), {"write"}, edits) /\ Len(Writes(v)) = 2
<1>1. Order[1] \in CopyNames /\ Order[2] \in CopyNames
  BY Names DEF Order
<1>2. \A k \in 1..2 : [op |-> "write", copy |-> Order[k], to |-> v] \in Steps
  BY <1>1 DEF Steps
<1>3. Writes(v) \in [1..2 -> Steps]
  BY <1>2 DEF Writes
<1>4. Writes(v) \in Seq(Steps) /\ Len(Writes(v)) = 2
  <2>1. Writes(v) \in Seq(Steps)
    BY <1>3, SeqDef
  <2> QED BY <1>3, <2>1
<1>5. \A k \in 1..2 : Writes(v)[k].op = "write" /\ Writes(v)[k].to = v
  BY DEF Writes
<1> QED BY <1>4, <1>5 DEF Plain, Only, PlanOld

LEMMA EmptyPlain == \A ops, edits : Plain(<<>>, ops, edits)
  BY EmptySeq DEF Plain, Only, PlanOld

LEMMA WiderPlain ==
  ASSUME NEW ops, NEW more, ops \subseteq more, NEW edits, NEW p, Plain(p, ops, edits)
  PROVE  Plain(p, more, edits)
  BY DEF Plain, Only

LEMMA RepairPlain ==
  ASSUME IInv, Table(disk) # Damaged
  PROVE  Plain(Repair, {"write"}, used.edits) /\ Table(disk) \in Readable
<1>1. disk \in [CopyNames -> Contents] /\ DiskOld(disk, used.edits) /\ 1 \in 1..Sectors
  BY Numbers DEF IInv, Sound, TypeOK, EditsKnown
<1>2. Table(disk) \in Readable /\ Table(disk) >= Oldest(used.edits)
  BY <1>1, TableIsRead DEF DiskOld, Old
<1> QED BY <1>2, WritesPlain, EmptyPlain DEF Repair

LEMMA VersionIsOld == ASSUME IInv, NEW v \in Versions PROVE v >= Oldest(used.edits)
<1>1. used.edits \in Nat /\ v \in Nat
  BY Numbers DEF IInv, Sound, TypeOK
<1> QED BY <1>1 DEF Oldest

LEMMA EditPlan ==
  ASSUME IInv, NEW v \in Versions
  PROVE  /\ GoodPlan(Writes(v), NoJob, used.edits)
         /\ Table(disk) # Damaged => GoodPlan(EditSteps(v), NoJob, used.edits)
<1>1. Plain(Writes(v), {"write"}, used.edits) /\ Len(Writes(v)) = 2
  BY Numbers, VersionIsOld, WritesPlain
<1>2. ASSUME NEW p, Plain(p, {"write"}, used.edits), p # <<>>
      PROVE  GoodPlan(p, NoJob, used.edits)
  BY <1>2 DEF GoodPlan, Plain, Only, Barred, Has, WorkOps
<1>3. Writes(v) # <<>>
  BY <1>1
<1>4. ASSUME Table(disk) # Damaged
      PROVE  Plain(EditSteps(v), {"write"}, used.edits) /\ EditSteps(v) # <<>>
  <2>1. Plain(Repair, {"write"}, used.edits)
    BY <1>4, RepairPlain
  <2>2. Plain(EditSteps(v), {"write"}, used.edits)
    BY <1>1, <2>1, PlainConcat DEF EditSteps
  <2>3. Repair \o Writes(v) # <<>>
    BY <1>1, <1>3, <2>1, ConcatEqualIffEmpty DEF Plain
  <2> QED BY <2>2, <2>3 DEF EditSteps
<1> QED BY <1>1, <1>2, <1>3, <1>4

LEMMA BareSteps ==
  ASSUME NEW name \in {"save", "barrier", "data", "drop", "clear", "retire", "release"}
  PROVE  Step(name) \in Steps /\ Step(name).op = name
  BY DEF Step, Steps

LEMMA GrowPlan ==
  ASSUME IInv, NEW job \in Jobs, job # NoJob, Table(disk) # Damaged
  PROVE  GoodPlan(GrowSteps(job), job, used.edits)
<1> DEFINE rest == IF Table(disk) = job.to THEN <<>> ELSE <<Step("save")>> \o Writes(job.to)
           p == Repair \o rest
           q == <<Step("barrier"), Step("data"), Step("drop")>>
<1>1. Plain(p, {"write", "save"}, used.edits)
  <2>1. Plain(Repair, {"write", "save"}, used.edits)
    BY RepairPlain, WiderPlain
  <2>2. Plain(Writes(job.to), {"write", "save"}, used.edits)
    <3>1. job.to \in Versions
      BY DEF Jobs
    <3>2. Plain(Writes(job.to), {"write"}, used.edits)
      BY <3>1, Numbers, VersionIsOld, WritesPlain
    <3> QED BY <3>2, WiderPlain
  <2>3. Plain(<<Step("save")>>, {"write", "save"}, used.edits)
    BY BareSteps DEF Plain, Only, PlanOld
  <2>4. Plain(rest, {"write", "save"}, used.edits)
    BY <2>2, <2>3, EmptyPlain, PlainConcat
  <2> QED BY <2>1, <2>4, PlainConcat
<1> HIDE DEF rest, p
<1>2. q \in Seq(Steps) /\ Len(q) = 3
  BY BareSteps
<1>3. q[1].op = "barrier" /\ q[2].op = "data" /\ q[3].op = "drop"
  BY BareSteps
<1> HIDE DEF q
<1>n. p \in Seq(Steps)
  BY <1>1 DEF Plain
<1>4. /\ p \o q \in Seq(Steps) /\ Len(p \o q) = Len(p) + 3 /\ Len(p) \in Nat
      /\ \A i \in 1..Len(p) + 3 :
           \/ i \in 1..Len(p) /\ (p \o q)[i] = p[i]
           \/ i > Len(p) /\ i - Len(p) \in 1..3 /\ (p \o q)[i] = q[i - Len(p)]
  <2>1. /\ p \o q \in Seq(Steps) /\ Len(p \o q) = Len(p) + Len(q)
        /\ Len(p) \in Nat /\ Len(q) \in Nat
        /\ \A i \in 1..Len(p) + Len(q) :
             \/ i \in 1..Len(p) /\ (p \o q)[i] = p[i]
             \/ i > Len(p) /\ i - Len(p) \in 1..Len(q) /\ (p \o q)[i] = q[i - Len(p)]
    BY <1>2, <1>n, Joined
  <2> QED BY <1>2, <2>1
<1>5. \A i \in 1..Len(p) + 3 : i - Len(p) \in 1..3 =>
        \/ i = Len(p) + 1 /\ i - Len(p) = 1
        \/ i = Len(p) + 2 /\ i - Len(p) = 2
        \/ i = Len(p) + 3 /\ i - Len(p) = 3
  BY <1>4
<1>6. \A i \in 1..Len(p) + 3 :
        \/ i \in 1..Len(p) /\ (p \o q)[i] = p[i] /\ (p \o q)[i].op \in {"write", "save"}
        \/ i = Len(p) + 1 /\ (p \o q)[i].op = "barrier"
        \/ i = Len(p) + 2 /\ (p \o q)[i].op = "data"
        \/ i = Len(p) + 3 /\ (p \o q)[i].op = "drop"
  BY <1>1, <1>3, <1>4, <1>5 DEF Plain, Only
<1>7. Only(p \o q, WorkOps) /\ LastOp(p \o q) = "drop"
  <2>1. \A i \in 1..Len(p) + 3 : (p \o q)[i].op \in WorkOps
    BY <1>6 DEF WorkOps
  <2>2. Len(p) + 3 \in 1..Len(p) + 3 /\ Len(p) + 3 \notin 1..Len(p)
    BY <1>4
  <2>3. (p \o q)[Len(p) + 3].op = "drop"
    BY <1>4, <1>6, <2>2
  <2> QED BY <1>4, <2>1, <2>3 DEF Only, LastOp
<1>8. PlanOld(p \o q, used.edits)
  BY <1>1, <1>4, <1>6 DEF Plain, PlanOld
<1>9. Barred(p \o q)
  BY <1>4, <1>6 DEF Barred
<1>10. p \o q # <<>>
  BY <1>4
<1>11. GoodPlan(p \o q, job, used.edits)
  BY <1>4, <1>7, <1>8, <1>9, <1>10 DEF GoodPlan
<1> QED BY <1>11 DEF GrowSteps, p, q, rest

LEMMA MovePlan ==
  ASSUME IInv, NEW job \in Jobs, job # NoJob, ckpt = NoJob => Table(disk) # Damaged
  PROVE  GoodPlan(MoveSteps(job), job, used.edits)
<1> DEFINE p == IF ckpt = NoJob THEN Repair ELSE <<>>
           q == <<Step("save"), Step("barrier"), Step("data")>>
           r == Writes(job.to)
           z == <<Step("drop")>>
           pq == p \o q
           pqr == pq \o r
           all == pqr \o z
<1>1. Plain(p, {"write"}, used.edits)
  BY RepairPlain, EmptyPlain
<1>2. q \in Seq(Steps) /\ Len(q) = 3
  BY BareSteps
<1>3. q[1].op = "save" /\ q[2].op = "barrier" /\ q[3].op = "data"
  BY BareSteps
<1>4. Plain(r, {"write"}, used.edits) /\ Len(r) = 2
  <2>1. job.to \in Versions
    BY DEF Jobs
  <2> QED BY <2>1, Numbers, VersionIsOld, WritesPlain
<1>5. z \in Seq(Steps) /\ Len(z) = 1 /\ z[1].op = "drop"
  BY BareSteps
<1> HIDE DEF p, q, r, z
<1>n. p \in Seq(Steps) /\ Len(p) \in Nat
  BY <1>1, LenProperties DEF Plain
<1>m. /\ (Len(p) + 3) + 2 = Len(p) + 5 /\ (Len(p) + 5) + 1 = Len(p) + 6
  BY <1>n
<1>6. /\ pq \in Seq(Steps) /\ Len(pq) = Len(p) + 3 /\ Len(p) \in Nat
      /\ \A i \in 1..Len(p) + 3 :
           \/ i \in 1..Len(p) /\ pq[i] = p[i]
           \/ i > Len(p) /\ i - Len(p) \in 1..3 /\ pq[i] = q[i - Len(p)]
  <2>1. /\ p \o q \in Seq(Steps) /\ Len(p \o q) = Len(p) + Len(q)
        /\ \A i \in 1..Len(p) + Len(q) :
             \/ i \in 1..Len(p) /\ (p \o q)[i] = p[i]
             \/ i > Len(p) /\ i - Len(p) \in 1..Len(q) /\ (p \o q)[i] = q[i - Len(p)]
    BY <1>n, <1>2, Joined
  <2> QED BY <1>n, <1>2, <2>1
<1>7. \A i \in 1..Len(p) + 3 : i - Len(p) \in 1..3 =>
        \/ i = Len(p) + 1 /\ i - Len(p) = 1
        \/ i = Len(p) + 2 /\ i - Len(p) = 2
        \/ i = Len(p) + 3 /\ i - Len(p) = 3
  BY <1>6
<1>8. \A i \in 1..Len(p) + 3 :
        \/ i \in 1..Len(p) /\ pq[i] = p[i] /\ pq[i].op = "write"
        \/ i = Len(p) + 1 /\ pq[i].op = "save"
        \/ i = Len(p) + 2 /\ pq[i].op = "barrier"
        \/ i = Len(p) + 3 /\ pq[i].op = "data"
  BY <1>1, <1>3, <1>6, <1>7 DEF Plain, Only
<1> HIDE DEF pq
<1>9. /\ pqr \in Seq(Steps) /\ Len(pqr) = Len(p) + 5
      /\ \A i \in 1..Len(p) + 5 :
           \/ i \in 1..Len(p) + 3 /\ pqr[i] = pq[i]
           \/ /\ i > Len(p) + 3 /\ i - (Len(p) + 3) \in 1..2
              /\ pqr[i] = r[i - (Len(p) + 3)]
  <2>1. /\ pq \o r \in Seq(Steps) /\ Len(pq \o r) = Len(pq) + Len(r)
        /\ \A i \in 1..Len(pq) + Len(r) :
             \/ i \in 1..Len(pq) /\ (pq \o r)[i] = pq[i]
             \/ i > Len(pq) /\ i - Len(pq) \in 1..Len(r) /\ (pq \o r)[i] = r[i - Len(pq)]
    BY <1>4, <1>6, Joined DEF Plain
  <2>2. Len(pq) = Len(p) + 3 /\ Len(r) = 2
    BY <1>4, <1>6
  <2> QED BY <1>m, <2>1, <2>2
<1>10. \A i \in 1..Len(p) + 5 :
        \/ i \in 1..Len(p) + 3 /\ pqr[i] = pq[i]
        \/ i > Len(p) + 3 /\ pqr[i].op = "write" /\ pqr[i].to >= Oldest(used.edits)
  BY <1>4, <1>9 DEF Plain, Only, PlanOld
<1> HIDE DEF pqr
<1>11. /\ all \in Seq(Steps) /\ Len(all) = Len(p) + 6
       /\ \A i \in 1..Len(p) + 6 :
            \/ i \in 1..Len(p) + 5 /\ all[i] = pqr[i]
            \/ /\ i > Len(p) + 5 /\ i - (Len(p) + 5) \in 1..1
               /\ all[i] = z[i - (Len(p) + 5)]
  <2>1. /\ pqr \o z \in Seq(Steps) /\ Len(pqr \o z) = Len(pqr) + Len(z)
        /\ \A i \in 1..Len(pqr) + Len(z) :
             \/ i \in 1..Len(pqr) /\ (pqr \o z)[i] = pqr[i]
             \/ i > Len(pqr) /\ i - Len(pqr) \in 1..Len(z) /\ (pqr \o z)[i] = z[i - Len(pqr)]
    BY <1>5, <1>9, Joined
  <2>2. Len(pqr) = Len(p) + 5 /\ Len(z) = 1
    BY <1>5, <1>9
  <2> QED BY <1>m, <2>1, <2>2
<1>12. \A i \in 1..Len(p) + 6 :
        \/ i \in 1..Len(p) + 5 /\ all[i] = pqr[i]
        \/ i = Len(p) + 6 /\ all[i].op = "drop"
  <2>1. \A i \in 1..Len(p) + 6 : i - (Len(p) + 5) \in 1..1 =>
          i = Len(p) + 6 /\ i - (Len(p) + 5) = 1
    BY <1>6
  <2> QED BY <1>5, <1>11, <2>1
<1> HIDE DEF all
<1>13. Only(all, WorkOps)
  BY <1>8, <1>10, <1>11, <1>12 DEF Only, WorkOps
<1>14. LastOp(all) = "drop" /\ all # <<>>
  BY <1>6, <1>11, <1>12 DEF LastOp
<1>15. PlanOld(all, used.edits)
  <2>1. \A i \in 1..Len(p) : p[i].op = "write" => p[i].to >= Oldest(used.edits)
    BY <1>1 DEF Plain, PlanOld
  <2>2. \A i \in 1..Len(p) + 3 : pq[i].op = "write" => pq[i].to >= Oldest(used.edits)
    BY <1>8, <2>1
  <2>3. \A i \in 1..Len(p) + 5 : pqr[i].op = "write" => pqr[i].to >= Oldest(used.edits)
    BY <1>10, <2>2
  <2> QED BY <1>11, <1>12, <2>3 DEF PlanOld
<1>16. Barred(all)
  <2>1. Len(p) + 2 \in 1..Len(p) + 3 /\ Len(p) + 2 \in 1..Len(p) + 5 /\ Len(p) + 2 \in 1..Len(p) + 6
    BY <1>6
  <2>2. all[Len(p) + 2].op = "barrier"
    BY <1>6, <1>8, <1>10, <1>12, <2>1
  <2>3. \A i \in 1..Len(p) + 6 : all[i].op = "data" => i = Len(p) + 3
    BY <1>6, <1>8, <1>10, <1>12
  <2> QED BY <1>6, <1>11, <2>2, <2>3 DEF Barred
<1>17. GoodPlan(all, job, used.edits)
  BY <1>11, <1>13, <1>14, <1>15, <1>16 DEF GoodPlan
<1> QED BY <1>17 DEF MoveSteps, all, pqr, pq, p, q, r, z

-----------------------------------------------------------------------------
(* What the parts of the state are.                                        *)
LEMMA Types ==
  ASSUME IInv
  PROVE  /\ disk \in [CopyNames -> Contents] /\ file \in Files
         /\ file.recs \in Seq(Records) /\ file.kind \in {"none", "empty", "stub", "headed"}
         /\ file.gen \in Nat
         /\ ckpt \in Jobs /\ run \in Runs /\ run.todo \in Seq(Steps) /\ run.job \in Jobs
         /\ txn \in Txns /\ txn.edited \subseteq txn.meddled /\ txn.edited \in Marks
         /\ used.commands \in Nat /\ used.deaths \in Nat /\ used.edits \in Nat /\ used.files \in Nat
<1>1. MaxCommands \in Nat /\ MaxDeaths \in Nat /\ MaxEdits \in Nat
  BY Numbers
<1>2. Inodes \subseteq Nat
  BY <1>1 DEF Inodes
<1>3. disk \in [CopyNames -> Contents] /\ file \in Files /\ ckpt \in Jobs /\ run \in Runs
      /\ txn \in Txns /\ txn.edited \subseteq txn.meddled
  BY DEF IInv, Sound, TypeOK
<1>4. /\ file.recs \in Seq(Records) /\ file.kind \in {"none", "empty", "stub", "headed"}
      /\ file.gen \in Nat
  BY <1>2, <1>3 DEF Files, Records
<1>5. run.todo \in Seq(Steps) /\ run.job \in Jobs
  BY <1>3 DEF Runs
<1>6. txn.edited \in Marks
  BY <1>3 DEF Txns
<1>7. /\ used.commands \in Nat /\ used.deaths \in Nat /\ used.edits \in Nat /\ used.files \in Nat
  <2>1. used \in [commands: 0..MaxCommands, deaths: 0..MaxDeaths, edits: 0..MaxEdits, files: Inodes]
    BY DEF IInv, Sound, TypeOK
  <2>2. 0..MaxCommands \subseteq Nat /\ 0..MaxDeaths \subseteq Nat /\ 0..MaxEdits \subseteq Nat
    OBVIOUS
  <2> QED BY <1>2, <2>1, <2>2
<1> QED BY <1>3, <1>4, <1>5, <1>6, <1>7

LEMMA NoFileTypes ==
  /\ NoFile \in Files /\ Idle \in Runs /\ NoJob \in Jobs /\ 0 \in Inodes
  /\ NoTxn \in Txns /\ NoTxn.edited \subseteq NoTxn.meddled
  /\ NoFile.recs = <<>> /\ NoFile.kind = "none" /\ NoFile.gen = 0
  /\ Idle.todo = <<>> /\ ~Idle.busy /\ ~Idle.recorded /\ NoTxn.edited = {}
<1>1. 0 \in Inodes /\ 0 \in Versions /\ 0 \in Readable
  BY Numbers DEF Inodes
<1>2. Image(0) \in Contents
  BY <1>1, ImageIsContent
<1>3. NoJob \in Jobs
  BY <1>1 DEF NoJob, Jobs
<1>4. NoFile \in Files
  BY <1>1, EmptySeq DEF NoFile, Files
<1>5. Idle \in Runs
  BY <1>1, <1>3, EmptySeq DEF Idle, Runs
<1>6. NoTxn \in Txns /\ NoTxn.edited \subseteq NoTxn.meddled /\ NoTxn.edited = {}
  BY <1>2, <1>3 DEF NoTxn, Txns, Marks
<1> QED BY <1>1, <1>3, <1>4, <1>5, <1>6 DEF NoFile, Idle

LEMMA Recorded ==
  ASSUME IInv
  PROVE  /\ Class(file) = "records" <=> file.recs # <<>>
         /\ file.recs # <<>> => file.kind = "headed"
  BY DEF IInv, Sound, FileShape, Class

(* A plan of work has nothing to undo, and the other way round.            *)
LEMMA WorkPlan ==
  ASSUME NEW todo \in Seq(Steps), Only(todo, WorkOps)
  PROVE  /\ \A recs : UndoShape(todo, recs)
         /\ ~Has(todo, {"replay", "clear"}) /\ Left(todo) = {}
<1>1. \A k \in 1..Len(todo) : todo[k].op \notin {"replay", "clear"}
  BY DEF Only, WorkOps
<1>2. todo # <<>> => 1 \in 1..Len(todo)
  BY EmptySeq
<1> QED BY <1>1, <1>2 DEF UndoShape, Has, Left

LEMMA UndoPlan ==
  ASSUME NEW todo \in Seq(Steps), Only(todo, UndoOps)
  PROVE  /\ Barred(todo) /\ \A edits : PlanOld(todo, edits)
         /\ ~Has(todo, {"save"})
         /\ todo # <<>> => todo[1].op \in UndoOps \ WorkOps
<1>1. \A k \in 1..Len(todo) : todo[k].op \notin WorkOps /\ todo[k].op \in UndoOps
  BY DEF Only, UndoOps, WorkOps
<1>2. todo # <<>> => 1 \in 1..Len(todo)
  BY EmptySeq
<1> QED BY <1>1, <1>2 DEF Barred, PlanOld, Has, WorkOps

LEMMA FirstStep ==
  ASSUME IInv, run.busy, run.todo # <<>>
  PROVE  /\ Working <=> Only(run.todo, WorkOps)
         /\ ~Working <=> Only(run.todo, UndoOps)
         /\ run.todo[1] \in Steps /\ Head(run.todo) = run.todo[1]
<1>1. run.todo \in Seq(Steps)
  BY Types
<1>2. 1 \in 1..Len(run.todo) /\ run.todo[1] \in Steps /\ Head(run.todo) = run.todo[1]
  BY <1>1, TailFacts
<1>3. Only(run.todo, WorkOps) \/ Only(run.todo, UndoOps)
  BY DEF IInv, Sound, PlanShape
<1> QED BY <1>2, <1>3 DEF Only, Working, WorkOps, UndoOps

LEMMA TailEnds ==
  ASSUME NEW todo \in Seq(Steps), todo # <<>>, NEW job, NEW next, EndsWell(todo, job),
         \/ next = NoJob
         \/ next = job /\ todo[1].op \notin {"drop", "release"}
         \/ todo[1].op = "save"
  PROVE  EndsWell(Tail(todo), next)
<1>1. /\ Len(todo) \in Nat \ {0} /\ Tail(todo) \in Seq(Steps)
      /\ Tail(todo) # <<>> => LastOp(Tail(todo)) = LastOp(todo)
      /\ Tail(todo) = <<>> => LastOp(todo) = todo[1].op
  BY TailFacts DEF LastOp
<1>2. Has(Tail(todo), {"save"}) => Has(todo, {"save"})
  BY TailPlan
<1>3. todo[1].op = "save" => Has(todo, {"save"})
  BY <1>1 DEF Has
<1> QED BY <1>1, <1>2, <1>3 DEF EndsWell

-----------------------------------------------------------------------------
(* A step that leaves the state but for the sessions that are closing.     *)
LEMMA Framed ==
  ASSUME IInv, TypeOK', UNCHANGED <<disk, file, ckpt, run, txn>>,
         used'.files = used.files, used'.edits = used.edits,
         used'.commands >= used.commands, used'.deaths >= used.deaths,
         used'.commands \in Nat, used'.deaths \in Nat
  PROVE  IInv'
<1>1. used.commands \in Nat /\ used.deaths \in Nat /\ used.files \in Nat
  BY Types
<1>2. FileShape' /\ PlanShape'
  BY DEF IInv, Sound, FileShape, PlanShape, Working, At
<1>3. Budget'
  BY <1>1 DEF IInv, Sound, Budget, Owing, Working
<1>4. OneJob'
  BY DEF IInv, OneJob, OneTransaction, Working
<1>5. Keeps'
  BY DEF IInv, Keeps, Working, Reversibly
<1>6. UndoKeeps'
  BY DEF IInv, UndoKeeps, Reversibly
<1>7. EditsKnown'
  BY DEF IInv, EditsKnown
<1> QED BY <1>2, <1>3, <1>4, <1>5, <1>6, <1>7 DEF IInv, Sound

(* A run that ends where nothing more is written.                          *)
LEMMA Stopped ==
  ASSUME IInv, TypeOK', run' = Idle, UNCHANGED <<disk, file, ckpt, txn>>,
         used'.files = used.files, used'.edits = used.edits,
         used'.commands = used.commands,
         \/ used'.deaths = used.deaths + 1
         \/ used'.deaths = used.deaths /\ ~Working
  PROVE  IInv'
<1>1. used.commands \in Nat /\ used.deaths \in Nat /\ used.files \in Nat
  BY Types
<1>2. ~Working' /\ run'.todo = <<>> /\ ~run'.busy /\ ~run'.recorded /\ Len(run'.todo) = 0
  BY NoFileTypes DEF Working
<1>3. FileShape' /\ PlanShape'
  BY <1>2 DEF IInv, Sound, FileShape, PlanShape, Only
<1>4. Budget'
  BY <1>1, <1>2 DEF IInv, Sound, Budget, Owing
<1>5. OneJob'
  BY <1>2 DEF IInv, OneJob, OneTransaction
<1>6. Keeps'
  BY <1>2 DEF IInv, Keeps, Reversibly, Barred
<1>7. UndoKeeps'
  BY <1>2 DEF UndoKeeps, UndoShape, Has
<1>8. EditsKnown'
  BY <1>2 DEF IInv, EditsKnown, PlanOld
<1> QED BY <1>3, <1>4, <1>5, <1>6, <1>7, <1>8 DEF IInv, Sound

-----------------------------------------------------------------------------
(* A command begins.                                                       *)
LEMMA AdoptedFacts ==
  ASSUME IInv
  PROVE  /\ Adopted \in Files /\ Adopted.recs = file.recs /\ Adopted.gen = file.gen
         /\ Adopted.kind = (IF file.kind = "empty" THEN "headed" ELSE file.kind)
<1>1. file \in Files
  BY Types
<1> QED BY <1>1 DEF Adopted, Files

LEMMA Begins ==
  ASSUME IInv, BeginEdit \/ BeginNew \/ BeginGrow \/ BeginMove \/ Resume
  PROVE  \E p, job :
           /\ Start(p, job) /\ GoodPlan(p, job, used.edits) /\ job \in Jobs
           /\ Free /\ file.kind # "stub" /\ UNCHANGED <<disk, ckpt, closing, history>>
           /\ \/ /\ ckpt = NoJob /\ file.recs = <<>> /\ used.commands < MaxCommands
                 /\ used' = [used EXCEPT !.commands = @ + 1]
              \/ ckpt = job /\ job # NoJob /\ used' = used
<1>1. ASSUME Fresh
      PROVE  /\ Free /\ file.kind # "stub" /\ ckpt = NoJob /\ file.recs = <<>>
             /\ used.commands < MaxCommands /\ used' = [used EXCEPT !.commands = @ + 1]
  BY <1>1, Recorded DEF Fresh, Active, Class
<1>2. ASSUME Table(disk) \in Versions PROVE Table(disk) # Damaged
  BY <1>2, Numbers DEF Damaged
<1>3. NoJob \in Jobs
  BY NoFileTypes
<1>4. CASE BeginEdit
  <2>1. /\ Fresh /\ Table(disk) # Damaged /\ UNCHANGED <<disk, ckpt, closing, history>>
        /\ \E v \in Versions : Start(EditSteps(v), NoJob)
    BY <1>4 DEF BeginEdit
  <2>2. PICK v \in Versions : Start(EditSteps(v), NoJob)
    BY <2>1
  <2>3. GoodPlan(EditSteps(v), NoJob, used.edits)
    BY <2>1, EditPlan
  <2> QED BY <1>1, <1>3, <2>1, <2>2, <2>3
<1>5. CASE BeginNew
  <2>1. /\ Fresh /\ UNCHANGED <<disk, ckpt, closing, history>>
        /\ \E v \in Versions : Start(Writes(v), NoJob)
    BY <1>5 DEF BeginNew
  <2>2. PICK v \in Versions : Start(Writes(v), NoJob)
    BY <2>1
  <2>3. GoodPlan(Writes(v), NoJob, used.edits)
    BY EditPlan
  <2> QED BY <1>1, <1>3, <2>1, <2>2, <2>3
<1>6. CASE BeginGrow
  <2>1. /\ Fresh /\ Table(disk) \in Versions /\ UNCHANGED <<disk, ckpt, closing, history>>
        /\ \E job \in Jobs : job.kind = "grow" /\ Start(GrowSteps(job), job)
    BY <1>6 DEF BeginGrow
  <2>2. PICK job \in Jobs : job.kind = "grow" /\ Start(GrowSteps(job), job)
    BY <2>1
  <2>3. job # NoJob
    BY <2>2 DEF NoJob
  <2>4. GoodPlan(GrowSteps(job), job, used.edits)
    BY <1>2, <2>1, <2>3, GrowPlan
  <2> QED BY <1>1, <2>1, <2>2, <2>4
<1>7. CASE BeginMove
  <2>1. /\ Fresh /\ Table(disk) \in Versions /\ UNCHANGED <<disk, ckpt, closing, history>>
        /\ \E job \in Jobs : job.kind = "move" /\ Start(MoveSteps(job), job)
    BY <1>7 DEF BeginMove
  <2>2. PICK job \in Jobs : job.kind = "move" /\ Start(MoveSteps(job), job)
    BY <2>1
  <2>3. job # NoJob
    BY <2>2 DEF NoJob
  <2>4. GoodPlan(MoveSteps(job), job, used.edits)
    BY <1>2, <2>1, <2>3, MovePlan
  <2> QED BY <1>1, <2>1, <2>2, <2>4
<1>8. CASE Resume
  <2>1. /\ Free /\ ckpt # NoJob /\ file.kind # "stub" /\ Table(disk) \in {ckpt.from, ckpt.to}
        /\ Start(IF ckpt.kind = "grow" THEN GrowSteps(ckpt) ELSE MoveSteps(ckpt), ckpt)
        /\ UNCHANGED <<disk, ckpt, closing, history, used>>
    BY <1>8 DEF Resume, ResumeAccepted
  <2>2. ckpt \in Jobs
    BY Types
  <2>3. Table(disk) # Damaged
    BY <1>2, <2>1, <2>2 DEF Jobs
  <2>4. GoodPlan(GrowSteps(ckpt), ckpt, used.edits) /\ GoodPlan(MoveSteps(ckpt), ckpt, used.edits)
    BY <2>1, <2>2, <2>3, GrowPlan, MovePlan
  <2> QED BY <2>1, <2>2, <2>4
<1> QED BY <1>4, <1>5, <1>6, <1>7, <1>8

LEMMA BeginKeeps ==
  ASSUME IInv, BeginEdit \/ BeginNew \/ BeginGrow \/ BeginMove \/ Resume
  PROVE  IInv'
<1>1. PICK p, job :
        /\ Start(p, job) /\ GoodPlan(p, job, used.edits) /\ job \in Jobs
        /\ Free /\ file.kind # "stub" /\ UNCHANGED <<disk, ckpt, closing, history>>
        /\ \/ /\ ckpt = NoJob /\ file.recs = <<>> /\ used.commands < MaxCommands
              /\ used' = [used EXCEPT !.commands = @ + 1]
           \/ ckpt = job /\ job # NoJob /\ used' = used
  BY Begins
<1>2. /\ disk \in [CopyNames -> Contents] /\ file \in Files /\ file.recs \in Seq(Records)
      /\ run \in Runs /\ txn \in Txns /\ txn.edited \subseteq txn.meddled
      /\ used.commands \in Nat /\ used.deaths \in Nat /\ used.edits \in Nat /\ used.files \in Nat
      /\ file.kind \in {"none", "empty", "stub", "headed"} /\ file.gen \in Nat
  BY Types
<1>3. /\ p \in Seq(Steps) /\ p # <<>> /\ Only(p, WorkOps) /\ PlanOld(p, used.edits) /\ Barred(p)
      /\ job # NoJob => LastOp(p) = "drop"
      /\ job = NoJob => ~Has(p, {"save"})
  BY <1>1 DEF GoodPlan
<1>4. /\ run' = [Idle EXCEPT !.busy = TRUE, !.todo = p, !.job = job,
                             !.gen = file.gen, !.ino = file.ino]
      /\ file' = Adopted
      /\ txn' = IF file.recs # <<>> THEN txn
                ELSE [NoTxn EXCEPT !.origin = disk, !.job = job]
  BY <1>1 DEF Start
<1>5. /\ run'.busy /\ run'.todo = p /\ run'.job = job /\ ~run'.recorded /\ run' \in Runs
  <2>1. file.gen \in Inodes /\ file.ino \in Inodes
    BY <1>2 DEF Files
  <2> QED BY <1>1, <1>3, <1>4, <2>1 DEF Idle, Runs
<1>6. /\ file' \in Files /\ file'.recs = file.recs /\ file'.gen = file.gen
      /\ file'.kind \in {"none", "headed"} /\ (file'.kind = "none" => file.kind = "none")
  BY <1>1, <1>2, <1>4, AdoptedFacts
<1>7. /\ txn' \in Txns /\ txn'.edited \subseteq txn'.meddled
      /\ file.recs # <<>> => txn' = txn
      /\ file.recs = <<>> => /\ txn'.job = job /\ txn'.origin = disk /\ txn'.moved = FALSE
                             /\ txn'.edited = {}
  BY <1>1, <1>2, <1>4, NoFileTypes DEF Txns, NoTxn, Marks
<1>8. /\ used'.files = used.files /\ used'.edits = used.edits /\ used'.deaths = used.deaths
      /\ used'.commands = (IF used' = used THEN used.commands ELSE used.commands + 1)
      /\ used' \in [commands: 0..MaxCommands, deaths: 0..MaxDeaths, edits: 0..MaxEdits, files: Inodes]
  <2>1. used \in [commands: 0..MaxCommands, deaths: 0..MaxDeaths, edits: 0..MaxEdits, files: Inodes]
        /\ MaxCommands \in Nat
    BY Numbers DEF IInv, Sound, TypeOK
  <2> QED BY <1>1, <2>1
<1>9. Working' /\ ~Working
  <2>1. p[1].op \in WorkOps
    BY <1>3, EmptySeq DEF Only
  <2> QED BY <1>1, <1>3, <1>5, <2>1 DEF Working, Free
<1>10. TypeOK'
  BY <1>1, <1>2, <1>5, <1>6, <1>7, <1>8 DEF TypeOK, history, IInv, Sound
<1>11. FileShape'
  BY <1>6 DEF IInv, Sound, FileShape
<1>12. PlanShape'
  BY <1>1, <1>3, <1>5 DEF PlanShape, EndsWell
<1>13. Budget'
  <2>1. used.files + (IF ckpt # NoJob THEN 1 ELSE 0) <= used.commands + used.deaths
        /\ file.gen <= used.files
    BY <1>9 DEF IInv, Sound, Budget, Owing
  <2>2. used'.files + 1 <= used'.commands + used'.deaths
    <3>1. CASE ckpt = NoJob /\ used' = [used EXCEPT !.commands = @ + 1]
      <4>1. used'.commands = used.commands + 1
        BY <1>2, <1>8, <3>1
      <4> QED BY <1>2, <1>8, <2>1, <4>1
    <3>2. CASE ckpt # NoJob /\ used' = used
      BY <1>2, <2>1, <3>2
    <3> QED BY <1>1, <3>1, <3>2
  <2>3. used'.commands \in Nat
    BY <1>2, <1>8
  <2> QED BY <1>2, <1>6, <1>8, <2>1, <2>2, <2>3 DEF Budget
<1>14. OneJob'
  <2>1. file.recs # <<>> => txn.job = ckpt
    BY <1>1, Recorded DEF IInv, OneJob, OneTransaction
  <2>2. txn'.job = job /\ ckpt \in {NoJob, job}
    BY <1>1, <1>7, <2>1
  <2> QED BY <1>1, <1>5, <2>2 DEF OneJob, OneTransaction
<1>15. Keeps'
  <2>1. CASE file.recs = <<>>
    BY <1>1, <1>3, <1>5, <1>6, <1>7, <2>1, FreshOriginal DEF Keeps
  <2>2. CASE file.recs # <<>>
    <3>1. Intact(file.recs) => AllOriginal(file.recs, disk, txn)
      BY <2>2, Recorded DEF IInv, Keeps, Reversibly, Intact
    <3> QED BY <1>1, <1>3, <1>5, <1>6, <1>7, <2>2, <3>1 DEF Keeps
  <2> QED BY <2>1, <2>2
<1>16. UndoKeeps'
  BY <1>3, <1>5, WorkPlan DEF UndoKeeps
<1>17. EditsKnown'
  <2>1. RecordsOld(file.recs, used.edits) /\ DiskOld(disk, used.edits)
        /\ NotOurs(file.recs, disk, txn.edited)
    BY DEF IInv, EditsKnown
  <2>2. NotOurs(file.recs, disk, txn'.edited)
    BY <1>7, <2>1 DEF NotOurs
  <2> QED BY <1>1, <1>3, <1>5, <1>6, <1>8, <2>1, <2>2 DEF EditsKnown
<1> QED BY <1>10, <1>11, <1>12, <1>13, <1>14, <1>15, <1>16, <1>17 DEF IInv, Sound

-----------------------------------------------------------------------------
(* A command works.                                                        *)
(* Making one record.                                                      *)
LEMMA NextRecordFacts ==
  ASSUME IInv, Appending
  PROVE  /\ Working /\ NextRecord \in Records
         /\ At("barrier") => NextRecord = Barrier /\ run.todo[1].op = "barrier"
         /\ ~At("barrier") =>
              /\ At("write") /\ run.todo[1].op = "write" /\ run.todo[1].copy \in CopyNames
              /\ NextRecord.copy = run.todo[1].copy
              /\ NextRecord.pre = disk[NextRecord.copy]
              /\ NextRecord \in PreImages /\ NextRecord # Barrier
              /\ Old(NextRecord.after, used.edits) /\ Old(NextRecord.pre, used.edits)
<1>1. /\ run.busy /\ run.todo # <<>> /\ Head(run.todo).op \in {"barrier", "write"}
      /\ ~At("barrier") => At("write")
  BY DEF Appending, At
<1>2. run.todo \in Seq(Steps) /\ disk \in [CopyNames -> Contents] /\ used.edits \in Nat
  BY Types
<1>3. Head(run.todo) = run.todo[1] /\ run.todo[1] \in Steps /\ 1 \in 1..Len(run.todo)
  BY <1>1, <1>2, TailFacts
<1>4. Working
  BY <1>1, <1>3 DEF Working, WorkOps
<1>5. ASSUME At("barrier") PROVE NextRecord = Barrier /\ run.todo[1].op = "barrier"
  BY <1>3, <1>5 DEF NextRecord, At
<1>6. ASSUME ~At("barrier")
      PROVE  /\ At("write") /\ run.todo[1].op = "write" /\ run.todo[1].copy \in CopyNames
             /\ NextRecord.copy = run.todo[1].copy
             /\ NextRecord.pre = disk[NextRecord.copy]
             /\ NextRecord \in PreImages /\ NextRecord # Barrier
             /\ Old(NextRecord.after, used.edits) /\ Old(NextRecord.pre, used.edits)
  <2>1. At("write") /\ run.todo[1].op = "write"
    BY <1>1, <1>3, <1>6 DEF At
  <2>2. run.todo[1].copy \in CopyNames /\ run.todo[1].to \in Readable
    BY <1>3, <2>1, StepFacts
  <2>3. NextRecord = [copy |-> run.todo[1].copy, pre |-> disk[run.todo[1].copy],
                      after |-> Image(run.todo[1].to)]
    BY <1>3, <1>6 DEF NextRecord, Now
  <2>4. Image(run.todo[1].to) \in Contents
    BY <2>2, ImageIsContent
  <2>5. NextRecord \in PreImages
    BY <1>2, <2>2, <2>3, <2>4 DEF PreImages
  <2>6. NextRecord # Barrier
    BY <2>2, <2>3, Names DEF Barrier
  <2>7. run.todo[1].to >= Oldest(used.edits)
    BY <1>3, <2>1 DEF IInv, EditsKnown, PlanOld
  <2>8. Old(Image(run.todo[1].to), used.edits)
    BY <1>2, <2>7, ImageIsOld
  <2>9. Old(disk[run.todo[1].copy], used.edits)
    BY <2>2 DEF IInv, EditsKnown, DiskOld
  <2> QED BY <2>1, <2>2, <2>3, <2>5, <2>6, <2>8, <2>9
<1>7. NextRecord \in Records
  BY <1>5, <1>6 DEF Records
<1> QED BY <1>4, <1>5, <1>6, <1>7

(* The journal a record goes to: the one there, or a new one within bounds.*)
LEMMA HeadedFacts ==
  ASSUME IInv, Appending, NEW f \in Headed
  PROVE  /\ f \in Files /\ f.recs = file.recs /\ f.kind = "headed"
         /\ \/ file.kind = "headed" /\ f = file
            \/ /\ file.kind = "none" /\ f.gen = used.files + 1 /\ f.gen \in Inodes
               /\ used.files + 1 <= used.commands + used.deaths
<1>1. Working /\ file.kind \in {"none", "headed"}
  BY NextRecordFacts DEF IInv, Sound, FileShape
<1>2. file \in Files
  BY Types
<1>3. CASE file.kind = "headed"
  BY <1>2, <1>3 DEF Headed
<1>4. CASE file.kind = "none"
  <2>1. Has(run.todo, {"write", "barrier"})
    <3>1. run.todo \in Seq(Steps) /\ run.todo # <<>>
      BY <1>1, Types DEF Working
    <3>2. run.todo[1].op \in {"write", "barrier"}
      BY NextRecordFacts
    <3> QED BY <3>1, <3>2, EmptySeq DEF Has
  <2>2. used.files + 1 <= used.commands + used.deaths
    BY <1>1, <1>4, <2>1 DEF IInv, Sound, Budget, Owing
  <2>3. used.files + 1 \in Inodes /\ 1..used.files + 1 \subseteq Inodes
    <3>1. used \in [commands: 0..MaxCommands, deaths: 0..MaxDeaths, edits: 0..MaxEdits, files: Inodes]
      BY DEF IInv, Sound, TypeOK
    <3>2. MaxCommands \in Nat /\ MaxDeaths \in Nat
      BY Numbers
    <3>3. used.files \in Nat /\ used.commands <= MaxCommands /\ used.deaths <= MaxDeaths
          /\ used.commands \in Nat /\ used.deaths \in Nat
      BY <3>1, <3>2 DEF Inodes
    <3>4. used.files + 1 <= MaxCommands + MaxDeaths
      BY <2>2, <3>2, <3>3
    <3> QED BY <3>2, <3>3, <3>4 DEF Inodes
  <2>4. PICK i \in 1..used.files + 1 :
          f = [NoFile EXCEPT !.kind = "headed", !.gen = used.files + 1, !.ino = i]
    <3>1. used.files \in Nat
      BY Types
    <3>2. used.files + 1 \in 1..used.files + 1
      BY <3>1
    <3> QED BY <1>4, <3>2 DEF Headed, NewFiles
  <2>5. f = [kind |-> "headed", gen |-> used.files + 1, ino |-> i, recs |-> <<>>, torn |-> FALSE]
    BY <2>4 DEF NoFile
  <2>6. f \in Files
    <3>1. i \in Inodes /\ <<>> \in Seq(PreImages \cup {Barrier})
      BY <2>3, EmptySeq
    <3> QED BY <2>3, <2>5, <3>1 DEF Files
  <2>7. file.recs = <<>>
    BY <1>4 DEF IInv, Sound, FileShape
  <2> QED BY <1>4, <2>2, <2>3, <2>5, <2>6, <2>7
<1> QED BY <1>1, <1>3, <1>4

LEMMA WithFacts ==
  ASSUME NEW f \in Files, NEW r \in Records
  PROVE  /\ With(f, r) \in Files /\ With(f, r).recs = Append(f.recs, r)
         /\ With(f, r).kind = f.kind /\ With(f, r).gen = f.gen /\ With(f, r).ino = f.ino
<1>1. f.recs \in Seq(Records)
  BY DEF Files, Records
<1>2. Append(f.recs, r) \in Seq(Records)
  BY <1>1, AppendFacts
<1> QED BY <1>2 DEF With, Files, Records

(* A record more, of what its copy holds, disturbs nothing.                *)
LEMMA OneMoreRecord ==
  ASSUME IInv, Appending
  PROVE  /\ Append(file.recs, NextRecord) \in Seq(Records)
         /\ Append(file.recs, NextRecord) # <<>>
         /\ Intact(Append(file.recs, NextRecord)) =>
              /\ Intact(file.recs) /\ ~At("barrier")
              /\ AllOriginal(Append(file.recs, NextRecord), disk, txn)
         /\ ~At("barrier") => NextRecord.copy \in Covered(Append(file.recs, NextRecord))
         /\ RecordsOld(Append(file.recs, NextRecord), used.edits)
         /\ NotOurs(Append(file.recs, NextRecord), disk, txn.edited)
<1> DEFINE new == Append(file.recs, NextRecord)
<1>1. /\ file.recs \in Seq(Records) /\ NextRecord \in Records /\ Working
      /\ txn.edited \in Marks
  BY Types, NextRecordFacts
<1>2. new \in Seq(Records) /\ new # <<>> /\ Range(new) = Range(file.recs) \cup {NextRecord}
  BY <1>1, AppendFacts
<1>3. RecordsOld(file.recs, used.edits) /\ NotOurs(file.recs, disk, txn.edited)
  BY DEF IInv, EditsKnown
<1>4. CASE At("barrier")
  <2>1. NextRecord = Barrier
    BY <1>4, NextRecordFacts
  <2>2. RecordsOld(new, used.edits) /\ NotOurs(new, disk, txn.edited)
    BY <1>1, <1>3, <2>1, BarrierKnown
  <2>3. ~Intact(new)
    BY <1>2, <2>1 DEF Intact
  <2> QED BY <1>2, <1>4, <2>2, <2>3
<1>5. CASE ~At("barrier")
  <2>1. /\ NextRecord \in PreImages /\ NextRecord # Barrier /\ NextRecord.copy \in CopyNames
        /\ NextRecord.pre = disk[NextRecord.copy]
        /\ Old(NextRecord.after, used.edits) /\ Old(NextRecord.pre, used.edits)
    BY <1>5, NextRecordFacts
  <2>2. RecordsOld(new, used.edits) /\ NotOurs(new, disk, txn.edited)
    BY <1>1, <1>3, <2>1, RecordedKnown
  <2>3. Intact(new) => Intact(file.recs)
    BY <1>2 DEF Intact
  <2>4. Intact(file.recs) => AllOriginal(file.recs, disk, txn)
    BY <1>1 DEF IInv, Keeps
  <2>5. Intact(file.recs) => AllOriginal(new, disk, txn)
    BY <1>1, <2>1, <2>4, RecordedOriginal
  <2>6. NextRecord.copy \in Covered(new)
    BY <1>1, <2>1, AppendKeepsFirst
  <2> QED BY <1>2, <1>5, <2>2, <2>3, <2>5, <2>6
<1> QED BY <1>4, <1>5

(* The plan goes on after a step of work.                                  *)
LEMMA WorkGoesOn ==
  ASSUME IInv, Working, run' \in Runs, run'.busy, run'.todo = Tail(run.todo), ~run'.recorded,
         run'.job = run.job, txn'.job = txn.job,
         \/ ckpt' = ckpt /\ run.todo[1].op # "drop"
         \/ ckpt' = run.job /\ run.todo[1].op = "save"
         \/ ckpt' = NoJob /\ run.todo[1].op = "drop"
  PROVE  /\ PlanShape' /\ OneJob'
         /\ Working' \/ ckpt' = NoJob
         /\ Has(run'.todo, {"write", "barrier"}) => Has(run.todo, {"write", "barrier"})
         /\ UndoKeeps' /\ PlanOld(run'.todo, used.edits)
         /\ Barred(run.todo) /\ run.todo[1].op # "barrier" => Barred(run'.todo)
<1>1. run.todo \in Seq(Steps) /\ run.todo # <<>> /\ run.busy
  BY Types DEF Working
<1>2. Only(run.todo, WorkOps) /\ run.todo[1].op \in WorkOps
  BY <1>1, FirstStep DEF Working
<1>3. run'.todo \in Seq(Steps) /\ Only(run'.todo, WorkOps)
  BY <1>1, <1>2, TailFacts, TailPlan
<1>4. EndsWell(run'.todo, ckpt')
  <2>1. EndsWell(run.todo, ckpt)
    BY <1>1 DEF IInv, Sound, PlanShape
  <2>2. run.todo[1].op # "release"
    BY <1>2 DEF WorkOps
  <2> QED BY <1>1, <2>1, <2>2, TailEnds
<1>5. PlanShape'
  BY <1>3, <1>4 DEF PlanShape
<1>6. txn.job = run.job /\ ckpt \in {NoJob, run.job}
  BY DEF IInv, OneJob
<1>7. OneJob'
  BY <1>6 DEF OneJob, OneTransaction
<1>8. run'.todo # <<>> => run'.todo[1].op \in WorkOps
  <2>1. run'.todo # <<>> => 1 \in 1..Len(run'.todo)
    BY <1>3, TailFacts
  <2> QED BY <1>3, <2>1 DEF Only
<1>9. Working' \/ ckpt' = NoJob
  <2>1. CASE run'.todo = <<>>
    BY <1>4, <2>1 DEF EndsWell
  <2>2. CASE run'.todo # <<>>
    BY <1>8, <2>2 DEF Working
  <2> QED BY <2>1, <2>2
<1>10. UndoKeeps'
  BY <1>3, WorkPlan DEF UndoKeeps
<1>11. /\ Has(run'.todo, {"write", "barrier"}) => Has(run.todo, {"write", "barrier"})
       /\ PlanOld(run'.todo, used.edits)
       /\ Barred(run.todo) /\ run.todo[1].op # "barrier" => Barred(run'.todo)
  BY <1>1, TailPlan DEF IInv, EditsKnown
<1> QED BY <1>5, <1>7, <1>9, <1>10, <1>11

(* ... and the rest of the invariant, when the journal is left as it is.   *)
LEMMA WorkAdvances ==
  ASSUME IInv, Working, TypeOK', Advance,
         file' = file, used' = used, txn'.job = txn.job,
         \/ ckpt' = ckpt /\ run.todo[1].op # "drop"
         \/ ckpt' = run.job /\ run.todo[1].op = "save"
         \/ ckpt' = NoJob /\ run.todo[1].op = "drop",
         run.todo[1].op # "barrier",
         Intact(file.recs) => AllOriginal(file.recs, disk', txn'),
         DiskOld(disk', used.edits), NotOurs(file.recs, disk', txn'.edited)
  PROVE  IInv'
<1>1. run \in Runs /\ run' \in Runs
  BY Types DEF TypeOK
<1>2. /\ run'.todo = Tail(run.todo) /\ ~run'.recorded /\ run'.job = run.job /\ run'.busy
  BY <1>1 DEF Advance, Working, Runs
<1>3. /\ PlanShape' /\ OneJob' /\ UndoKeeps'
      /\ Working' \/ ckpt' = NoJob
      /\ Has(run'.todo, {"write", "barrier"}) => Has(run.todo, {"write", "barrier"})
      /\ PlanOld(run'.todo, used.edits)
      /\ Barred(run.todo) => Barred(run'.todo)
  BY <1>1, <1>2, WorkGoesOn
<1>4. FileShape'
  BY DEF IInv, Sound, FileShape
<1>5. Budget'
  <2>1. Owing' => Owing
    BY <1>3 DEF Owing
  <2>2. used.files \in Nat /\ used.commands \in Nat /\ used.deaths \in Nat
    BY Types
  <2> QED BY <2>1, <2>2 DEF IInv, Sound, Budget
<1>6. Keeps'
  BY <1>2, <1>3 DEF IInv, Keeps
<1>7. EditsKnown'
  BY <1>3 DEF IInv, EditsKnown
<1> QED BY <1>3, <1>4, <1>5, <1>6, <1>7 DEF IInv, Sound

LEMMA RecordKeeps == ASSUME IInv, Record PROVE IInv'
<1>1. /\ Appending /\ UNCHANGED <<disk, ckpt, closing, txn, history>>
      /\ used' = [used EXCEPT !.files = IF file.kind = "none" THEN @ + 1 ELSE @]
      /\ \E f \in Headed :
           /\ file' = With(f, NextRecord)
           /\ run' = [run EXCEPT !.gen = f.gen, !.ino = f.ino, !.recorded = At("write"),
                                 !.todo = IF At("barrier") THEN Tail(@) ELSE @]
  BY DEF Record
<1>2. PICK f \in Headed :
           /\ file' = With(f, NextRecord)
           /\ run' = [run EXCEPT !.gen = f.gen, !.ino = f.ino, !.recorded = At("write"),
                                 !.todo = IF At("barrier") THEN Tail(@) ELSE @]
  BY <1>1
<1>3. /\ f \in Files /\ f.recs = file.recs /\ f.kind = "headed"
      /\ \/ file.kind = "headed" /\ f = file
         \/ /\ file.kind = "none" /\ f.gen = used.files + 1 /\ f.gen \in Inodes
            /\ used.files + 1 <= used.commands + used.deaths
  BY <1>1, HeadedFacts
<1>4. Working /\ NextRecord \in Records
  BY <1>1, NextRecordFacts
<1>5. /\ file' \in Files /\ file'.recs = Append(file.recs, NextRecord)
      /\ file'.kind = "headed" /\ file'.gen = f.gen
  BY <1>2, <1>3, <1>4, WithFacts
<1>6. /\ disk \in [CopyNames -> Contents] /\ run \in Runs /\ txn \in Txns
      /\ run.todo \in Seq(Steps) /\ run.todo # <<>> /\ run.busy
      /\ used.commands \in Nat /\ used.deaths \in Nat /\ used.edits \in Nat /\ used.files \in Nat
  BY <1>4, Types DEF Working
<1>7. /\ run'.busy /\ run'.job = run.job /\ run'.recorded = At("write")
      /\ run'.todo = (IF At("barrier") THEN Tail(run.todo) ELSE run.todo)
      /\ run' \in Runs
  <2>1. Tail(run.todo) \in Seq(Steps) /\ At("write") \in BOOLEAN
    BY <1>6, TailFacts DEF At
  <2>2. f.gen \in Inodes /\ f.ino \in Inodes
    BY <1>3 DEF Files
  <2> QED BY <1>2, <1>6, <2>1, <2>2 DEF Runs
<1>8. /\ used'.files = (IF file.kind = "none" THEN used.files + 1 ELSE used.files)
      /\ used'.edits = used.edits /\ used'.commands = used.commands /\ used'.deaths = used.deaths
      /\ used' \in [commands: 0..MaxCommands, deaths: 0..MaxDeaths, edits: 0..MaxEdits, files: Inodes]
  <2>1. used \in [commands: 0..MaxCommands, deaths: 0..MaxDeaths, edits: 0..MaxEdits, files: Inodes]
    BY DEF IInv, Sound, TypeOK
  <2> QED BY <1>1, <1>3, <2>1
<1>9. TypeOK'
  BY <1>1, <1>5, <1>7, <1>8 DEF TypeOK, history, IInv, Sound
<1>10. FileShape'
  BY <1>5 DEF FileShape
<1>11. /\ file'.recs # <<>>
       /\ Intact(file'.recs) =>
            Intact(file.recs) /\ ~At("barrier") /\ AllOriginal(file'.recs, disk, txn)
       /\ ~At("barrier") => NextRecord.copy \in Covered(file'.recs)
       /\ RecordsOld(file'.recs, used.edits) /\ NotOurs(file'.recs, disk, txn.edited)
  BY <1>1, <1>5, OneMoreRecord
<1>12. Budget' /\ PlanShape' /\ OneJob' /\ UndoKeeps' /\ PlanOld(run'.todo, used.edits)
  <2>1. CASE At("barrier")
    <3>1. run.todo[1].op = "barrier" /\ ~At("write")
      BY <1>1, <2>1, NextRecordFacts DEF At
    <3>2. ~run'.recorded /\ run'.todo = Tail(run.todo)
      BY <1>7, <2>1, <3>1
    <3>3. PlanShape' /\ OneJob' /\ UndoKeeps' /\ PlanOld(run'.todo, used.edits)
          /\ (Working' \/ ckpt' = NoJob)
      BY <1>1, <1>4, <1>7, <3>1, <3>2, WorkGoesOn
    <3>4. ~Owing'
      BY <1>5, <3>3 DEF Owing
    <3>5. used.files <= used.commands + used.deaths /\ file.gen <= used.files /\ file.gen \in Nat
      BY <1>6, Types DEF IInv, Sound, Budget
    <3>6. Budget'
      BY <1>3, <1>5, <1>6, <1>8, <3>4, <3>5 DEF Budget
    <3> QED BY <3>3, <3>6
  <2>2. CASE ~At("barrier")
    <3>1. At("write") /\ run.todo[1].op = "write" /\ run'.todo = run.todo /\ run'.recorded
      BY <1>1, <1>7, <2>2, NextRecordFacts
    <3>2. Working' /\ At("write")'
      BY <1>4, <1>6, <1>7, <3>1, TailFacts DEF Working, At
    <3>3. PlanShape'
      BY <1>1, <1>6, <1>7, <3>1, <3>2 DEF IInv, Sound, PlanShape
    <3>4. OneJob'
      BY <1>1, <1>4, <1>7 DEF IInv, OneJob, OneTransaction
    <3>5. UndoKeeps'
      <4>1. Only(run.todo, WorkOps)
        BY <1>4, <1>6, FirstStep
      <4> QED BY <1>6, <3>1, <4>1, WorkPlan DEF UndoKeeps
    <3>6. PlanOld(run'.todo, used.edits)
      BY <3>1 DEF IInv, EditsKnown
    <3>7. ~Owing'
      BY <1>5, <3>2 DEF Owing
    <3>8. used.files <= used.commands + used.deaths /\ file.gen <= used.files /\ file.gen \in Nat
      BY <1>6, Types DEF IInv, Sound, Budget
    <3>9. Budget'
      BY <1>3, <1>5, <1>6, <1>8, <3>7, <3>8 DEF Budget
    <3> QED BY <3>3, <3>4, <3>5, <3>6, <3>9
  <2> QED BY <2>1, <2>2
<1>13. Keeps'
  <2>1. Intact(file'.recs) => AllOriginal(file'.recs, disk', txn')
    BY <1>1, <1>11
  <2>2. run'.recorded => run'.todo[1].copy \in Covered(file'.recs)
    <3>1. ASSUME run'.recorded PROVE ~At("barrier")
      BY <1>7, <3>1 DEF At
    <3> QED BY <1>1, <1>7, <1>11, <3>1, NextRecordFacts
  <2>3. Intact(file'.recs) => Barred(run'.todo)
    BY <1>7, <1>11 DEF IInv, Keeps
  <2> QED BY <2>1, <2>2, <2>3 DEF Keeps
<1>14. EditsKnown'
  BY <1>1, <1>8, <1>11, <1>12 DEF IInv, EditsKnown
<1> QED BY <1>9, <1>10, <1>12, <1>13, <1>14 DEF IInv, Sound

LEMMA WriteFacts ==
  ASSUME IInv, At("write"), run.recorded
  PROVE  /\ Working /\ Now = run.todo[1] /\ run.todo[1].op = "write"
         /\ Now.copy \in Covered(file.recs) /\ Now.copy \in CopyNames
         /\ Image(Now.to) \in Contents /\ Old(Image(Now.to), used.edits)
<1>1. /\ run.busy /\ run.todo # <<>> /\ Head(run.todo).op = "write"
      /\ run.todo \in Seq(Steps) /\ used.edits \in Nat
  BY Types DEF At
<1>2. Head(run.todo) = run.todo[1] /\ run.todo[1] \in Steps /\ 1 \in 1..Len(run.todo)
  BY <1>1, TailFacts
<1>3. run.todo[1].copy \in CopyNames /\ run.todo[1].to \in Readable
  BY <1>1, <1>2, StepFacts
<1>4. run.todo[1].to >= Oldest(used.edits) /\ run.todo[1].copy \in Covered(file.recs)
  BY <1>1, <1>2 DEF IInv, EditsKnown, PlanOld, Keeps
<1>5. Image(run.todo[1].to) \in Contents /\ Old(Image(run.todo[1].to), used.edits)
  BY <1>1, <1>3, <1>4, ImageIsContent, ImageIsOld
<1> QED BY <1>1, <1>2, <1>3, <1>4, <1>5 DEF Working, WorkOps, Now

(* A copy is written, whole or in part, after its record.                  *)
LEMMA CopyWritten ==
  ASSUME IInv, At("write"), run.recorded, Touch(Now.copy), NEW x \in Contents,
         Old(x, used.edits), disk' = [disk EXCEPT ![Now.copy] = x]
  PROVE  /\ disk' \in [CopyNames -> Contents]
         /\ txn' \in Txns /\ txn'.edited \subseteq txn'.meddled /\ txn'.job = txn.job
         /\ Intact(file.recs) => AllOriginal(file.recs, disk', txn')
         /\ DiskOld(disk', used.edits) /\ NotOurs(file.recs, disk', txn'.edited)
<1>1. /\ disk \in [CopyNames -> Contents] /\ txn \in Txns /\ txn.edited \subseteq txn.meddled
      /\ txn.edited \in Marks /\ file.recs \in Seq(Records)
  BY Types
<1>2. Working /\ Now.copy \in Covered(file.recs) /\ Now.copy \in CopyNames
  BY WriteFacts
<1>3. txn' = [txn EXCEPT !.edited = @ \ ({Now.copy} \X (1..Sectors))]
  BY DEF Touch
<1>4. /\ txn' \in Txns /\ txn'.job = txn.job /\ txn'.moved = txn.moved
      /\ txn'.origin = txn.origin /\ txn'.meddled = txn.meddled
      /\ txn'.edited = txn.edited \ ({Now.copy} \X (1..Sectors))
  BY <1>1, <1>3 DEF Txns, Marks
<1>5. Intact(file.recs) => AllOriginal(file.recs, disk', txn')
  <2>1. Intact(file.recs) => AllOriginal(file.recs, disk, txn)
    BY <1>2 DEF IInv, Keeps
  <2> QED BY <1>1, <1>2, <1>4, <2>1, CoveredWriteOriginal
<1>6. \A s \in txn'.edited : s[1] # Now.copy
  BY <1>1, <1>4 DEF Marks
<1>7. DiskOld(disk', used.edits) /\ NotOurs(file.recs, disk', txn'.edited)
  <2>1. DiskOld(disk, used.edits) /\ NotOurs(file.recs, disk, txn.edited)
    BY DEF IInv, EditsKnown
  <2>2. txn'.edited \in SUBSET txn.edited
    BY <1>4
  <2> QED BY <1>1, <1>2, <1>6, <2>1, <2>2, WrittenKnown
<1> QED BY <1>1, <1>2, <1>4, <1>5, <1>7

LEMMA AdvanceTypes == ASSUME IInv, run.todo # <<>>, Advance PROVE run' \in Runs
<1>1. run \in Runs /\ Tail(run.todo) \in Seq(Steps)
  BY Types, TailFacts
<1> QED BY <1>1 DEF Advance, Runs

LEMMA WriteCopyKeeps == ASSUME IInv, WriteCopy PROVE IInv'
<1>1. /\ At("write") /\ run.recorded /\ Touch(Now.copy) /\ Advance
      /\ disk' = [disk EXCEPT ![Now.copy] = Image(Now.to)]
      /\ UNCHANGED <<file, ckpt, closing, history, used>>
  BY DEF WriteCopy
<1>2. /\ Working /\ run.todo[1].op = "write" /\ run.todo # <<>>
      /\ Image(Now.to) \in Contents /\ Old(Image(Now.to), used.edits)
  BY <1>1, WriteFacts DEF At
<1>3. /\ disk' \in [CopyNames -> Contents]
      /\ txn' \in Txns /\ txn'.edited \subseteq txn'.meddled /\ txn'.job = txn.job
      /\ Intact(file.recs) => AllOriginal(file.recs, disk', txn')
      /\ DiskOld(disk', used.edits) /\ NotOurs(file.recs, disk', txn'.edited)
  BY <1>1, <1>2, CopyWritten
<1>4. run' \in Runs
  BY <1>1, <1>2, AdvanceTypes
<1>5. TypeOK'
  BY <1>1, <1>3, <1>4 DEF TypeOK, history, IInv, Sound
<1> QED BY <1>1, <1>2, <1>3, <1>5, WorkAdvances

LEMMA SaveDropDataKeep == ASSUME IInv, Save \/ Drop \/ Data PROVE IInv'
<1>1. /\ run.busy /\ run.todo # <<>> /\ Head(run.todo).op \in {"save", "drop", "data"} /\ Advance
      /\ rewound' \in BOOLEAN /\ UNCHANGED <<disk, file, closing, finished, kept, used>>
  BY DEF Save, Drop, Data, At, history, IInv, Sound, TypeOK
<1>2. run.todo \in Seq(Steps) /\ run.job \in Jobs /\ txn \in Txns /\ txn.edited \subseteq txn.meddled
  BY Types
<1>3. Head(run.todo) = run.todo[1] /\ Working
  BY <1>1, <1>2, TailFacts DEF Working, WorkOps
<1>4. run' \in Runs /\ run.todo[1].op # "barrier"
  BY <1>1, <1>3, AdvanceTypes
<1>5. DiskOld(disk', used.edits) /\ NotOurs(file.recs, disk', txn.edited)
  BY <1>1 DEF IInv, EditsKnown
<1>6. Intact(file.recs) => AllOriginal(file.recs, disk, txn) /\ Barred(run.todo)
  BY <1>3 DEF IInv, Keeps
<1>7. CASE Save \/ Drop
  <2>1. /\ txn' = txn
        /\ \/ ckpt' = run.job /\ run.todo[1].op = "save"
           \/ ckpt' = NoJob /\ run.todo[1].op = "drop"
    BY <1>3, <1>7 DEF Save, Drop, At
  <2>2. TypeOK'
    BY <1>1, <1>2, <1>4, <2>1, NoFileTypes DEF TypeOK, IInv, Sound
  <2> QED BY <1>1, <1>3, <1>4, <1>5, <1>6, <2>1, <2>2, WorkAdvances
<1>8. CASE Data
  <2>1. txn' = [txn EXCEPT !.moved = TRUE] /\ ckpt' = ckpt /\ run.todo[1].op = "data"
    BY <1>3, <1>8 DEF Data, At
  <2>2. txn' \in Txns /\ txn'.edited = txn.edited /\ txn'.meddled = txn.meddled /\ txn'.job = txn.job
    BY <1>2, <2>1 DEF Txns
  <2>3. ~Intact(file.recs)
    <3>1. 1 \in 1..Len(run.todo) /\ 1..1 - 1 = {}
      BY <1>1, <1>2, EmptySeq
    <3> QED BY <1>6, <2>1, <3>1 DEF Barred
  <2>4. TypeOK'
    BY <1>1, <1>2, <1>4, <2>1, <2>2 DEF TypeOK, IInv, Sound
  <2> QED BY <1>1, <1>3, <1>4, <1>5, <2>1, <2>2, <2>3, <2>4, WorkAdvances
<1> QED BY <1>7, <1>8

LEMMA LeavePendingKeeps == ASSUME IInv, LeavePending PROVE IInv'
<1>1. /\ run' = Idle /\ used.deaths < MaxDeaths /\ used' = [used EXCEPT !.deaths = @ + 1]
      /\ UNCHANGED <<disk, file, ckpt, closing, txn, history>>
  BY DEF LeavePending
<1>2. /\ used'.files = used.files /\ used'.edits = used.edits /\ used'.commands = used.commands
      /\ used'.deaths = used.deaths + 1
      /\ used' \in [commands: 0..MaxCommands, deaths: 0..MaxDeaths, edits: 0..MaxEdits, files: Inodes]
  <2>1. used \in [commands: 0..MaxCommands, deaths: 0..MaxDeaths, edits: 0..MaxEdits, files: Inodes]
        /\ MaxDeaths \in Nat
    BY Numbers DEF IInv, Sound, TypeOK
  <2> QED BY <1>1, <2>1
<1>3. TypeOK'
  BY <1>1, <1>2, NoFileTypes DEF TypeOK, history, IInv, Sound
<1> QED BY <1>1, <1>2, <1>3, Stopped

-----------------------------------------------------------------------------
(* Undo and abandon, the locks, and the sessions that close.               *)
(* The plan of undo or abandon begins.                                     *)
LEMMA UndoBegins ==
  ASSUME IInv, Free, NEW todo \in Seq(Steps), todo # <<>>,
         Only(todo, UndoOps), ckpt # NoJob => LastOp(todo) = "release",
         UndoShape(todo, file.recs),
         Has(todo, {"replay", "clear"}) =>
           Reversibly(file) /\ WillBeBack(file.recs, Left(todo), disk, txn),
         run' = [Idle EXCEPT !.busy = TRUE, !.todo = todo],
         UNCHANGED <<disk, file, ckpt, closing, txn, history, used>>
  PROVE  IInv'
<1>1. run'.busy /\ run'.todo = todo /\ ~run'.recorded /\ run' \in Runs
  BY NoFileTypes DEF Idle, Runs
<1>2. /\ Barred(todo) /\ \A edits : PlanOld(todo, edits)
      /\ ~Has(todo, {"save"}) /\ todo[1].op \notin WorkOps
  BY UndoPlan
<1>3. ~Working /\ ~Working'
  BY <1>1, <1>2 DEF Working, Free
<1>4. TypeOK'
  BY <1>1 DEF TypeOK, history, IInv, Sound
<1>5. FileShape'
  BY <1>3 DEF IInv, Sound, FileShape
<1>6. PlanShape'
  BY <1>1, <1>2 DEF PlanShape, EndsWell
<1>7. Budget'
  <2>1. Owing' <=> Owing
    BY <1>3 DEF Owing
  <2> QED BY <2>1 DEF IInv, Sound, Budget
<1>8. OneJob'
  BY <1>3 DEF IInv, OneJob, OneTransaction
<1>9. Keeps'
  BY <1>1, <1>2, <1>3 DEF IInv, Keeps, Reversibly
<1>10. UndoKeeps'
  BY <1>1 DEF UndoKeeps, Reversibly
<1>11. EditsKnown'
  BY <1>1, <1>2 DEF IInv, EditsKnown
<1> QED BY <1>4, <1>5, <1>6, <1>7, <1>8, <1>9, <1>10, <1>11 DEF IInv, Sound

LEMMA Prefixed ==
  ASSUME NEW a \in Steps, NEW q \in Seq(Steps)
  PROVE  /\ <<a>> \o q \in Seq(Steps) /\ Len(<<a>> \o q) = Len(q) + 1 /\ (<<a>> \o q)[1] = a
         /\ \A k \in 1..Len(q) : (<<a>> \o q)[k + 1] = q[k]
<1> DEFINE p == <<a>>
<1>1. p \in Seq(Steps) /\ Len(p) = 1 /\ p[1] = a
  OBVIOUS
<1> HIDE DEF p
<1>2. /\ p \o q \in Seq(Steps) /\ Len(p \o q) = Len(q) + 1 /\ (p \o q)[1] = a
      /\ \A k \in 1..Len(q) : (p \o q)[k + 1] = q[k]
  BY <1>1, ConcatProperties, LenProperties
<1> QED BY <1>2 DEF p

LEMMA UndoStepFacts ==
  ASSUME file.recs \in Seq(Records)
  PROVE  /\ UndoSteps \in Seq(Steps) /\ UndoSteps # <<>> /\ Only(UndoSteps, UndoOps)
         /\ LastOp(UndoSteps) = "release" /\ UndoShape(UndoSteps, file.recs)
         /\ Left(UndoSteps) = ToReplay(file.recs)
<1> DEFINE left == ToReplay(file.recs)
           first == [op |-> "replay", left |-> left]
           short == <<Step("clear"), Step("release")>>
           all == <<first>> \o short
<1>1. left \subseteq DOMAIN file.recs /\ DOMAIN file.recs = 1..Len(file.recs)
  BY DEF ToReplay
<1>2. Step("clear") \in Steps /\ Step("release") \in Steps
      /\ Step("clear").op = "clear" /\ Step("release").op = "release"
  BY BareSteps
<1>3. first \in Steps
  BY <1>1 DEF Steps
<1>4. first.op = "replay" /\ first.left = left
  OBVIOUS
<1> HIDE DEF left, first
<1>5. CASE left = {}
  <2>1. UndoSteps = short
    BY <1>5 DEF UndoSteps, left
  <2>2. short \in Seq(Steps) /\ Len(short) = 2 /\ short # <<>>
    BY <1>2
  <2>3. short[1].op = "clear" /\ short[2].op = "release"
    BY <1>2
  <2> HIDE DEF short
  <2>4. \A k \in 1..2 : k = 1 \/ k = 2
    OBVIOUS
  <2>5. Only(short, UndoOps) /\ LastOp(short) = "release"
    BY <2>2, <2>3, <2>4 DEF Only, LastOp, UndoOps
  <2>6. UndoShape(short, file.recs)
    BY <2>2, <2>3, <2>4 DEF UndoShape
  <2>7. Left(short) = left
    BY <1>5, <2>3 DEF Left
  <2> QED BY <2>1, <2>2, <2>5, <2>6, <2>7 DEF left
<1>6. CASE left # {}
  <2>1. UndoSteps = all
    BY <1>6 DEF UndoSteps, left, first
  <2>n. short \in Seq(Steps) /\ Len(short) = 2 /\ short[1].op = "clear" /\ short[2].op = "release"
    BY <1>2
  <2>s. 1 \in 1..2 /\ 2 \in 1..2 /\ 1 + 1 = 2 /\ 2 + 1 = 3
    OBVIOUS
  <2> HIDE DEF short
  <2>p. /\ all \in Seq(Steps) /\ Len(all) = Len(short) + 1 /\ all[1] = first
        /\ \A k \in 1..Len(short) : all[k + 1] = short[k]
    BY <1>3, <2>n, Prefixed
  <2> HIDE DEF all
  <2>2. all \in Seq(Steps) /\ Len(all) = 3 /\ all # <<>>
    BY <2>n, <2>p
  <2>3. all[1] = first /\ all[1].op = "replay" /\ all[2].op = "clear" /\ all[3].op = "release"
    BY <1>4, <2>n, <2>s, <2>p
  <2>4. \A k \in 1..3 : k = 1 \/ k = 2 \/ k = 3
    OBVIOUS
  <2>5. Only(all, UndoOps) /\ LastOp(all) = "release"
    BY <2>2, <2>3, <2>4 DEF Only, LastOp, UndoOps
  <2>6. UndoShape(all, file.recs)
    BY <1>1, <1>4, <1>6, <2>2, <2>3, <2>4 DEF UndoShape
  <2>7. Left(all) = left
    BY <1>4, <2>2, <2>3 DEF Left
  <2> QED BY <2>1, <2>2, <2>5, <2>6, <2>7 DEF left
<1> QED BY <1>5, <1>6

LEMMA BeginUndoKeeps == ASSUME IInv, BeginUndo PROVE IInv'
<1>1. /\ Free /\ Reversibly(file) /\ run' = [Idle EXCEPT !.busy = TRUE, !.todo = UndoSteps]
      /\ UNCHANGED <<disk, file, ckpt, closing, txn, history, used>>
  BY DEF BeginUndo, UndoAccepted
<1>2. file.recs \in Seq(Records)
  BY Types
<1>3. /\ UndoSteps \in Seq(Steps) /\ UndoSteps # <<>> /\ Only(UndoSteps, UndoOps)
      /\ LastOp(UndoSteps) = "release" /\ UndoShape(UndoSteps, file.recs)
      /\ Left(UndoSteps) = ToReplay(file.recs)
  BY <1>2, UndoStepFacts
<1>4. WillBeBack(file.recs, Left(UndoSteps), disk, txn)
  BY <1>2, <1>3, ReplayPlanned
<1> QED BY <1>1, <1>3, <1>4, UndoBegins

LEMMA BeginAbandonKeeps == ASSUME IInv, BeginAbandon PROVE IInv'
<1> DEFINE p == IF Class(file) \in {"damaged", "records"} THEN <<Step("retire")>> ELSE <<>>
           q == IF ckpt # NoJob THEN <<Step("release")>> ELSE <<>>
           todo == p \o q
<1>1. /\ Free /\ Active /\ run' = [Idle EXCEPT !.busy = TRUE, !.todo = todo]
      /\ UNCHANGED <<disk, file, ckpt, closing, txn, history, used>>
  BY DEF BeginAbandon
<1>2. Step("retire") \in Steps /\ Step("retire").op = "retire"
      /\ Step("release") \in Steps /\ Step("release").op = "release"
  BY BareSteps
<1>3. /\ todo \in Seq(Steps) /\ todo # <<>>
      /\ \A k \in 1..Len(todo) : todo[k].op \in {"retire", "release"}
      /\ ckpt # NoJob => LastOp(todo) = "release"
  <2>1. CASE Class(file) \in {"damaged", "records"} /\ ckpt # NoJob
    <3>1. todo = <<Step("retire")>> \o <<Step("release")>>
      BY <2>1
    <3>2. \A k \in 1..2 : k = 1 \/ k = 2
      OBVIOUS
    <3>3. /\ <<Step("release")>> \in Seq(Steps) /\ Len(<<Step("release")>>) = 1
          /\ <<Step("release")>>[1] = Step("release") /\ 1 \in 1..1 /\ 1 + 1 = 2
      BY <1>2
    <3>4. /\ todo \in Seq(Steps) /\ Len(todo) = 2
          /\ todo[1] = Step("retire") /\ todo[2] = Step("release")
      BY <1>2, <3>1, <3>3, Prefixed
    <3> HIDE DEF todo
    <3> QED BY <1>2, <3>2, <3>4 DEF LastOp
  <2>2. CASE Class(file) \in {"damaged", "records"} /\ ckpt = NoJob
    <3>1. todo = <<Step("retire")>>
      BY <2>2
    <3>2. \A k \in 1..1 : k = 1
      OBVIOUS
    <3> HIDE DEF todo
    <3> QED BY <1>2, <2>2, <3>1, <3>2
  <2>3. CASE Class(file) \notin {"damaged", "records"}
    <3>1. ckpt # NoJob
      BY <1>1, <2>3 DEF Active
    <3>2. todo = <<Step("release")>>
      BY <2>3, <3>1
    <3>3. \A k \in 1..1 : k = 1
      OBVIOUS
    <3> HIDE DEF todo
    <3> QED BY <1>2, <3>2, <3>3 DEF LastOp
  <2> QED BY <2>1, <2>2, <2>3
<1> HIDE DEF todo
<1>4. /\ Only(todo, UndoOps) /\ UndoShape(todo, file.recs) /\ ~Has(todo, {"replay", "clear"})
  <2>1. \A k \in 1..Len(todo) : todo[k].op \notin {"replay", "clear"} /\ todo[k].op \in UndoOps
    BY <1>3 DEF UndoOps
  <2> QED BY <2>1 DEF Only, UndoShape, Has
<1> QED BY <1>1, <1>3, <1>4, UndoBegins

LEMMA IntrudeKeeps == ASSUME IInv, Intrude PROVE IInv'
<1>1. /\ Free /\ file' = Adopted /\ UNCHANGED <<disk, ckpt, run, closing, txn, history, used>>
  BY DEF Intrude
<1>2. /\ file' \in Files /\ file'.recs = file.recs /\ file'.gen = file.gen
      /\ file'.kind = (IF file.kind = "empty" THEN "headed" ELSE file.kind)
  BY <1>1, AdoptedFacts
<1>3. ~Working /\ ~Working' /\ ~run.busy
  BY <1>1 DEF Working, Free
<1>4. run.todo = <<>> /\ Len(run.todo) = 0
  BY <1>3 DEF IInv, Sound, PlanShape
<1>5. TypeOK'
  BY <1>1, <1>2 DEF TypeOK, history, IInv, Sound
<1>6. FileShape' /\ PlanShape'
  BY <1>1, <1>2, <1>3, <1>4 DEF IInv, Sound, FileShape, PlanShape, At
<1>7. Budget'
  BY <1>1, <1>2, <1>3 DEF IInv, Sound, Budget, Owing
<1>8. Class(file') = "records" => Class(file) = "records"
  BY <1>2, <1>6, Recorded DEF Class, FileShape
<1>9. OneJob'
  BY <1>1, <1>3, <1>8 DEF IInv, OneJob, OneTransaction
<1>10. Keeps'
  BY <1>1, <1>2, <1>3, <1>4, <1>8 DEF IInv, Keeps, Reversibly, Barred
<1>11. UndoKeeps'
  BY <1>1, <1>4 DEF UndoKeeps, UndoShape, Has
<1>12. EditsKnown'
  BY <1>1, <1>2 DEF IInv, EditsKnown
<1> QED BY <1>5, <1>6, <1>7, <1>9, <1>10, <1>11, <1>12 DEF IInv, Sound

(* The journal goes, with the transaction it was begun for.                *)
LEMMA JournalGone ==
  ASSUME IInv, ~Working, TypeOK', file' = NoFile, txn' = NoTxn \/ txn' = txn,
         UNCHANGED <<disk, ckpt, used>>, PlanShape', ~Working',
         UndoShape(run'.todo, <<>>), ~Has(run'.todo, {"replay", "clear"}),
         ~run'.recorded, Barred(run'.todo), PlanOld(run'.todo, used.edits)
  PROVE  IInv'
<1>1. file'.recs = <<>> /\ file'.kind = "none" /\ file'.gen = 0 /\ NoTxn.edited = {}
  BY NoFileTypes
<1>2. FileShape'
  BY <1>1 DEF FileShape
<1>3. Budget'
  <2>1. Owing' => Owing
    BY DEF Owing
  <2>2. used.files \in Nat /\ used.commands \in Nat /\ used.deaths \in Nat
    BY Types
  <2> QED BY <1>1, <2>1, <2>2 DEF IInv, Sound, Budget
<1>4. Class(file') = "absent"
  BY <1>1 DEF Class
<1>5. OneJob' /\ Keeps' /\ UndoKeeps'
  BY <1>1, <1>4 DEF OneJob, OneTransaction, Keeps, UndoKeeps, Reversibly
<1>6. EditsKnown'
  BY <1>1 DEF IInv, EditsKnown, RecordsOld, NotOurs
<1> QED BY <1>2, <1>3, <1>5, <1>6 DEF IInv, Sound

LEMMA IdlePlan ==
  ASSUME IInv, Free
  PROVE  /\ ~Working /\ run.todo = <<>> /\ Len(run.todo) = 0 /\ ~run.recorded
         /\ \A recs : UndoShape(run.todo, recs)
         /\ ~Has(run.todo, {"replay", "clear"})
         /\ Barred(run.todo) /\ PlanOld(run.todo, used.edits)
<1>1. ~Working /\ run.todo = <<>> /\ Len(run.todo) = 0 /\ ~run.recorded
  BY DEF IInv, Sound, PlanShape, Working, Free, At
<1> QED BY <1>1 DEF UndoShape, Has, Barred, PlanOld

LEMMA RemoveShellKeeps == ASSUME IInv, RemoveShell PROVE IInv'
<1>1. Free /\ file' = NoFile /\ UNCHANGED <<disk, ckpt, run, closing, txn, history, used>>
  BY DEF RemoveShell
<1>2. TypeOK'
  BY <1>1, NoFileTypes DEF TypeOK, history, IInv, Sound
<1>3. PlanShape' /\ ~Working'
  BY <1>1, IdlePlan DEF IInv, Sound, PlanShape, Working, At
<1> QED BY <1>1, <1>2, <1>3, IdlePlan, JournalGone

LEMMA CloseKeeps == ASSUME IInv, NEW s \in closing, Close(s) \/ CloseBusy(s) PROVE IInv'
<1>1. /\ closing' = closing \ {s} /\ UNCHANGED <<disk, ckpt, run, history, used>>
      /\ \/ Free /\ file' = NoFile /\ txn' = NoTxn
         \/ file' = file /\ txn' = txn
  BY DEF Close, CloseBusy
<1>2. TypeOK'
  BY <1>1, NoFileTypes DEF TypeOK, history, IInv, Sound
<1>3. CASE Free /\ file' = NoFile /\ txn' = NoTxn
  <2>1. PlanShape' /\ ~Working'
    BY <1>1, <1>3, IdlePlan DEF IInv, Sound, PlanShape, Working, At
  <2> QED BY <1>1, <1>2, <1>3, <2>1, IdlePlan, JournalGone
<1>4. CASE file' = file /\ txn' = txn
  <2>1. used.commands \in Nat /\ used.deaths \in Nat
    BY Types
  <2> QED BY <1>1, <1>2, <1>4, <2>1, Framed
<1> QED BY <1>1, <1>3, <1>4

LEMMA DieClosingKeeps == ASSUME IInv, DieClosing PROVE IInv'
<1>1. /\ \E s \in closing : closing' = closing \ {s}
      /\ used.deaths < MaxDeaths /\ used' = [used EXCEPT !.deaths = @ + 1]
      /\ UNCHANGED <<disk, file, ckpt, run, txn, history>>
  BY DEF DieClosing
<1>2. /\ used'.files = used.files /\ used'.edits = used.edits /\ used'.commands = used.commands
      /\ used'.deaths = used.deaths + 1
      /\ used' \in [commands: 0..MaxCommands, deaths: 0..MaxDeaths, edits: 0..MaxEdits, files: Inodes]
  <2>1. used \in [commands: 0..MaxCommands, deaths: 0..MaxDeaths, edits: 0..MaxEdits, files: Inodes]
        /\ MaxDeaths \in Nat
    BY Numbers DEF IInv, Sound, TypeOK
  <2> QED BY <1>1, <2>1
<1>3. TypeOK'
  BY <1>1, <1>2 DEF TypeOK, history, IInv, Sound
<1>4. used.commands \in Nat /\ used.deaths \in Nat
  BY Types
<1>5. used'.deaths >= used.deaths /\ used'.deaths \in Nat /\ used'.commands >= used.commands
  BY <1>2, <1>4
<1> QED BY <1>1, <1>2, <1>3, <1>4, <1>5, Framed

LEMMA ReturnKeeps == ASSUME IInv, Return PROVE IInv'
<1>1. /\ run.busy /\ run.todo = <<>> /\ run' = Idle
      /\ closing' = IF run.gen = 0 THEN closing ELSE closing \cup {[gen |-> run.gen, ino |-> run.ino]}
      /\ finished' = IF run.gen = 0 THEN finished ELSE finished \cup {run.gen}
      /\ UNCHANGED <<disk, file, ckpt, txn, kept, rewound, used>>
  BY DEF Return
<1>2. run.gen \in Inodes /\ run.ino \in Inodes
  BY Types DEF Runs
<1>3. TypeOK'
  BY <1>1, <1>2, NoFileTypes DEF TypeOK, IInv, Sound, Sessions
<1>4. ~Working
  BY <1>1 DEF Working
<1> QED BY <1>1, <1>3, <1>4, Stopped

(* Steps of undo and abandon.                                              *)
LEMMA UndoStep ==
  ASSUME IInv, NEW name \in UndoOps, At(name)
  PROVE  /\ ~Working /\ run.busy /\ run.todo # <<>> /\ run.todo[1].op = name
         /\ Head(run.todo) = run.todo[1] /\ Only(run.todo, UndoOps) /\ ~run.recorded
         /\ EndsWell(run.todo, ckpt)
<1>1. run.busy /\ run.todo # <<>> /\ Head(run.todo).op = name /\ run.todo \in Seq(Steps)
  BY Types DEF At
<1>2. Head(run.todo) = run.todo[1]
  BY <1>1, TailFacts
<1>3. ~Working /\ run.todo[1].op # "write"
  BY <1>1, <1>2 DEF Working, WorkOps, UndoOps
<1>4. Only(run.todo, UndoOps)
  BY <1>1, <1>3, FirstStep
<1>5. ~run.recorded /\ EndsWell(run.todo, ckpt)
  BY <1>1, <1>2, <1>3 DEF IInv, Sound, PlanShape, At
<1> QED BY <1>1, <1>2, <1>3, <1>4, <1>5

LEMMA UndoGoesOn ==
  ASSUME IInv, NEW name \in UndoOps, At(name), Advance,
         \/ ckpt' = ckpt /\ name # "release"
         \/ ckpt' = NoJob
  PROVE  /\ run'.todo = Tail(run.todo) /\ run'.busy /\ ~run'.recorded /\ run' \in Runs
         /\ PlanShape' /\ ~Working' /\ Barred(run'.todo) /\ PlanOld(run'.todo, used.edits)
         /\ run'.todo \in Seq(Steps)
         /\ name # "replay" =>
              ~Has(run'.todo, {"replay", "clear"}) /\ \A recs : UndoShape(run'.todo, recs)
<1>1. /\ ~Working /\ run.busy /\ run.todo # <<>> /\ run.todo[1].op = name
      /\ Only(run.todo, UndoOps) /\ ~run.recorded /\ EndsWell(run.todo, ckpt)
      /\ run \in Runs /\ run.todo \in Seq(Steps)
  BY UndoStep, Types
<1>2. run' \in Runs
  BY <1>1, AdvanceTypes
<1>3. run'.todo = Tail(run.todo) /\ run'.busy /\ ~run'.recorded
  BY <1>1 DEF Advance, Runs
<1>4. Tail(run.todo) \in Seq(Steps) /\ Only(Tail(run.todo), UndoOps)
  BY <1>1, TailFacts, TailPlan
<1>5. EndsWell(Tail(run.todo), ckpt')
  <2>1. name # "drop"
    BY DEF UndoOps
  <2> QED BY <1>1, <2>1, TailEnds
<1>6. PlanShape'
  BY <1>3, <1>4, <1>5 DEF PlanShape
<1>7. /\ Barred(run'.todo) /\ PlanOld(run'.todo, used.edits)
      /\ run'.todo # <<>> => run'.todo[1].op \in UndoOps \ WorkOps
  BY <1>3, <1>4, UndoPlan
<1>8. ~Working'
  BY <1>7 DEF Working
<1>9. ASSUME name # "replay", NEW k \in 1..Len(run'.todo)
      PROVE  run'.todo[k].op \notin {"replay", "clear"}
  <2>1. /\ Len(run.todo) \in Nat /\ Len(Tail(run.todo)) = Len(run.todo) - 1
        /\ \A l \in 1..Len(run.todo) - 1 :
             Tail(run.todo)[l] = run.todo[l + 1] /\ l + 1 \in 1..Len(run.todo)
    BY <1>1, TailFacts
  <2>2. k + 1 \in 1..Len(run.todo) /\ k + 1 # 1 /\ run'.todo[k] = run.todo[k + 1]
    BY <1>3, <1>9, <2>1
  <2>3. UndoShape(run.todo, file.recs)
    BY DEF IInv, UndoKeeps
  <2> QED BY <1>1, <1>9, <2>2, <2>3 DEF UndoShape
<1>10. name # "replay" =>
         ~Has(run'.todo, {"replay", "clear"}) /\ \A recs : UndoShape(run'.todo, recs)
  BY <1>9 DEF Has, UndoShape
<1> QED BY <1>2, <1>3, <1>4, <1>6, <1>7, <1>8, <1>10

LEMMA ClearRetireKeep == ASSUME IInv, Clear \/ Retire PROVE IInv'
<1>1. PICK name \in {"clear", "retire"} :
        /\ At(name) /\ Advance /\ file' = NoFile /\ txn' = NoTxn
        /\ kept' \in {kept, kept \cup {file.ino}}
        /\ UNCHANGED <<disk, ckpt, closing, finished, rewound, used>>
  BY DEF Clear, Retire
<1>2. name \in UndoOps /\ name # "replay" /\ name # "release"
  BY DEF UndoOps
<1>3. /\ run' \in Runs /\ PlanShape' /\ ~Working' /\ Barred(run'.todo)
      /\ PlanOld(run'.todo, used.edits) /\ ~run'.recorded
      /\ ~Has(run'.todo, {"replay", "clear"}) /\ UndoShape(run'.todo, <<>>)
  BY <1>1, <1>2, UndoGoesOn
<1>4. file.ino \in Inodes
  BY Types DEF Files
<1>5. TypeOK'
  BY <1>1, <1>3, <1>4, NoFileTypes DEF TypeOK, IInv, Sound
<1>6. ~Working
  BY <1>1, <1>2, UndoStep
<1> QED BY <1>1, <1>3, <1>5, <1>6, JournalGone

LEMMA ReleaseKeeps == ASSUME IInv, Release PROVE IInv'
<1>1. At("release") /\ ckpt' = NoJob /\ Advance
      /\ rewound' = FALSE /\ UNCHANGED <<disk, file, closing, txn, finished, kept, used>>
  BY DEF Release
<1>2. "release" \in UndoOps
  BY DEF UndoOps
<1>3. /\ run' \in Runs /\ PlanShape' /\ ~Working' /\ Barred(run'.todo)
      /\ PlanOld(run'.todo, used.edits) /\ ~run'.recorded
      /\ ~Has(run'.todo, {"replay", "clear"}) /\ UndoShape(run'.todo, file.recs)
  BY <1>1, <1>2, UndoGoesOn
<1>4. TypeOK'
  BY <1>1, <1>3, NoFileTypes DEF TypeOK, IInv, Sound
<1>5. FileShape'
  BY <1>1, <1>3 DEF IInv, Sound, FileShape
<1>6. Budget'
  <2>1. ~Owing'
    BY <1>1, <1>3 DEF Owing
  <2>2. used.files \in Nat /\ used.commands \in Nat /\ used.deaths \in Nat
    BY Types
  <2> QED BY <1>1, <2>1, <2>2 DEF IInv, Sound, Budget
<1>7. OneJob'
  BY <1>1, <1>3 DEF OneJob, OneTransaction
<1>8. Keeps'
  BY <1>1, <1>3 DEF IInv, Keeps, Reversibly
<1>9. UndoKeeps'
  BY <1>1, <1>3 DEF UndoKeeps
<1>10. EditsKnown'
  BY <1>1, <1>3 DEF IInv, EditsKnown
<1> QED BY <1>3, <1>4, <1>5, <1>6, <1>7, <1>8, <1>9, <1>10 DEF IInv, Sound

(* One record is written back: the copy's content matches the record, so   *)
(* no sector another tool has written is among those that change.          *)
LEMMA WriteBackFacts ==
  ASSUME IInv, At("replay"), Matches(disk[file.recs[Latest].copy], file.recs[Latest])
  PROVE  LET rec == file.recs[Latest] IN
         /\ rec \in PreImages /\ rec.copy \in Covered(file.recs) /\ rec.copy \in CopyNames
         /\ Latest \in run.todo[1].left /\ Now = run.todo[1]
         /\ Reversibly(file) /\ Old(rec.pre, used.edits)
         /\ \A s \in txn.edited : s[1] = rec.copy => rec.pre[s[2]] = disk[rec.copy][s[2]]
<1> DEFINE rec == file.recs[Latest]
<1>1. "replay" \in UndoOps
  BY DEF UndoOps
<1>2. /\ run.todo # <<>> /\ run.todo[1].op = "replay" /\ Now = run.todo[1]
      /\ run.todo \in Seq(Steps) /\ file.recs \in Seq(Records)
      /\ disk \in [CopyNames -> Contents] /\ txn.edited \in Marks
  BY <1>1, UndoStep, Types DEF Now
<1>3. 1 \in 1..Len(run.todo)
  BY <1>2, TailFacts
<1>4. /\ Has(run.todo, {"replay", "clear"})
      /\ run.todo[1].left # {} /\ run.todo[1].left \subseteq DOMAIN file.recs
  BY <1>2, <1>3 DEF IInv, UndoKeeps, UndoShape, Has
<1>5. Reversibly(file)
  BY <1>4 DEF IInv, UndoKeeps
<1>6. Latest \in run.todo[1].left /\ Latest \in DOMAIN file.recs
  <2>1. DOMAIN file.recs = 1..Len(file.recs) /\ Len(file.recs) \in Nat
    BY <1>2
  <2> QED BY <1>2, <1>4, <2>1, MaxFacts DEF Latest
<1>7. rec \in PreImages /\ rec # Barrier
  <2>1. rec \in Records /\ rec \in Range(file.recs)
    BY <1>2, <1>6, ElementOfSeq DEF Range
  <2> QED BY <1>5, <2>1 DEF Reversibly, Records
<1>8. rec.copy \in CopyNames /\ rec.copy \in Covered(file.recs)
  <2>1. rec.copy \in CopyNames
    BY <1>7 DEF PreImages
  <2> QED BY <1>6, <2>1 DEF Covered, Of
<1>9. Old(rec.pre, used.edits)
  BY <1>6, <1>7 DEF IInv, EditsKnown, RecordsOld
<1>10. ASSUME NEW s \in txn.edited, s[1] = rec.copy PROVE rec.pre[s[2]] = disk[rec.copy][s[2]]
  <2>1. s[2] \in 1..Sectors
    BY <1>2 DEF Marks
  <2>2. disk[rec.copy][s[2]] = rec.pre[s[2]] \/ disk[rec.copy][s[2]] = rec.after[s[2]]
    BY <1>2, <1>7, <1>8, <2>1, MatchFacts
  <2>3. NotOurs(file.recs, disk, txn.edited)
    BY DEF IInv, EditsKnown
  <2> QED BY <1>6, <1>10, <2>2, <2>3 DEF NotOurs
<1> QED BY <1>2, <1>5, <1>6, <1>7, <1>8, <1>9, <1>10

LEMMA ReplayKeeps == ASSUME IInv, Replay PROVE IInv'
<1> DEFINE rec == file.recs[Latest]
           left == run.todo[1].left
           rest == left \ {Latest}
<1>1. /\ At("replay")
      /\ \/ Matches(disk[rec.copy], rec) /\ WriteBack(rec) /\ Replayed
         \/ run' = Idle /\ UNCHANGED disk
      /\ rewound' \in BOOLEAN /\ UNCHANGED <<file, ckpt, closing, txn, finished, kept, used>>
  BY DEF Replay, NoteRewind, IInv, Sound, TypeOK
<1>2. "replay" \in UndoOps
  BY DEF UndoOps
<1>3. /\ ~Working /\ run.busy /\ run.todo # <<>> /\ run.todo[1].op = "replay"
      /\ Only(run.todo, UndoOps) /\ ~run.recorded /\ EndsWell(run.todo, ckpt)
      /\ run.todo \in Seq(Steps) /\ run \in Runs /\ file.recs \in Seq(Records)
      /\ disk \in [CopyNames -> Contents] /\ txn.edited \in Marks
  BY <1>1, <1>2, UndoStep, Types
<1>4. CASE run' = Idle /\ UNCHANGED disk
  <2>1. TypeOK'
    BY <1>1, <1>4, NoFileTypes DEF TypeOK, IInv, Sound
  <2> QED BY <1>1, <1>3, <1>4, <2>1, Stopped
<1>5. CASE Matches(disk[rec.copy], rec) /\ WriteBack(rec) /\ Replayed
  <2>1. /\ rec \in PreImages /\ rec.copy \in Covered(file.recs) /\ rec.copy \in CopyNames
        /\ Latest \in left /\ Now = run.todo[1]
        /\ Reversibly(file) /\ Old(rec.pre, used.edits)
        /\ \A s \in txn.edited : s[1] = rec.copy => rec.pre[s[2]] = disk[rec.copy][s[2]]
    BY <1>1, <1>5, WriteBackFacts
  <2>2. disk' = [disk EXCEPT ![rec.copy] = rec.pre]
    BY <1>5 DEF WriteBack
  <2>3. disk' \in [CopyNames -> Contents]
    BY <1>3, <2>1, <2>2 DEF PreImages
  <2>4. /\ Len(run.todo) > 1 /\ run.todo[2].op = "clear" /\ 1 \in 1..Len(run.todo)
        /\ left # {} /\ left \subseteq DOMAIN file.recs
    <3>1. 1 \in 1..Len(run.todo)
      BY <1>3, TailFacts
    <3> QED BY <1>3, <3>1 DEF IInv, UndoKeeps, UndoShape
  <2>5. WillBeBack(file.recs, rest, disk', txn)
    <3>1. Has(run.todo, {"replay", "clear"}) /\ Left(run.todo) = left
      BY <1>3, <2>4 DEF Has, Left
    <3>2. WillBeBack(file.recs, left, disk, txn)
      BY <3>1 DEF IInv, UndoKeeps
    <3>3. Latest = Max(left)
      BY <2>1 DEF Latest
    <3> QED BY <1>3, <2>1, <2>2, <2>4, <3>2, <3>3, ReplayedBack
  <2>6. AllOriginal(file.recs, disk', txn)
    <3>1. AllOriginal(file.recs, disk, txn)
      BY <2>1 DEF IInv, Keeps, Reversibly, Intact
    <3> QED BY <1>3, <2>1, <2>2, <3>1, CoveredWriteOriginal
  <2>7. DiskOld(disk', used.edits) /\ NotOurs(file.recs, disk', txn.edited)
    <3>1. DiskOld(disk, used.edits) /\ NotOurs(file.recs, disk, txn.edited)
      BY DEF IInv, EditsKnown
    <3> QED BY <1>3, <2>1, <2>2, <3>1, WrittenKnown
  <2>8. /\ run' \in Runs /\ PlanShape' /\ ~Working' /\ ~run'.recorded
        /\ Barred(run'.todo) /\ PlanOld(run'.todo, used.edits)
        /\ UndoShape(run'.todo, file.recs)
        /\ WillBeBack(file.recs, Left(run'.todo), disk', txn)
    <3>1. CASE left = {Latest}
      <4>1. Advance
        BY <1>5, <2>1, <3>1 DEF Replayed
      <4>2. /\ run' \in Runs /\ PlanShape' /\ ~Working' /\ ~run'.recorded
            /\ Barred(run'.todo) /\ PlanOld(run'.todo, used.edits)
            /\ run'.todo = Tail(run.todo)
        BY <1>1, <1>2, <4>1, UndoGoesOn
      <4>3. /\ Len(run.todo) \in Nat /\ Len(Tail(run.todo)) = Len(run.todo) - 1
            /\ \A k \in 1..Len(run.todo) - 1 :
                 Tail(run.todo)[k] = run.todo[k + 1] /\ k + 1 \in 1..Len(run.todo)
        BY <1>3, TailFacts
      <4>4. 1 \in 1..Len(run.todo) - 1 /\ 1 + 1 = 2
        BY <2>4, <4>3
      <4>5. run'.todo[1].op = "clear"
        BY <2>4, <4>2, <4>3, <4>4
      <4>6. \A k \in 1..Len(run'.todo) :
              /\ run'.todo[k].op # "replay"
              /\ run'.todo[k].op = "clear" => k = 1
        <5>1. SUFFICES ASSUME NEW k \in 1..Len(run'.todo)
                       PROVE  /\ run'.todo[k].op # "replay"
                              /\ run'.todo[k].op = "clear" => k = 1
          OBVIOUS
        <5>2. k + 1 \in 1..Len(run.todo) /\ k + 1 # 1 /\ run'.todo[k] = run.todo[k + 1]
              /\ (k + 1 = 2 => k = 1)
          BY <4>2, <4>3
        <5>3. UndoShape(run.todo, file.recs)
          BY DEF IInv, UndoKeeps
        <5> QED BY <5>2, <5>3 DEF UndoShape
      <4>7. UndoShape(run'.todo, file.recs)
        BY <4>6 DEF UndoShape
      <4>8. Left(run'.todo) = {} /\ rest = {}
        BY <3>1, <4>5 DEF Left
      <4> QED BY <2>5, <4>2, <4>7, <4>8
    <3>2. CASE left # {Latest}
      <4>1. run' = [run EXCEPT !.todo[1].left = @ \ {Latest}]
        BY <1>5, <2>1, <3>2 DEF Replayed
      <4>2. run'.todo = [run.todo EXCEPT ![1].left = @ \ {Latest}]
            /\ run'.busy /\ ~run'.recorded
        BY <1>3, <4>1 DEF Runs
      <4>3. /\ Len(run'.todo) = Len(run.todo)
            /\ \A k \in 1..Len(run.todo) : k # 1 => run'.todo[k] = run.todo[k]
            /\ run'.todo[1].op = "replay" /\ run'.todo[1].left = rest
            /\ run'.todo \in Seq(Steps)
        <5>1. run.todo \in [1..Len(run.todo) -> Steps] /\ Len(run.todo) \in Nat
          BY <1>3
        <5>2. run.todo[1] \in [op: {"replay"}, left: SUBSET Nat]
          BY <1>3, <2>4, <5>1 DEF Steps
        <5>3. [run.todo[1] EXCEPT !.left = @ \ {Latest}] \in [op: {"replay"}, left: SUBSET Nat]
          BY <5>2
        <5>4. [run.todo[1] EXCEPT !.left = @ \ {Latest}] \in Steps
          BY <5>3 DEF Steps
        <5>5. run'.todo = [run.todo EXCEPT ![1] = [run.todo[1] EXCEPT !.left = @ \ {Latest}]]
          BY <2>4, <4>2, <5>1
        <5>6. run'.todo \in [1..Len(run.todo) -> Steps]
          BY <2>4, <5>1, <5>4, <5>5
        <5>7. run'.todo \in Seq(Steps)
          BY <5>1, <5>6, SeqDef
        <5>8. Len(run'.todo) = Len(run.todo)
          BY <5>1, <5>6, <5>7
        <5>9. run'.todo[1] = [run.todo[1] EXCEPT !.left = @ \ {Latest}]
              /\ \A k \in 1..Len(run.todo) : k # 1 => run'.todo[k] = run.todo[k]
          BY <2>4, <5>1, <5>5
        <5> QED BY <5>2, <5>7, <5>8, <5>9
      <4>4. run' \in Runs
        BY <1>3, <4>1, <4>2, <4>3 DEF Runs
      <4>5. \A k \in 1..Len(run.todo) : run'.todo[k].op = run.todo[k].op
        BY <1>3, <4>3
      <4>6. Only(run'.todo, UndoOps)
        BY <1>3, <4>3, <4>5 DEF Only
      <4>7. Len(run.todo) \in 1..Len(run.todo) /\ run'.todo # <<>>
        BY <1>3, <2>4, <4>3, TailFacts
      <4>8. EndsWell(run'.todo, ckpt)
        BY <1>3, <4>3, <4>5, <4>7 DEF EndsWell, LastOp, Has
      <4>9. PlanShape'
        BY <1>1, <4>2, <4>6, <4>8 DEF PlanShape
      <4>10. ~Working' /\ Barred(run'.todo) /\ PlanOld(run'.todo, used.edits)
        BY <4>3, <4>6, UndoPlan DEF Working, WorkOps
      <4>11. rest # {} /\ rest \subseteq DOMAIN file.recs
        BY <2>1, <2>4, <3>2
      <4>12. UndoShape(run'.todo, file.recs)
        <5>1. UndoShape(run.todo, file.recs)
          BY DEF IInv, UndoKeeps
        <5>2. \A k \in 1..Len(run'.todo) : k \in 1..Len(run.todo) /\ run'.todo[k].op = run.todo[k].op
          BY <4>3, <4>5
        <5>3. 2 \in 1..Len(run.todo)
          BY <1>3, <2>4, TailFacts
        <5>4. Len(run'.todo) > 1 /\ run'.todo[2].op = "clear"
          BY <2>4, <4>3, <5>3
        <5>5. \A k \in 1..Len(run'.todo) : run'.todo[k].op = "replay" => k = 1
          BY <5>1, <5>2 DEF UndoShape
        <5>6. \A k \in 1..Len(run'.todo) : run'.todo[k].op = "clear" => k = 1 \/ k = 2
          BY <5>1, <5>2 DEF UndoShape
        <5> QED BY <4>3, <4>11, <5>4, <5>5, <5>6 DEF UndoShape
      <4>13. Left(run'.todo) = rest
        BY <4>3, <4>7 DEF Left
      <4> QED BY <2>5, <4>2, <4>4, <4>9, <4>10, <4>12, <4>13
    <3> QED BY <3>1, <3>2
  <2>9. TypeOK'
    BY <1>1, <2>3, <2>8 DEF TypeOK, IInv, Sound
  <2>10. FileShape' /\ OneJob'
    BY <1>1, <2>8 DEF IInv, Sound, FileShape, OneJob, OneTransaction
  <2>11. Budget'
    <3>1. Owing' <=> Owing
      BY <1>1, <1>3, <2>8 DEF Owing
    <3> QED BY <1>1, <3>1 DEF IInv, Sound, Budget
  <2>12. Keeps'
    BY <1>1, <2>6, <2>8 DEF Keeps
  <2>13. UndoKeeps'
    BY <1>1, <2>1, <2>8 DEF UndoKeeps, Reversibly
  <2>14. EditsKnown'
    BY <1>1, <2>7, <2>8 DEF IInv, EditsKnown
  <2> QED BY <2>8, <2>9, <2>10, <2>11, <2>12, <2>13, <2>14 DEF IInv, Sound
<1> QED BY <1>1, <1>4, <1>5

-----------------------------------------------------------------------------
(* Deaths, and writes by other tools.                                      *)
(* A run that dies leaves a state that is sound if what it left in the     *)
(* journal and on the disk is.                                             *)
LEMMA Died ==
  ASSUME IInv, TypeOK', run' = Idle, ckpt' = ckpt,
         file'.kind # "headed" => file'.recs = <<>>,
         \/ file'.gen <= used.files
         \/ file'.gen = used.files + 1 /\ used.files + 1 <= used.commands + used.deaths,
         used'.files = (IF file'.gen > used.files THEN file'.gen ELSE used.files),
         used'.edits = used.edits, used'.commands = used.commands,
         used'.deaths = used.deaths + 1,
         Class(file') = "records" /\ ckpt # NoJob => txn'.job = ckpt,
         Reversibly(file') => AllOriginal(file'.recs, disk', txn'),
         RecordsOld(file'.recs, used.edits), DiskOld(disk', used.edits),
         NotOurs(file'.recs, disk', txn'.edited)
  PROVE  IInv'
<1>1. /\ used.commands \in Nat /\ used.deaths \in Nat /\ used.files \in Nat
      /\ MaxCommands \in Nat /\ MaxDeaths \in Nat
  BY Types, Numbers
<1>2. ~Working' /\ run'.todo = <<>> /\ ~run'.busy /\ ~run'.recorded /\ Len(run'.todo) = 0
  BY NoFileTypes DEF Working
<1>3. FileShape' /\ PlanShape'
  BY <1>2 DEF FileShape, PlanShape, Only
<1>4. Budget'
  <2>1. file'.gen \in Nat
    BY <1>1 DEF TypeOK, Files, Inodes
  <2>2. used.files <= used.commands + used.deaths
    BY <1>1 DEF IInv, Sound, Budget
  <2> QED BY <1>1, <2>1, <2>2 DEF Budget
<1>5. OneJob'
  BY <1>2 DEF OneJob, OneTransaction
<1>6. Keeps'
  BY <1>2 DEF Keeps, Barred
<1>7. UndoKeeps'
  BY <1>2 DEF UndoKeeps, UndoShape, Has
<1>8. EditsKnown'
  BY <1>2 DEF EditsKnown, PlanOld
<1> QED BY <1>3, <1>4, <1>5, <1>6, <1>7, <1>8 DEF IInv, Sound

(* What a death inside an append leaves.                                   *)
LEMMA InterruptedFacts ==
  ASSUME IInv, Appending, NEW g \in Interrupted
  PROVE  /\ g \in Files /\ g.recs \in {file.recs, Append(file.recs, NextRecord)}
         /\ g.kind # "headed" => g.recs = <<>>
         /\ \/ g.gen <= used.files
            \/ g.gen = used.files + 1 /\ used.files + 1 <= used.commands + used.deaths
<1>1. file \in Files /\ NextRecord \in Records /\ file.kind \in {"none", "headed"}
      /\ file.gen <= used.files /\ used.files \in Nat
  BY Types, NextRecordFacts DEF IInv, Sound, FileShape, Budget
<1>2. ASSUME NEW f \in Headed
      PROVE  /\ f \in Files /\ f.recs = file.recs /\ f.kind = "headed"
             /\ \/ f.gen <= used.files
                \/ f.gen = used.files + 1 /\ used.files + 1 <= used.commands + used.deaths
             /\ file.kind = "none" => f.recs = <<>>
  <2>1. file.kind = "none" => file.recs = <<>>
    BY DEF IInv, Sound, FileShape
  <2> QED BY <1>1, <2>1, HeadedFacts
<1>3. ASSUME NEW f \in Headed, g = [f EXCEPT !.torn = TRUE] \/ g = With(f, NextRecord)
      PROVE  /\ g \in Files /\ g.recs \in {file.recs, Append(file.recs, NextRecord)}
             /\ g.kind = "headed" /\ g.gen = f.gen
  <2>1. f \in Files /\ f.recs = file.recs /\ f.kind = "headed"
    BY <1>2
  <2>2. CASE g = [f EXCEPT !.torn = TRUE]
    BY <2>1, <2>2 DEF Files
  <2>3. CASE g = With(f, NextRecord)
    BY <1>1, <2>1, <2>3, WithFacts
  <2> QED BY <1>3, <2>2, <2>3
<1>4. ASSUME file.kind = "none", NEW f \in NewFiles, NEW k \in {"headed", "empty", "stub"},
             g = [f EXCEPT !.kind = k]
      PROVE  /\ g \in Files /\ g.recs = <<>> /\ g.recs = file.recs /\ g.gen = f.gen /\ f \in Headed
  <2>1. f \in Headed
    BY <1>4 DEF Headed
  <2>2. f \in Files /\ f.recs = <<>> /\ f.recs = file.recs
    BY <1>2, <1>4, <2>1
  <2> QED BY <1>4, <2>1, <2>2 DEF Files
<1>5. \/ \E f \in Headed : g = [f EXCEPT !.torn = TRUE] \/ g = With(f, NextRecord)
      \/ file.kind # "none" /\ g = file
      \/ file.kind = "none" /\ g = NoFile
      \/ /\ file.kind = "none"
         /\ \E f \in NewFiles, k \in {"headed", "empty", "stub"} : g = [f EXCEPT !.kind = k]
  BY DEF Interrupted
<1>6. CASE \E f \in Headed : g = [f EXCEPT !.torn = TRUE] \/ g = With(f, NextRecord)
  <2>1. PICK f \in Headed : g = [f EXCEPT !.torn = TRUE] \/ g = With(f, NextRecord)
    BY <1>6
  <2> QED BY <1>2, <1>3, <2>1
<1>7. CASE file.kind # "none" /\ g = file
  BY <1>1, <1>7
<1>8. CASE file.kind = "none" /\ g = NoFile
  <2>1. file.recs = <<>>
    BY <1>8 DEF IInv, Sound, FileShape
  <2> QED BY <1>1, <1>8, <2>1, NoFileTypes
<1>9. CASE /\ file.kind = "none"
           /\ \E f \in NewFiles, k \in {"headed", "empty", "stub"} : g = [f EXCEPT !.kind = k]
  <2>1. PICK f \in NewFiles, k \in {"headed", "empty", "stub"} : g = [f EXCEPT !.kind = k]
    BY <1>9
  <2> QED BY <1>2, <1>4, <1>9, <2>1
<1> QED BY <1>5, <1>6, <1>7, <1>8, <1>9

LEMMA DieKeeps == ASSUME IInv, Die PROVE IInv'
<1>1. /\ run.busy /\ used.deaths < MaxDeaths /\ run' = Idle /\ closing' \in {closing, {}}
      /\ used' = [used EXCEPT !.deaths = @ + 1,
                              !.files = IF file'.gen > @ THEN file'.gen ELSE @]
      /\ rewound' \in BOOLEAN /\ UNCHANGED <<ckpt, finished, kept>>
  BY DEF Die, NoteRewind, IInv, Sound, TypeOK
<1>2. \/ Appending /\ file' \in Interrupted /\ UNCHANGED <<disk, txn>>
      \/ /\ At("write") /\ run.recorded /\ Touch(Now.copy) /\ UNCHANGED file
         /\ \E c \in Partial(disk[Now.copy], Image(Now.to)) : disk' = [disk EXCEPT ![Now.copy] = c]
      \/ /\ At("replay")
         /\ LET rec == file.recs[Latest] IN
            /\ Matches(disk[rec.copy], rec)
            /\ \E c \in Partial(disk[rec.copy], rec.pre) : disk' = [disk EXCEPT ![rec.copy] = c]
         /\ UNCHANGED <<file, txn>>
      \/ At("data") /\ txn' = [txn EXCEPT !.moved = TRUE] /\ UNCHANGED <<disk, file>>
      \/ UNCHANGED <<disk, file, txn>>
  BY DEF Die
<1>3. /\ disk \in [CopyNames -> Contents] /\ file \in Files /\ file.recs \in Seq(Records)
      /\ txn \in Txns /\ txn.edited \subseteq txn.meddled /\ txn.edited \in Marks
      /\ used.edits \in Nat /\ used.files \in Nat /\ run.todo \in Seq(Steps)
  BY Types
<1>4. /\ RecordsOld(file.recs, used.edits) /\ DiskOld(disk, used.edits)
      /\ NotOurs(file.recs, disk, txn.edited)
      /\ file.gen <= used.files /\ (file.kind # "headed" => file.recs = <<>>)
      /\ (Class(file) = "records" /\ ckpt # NoJob => txn.job = ckpt)
      /\ (Reversibly(file) => AllOriginal(file.recs, disk, txn))
  BY DEF IInv, EditsKnown, Sound, Budget, FileShape, OneJob, OneTransaction, Keeps, Reversibly, Intact
<1> DEFINE Bounded ==
             \/ file'.gen <= used.files
             \/ file'.gen = used.files + 1 /\ used.files + 1 <= used.commands + used.deaths
           LeftSound ==
             /\ disk' \in [CopyNames -> Contents] /\ file' \in Files
             /\ txn' \in Txns /\ txn'.edited \subseteq txn'.meddled
             /\ (file'.kind # "headed" => file'.recs = <<>>)
             /\ (Class(file') = "records" /\ ckpt # NoJob => txn'.job = ckpt)
             /\ (Reversibly(file') => AllOriginal(file'.recs, disk', txn'))
             /\ RecordsOld(file'.recs, used.edits) /\ DiskOld(disk', used.edits)
             /\ NotOurs(file'.recs, disk', txn'.edited)
<1>5. ASSUME Bounded, LeftSound PROVE IInv'
  <2>1. file'.gen \in Inodes /\ Inodes \subseteq Nat
    BY <1>5, Numbers DEF Files, Inodes
  <2>2. used \in [commands: 0..MaxCommands, deaths: 0..MaxDeaths, edits: 0..MaxEdits, files: Inodes]
        /\ MaxDeaths \in Nat
    BY Numbers DEF IInv, Sound, TypeOK
  <2>3. /\ used'.files = (IF file'.gen > used.files THEN file'.gen ELSE used.files)
        /\ used'.edits = used.edits /\ used'.commands = used.commands
        /\ used'.deaths = used.deaths + 1
        /\ used' \in [commands: 0..MaxCommands, deaths: 0..MaxDeaths, edits: 0..MaxEdits, files: Inodes]
    <3>1. /\ used'.files = (IF file'.gen > used.files THEN file'.gen ELSE used.files)
          /\ used'.edits = used.edits /\ used'.commands = used.commands
          /\ used'.deaths = used.deaths + 1 /\ used' = [used EXCEPT !.deaths = used.deaths + 1,
                                                                   !.files = used'.files]
      BY <1>1, <2>2
    <3>2. used.deaths + 1 \in 0..MaxDeaths /\ used'.files \in Inodes
      BY <1>1, <2>1, <2>2, <3>1
    <3> QED BY <2>2, <3>1, <3>2
  <2>4. closing' \subseteq Sessions
    BY <1>1 DEF IInv, Sound, TypeOK
  <2>5. TypeOK'
    BY <1>1, <1>5, <2>3, <2>4, NoFileTypes DEF TypeOK, IInv, Sound
  <2> QED BY <1>1, <1>5, <2>3, <2>5, Died
<1>6. CASE Appending /\ file' \in Interrupted /\ UNCHANGED <<disk, txn>>
  <2>1. /\ file' \in Files /\ file'.recs \in {file.recs, Append(file.recs, NextRecord)}
        /\ (file'.kind # "headed" => file'.recs = <<>>) /\ Bounded
    BY <1>6, InterruptedFacts
  <2>2. /\ Append(file.recs, NextRecord) # <<>>
        /\ Intact(Append(file.recs, NextRecord)) =>
             AllOriginal(Append(file.recs, NextRecord), disk, txn)
        /\ RecordsOld(Append(file.recs, NextRecord), used.edits)
        /\ NotOurs(Append(file.recs, NextRecord), disk, txn.edited)
    BY <1>6, OneMoreRecord
  <2>3. Working
    BY <1>6, NextRecordFacts
  <2>4. ckpt # NoJob => txn.job = ckpt
    BY <2>3 DEF IInv, OneJob
  <2>5. Reversibly(file') => Intact(file'.recs)
    BY DEF Reversibly, Intact
  <2>6. Intact(file.recs) => AllOriginal(file.recs, disk, txn)
    BY <2>3 DEF IInv, Keeps
  <2>7. LeftSound
    BY <1>3, <1>4, <1>6, <2>1, <2>2, <2>4, <2>5, <2>6
  <2> QED BY <1>5, <2>1, <2>7
<1>7. CASE /\ At("write") /\ run.recorded /\ Touch(Now.copy) /\ UNCHANGED file
           /\ \E c \in Partial(disk[Now.copy], Image(Now.to)) :
                disk' = [disk EXCEPT ![Now.copy] = c]
  <2>1. PICK c \in Partial(disk[Now.copy], Image(Now.to)) : disk' = [disk EXCEPT ![Now.copy] = c]
    BY <1>7
  <2>2. /\ Working /\ Now.copy \in CopyNames
        /\ Image(Now.to) \in Contents /\ Old(Image(Now.to), used.edits)
    BY <1>7, WriteFacts
  <2>3. /\ c \in Contents
        /\ \A i \in 1..Sectors : c[i] = disk[Now.copy][i] \/ c[i] = Image(Now.to)[i]
    BY <1>3, <2>2, PartialIsContent
  <2>4. Old(c, used.edits)
    BY <1>4, <2>2, <2>3 DEF Old, DiskOld
  <2>5. /\ disk' \in [CopyNames -> Contents]
        /\ txn' \in Txns /\ txn'.edited \subseteq txn'.meddled /\ txn'.job = txn.job
        /\ Intact(file.recs) => AllOriginal(file.recs, disk', txn')
        /\ DiskOld(disk', used.edits) /\ NotOurs(file.recs, disk', txn'.edited)
    BY <1>7, <2>1, <2>3, <2>4, CopyWritten
  <2>6. Reversibly(file) => Intact(file.recs)
    BY DEF Reversibly, Intact
  <2>7. LeftSound /\ Bounded
    BY <1>3, <1>4, <1>7, <2>5, <2>6
  <2> QED BY <1>5, <2>7
<1>8. CASE /\ At("replay")
           /\ LET rec == file.recs[Latest] IN
              /\ Matches(disk[rec.copy], rec)
              /\ \E c \in Partial(disk[rec.copy], rec.pre) :
                   disk' = [disk EXCEPT ![rec.copy] = c]
           /\ UNCHANGED <<file, txn>>
  <2> DEFINE rec == file.recs[Latest]
  <2>1. PICK c \in Partial(disk[rec.copy], rec.pre) : disk' = [disk EXCEPT ![rec.copy] = c]
    BY <1>8
  <2>2. /\ rec \in PreImages /\ rec.copy \in Covered(file.recs) /\ rec.copy \in CopyNames
        /\ Reversibly(file) /\ Old(rec.pre, used.edits)
        /\ \A s \in txn.edited : s[1] = rec.copy => rec.pre[s[2]] = disk[rec.copy][s[2]]
    BY <1>8, WriteBackFacts
  <2>3. /\ c \in Contents
        /\ \A i \in 1..Sectors : c[i] = disk[rec.copy][i] \/ c[i] = rec.pre[i]
    BY <1>3, <2>2, PartialIsContent DEF PreImages
  <2>4. Old(c, used.edits)
    BY <1>4, <2>2, <2>3 DEF Old, DiskOld
  <2>5. \A s \in txn.edited : s[1] = rec.copy => c[s[2]] = disk[rec.copy][s[2]]
    BY <1>3, <2>2, <2>3 DEF Marks
  <2> HIDE DEF rec, LeftSound, Bounded
  <2>6. DiskOld(disk', used.edits) /\ NotOurs(file.recs, disk', txn.edited)
    BY <1>3, <1>4, <2>1, <2>2, <2>4, <2>5, WrittenKnown
  <2>7. AllOriginal(file.recs, disk', txn)
    BY <1>3, <1>4, <2>1, <2>2, CoveredWriteOriginal
  <2>8. disk' \in [CopyNames -> Contents]
    BY <1>3, <2>1, <2>2, <2>3
  <2>9. LeftSound /\ Bounded
    BY <1>3, <1>4, <1>8, <2>6, <2>7, <2>8 DEF LeftSound, Bounded
  <2> QED BY <1>5, <2>9
<1>9. CASE At("data") /\ txn' = [txn EXCEPT !.moved = TRUE] /\ UNCHANGED <<disk, file>>
  <2>1. txn' \in Txns /\ txn'.edited = txn.edited /\ txn'.meddled = txn.meddled /\ txn'.job = txn.job
    BY <1>3, <1>9 DEF Txns
  <2>2. run.todo # <<>> /\ Head(run.todo).op = "data"
    BY <1>9 DEF At
  <2>3. 1 \in 1..Len(run.todo) /\ run.todo[1].op = "data" /\ 1..1 - 1 = {}
    BY <1>3, <2>2, TailFacts
  <2>4. ~Intact(file.recs)
    BY <2>3 DEF IInv, Keeps, Barred
  <2>5. ~Reversibly(file)
    BY <2>4 DEF Reversibly, Intact
  <2>6. LeftSound /\ Bounded
    BY <1>3, <1>4, <1>9, <2>1, <2>5
  <2> QED BY <1>5, <2>6
<1>10. CASE UNCHANGED <<disk, file, txn>>
  <2>1. LeftSound /\ Bounded
    BY <1>3, <1>4, <1>10
  <2> QED BY <1>5, <2>1
<1> QED BY <1>2, <1>6, <1>7, <1>8, <1>9, <1>10

LEMMA MeddleKeeps == ASSUME IInv, Meddle PROVE IInv'
<1>1. /\ Free \/ Undoing
      /\ used.edits < MaxEdits /\ used' = [used EXCEPT !.edits = @ + 1]
      /\ UNCHANGED <<file, ckpt, run, closing, history>>
      /\ \E c \in CopyNames, hit \in SUBSET (1..Sectors) :
           /\ disk' = [disk EXCEPT ![c] =
                [i \in 1..Sectors |-> IF i \in hit THEN Foreign(used.edits + 1) ELSE @[i]]]
           /\ txn' = [txn EXCEPT !.meddled = @ \cup ({c} \X hit), !.edited = @ \cup ({c} \X hit)]
  BY DEF Meddle
<1>2. PICK c \in CopyNames, hit \in SUBSET (1..Sectors) :
           /\ disk' = [disk EXCEPT ![c] =
                [i \in 1..Sectors |-> IF i \in hit THEN Foreign(used.edits + 1) ELSE @[i]]]
           /\ txn' = [txn EXCEPT !.meddled = @ \cup ({c} \X hit), !.edited = @ \cup ({c} \X hit)]
  BY <1>1
<1>d. disk' = Edited(disk, c, hit, Foreign(used.edits + 1))
  BY <1>2 DEF Edited
<1>3. /\ disk \in [CopyNames -> Contents] /\ file.recs \in Seq(Records)
      /\ txn \in Txns /\ txn.edited \subseteq txn.meddled /\ txn.edited \in Marks
      /\ used.edits \in Nat /\ run.todo \in Seq(Steps)
  BY Types
<1>4. ~Working /\ ~Working'
  <2>1. ASSUME Undoing PROVE ~Working
    <3>1. PICK k \in DOMAIN run.todo : run.todo[k].op \in {"replay", "clear"}
      BY <2>1 DEF Undoing
    <3>2. run.busy /\ run.todo # <<>> /\ k \in 1..Len(run.todo)
      BY <1>3, <2>1 DEF Undoing
    <3>3. ~Only(run.todo, WorkOps)
      BY <3>1, <3>2 DEF Only, WorkOps
    <3> QED BY <3>2, <3>3, FirstStep
  <2>2. ~Working
    BY <1>1, <2>1 DEF Working, Free
  <2> QED BY <1>1, <2>2 DEF Working
<1>5. /\ txn' \in Txns /\ txn'.edited \subseteq txn'.meddled
      /\ txn'.job = txn.job /\ txn'.moved = txn.moved /\ txn'.origin = txn.origin
      /\ txn'.meddled = txn.meddled \cup ({c} \X hit)
      /\ txn'.edited = txn.edited \cup ({c} \X hit)
  <2>1. {c} \X hit \subseteq CopyNames \X (1..Sectors)
    OBVIOUS
  <2> QED BY <1>2, <1>3, <2>1 DEF Txns, Marks
<1>6. disk' \in [CopyNames -> Contents]
  <2>1. Foreign(used.edits + 1) \in Readable
    <3>1. used.edits + 1 \in 1..MaxEdits
      BY <1>1, <1>3, Numbers
    <3> QED BY <3>1 DEF Readable, Foreigns
  <2>2. \A d \in Contents : [i \in 1..Sectors |-> IF i \in hit THEN Foreign(used.edits + 1) ELSE d[i]] \in Contents
    BY <2>1 DEF Contents
  <2> QED BY <1>2, <1>3, <2>2
<1>7. /\ used'.files = used.files /\ used'.edits = used.edits + 1
      /\ used'.commands = used.commands /\ used'.deaths = used.deaths
      /\ used' \in [commands: 0..MaxCommands, deaths: 0..MaxDeaths, edits: 0..MaxEdits, files: Inodes]
  <2>1. used \in [commands: 0..MaxCommands, deaths: 0..MaxDeaths, edits: 0..MaxEdits, files: Inodes]
        /\ MaxEdits \in Nat
    BY Numbers DEF IInv, Sound, TypeOK
  <2> QED BY <1>1, <2>1
<1>8. TypeOK'
  BY <1>1, <1>5, <1>6, <1>7 DEF TypeOK, history, IInv, Sound
<1>9. FileShape' /\ PlanShape'
  BY <1>1, <1>4 DEF IInv, Sound, FileShape, PlanShape, At
<1>10. Budget'
  <2>1. Owing' <=> Owing
    BY <1>1, <1>4 DEF Owing
  <2> QED BY <1>1, <1>7, <2>1 DEF IInv, Sound, Budget
<1>11. OneJob'
  BY <1>1, <1>4, <1>5 DEF IInv, OneJob, OneTransaction
<1>12. Keeps'
  <2>1. Reversibly(file) => AllOriginal(file.recs, disk, txn)
    BY DEF IInv, Keeps, Reversibly, Intact
  <2>2. AllOriginal(file.recs, disk, txn) => AllOriginal(file.recs, disk', txn')
    BY <1>d, <1>3, <1>5, MeddledOriginal
  <2> QED BY <1>1, <1>4, <2>1, <2>2 DEF IInv, Keeps, Reversibly
<1>13. UndoKeeps'
  <2>1. WillBeBack(file.recs, Left(run.todo), disk, txn)
          => WillBeBack(file.recs, Left(run.todo), disk', txn')
    BY <1>d, <1>3, <1>5, MeddledBack
  <2> QED BY <1>1, <2>1 DEF IInv, UndoKeeps, Reversibly
<1>14. EditsKnown'
  <2>1. /\ RecordsOld(file.recs, used.edits) /\ DiskOld(disk, used.edits)
        /\ PlanOld(run.todo, used.edits) /\ NotOurs(file.recs, disk, txn.edited)
    BY DEF IInv, EditsKnown
  <2>2. RecordsOld(file.recs, used.edits + 1) /\ PlanOld(run.todo, used.edits + 1)
    BY <1>3, <2>1, OldStaysOld
  <2>3. /\ DiskOld(disk', used.edits + 1)
        /\ NotOurs(file.recs, disk', txn.edited \cup ({c} \X hit))
    BY <1>d, <1>3, <2>1, MeddledKnown
  <2> QED BY <1>1, <1>5, <1>7, <2>2, <2>3 DEF EditsKnown
<1> QED BY <1>8, <1>9, <1>10, <1>11, <1>12, <1>13, <1>14 DEF IInv, Sound

-----------------------------------------------------------------------------
LEMMA InitSound == Init => IInv
<1> SUFFICES ASSUME Init PROVE IInv
  OBVIOUS
<1>1. /\ disk \in [CopyNames -> {Image(0), Image(Damaged)}]
      /\ file = NoFile /\ ckpt = NoJob /\ run = Idle /\ closing = {} /\ txn = NoTxn
      /\ finished = {} /\ kept = {} /\ rewound = FALSE
      /\ used = [commands |-> 0, deaths |-> 0, edits |-> 0, files |-> 0]
  BY DEF Init
<1>2. /\ NoFile \in Files /\ Idle \in Runs /\ NoJob \in Jobs /\ 0 \in Inodes
      /\ NoTxn \in Txns /\ NoTxn.edited \subseteq NoTxn.meddled
      /\ NoFile.recs = <<>> /\ NoFile.kind = "none" /\ NoFile.gen = 0
      /\ Idle.todo = <<>> /\ ~Idle.busy /\ ~Idle.recorded /\ NoTxn.edited = {}
  BY NoFileTypes
<1>3. disk \in [CopyNames -> Contents]
  <2>1. 0 \in Readable
    BY Numbers
  <2>2. Image(0) \in Contents /\ Image(Damaged) \in Contents
    BY <2>1, ImageIsContent DEF Damaged
  <2> QED BY <1>1, <2>2
<1>4. used \in [commands: 0..MaxCommands, deaths: 0..MaxDeaths, edits: 0..MaxEdits, files: Inodes]
  BY <1>1, <1>2, Numbers
<1>5. TypeOK
  BY <1>1, <1>2, <1>3, <1>4 DEF TypeOK
<1>6. ~Working /\ run.todo = <<>> /\ Len(run.todo) = 0
  BY <1>1, <1>2 DEF Working
<1>7. FileShape /\ PlanShape
  BY <1>1, <1>2, <1>6 DEF FileShape, PlanShape, Only
<1>8. Budget
  BY <1>1, <1>2, <1>6 DEF Budget, Owing
<1>9. Class(file) = "absent"
  BY <1>1, <1>2 DEF Class
<1>10. OneJob /\ Keeps /\ UndoKeeps
  BY <1>1, <1>2, <1>6, <1>9
  DEF OneJob, OneTransaction, Keeps, Reversibly, Barred, UndoKeeps, UndoShape, Has
<1>11. EditsKnown
  <2>1. ASSUME NEW c \in CopyNames, NEW i \in 1..Sectors PROVE disk[c][i] >= Oldest(0)
    <3>1. disk[c] \in {Image(0), Image(Damaged)}
      BY <1>1
    <3>2. Image(0)[i] = 0 /\ Image(-1)[i] = -1
      BY DEF Image
    <3> QED BY <3>1, <3>2 DEF Oldest, Damaged
  <2>2. RecordsOld(file.recs, used.edits) /\ NotOurs(file.recs, disk, txn.edited)
    BY <1>1, <1>2 DEF RecordsOld, NotOurs
  <2>3. PlanOld(run.todo, used.edits)
    BY <1>6 DEF PlanOld
  <2> QED BY <1>1, <2>1, <2>2, <2>3 DEF EditsKnown, DiskOld, Old
<1> QED BY <1>5, <1>7, <1>8, <1>10, <1>11 DEF IInv, Sound

LEMMA NextSound == IInv /\ [Next]_vars => IInv'
<1> SUFFICES ASSUME IInv, [Next]_vars PROVE IInv'
  OBVIOUS
<1>1. CASE BeginEdit \/ BeginNew \/ BeginGrow \/ BeginMove \/ Resume
  BY <1>1, BeginKeeps
<1>2. CASE Intrude \/ BeginUndo \/ RemoveShell \/ BeginAbandon
  BY <1>2, IntrudeKeeps, BeginUndoKeeps, RemoveShellKeeps, BeginAbandonKeeps
<1>3. CASE Record \/ WriteCopy \/ Save \/ Data \/ Drop \/ LeavePending
  BY <1>3, RecordKeeps, WriteCopyKeeps, SaveDropDataKeep, LeavePendingKeeps
<1>4. CASE Replay \/ Clear \/ Retire \/ Release \/ Return
  BY <1>4, ReplayKeeps, ClearRetireKeep, ReleaseKeeps, ReturnKeeps
<1>5. CASE \E s \in closing : Close(s) \/ CloseBusy(s)
  BY <1>5, CloseKeeps
<1>6. CASE Die \/ DieClosing \/ Meddle
  BY <1>6, DieKeeps, DieClosingKeeps, MeddleKeeps
<1>7. CASE UNCHANGED vars
  <2>1. UNCHANGED <<disk, file, ckpt, run, closing, txn, finished, kept, rewound, used>>
    BY <1>7 DEF vars
  <2>2. TypeOK'
    BY <2>1 DEF TypeOK, IInv, Sound
  <2>3. used.commands \in Nat /\ used.deaths \in Nat
    BY Types
  <2> QED BY <2>1, <2>2, <2>3, Framed
<1> QED BY <1>1, <1>2, <1>3, <1>4, <1>5, <1>6, <1>7 DEF Next, Begin, Continue

-----------------------------------------------------------------------------
(* The five parts hold in every reachable state, for copies of any length, *)
(* any tables and any numbers of commands, deaths and edits, whether or    *)
(* not a power loss may tear a write of undo or an inode may come back.    *)
THEOREM InvariantHolds == Spec => []IInv
<1> QED BY InitSound, NextSound, PTL DEF Spec

(* Every value stays in its set: the journals a run may create are within  *)
(* the commands begun and the deaths, and what is written is readable.     *)
THEOREM TypesHold == Spec => []TypeOK
<1>1. IInv => TypeOK
  BY DEF IInv, Sound
<1> QED BY <1>1, InvariantHolds, PTL

(* The checkpoint and the records beside it are of one job, so that undo   *)
(* and abandon may remove both (cmd/undo.rs, cmd/abandon.rs).              *)
THEOREM OneTransactionHolds == Spec => []OneTransaction
<1>1. IInv => OneTransaction
  BY DEF IInv, OneJob
<1> QED BY <1>1, InvariantHolds, PTL

(* Until a barrier is recorded the journal brings back the target the      *)
(* transaction began on (dev/source.rs: record, then write).               *)
LEMMA SoundReversible == IInv => Reversible
<1> SUFFICES ASSUME IInv,
                    \/ Reversibly(file)
                    \/ Class(file) \in {"absent", "shell"} /\ run.busy /\ At("write")
             PROVE  /\ ~txn.moved
                    /\ \A c \in CopyNames :
                         IsOriginal(c, IF c \in Covered(file.recs)
                                       THEN First(file.recs, c).pre ELSE disk[c])
  BY DEF Reversible
<1>1. CASE Reversibly(file)
  <2>1. AllOriginal(file.recs, disk, txn)
    BY <1>1 DEF IInv, Keeps, Reversibly, Intact
  <2> QED BY <2>1 DEF AllOriginal, BringsBack, IsOriginal
<1>2. CASE Class(file) \in {"absent", "shell"} /\ run.busy /\ At("write")
  <2>1. run.todo # <<>> /\ Head(run.todo).op = "write" /\ run.todo \in Seq(Steps)
    BY <1>2, Types DEF At
  <2>2. Working
    BY <1>2, <2>1, TailFacts DEF Working, WorkOps
  <2>3. file.recs = <<>>
    BY <1>2, Recorded DEF Class
  <2>4. Intact(file.recs)
    BY <2>3 DEF Intact, Range
  <2>5. AllOriginal(file.recs, disk, txn)
    BY <2>2, <2>4 DEF IInv, Keeps
  <2> QED BY <2>5 DEF AllOriginal, BringsBack, IsOriginal
<1> QED BY <1>1, <1>2

THEOREM ReversibleHolds == Spec => []Reversible
<1> QED BY SoundReversible, InvariantHolds, PTL

(* When undo has replayed its plan and removes the journal, the target is  *)
(* what it was when the transaction began, but for other tools' writes.    *)
LEMMA SoundUndone == IInv => UndoneMeansOrigin
<1> SUFFICES ASSUME IInv, At("clear")
             PROVE  ~txn.moved /\ \A c \in CopyNames : IsOriginal(c, disk[c])
  BY DEF UndoneMeansOrigin
<1>1. "clear" \in UndoOps
  BY DEF UndoOps
<1>2. run.todo # <<>> /\ run.todo[1].op = "clear" /\ run.todo \in Seq(Steps)
  BY <1>1, UndoStep, Types
<1>3. 1 \in 1..Len(run.todo)
  BY <1>2, TailFacts
<1>4. Has(run.todo, {"replay", "clear"}) /\ Left(run.todo) = {}
  BY <1>2, <1>3 DEF Has, Left
<1>5. Reversibly(file) /\ WillBeBack(file.recs, {}, disk, txn)
  BY <1>4 DEF IInv, UndoKeeps
<1>6. AllOriginal(file.recs, disk, txn)
  BY <1>5 DEF IInv, Keeps, Reversibly, Intact
<1>7. ASSUME NEW c \in CopyNames, NEW i \in 1..Sectors
      PROVE  disk[c][i] = txn.origin[c][i] \/ <<c, i>> \in txn.meddled
  <2>1. CASE c \in Covered(file.recs)
    <3>1. disk[c][i] = First(file.recs, c).pre[i] \/ <<c, i>> \in txn.meddled
      BY <1>5, <2>1 DEF WillBeBack
    <3>2. First(file.recs, c).pre[i] = txn.origin[c][i] \/ <<c, i>> \in txn.meddled
      BY <1>6, <2>1 DEF AllOriginal, BringsBack
    <3> QED BY <3>1, <3>2
  <2>2. CASE c \notin Covered(file.recs)
    BY <1>6, <2>2 DEF AllOriginal, BringsBack
  <2> QED BY <2>1, <2>2
<1> QED BY <1>6, <1>7 DEF AllOriginal, IsOriginal

THEOREM UndoneMeansOriginHolds == Spec => []UndoneMeansOrigin
<1> QED BY SoundUndone, InvariantHolds, PTL

(* undo never overwrites a sector another tool has written, before undo    *)
(* began or while it runs, and neither does a write of undo that is torn.  *)
LEMMA ForeignStepKept ==
  ASSUME IInv, [Next]_vars, At("replay"), used'.edits = used.edits, NEW s \in txn.edited
  PROVE  disk'[s[1]][s[2]] = disk[s[1]][s[2]]
<1>1. disk \in [CopyNames -> Contents] /\ s[1] \in CopyNames /\ s[2] \in 1..Sectors
  BY Types DEF Marks
<1>2. ~At("write")
  BY DEF At
<1>3. ~Meddle
  <2>1. used.edits \in Nat
    BY Types
  <2>2. Meddle => used'.edits = used.edits + 1
    <3>1. Meddle => used' = [used EXCEPT !.edits = @ + 1]
      BY DEF Meddle
    <3>2. used \in [commands: 0..MaxCommands, deaths: 0..MaxDeaths, edits: 0..MaxEdits, files: Inodes]
      BY DEF IInv, Sound, TypeOK
    <3> QED BY <3>1, <3>2
  <2> QED BY <2>1, <2>2
<1>4. ASSUME UNCHANGED disk PROVE disk'[s[1]][s[2]] = disk[s[1]][s[2]]
  BY <1>4
<1>5. ASSUME NEW x, Matches(disk[file.recs[Latest].copy], file.recs[Latest]),
             disk' = [disk EXCEPT ![file.recs[Latest].copy] = x],
             \A i \in 1..Sectors : \/ x[i] = disk[file.recs[Latest].copy][i]
                                   \/ x[i] = file.recs[Latest].pre[i]
      PROVE  disk'[s[1]][s[2]] = disk[s[1]][s[2]]
  <2> DEFINE rec == file.recs[Latest]
  <2>1. /\ rec.copy \in CopyNames
        /\ s[1] = rec.copy => rec.pre[s[2]] = disk[rec.copy][s[2]]
    BY <1>5, WriteBackFacts
  <2>2. s[1] = rec.copy => x[s[2]] = disk[rec.copy][s[2]]
    BY <1>1, <1>5, <2>1
  <2> HIDE DEF rec
  <2>3. disk' = [disk EXCEPT ![rec.copy] = x]
    BY <1>5 DEF rec
  <2> QED BY <1>1, <2>1, <2>2, <2>3
<1>6. CASE Replay
  <2>1. \/ /\ Matches(disk[file.recs[Latest].copy], file.recs[Latest])
           /\ disk' = [disk EXCEPT ![file.recs[Latest].copy] = file.recs[Latest].pre]
        \/ UNCHANGED disk
    BY <1>6 DEF Replay, WriteBack
  <2> QED BY <1>4, <1>5, <2>1
<1>7. CASE Die
  <2>1. \/ UNCHANGED disk
        \/ LET rec == file.recs[Latest] IN
           /\ Matches(disk[rec.copy], rec)
           /\ \E c \in Partial(disk[rec.copy], rec.pre) : disk' = [disk EXCEPT ![rec.copy] = c]
    BY <1>2, <1>7 DEF Die
  <2>2. ASSUME Matches(disk[file.recs[Latest].copy], file.recs[Latest]),
               NEW c \in Partial(disk[file.recs[Latest].copy], file.recs[Latest].pre),
               disk' = [disk EXCEPT ![file.recs[Latest].copy] = c]
        PROVE  disk'[s[1]][s[2]] = disk[s[1]][s[2]]
    <3>1. file.recs[Latest] \in PreImages /\ file.recs[Latest].copy \in CopyNames
      BY <2>2, WriteBackFacts
    <3>2. \A i \in 1..Sectors : \/ c[i] = disk[file.recs[Latest].copy][i]
                                \/ c[i] = file.recs[Latest].pre[i]
      BY <1>1, <2>2, <3>1, PartialIsContent DEF PreImages
    <3> QED BY <1>5, <2>2, <3>2
  <2> QED BY <1>4, <2>1, <2>2
<1>8. CASE Begin \/ DieClosing \/ UNCHANGED vars
  BY <1>4, <1>8 DEF Begin, BeginEdit, BeginNew, BeginGrow, BeginMove, Resume, Intrude,
    BeginUndo, RemoveShell, BeginAbandon, DieClosing, vars
<1>9. CASE Continue /\ ~Replay
  BY <1>2, <1>4, <1>9 DEF Continue, Record, WriteCopy, Save, Data, Drop, LeavePending,
    Clear, Retire, Release, Return, Close, CloseBusy
<1> QED BY <1>3, <1>6, <1>7, <1>8, <1>9 DEF Next

THEOREM ForeignBytesStayHolds == Spec => ForeignBytesStay
<1>1. IInv /\ [Next]_vars =>
        [At("replay") /\ used'.edits = used.edits =>
           \A s \in txn.edited : disk'[s[1]][s[2]] = disk[s[1]][s[2]]]_vars
  BY ForeignStepKept
<1> QED BY <1>1, InvariantHolds, PTL DEF Spec, ForeignBytesStay

-----------------------------------------------------------------------------
(* Inodes that are never given away again name their journals.             *)
LEMMA OwnFiles ==
  ASSUME ReuseInode = FALSE, NEW f \in Headed, file.ino = file.gen
  PROVE  f.ino = f.gen
<1>1. CASE file.kind = "none"
  <2>1. f \in NewFiles
    BY <1>1 DEF Headed
  <2>2. f = [NoFile EXCEPT !.kind = "headed", !.gen = used.files + 1, !.ino = used.files + 1]
    BY <2>1 DEF NewFiles
  <2> QED BY <2>2 DEF NoFile
<1>2. CASE file.kind # "none"
  BY <1>2 DEF Headed
<1> QED BY <1>1, <1>2

LEMMA OwnNext ==
  ASSUME ReuseInode = FALSE, IInv, OwnInodes, [Next]_vars PROVE OwnInodes'
<1>1. file.ino = file.gen /\ run.ino = run.gen
      /\ \A s \in closing : s.ino = s.gen /\ s.gen \in finished
  BY DEF OwnInodes
<1>2. file \in Files /\ run \in Runs
  BY Types
<1>3. Adopted.ino = file.ino /\ Adopted.gen = file.gen
  BY <1>2 DEF Adopted, Files
<1>4. Idle.ino = Idle.gen /\ NoFile.ino = NoFile.gen
  BY DEF Idle, NoFile
<1>5. ASSUME file' \in {file, Adopted, NoFile}, run'.ino = run'.gen,
             closing' \subseteq closing, finished' = finished
      PROVE  OwnInodes'
  BY <1>1, <1>3, <1>4, <1>5 DEF OwnInodes
<1>6. Advance => run'.ino = run.ino /\ run'.gen = run.gen
  BY <1>2 DEF Advance, Runs
<1>7. CASE BeginEdit \/ BeginNew \/ BeginGrow \/ BeginMove \/ Resume
  <2>1. PICK p, job : Start(p, job) /\ UNCHANGED <<disk, ckpt, closing, history>>
    BY <1>7, Begins
  <2>2. run' = [Idle EXCEPT !.busy = TRUE, !.todo = p, !.job = job, !.gen = file.gen, !.ino = file.ino]
        /\ file' = Adopted
    BY <2>1 DEF Start
  <2>3. run'.ino = run'.gen
    BY <1>1, <2>2 DEF Idle
  <2> QED BY <1>5, <2>1, <2>2, <2>3 DEF history
<1>8. CASE Intrude \/ RemoveShell \/ BeginUndo \/ BeginAbandon
  <2>1. BeginUndo \/ BeginAbandon => run'.ino = run'.gen
    BY DEF BeginUndo, BeginAbandon, Idle
  <2> QED BY <1>1, <1>5, <1>8, <2>1
    DEF Intrude, RemoveShell, BeginUndo, BeginAbandon, history
<1>9. CASE Record
  <2>1. PICK f \in Headed :
          /\ file' = With(f, NextRecord)
          /\ run' = [run EXCEPT !.gen = f.gen, !.ino = f.ino, !.recorded = At("write"),
                                !.todo = IF At("barrier") THEN Tail(@) ELSE @]
    BY <1>9 DEF Record
  <2>2. Appending /\ UNCHANGED <<closing, history>>
    BY <1>9 DEF Record
  <2>3. f.ino = f.gen /\ f \in Files
    BY <1>1, <2>2, OwnFiles, HeadedFacts
  <2>4. file'.ino = file'.gen /\ run'.ino = run'.gen
    BY <1>2, <2>1, <2>3 DEF With, Files, Runs
  <2> QED BY <1>1, <2>2, <2>4 DEF OwnInodes, history
<1>10. CASE WriteCopy \/ Save \/ Data \/ Drop \/ LeavePending \/ Clear \/ Retire \/ Release
  BY <1>1, <1>4, <1>5, <1>6, <1>10
  DEF WriteCopy, Save, Data, Drop, LeavePending, Clear, Retire, Release, history
<1>11. CASE Replay
  <2>1. run'.ino = run'.gen
    <3>1. Advance \/ run' = Idle \/ run' = [run EXCEPT !.todo[1].left = @ \ {Latest}]
      BY <1>11 DEF Replay, Replayed
    <3> QED BY <1>1, <1>2, <1>4, <1>6, <3>1 DEF Runs
  <2> QED BY <1>5, <1>11, <2>1 DEF Replay, history
<1>12. CASE Return
  <2>1. /\ run' = Idle /\ file' = file
        /\ closing' = IF run.gen = 0 THEN closing ELSE closing \cup {[gen |-> run.gen, ino |-> run.ino]}
        /\ finished' = IF run.gen = 0 THEN finished ELSE finished \cup {run.gen}
    BY <1>12 DEF Return
  <2> QED BY <1>1, <1>4, <2>1 DEF OwnInodes
<1>13. CASE \E s \in closing : Close(s) \/ CloseBusy(s)
  BY <1>1, <1>5, <1>13 DEF Close, CloseBusy, history
<1>14. CASE Die
  <2>1. /\ run' = Idle /\ closing' \subseteq closing /\ finished' = finished
        /\ \/ Appending /\ file' \in Interrupted
           \/ file' = file
    BY <1>14 DEF Die, history
  <2>2. ASSUME Appending, file' \in Interrupted PROVE file'.ino = file'.gen
    <3>1. ASSUME NEW f \in Headed PROVE f.ino = f.gen /\ f \in Files
      BY <1>1, <2>2, OwnFiles, HeadedFacts
    <3>2. \/ \E f \in Headed : file' = [f EXCEPT !.torn = TRUE] \/ file' = With(f, NextRecord)
          \/ file' \in {file, NoFile}
          \/ /\ file.kind = "none"
             /\ \E f \in NewFiles, k \in {"headed", "empty", "stub"} : file' = [f EXCEPT !.kind = k]
      BY <2>2 DEF Interrupted
    <3>3. CASE \E f \in Headed : file' = [f EXCEPT !.torn = TRUE] \/ file' = With(f, NextRecord)
      BY <3>1, <3>3 DEF With, Files
    <3>4. CASE file' \in {file, NoFile}
      BY <1>1, <1>4, <3>4
    <3>5. CASE /\ file.kind = "none"
               /\ \E f \in NewFiles, k \in {"headed", "empty", "stub"} : file' = [f EXCEPT !.kind = k]
      BY <3>1, <3>5 DEF Headed, Files
    <3> QED BY <3>2, <3>3, <3>4, <3>5
  <2>3. file'.ino = file'.gen
    BY <1>1, <2>1, <2>2
  <2> QED BY <1>1, <1>4, <2>1, <2>3 DEF OwnInodes
<1>15. CASE DieClosing \/ Meddle \/ UNCHANGED vars
  BY <1>1, <1>5, <1>15 DEF DieClosing, Meddle, vars, history
<1> QED BY <1>7, <1>8, <1>9, <1>10, <1>11, <1>12, <1>13, <1>14, <1>15
  DEF Next, Begin, Continue

LEMMA Grown ==
  ASSUME NEW recs \in Seq(Records), NEW r \in Records
  PROVE  IsPrefix(recs, recs) /\ IsPrefix(recs, Append(recs, r))
<1>1. /\ Append(recs, r) \in Seq(Records) /\ Len(recs) \in Nat
      /\ Len(Append(recs, r)) = Len(recs) + 1
      /\ \A k \in 1..Len(recs) : Append(recs, r)[k] = recs[k]
  BY AppendFacts
<1>2. SubSeq(recs, 1, Len(recs)) = recs
  BY <1>1
<1>3. SubSeq(Append(recs, r), 1, Len(recs)) = recs
  BY <1>1
<1> QED BY <1>1, <1>2, <1>3 DEF IsPrefix

(* A journal with records is not cut, replaced or removed before its own   *)
(* transaction has finished, undo has replayed it or abandon renames it.   *)
LEMMA RecordsKept ==
  ASSUME ReuseInode = FALSE, IInv, OwnInodes, [Next]_vars, Class(file) = "records"
  PROVE  \/ file'.gen = file.gen /\ IsPrefix(file.recs, file'.recs)
         \/ file.gen \in finished \/ At("clear") \/ At("retire")
<1>1. file.recs # <<>> /\ file.kind = "headed"
  BY Recorded
<1>2. file \in Files /\ file.recs \in Seq(Records)
  BY Types
<1>3. Headed = {file}
  BY <1>1 DEF Headed
<1>4. ASSUME file'.recs = file.recs, file'.gen = file.gen
      PROVE  file'.gen = file.gen /\ IsPrefix(file.recs, file'.recs)
  <2>1. Barrier \in Records
    BY DEF Records
  <2> QED BY <1>2, <1>4, <2>1, Grown
<1>5. Adopted.recs = file.recs /\ Adopted.gen = file.gen
  BY AdoptedFacts
<1>6. ASSUME Appending, file' = With(file, NextRecord)
      PROVE  file'.gen = file.gen /\ IsPrefix(file.recs, file'.recs)
  <2>1. NextRecord \in Records
    BY <1>6, NextRecordFacts
  <2>2. file'.recs = Append(file.recs, NextRecord) /\ file'.gen = file.gen
    BY <1>2, <1>6, <2>1, WithFacts
  <2> QED BY <1>2, <2>1, <2>2, Grown
<1>7. CASE BeginEdit \/ BeginNew \/ BeginGrow \/ BeginMove \/ Resume
  <2>1. file' = Adopted
    BY <1>7, Begins DEF Start
  <2> QED BY <1>4, <1>5, <2>1
<1>8. CASE Intrude \/ BeginUndo \/ BeginAbandon
  BY <1>4, <1>5, <1>8 DEF Intrude, BeginUndo, BeginAbandon
<1>9. CASE RemoveShell
  BY <1>9 DEF RemoveShell
<1>10. CASE Record
  <2>1. Appending /\ file' = With(file, NextRecord)
    BY <1>3, <1>10 DEF Record
  <2> QED BY <1>6, <2>1
<1>11. CASE WriteCopy \/ Save \/ Data \/ Drop \/ LeavePending \/ Replay \/ Release \/ Return
  BY <1>4, <1>11 DEF WriteCopy, Save, Data, Drop, LeavePending, Replay, Release, Return
<1>12. CASE Clear \/ Retire
  BY <1>12 DEF Clear, Retire
<1>13. CASE \E s \in closing : Close(s) \/ CloseBusy(s)
  <2>1. PICK s \in closing : Close(s) \/ CloseBusy(s)
    BY <1>13
  <2>2. CASE file' = file
    BY <1>4, <2>2
  <2>3. CASE file.ino = s.ino
    BY <2>3 DEF OwnInodes
  <2> QED BY <2>1, <2>2, <2>3 DEF Close, CloseBusy, StillNames
<1>14. CASE Die
  <2>1. \/ Appending /\ file' \in Interrupted
        \/ file' = file
    BY <1>14 DEF Die
  <2>2. ASSUME Appending, file' \in Interrupted
        PROVE  file'.gen = file.gen /\ IsPrefix(file.recs, file'.recs)
    <3>1. \/ \E f \in Headed : file' = [f EXCEPT !.torn = TRUE] \/ file' = With(f, NextRecord)
          \/ file' = file
      BY <1>1, <2>2 DEF Interrupted
    <3>2. \/ file' = [file EXCEPT !.torn = TRUE]
          \/ file' = With(file, NextRecord)
          \/ file' = file
      BY <1>3, <3>1
    <3> QED BY <1>2, <1>4, <1>6, <2>2, <3>2 DEF Files
  <2> QED BY <1>4, <2>1, <2>2
<1>15. CASE DieClosing \/ Meddle \/ UNCHANGED vars
  BY <1>4, <1>15 DEF DieClosing, Meddle, vars
<1> QED BY <1>7, <1>8, <1>9, <1>10, <1>11, <1>12, <1>13, <1>14, <1>15
  DEF Next, Begin, Continue

THEOREM RecordsStayHolds == ASSUME ReuseInode = FALSE PROVE Spec => RecordsStay
<1>1. Init => OwnInodes
  BY DEF Init, OwnInodes, NoFile, Idle
<1>2. IInv /\ OwnInodes /\ [Next]_vars => OwnInodes'
  BY OwnNext
<1>3. IInv /\ OwnInodes /\ [Next]_vars =>
        [Class(file) = "records" =>
           \/ file'.gen = file.gen /\ IsPrefix(file.recs, file'.recs)
           \/ file.gen \in finished \/ At("clear") \/ At("retire")]_vars
  BY RecordsKept
<1> QED BY <1>1, <1>2, <1>3, InvariantHolds, PTL DEF Spec, RecordsStay

-----------------------------------------------------------------------------
(* The way out stays open.  The invariant has three more parts.            *)
(* PlansEnd: a command writes its copies in pairs and drops the checkpoint *)
(* last, behind a barrier; undo and abandon take the journal first.        *)
Put(c, v) == [op |-> "write", copy |-> c, to |-> v]
Paired(todo) ==
  \A k \in 1..Len(todo) : todo[k].op = "write" =>
    IF todo[k].copy = "backup" THEN k < Len(todo) /\ todo[k + 1] = Put("primary", todo[k].to)
    ELSE k = 1 \/ todo[k - 1] = Put("backup", todo[k].to)
Behind(todo, k, ops) == \E l \in 1..k - 1 : todo[l].op \in ops
Ends(todo, recs) ==
  \A k \in 1..Len(todo) :
    /\ todo[k].op = "drop" => k = Len(todo)
    /\ todo[k].op = "drop" /\ Intact(recs) => Behind(todo, k, {"barrier"})
    /\ todo[k].op = "release" /\ recs # <<>> => Behind(todo, k, {"clear", "retire"})
PlansEnd == (Working => Paired(run.todo)) /\ Ends(run.todo, file.recs)

(* JobStands: the table that is read is the job's.  The primary holds one  *)
(* of its two tables, or the backup does and no write of the job will tear *)
(* the backup before the primary is whole.                                 *)
Known(c, j) == c \in {Image(j.from), Image(j.to)}
Stands(d, j) ==
  \/ Known(d["primary"], j)
  \/ /\ ~Whole(d["primary"])
     /\ d["backup"] = Image(j.to) \/ (j.kind = "grow" /\ d["backup"] = Image(j.from))
JobWrites(todo, j, saved) ==
  \A k \in 1..Len(todo) : todo[k].op = "write" =>
    /\ todo[k].to \in {j.from, j.to}
    /\ j.kind # "grow" /\ (saved \/ Behind(todo, k, {"save"})) => todo[k].to = j.to
JobDisk(todo, d, j) ==
  \A k \in 1..Len(todo) :
    /\ todo[k].op = "write" /\ ~Behind(todo, k, {"write"}) =>
         \/ d["backup"] = Image(todo[k].to)
         \/ todo[k].copy = "backup" /\ Known(d["primary"], j)
    /\ todo[k].op = "save" => Stands(d, j) \/ Behind(todo, k, {"write"})
JobStands ==
  used.edits = 0 /\ ~rewound =>
    /\ ckpt # NoJob => Stands(disk, ckpt)
    /\ Working /\ run.job # NoJob =>
         JobWrites(run.todo, run.job, ckpt # NoJob) /\ JobDisk(run.todo, disk, run.job)

(* RecordsFit: as long as undo is what the user is told to run, a copy has *)
(* at most two records, the second of what the first left, and holds what  *)
(* the last of them says or what the first one found.                      *)
LastOf(recs, c, x) == x \in Of(recs, c) /\ \A y \in Of(recs, c) : y <= x
Chained(recs, c) ==
  \A x, y \in Of(recs, c) : x < y =>
    recs[y].pre = recs[x].after /\ \A z \in Of(recs, c) : z \in {x, y}
UndoFits(recs, d, c) ==
  /\ Chained(recs, c)
  /\ \A x \in DOMAIN recs : LastOf(recs, c, x) =>
       Matches(d[c], recs[x]) \/ d[c] = First(recs, c).pre

(* The writes of a copy that are still to be recorded.                     *)
Due(todo, recorded, c) ==
  {k \in 1..Len(todo) : todo[k].op = "write" /\ todo[k].copy = c /\ (k = 1 => ~recorded)}
AtMostTwo(todo, recorded, c) ==
  \A k, l, m \in Due(todo, recorded, c) : k # l => m \in {k, l}
WorkFits(recs, todo, recorded, d, c) ==
  /\ Chained(recs, c)
  /\ \A x \in DOMAIN recs : LastOf(recs, c, x) =>
       IF recorded /\ todo[1].copy = c
       THEN recs[x].pre = d[c] /\ recs[x].after = Image(todo[1].to)
       ELSE d[c] = recs[x].after
  /\ AtMostTwo(todo, recorded, c)
  /\ \A k, l \in Due(todo, recorded, c) : k # l => Of(recs, c) = {}
  /\ Due(todo, recorded, c) # {} => \A x, y \in Of(recs, c) : x = y
RecordsFit ==
  used.edits = 0 /\ ckpt = NoJob /\ Intact(file.recs) => \A c \in CopyNames :
    IF Working THEN WorkFits(file.recs, run.todo, run.recorded, disk, c)
    ELSE UndoFits(file.recs, disk, c)

AInv == (ckpt = NoJob => ~rewound) /\ PlansEnd /\ JobStands /\ RecordsFit

-----------------------------------------------------------------------------
(* The rest of a plan.                                                     *)
LEMMA TailBehind ==
  ASSUME NEW todo \in Seq(Steps), todo # <<>>, NEW k \in 1..Len(todo) - 1, NEW ops
  PROVE  /\ k + 1 \in 1..Len(todo) /\ Tail(todo)[k] = todo[k + 1]
         /\ Behind(Tail(todo), k, ops) => Behind(todo, k + 1, ops)
         /\ Behind(todo, k + 1, ops) => Behind(Tail(todo), k, ops) \/ todo[1].op \in ops
<1>1. /\ Len(todo) \in Nat \ {0} /\ Len(Tail(todo)) = Len(todo) - 1
      /\ \A i \in 1..Len(todo) - 1 : Tail(todo)[i] = todo[i + 1] /\ i + 1 \in 1..Len(todo)
  BY TailFacts
<1>2. ASSUME Behind(Tail(todo), k, ops) PROVE Behind(todo, k + 1, ops)
  <2>1. PICK l \in 1..k - 1 : Tail(todo)[l].op \in ops
    BY <1>2 DEF Behind
  <2>2. l + 1 \in 1..(k + 1) - 1 /\ l \in 1..Len(todo) - 1
    BY <1>1
  <2>3. todo[l + 1].op \in ops
    BY <1>1, <2>1, <2>2
  <2> QED BY <2>2, <2>3 DEF Behind
<1>3. ASSUME Behind(todo, k + 1, ops), todo[1].op \notin ops PROVE Behind(Tail(todo), k, ops)
  <2>1. PICK l \in 1..(k + 1) - 1 : todo[l].op \in ops
    BY <1>3 DEF Behind
  <2>2. l # 1
    BY <1>3, <2>1
  <2>3. l - 1 \in 1..k - 1 /\ l - 1 \in 1..Len(todo) - 1 /\ (l - 1) + 1 = l
    BY <1>1, <2>2
  <2>4. Tail(todo)[l - 1].op \in ops
    BY <1>1, <2>1, <2>3
  <2> QED BY <2>3, <2>4 DEF Behind
<1> QED BY <1>1, <1>2, <1>3

LEMMA TailPaired ==
  ASSUME NEW todo \in Seq(Steps), todo # <<>>, Paired(todo) PROVE Paired(Tail(todo))
<1>1. /\ Len(todo) \in Nat \ {0} /\ Len(Tail(todo)) = Len(todo) - 1
      /\ \A i \in 1..Len(todo) - 1 : Tail(todo)[i] = todo[i + 1] /\ i + 1 \in 1..Len(todo)
  BY TailFacts
<1>2. ASSUME NEW k \in 1..Len(todo) - 1, Tail(todo)[k].op = "write"
      PROVE  IF Tail(todo)[k].copy = "backup"
             THEN k < Len(todo) - 1 /\ Tail(todo)[k + 1] = Put("primary", Tail(todo)[k].to)
             ELSE k = 1 \/ Tail(todo)[k - 1] = Put("backup", Tail(todo)[k].to)
  <2>1. k + 1 \in 1..Len(todo) /\ Tail(todo)[k] = todo[k + 1]
    BY <1>1
  <2>2. CASE todo[k + 1].copy = "backup"
    <3>1. k + 1 < Len(todo) /\ todo[(k + 1) + 1] = Put("primary", todo[k + 1].to)
      BY <1>2, <2>1, <2>2 DEF Paired
    <3>2. k + 1 \in 1..Len(todo) - 1 /\ k < Len(todo) - 1
      BY <1>1, <3>1
    <3> QED BY <1>1, <2>1, <2>2, <3>1, <3>2
  <2>3. CASE todo[k + 1].copy # "backup" /\ k # 1
    <3>1. todo[(k + 1) - 1] = Put("backup", todo[k + 1].to)
      BY <1>2, <2>1, <2>3 DEF Paired
    <3>2. (k + 1) - 1 = k /\ k - 1 \in 1..Len(todo) - 1 /\ (k - 1) + 1 = k
      BY <1>1, <2>3
    <3>3. Tail(todo)[k - 1] = todo[k]
      BY <1>1, <3>2
    <3> QED BY <2>1, <2>3, <3>1, <3>2, <3>3
  <2> QED BY <2>1, <2>2, <2>3
<1> QED BY <1>1, <1>2 DEF Paired

LEMMA TailEndsToo ==
  ASSUME NEW todo \in Seq(Steps), todo # <<>>, NEW recs, NEW new, Ends(todo, recs),
         Intact(new) => Intact(recs) /\ todo[1].op # "barrier",
         \/ new # <<>> => recs # <<>> /\ todo[1].op \notin {"clear", "retire"}
         \/ Only(todo, WorkOps)
  PROVE  Ends(Tail(todo), new)
<1>1. Len(todo) \in Nat \ {0} /\ Len(Tail(todo)) = Len(todo) - 1
  BY TailFacts
<1>2. ASSUME NEW k \in 1..Len(todo) - 1
      PROVE  /\ Tail(todo)[k].op = "drop" => k = Len(todo) - 1
             /\ Tail(todo)[k].op = "drop" /\ Intact(new) => Behind(Tail(todo), k, {"barrier"})
             /\ Tail(todo)[k].op = "release" /\ new # <<>> =>
                  Behind(Tail(todo), k, {"clear", "retire"})
  <2>1. k + 1 \in 1..Len(todo) /\ Tail(todo)[k] = todo[k + 1]
    BY TailBehind
  <2>2. ASSUME Tail(todo)[k].op = "drop", Intact(new) PROVE Behind(Tail(todo), k, {"barrier"})
    <3>1. Behind(todo, k + 1, {"barrier"}) /\ todo[1].op \notin {"barrier"}
      BY <2>1, <2>2 DEF Ends
    <3> QED BY <3>1, TailBehind
  <2>3. ASSUME Tail(todo)[k].op = "release", new # <<>>
        PROVE  Behind(Tail(todo), k, {"clear", "retire"})
    <3>1. ~Only(todo, WorkOps)
      BY <2>1, <2>3 DEF Only, WorkOps
    <3>2. Behind(todo, k + 1, {"clear", "retire"}) /\ todo[1].op \notin {"clear", "retire"}
      BY <2>1, <2>3, <3>1 DEF Ends
    <3> QED BY <3>2, TailBehind
  <2>4. ASSUME Tail(todo)[k].op = "drop" PROVE k = Len(todo) - 1
    <3>1. todo[k + 1].op = "drop" /\ k + 1 \in 1..Len(todo)
      BY <2>1, <2>4
    <3>2. k + 1 = Len(todo)
      BY <3>1 DEF Ends
    <3>3. k \in Int /\ Len(todo) \in Int
      BY <1>1
    <3> QED BY <3>2, <3>3
  <2> QED BY <2>2, <2>3, <2>4
<1> QED BY <1>1, <1>2 DEF Ends

LEMMA TailJobWrites ==
  ASSUME NEW todo \in Seq(Steps), todo # <<>>, NEW j, NEW saved, NEW now,
         JobWrites(todo, j, saved), now => saved \/ todo[1].op = "save"
  PROVE  JobWrites(Tail(todo), j, now)
<1>1. Len(todo) \in Nat \ {0} /\ Len(Tail(todo)) = Len(todo) - 1
  BY TailFacts
<1>2. ASSUME NEW k \in 1..Len(todo) - 1, Tail(todo)[k].op = "write"
      PROVE  /\ Tail(todo)[k].to \in {j.from, j.to}
             /\ j.kind # "grow" /\ (now \/ Behind(Tail(todo), k, {"save"})) =>
                  Tail(todo)[k].to = j.to
  <2>1. /\ k + 1 \in 1..Len(todo) /\ Tail(todo)[k] = todo[k + 1]
        /\ Behind(Tail(todo), k, {"save"}) => Behind(todo, k + 1, {"save"})
    BY TailBehind
  <2>2. todo[1].op = "save" => Behind(todo, k + 1, {"save"})
    <3>1. 1 \in 1..(k + 1) - 1
      BY <1>1
    <3> QED BY <3>1 DEF Behind
  <2> QED BY <1>2, <2>1, <2>2 DEF JobWrites
<1> QED BY <1>1, <1>2 DEF JobWrites

LEMMA TailJobDisk ==
  ASSUME NEW todo \in Seq(Steps), todo # <<>>, NEW d, NEW j,
         JobDisk(todo, d, j), todo[1].op # "write"
  PROVE  JobDisk(Tail(todo), d, j)
<1>1. Len(todo) \in Nat \ {0} /\ Len(Tail(todo)) = Len(todo) - 1
  BY TailFacts
<1>2. ASSUME NEW k \in 1..Len(todo) - 1
      PROVE  /\ k + 1 \in 1..Len(todo) /\ Tail(todo)[k] = todo[k + 1]
             /\ Behind(Tail(todo), k, {"write"}) <=> Behind(todo, k + 1, {"write"})
  BY TailBehind
<1> QED BY <1>1, <1>2 DEF JobDisk

(* A write of one copy of a pair is done.                                  *)
LEMMA WrittenJobDisk ==
  ASSUME NEW todo \in Seq(Steps), todo # <<>>, NEW d \in [CopyNames -> Contents], NEW j,
         NEW saved, JobDisk(todo, d, j), JobWrites(todo, j, saved), Paired(todo),
         todo[1].op = "write"
  PROVE  JobDisk(Tail(todo), [d EXCEPT ![todo[1].copy] = Image(todo[1].to)], j)
<1> DEFINE v == todo[1].to
           e == [d EXCEPT ![todo[1].copy] = Image(v)]
<1>1. /\ Len(todo) \in Nat \ {0} /\ Len(Tail(todo)) = Len(todo) - 1 /\ todo[1] \in Steps
      /\ 1 \in 1..Len(todo)
      /\ \A i \in 1..Len(todo) - 1 : Tail(todo)[i] = todo[i + 1] /\ i + 1 \in 1..Len(todo)
      /\ \A i \in 1..Len(todo) : todo[i] \in Steps
  BY TailFacts
<1>2. todo[1].copy \in {"backup", "primary"} /\ v \in {j.from, j.to}
  BY <1>1, StepFacts, Names DEF JobWrites
<1>3. CASE todo[1].copy = "backup"
  <2>1. 1 < Len(todo) /\ todo[2] = Put("primary", v)
    BY <1>1, <1>3 DEF Paired
  <2>2. Tail(todo)[1] = Put("primary", v) /\ Tail(todo)[1].op = "write" /\ Tail(todo)[1].to = v
    BY <1>1, <2>1 DEF Put
  <2>3. e["backup"] = Image(v)
    BY <1>3, Names
  <2>4. ASSUME NEW k \in 1..Len(todo) - 1, k # 1 PROVE Behind(Tail(todo), k, {"write"})
    <3>1. 1 \in 1..k - 1
      BY <1>1, <2>4
    <3> QED BY <2>2, <3>1 DEF Behind
  <2> QED BY <1>1, <2>2, <2>3, <2>4 DEF JobDisk
<1>4. CASE todo[1].copy = "primary"
  <2>1. Known(e["primary"], j)
    BY <1>2, <1>4, Names DEF Known
  <2>2. Stands(e, j)
    BY <2>1 DEF Stands
  <2>3. ASSUME NEW k \in 1..Len(todo) - 1, Tail(todo)[k].op = "write",
               ~Behind(Tail(todo), k, {"write"})
        PROVE  Tail(todo)[k].copy = "backup"
    <3>1. k + 1 \in 1..Len(todo) /\ Tail(todo)[k] = todo[k + 1] /\ k + 1 # 1 /\ (k + 1) - 1 = k
      BY <1>1
    <3>2. todo[k + 1].copy # "backup" => todo[k] = Put("backup", todo[k + 1].to)
      BY <2>3, <3>1 DEF Paired
    <3>3. CASE k = 1
      BY <1>4, <3>1, <3>2, <3>3 DEF Put
    <3>4. CASE k # 1
      <4>1. k - 1 \in 1..k - 1 /\ k - 1 \in 1..Len(todo) - 1 /\ (k - 1) + 1 = k
        BY <1>1, <3>4
      <4>2. Tail(todo)[k - 1] = todo[k]
        BY <1>1, <4>1
      <4>3. todo[k].op # "write"
        BY <2>3, <4>1, <4>2 DEF Behind
      <4> QED BY <3>1, <3>2, <4>3 DEF Put
    <3> QED BY <3>3, <3>4
  <2> QED BY <1>1, <2>1, <2>2, <2>3 DEF JobDisk
<1> QED BY <1>2, <1>3, <1>4

-----------------------------------------------------------------------------
(* The plans commands start with.                                          *)
(* What follows the repair: one pair of writes, of one table, ...          *)
Body(q, t) ==
  /\ q \in Seq(Steps) /\ Only(q, WorkOps) /\ Paired(q)
  /\ \A k \in 1..Len(q) : q[k].op = "write" =>
       q[k].to = t /\ (k = 1 => q[k].copy = "backup")
  /\ \A k, l \in 1..Len(q) :
       q[k].op = "write" /\ q[l].op = "write" /\ q[k].copy = q[l].copy => k = l
  /\ \A k \in 1..Len(q) : q[k].op = "drop" => k = Len(q) /\ Behind(q, k, {"barrier"})
  /\ \A k \in 1..Len(q) : q[k].op = "save" => k = 1

LEMMA PutFacts ==
  ASSUME NEW v \in Readable
  PROVE  /\ Put("backup", v) \in Steps /\ Put("primary", v) \in Steps
         /\ Put("backup", v).op = "write" /\ Put("primary", v).op = "write"
         /\ Put("backup", v).copy = "backup" /\ Put("primary", v).copy = "primary"
         /\ Put("backup", v).to = v /\ Put("primary", v).to = v
         /\ Writes(v) = <<Put("backup", v), Put("primary", v)>>
<1>1. Put("backup", v) \in Steps /\ Put("primary", v) \in Steps
  BY Names DEF Put, Steps
<1>2. Writes(v) = <<Put("backup", v), Put("primary", v)>>
  BY DEF Writes, Put, Order
<1> QED BY <1>1, <1>2 DEF Put

LEMMA PairBody == ASSUME NEW v \in Readable PROVE Body(Writes(v), v)
<1> DEFINE a == Put("backup", v)
           b == Put("primary", v)
           q == Writes(v)
<1>1. /\ a \in Steps /\ b \in Steps /\ a.op = "write" /\ b.op = "write"
      /\ a.copy = "backup" /\ b.copy = "primary" /\ a.to = v /\ b.to = v /\ q = <<a, b>>
      /\ a = Put("backup", v) /\ b = Put("primary", v)
  BY PutFacts
<1> HIDE DEF a, b, q
<1>2. q \in Seq(Steps) /\ Len(q) = 2 /\ q[1] = a /\ q[2] = b
  BY <1>1
<1>3. \A k \in 1..2 : k = 1 \/ k = 2
  OBVIOUS
<1>4. Only(q, WorkOps)
  BY <1>1, <1>2, <1>3 DEF Only, WorkOps
<1>5. Paired(q)
  <2>1. q[1 + 1] = Put("primary", q[1].to) /\ q[2 - 1] = Put("backup", q[2].to)
    BY <1>1, <1>2
  <2> QED BY <1>1, <1>2, <1>3, <2>1 DEF Paired
<1>6. Body(q, v)
  BY <1>1, <1>2, <1>3, <1>4, <1>5 DEF Body
<1> QED BY <1>6 DEF q

LEMMA PlainBody ==
  ASSUME NEW v
  PROVE  Body(<<Step("barrier"), Step("data"), Step("drop")>>, v)
<1> DEFINE q == <<Step("barrier"), Step("data"), Step("drop")>>
<1>1. /\ q \in Seq(Steps) /\ Len(q) = 3
      /\ q[1].op = "barrier" /\ q[2].op = "data" /\ q[3].op = "drop"
  BY BareSteps
<1> HIDE DEF q
<1>2. \A k \in 1..3 : k = 1 \/ k = 2 \/ k = 3
  OBVIOUS
<1>3. \A k \in 1..3 : q[k].op # "write" /\ q[k].op # "save" /\ q[k].op \in WorkOps
  BY <1>1, <1>2 DEF WorkOps
<1>4. Behind(q, 3, {"barrier"})
  <2>1. 1 \in 1..3 - 1
    OBVIOUS
  <2> QED BY <1>1, <2>1 DEF Behind
<1>5. Body(q, v)
  BY <1>1, <1>2, <1>3, <1>4 DEF Body, Only, Paired
<1> QED BY <1>5 DEF q

LEMMA GrowBody ==
  ASSUME NEW v \in Readable
  PROVE  LET q == (<<Step("save")>> \o Writes(v))
                    \o <<Step("barrier"), Step("data"), Step("drop")>> IN
         Body(q, v) /\ q # <<>> /\ <<Step("save")>> \o Writes(v) \in Seq(Steps)
<1> DEFINE a == Put("backup", v)
           b == Put("primary", v)
           w == Writes(v)
           s == <<Step("save")>>
           sw == s \o w
           z == <<Step("barrier"), Step("data"), Step("drop")>>
           q == sw \o z
<1>1. /\ a \in Steps /\ b \in Steps /\ a.op = "write" /\ b.op = "write"
      /\ a.copy = "backup" /\ b.copy = "primary" /\ a.to = v /\ b.to = v /\ w = <<a, b>>
      /\ a = Put("backup", v) /\ b = Put("primary", v)
  BY PutFacts
<1>2. s \in Seq(Steps) /\ Len(s) = 1 /\ s[1].op = "save"
  BY BareSteps
<1>3. /\ z \in Seq(Steps) /\ Len(z) = 3
      /\ z[1].op = "barrier" /\ z[2].op = "data" /\ z[3].op = "drop"
  BY BareSteps
<1> HIDE DEF a, b, w, s, z
<1>4. w \in Seq(Steps) /\ Len(w) = 2 /\ w[1] = a /\ w[2] = b
  BY <1>1
<1>5. sw \in Seq(Steps) /\ Len(sw) = 3 /\ sw[1].op = "save" /\ sw[2] = a /\ sw[3] = b
  <2>1. /\ sw \in Seq(Steps) /\ Len(sw) = 3
        /\ \A i \in 1..3 : sw[i] = IF i <= 1 THEN s[i] ELSE w[i - 1]
    <3>1. Len(s) = 1 /\ Len(w) = 2 /\ Len(s) + Len(w) = 3
          /\ s \in Seq(Steps) /\ w \in Seq(Steps)
      BY <1>2, <1>4
    <3>2. /\ s \o w \in Seq(Steps) /\ Len(s \o w) = Len(s) + Len(w)
          /\ \A i \in 1..Len(s) + Len(w) :
               (s \o w)[i] = IF i <= Len(s) THEN s[i] ELSE w[i - Len(s)]
      BY <3>1, ConcatProperties
    <3> QED BY <3>1, <3>2
  <2>2. 2 - 1 = 1 /\ 3 - 1 = 2
    OBVIOUS
  <2>3. sw[1] = s[1]
    BY <2>1
  <2>4. sw[2] = w[1] /\ sw[3] = w[2]
    BY <2>1, <2>2
  <2> QED BY <1>2, <1>4, <2>1, <2>3, <2>4
<1> HIDE DEF sw
<1>6. /\ q \in Seq(Steps) /\ Len(q) = 6 /\ q[1].op = "save" /\ q[2] = a /\ q[3] = b
      /\ q[4].op = "barrier" /\ q[5].op = "data" /\ q[6].op = "drop"
  <2>1. /\ q \in Seq(Steps) /\ Len(q) = 6
        /\ \A i \in 1..6 : q[i] = IF i <= 3 THEN sw[i] ELSE z[i - 3]
    <3>1. Len(sw) = 3 /\ Len(z) = 3 /\ Len(sw) + Len(z) = 6
          /\ sw \in Seq(Steps) /\ z \in Seq(Steps)
      BY <1>3, <1>5
    <3>2. /\ sw \o z \in Seq(Steps) /\ Len(sw \o z) = Len(sw) + Len(z)
          /\ \A i \in 1..Len(sw) + Len(z) :
               (sw \o z)[i] = IF i <= Len(sw) THEN sw[i] ELSE z[i - Len(sw)]
      BY <3>1, ConcatProperties
    <3> QED BY <3>1, <3>2
  <2>2. 4 - 3 = 1 /\ 5 - 3 = 2 /\ 6 - 3 = 3
    OBVIOUS
  <2>3. q[1] = sw[1] /\ q[2] = sw[2] /\ q[3] = sw[3]
    BY <2>1
  <2>4. q[4] = z[1] /\ q[5] = z[2] /\ q[6] = z[3]
    BY <2>1, <2>2
  <2> QED BY <1>3, <1>5, <2>1, <2>3, <2>4
<1> HIDE DEF q
<1>7. \A k \in 1..6 : k = 1 \/ k = 2 \/ k = 3 \/ k = 4 \/ k = 5 \/ k = 6
  OBVIOUS
<1>8. \A k \in 1..6 : q[k].op = "write" => k = 2 \/ k = 3
  BY <1>6, <1>7
<1>9. Only(q, WorkOps)
  BY <1>1, <1>6, <1>7 DEF Only, WorkOps
<1>10. Paired(q)
  <2>1. q[2 + 1] = Put("primary", q[2].to) /\ q[3 - 1] = Put("backup", q[3].to)
    BY <1>1, <1>6
  <2> QED BY <1>1, <1>6, <1>8, <2>1 DEF Paired
<1>11. Behind(q, 6, {"barrier"})
  <2>1. 4 \in 1..6 - 1
    OBVIOUS
  <2> QED BY <1>6, <2>1 DEF Behind
<1>12. \A k \in 1..6 : (q[k].op = "drop" => k = 6) /\ (q[k].op = "save" => k = 1)
  BY <1>1, <1>6, <1>7
<1>13. Body(q, v) /\ q # <<>>
  BY <1>1, <1>6, <1>8, <1>9, <1>10, <1>11, <1>12 DEF Body
<1> QED BY <1>5, <1>13 DEF q, sw, s, w, z

LEMMA MoveBody ==
  ASSUME NEW v \in Readable
  PROVE  LET q == (<<Step("save"), Step("barrier"), Step("data")>> \o Writes(v))
                    \o <<Step("drop")>> IN
         /\ Body(q, v) /\ q # <<>>
         /\ <<Step("save"), Step("barrier"), Step("data")>> \o Writes(v) \in Seq(Steps)
<1> DEFINE a == Put("backup", v)
           b == Put("primary", v)
           w == Writes(v)
           s == <<Step("save"), Step("barrier"), Step("data")>>
           sw == s \o w
           z == <<Step("drop")>>
           q == sw \o z
<1>1. /\ a \in Steps /\ b \in Steps /\ a.op = "write" /\ b.op = "write"
      /\ a.copy = "backup" /\ b.copy = "primary" /\ a.to = v /\ b.to = v /\ w = <<a, b>>
      /\ a = Put("backup", v) /\ b = Put("primary", v)
  BY PutFacts
<1>2. /\ s \in Seq(Steps) /\ Len(s) = 3
      /\ s[1].op = "save" /\ s[2].op = "barrier" /\ s[3].op = "data"
  BY BareSteps
<1>3. z \in Seq(Steps) /\ Len(z) = 1 /\ z[1].op = "drop"
  BY BareSteps
<1> HIDE DEF a, b, w, s, z
<1>4. w \in Seq(Steps) /\ Len(w) = 2 /\ w[1] = a /\ w[2] = b
  BY <1>1
<1>5. /\ sw \in Seq(Steps) /\ Len(sw) = 5 /\ sw[1].op = "save" /\ sw[2].op = "barrier"
      /\ sw[3].op = "data" /\ sw[4] = a /\ sw[5] = b
  <2>1. /\ sw \in Seq(Steps) /\ Len(sw) = 5
        /\ \A i \in 1..5 : sw[i] = IF i <= 3 THEN s[i] ELSE w[i - 3]
    <3>1. Len(s) = 3 /\ Len(w) = 2 /\ Len(s) + Len(w) = 5
          /\ s \in Seq(Steps) /\ w \in Seq(Steps)
      BY <1>2, <1>4
    <3>2. /\ s \o w \in Seq(Steps) /\ Len(s \o w) = Len(s) + Len(w)
          /\ \A i \in 1..Len(s) + Len(w) :
               (s \o w)[i] = IF i <= Len(s) THEN s[i] ELSE w[i - Len(s)]
      BY <3>1, ConcatProperties
    <3> QED BY <3>1, <3>2
  <2>2. 4 - 3 = 1 /\ 5 - 3 = 2
    OBVIOUS
  <2>3. sw[1] = s[1] /\ sw[2] = s[2] /\ sw[3] = s[3]
    BY <2>1
  <2>4. sw[4] = w[1] /\ sw[5] = w[2]
    BY <2>1, <2>2
  <2> QED BY <1>2, <1>4, <2>1, <2>3, <2>4
<1> HIDE DEF sw
<1>6. /\ q \in Seq(Steps) /\ Len(q) = 6 /\ q[1].op = "save" /\ q[2].op = "barrier"
      /\ q[3].op = "data" /\ q[4] = a /\ q[5] = b /\ q[6].op = "drop"
  <2>1. /\ q \in Seq(Steps) /\ Len(q) = 6
        /\ \A i \in 1..6 : q[i] = IF i <= 5 THEN sw[i] ELSE z[i - 5]
    <3>1. Len(sw) = 5 /\ Len(z) = 1 /\ Len(sw) + Len(z) = 6
          /\ sw \in Seq(Steps) /\ z \in Seq(Steps)
      BY <1>3, <1>5
    <3>2. /\ sw \o z \in Seq(Steps) /\ Len(sw \o z) = Len(sw) + Len(z)
          /\ \A i \in 1..Len(sw) + Len(z) :
               (sw \o z)[i] = IF i <= Len(sw) THEN sw[i] ELSE z[i - Len(sw)]
      BY <3>1, ConcatProperties
    <3> QED BY <3>1, <3>2
  <2>2. 6 - 5 = 1
    OBVIOUS
  <2>3. q[1] = sw[1] /\ q[2] = sw[2] /\ q[3] = sw[3] /\ q[4] = sw[4] /\ q[5] = sw[5]
    BY <2>1
  <2>4. q[6] = z[1]
    BY <2>1, <2>2
  <2> QED BY <1>3, <1>5, <2>1, <2>3, <2>4
<1> HIDE DEF q
<1>7. \A k \in 1..6 : k = 1 \/ k = 2 \/ k = 3 \/ k = 4 \/ k = 5 \/ k = 6
  OBVIOUS
<1>8. \A k \in 1..6 : q[k].op = "write" => k = 4 \/ k = 5
  BY <1>6, <1>7
<1>9. Only(q, WorkOps)
  BY <1>1, <1>6, <1>7 DEF Only, WorkOps
<1>10. Paired(q)
  <2>1. q[4 + 1] = Put("primary", q[4].to) /\ q[5 - 1] = Put("backup", q[5].to)
    BY <1>1, <1>6
  <2> QED BY <1>1, <1>6, <1>8, <2>1 DEF Paired
<1>11. Behind(q, 6, {"barrier"})
  <2>1. 2 \in 1..6 - 1
    OBVIOUS
  <2> QED BY <1>6, <2>1 DEF Behind
<1>12. \A k \in 1..6 : (q[k].op = "drop" => k = 6) /\ (q[k].op = "save" => k = 1)
  BY <1>1, <1>6, <1>7
<1>13. Body(q, v) /\ q # <<>>
  BY <1>1, <1>6, <1>8, <1>9, <1>10, <1>11, <1>12 DEF Body
<1> QED BY <1>5, <1>13 DEF q, sw, s, w, z

(* ... and that repair or none before it.                                  *)
LEMMA Prepended ==
  ASSUME NEW v \in Readable, NEW q \in Seq(Steps)
  PROVE  LET p == Writes(v) \o q IN
         /\ p \in Seq(Steps) /\ Len(p) = Len(q) + 2 /\ Len(q) \in Nat
         /\ p[1] = Put("backup", v) /\ p[2] = Put("primary", v)
         /\ \A k \in 1..Len(q) : p[k + 2] = q[k]
         /\ \A k \in 1..Len(p) : k = 1 \/ k = 2 \/ (k - 2 \in 1..Len(q) /\ p[k] = q[k - 2])
<1> DEFINE w == Writes(v)
           p == w \o q
<1>1. w = <<Put("backup", v), Put("primary", v)>>
      /\ Put("backup", v) \in Steps /\ Put("primary", v) \in Steps
  BY PutFacts
<1> HIDE DEF w
<1>2. w \in Seq(Steps) /\ Len(w) = 2 /\ w[1] = Put("backup", v) /\ w[2] = Put("primary", v)
  BY <1>1
<1>3. /\ p \in Seq(Steps) /\ Len(p) = Len(w) + Len(q) /\ Len(q) \in Nat
      /\ \A i \in 1..Len(w) + Len(q) : p[i] = IF i <= Len(w) THEN w[i] ELSE q[i - Len(w)]
  BY <1>2, ConcatProperties, LenProperties
<1>4. Len(p) = Len(q) + 2 /\ \A i \in 1..Len(q) + 2 : p[i] = IF i <= 2 THEN w[i] ELSE q[i - 2]
  BY <1>2, <1>3
<1> HIDE DEF p
<1>5. p[1] = w[1] /\ p[2] = w[2]
  BY <1>3, <1>4
<1>6. \A k \in 1..Len(q) : p[k + 2] = q[k]
  <2>1. \A k \in 1..Len(q) : k + 2 \in 1..Len(q) + 2 /\ ~(k + 2 <= 2) /\ (k + 2) - 2 = k
    BY <1>3
  <2> QED BY <1>4, <2>1
<1>7. \A k \in 1..Len(p) : k = 1 \/ k = 2 \/ (k - 2 \in 1..Len(q) /\ p[k] = q[k - 2])
  BY <1>3, <1>4
<1> QED BY <1>2, <1>3, <1>4, <1>5, <1>6, <1>7 DEF p, w

LEMMA PrependedBehind ==
  ASSUME NEW v \in Readable, NEW q \in Seq(Steps), NEW k \in 1..Len(q), NEW ops
  PROVE  /\ Behind(q, k, ops) => Behind(Writes(v) \o q, k + 2, ops)
         /\ Behind(Writes(v) \o q, k + 2, ops) => Behind(q, k, ops) \/ "write" \in ops
<1> DEFINE p == Writes(v) \o q
<1>1. /\ p \in Seq(Steps) /\ Len(p) = Len(q) + 2 /\ Len(q) \in Nat
      /\ p[1] = Put("backup", v) /\ p[2] = Put("primary", v)
      /\ \A i \in 1..Len(q) : p[i + 2] = q[i]
      /\ \A i \in 1..Len(p) : i = 1 \/ i = 2 \/ (i - 2 \in 1..Len(q) /\ p[i] = q[i - 2])
  BY Prepended
<1> HIDE DEF p
<1>2. ASSUME Behind(q, k, ops) PROVE Behind(p, k + 2, ops)
  <2>1. PICK l \in 1..k - 1 : q[l].op \in ops
    BY <1>2 DEF Behind
  <2>2. l + 2 \in 1..(k + 2) - 1 /\ p[l + 2] = q[l]
    BY <1>1
  <2> QED BY <2>1, <2>2 DEF Behind
<1>3. ASSUME Behind(p, k + 2, ops), "write" \notin ops PROVE Behind(q, k, ops)
  <2>1. PICK l \in 1..(k + 2) - 1 : p[l].op \in ops
    BY <1>3 DEF Behind
  <2>2. p[1].op = "write" /\ p[2].op = "write"
    BY <1>1, PutFacts
  <2>3. l # 1 /\ l # 2 /\ l \in 1..Len(p)
    BY <1>1, <1>3, <2>1, <2>2
  <2>4. l - 2 \in 1..k - 1 /\ p[l] = q[l - 2]
    BY <1>1, <2>3
  <2> QED BY <2>1, <2>4 DEF Behind
<1> QED BY <1>2, <1>3 DEF p

LEMMA Opening ==
  ASSUME NEW t, NEW q, Body(q, t), NEW v \in Readable, NEW p,
         p = q \/ p = Writes(v) \o q
  PROVE  /\ p \in Seq(Steps) /\ Paired(p) /\ \A recs : Ends(p, recs)
         /\ \A c \in CopyNames : AtMostTwo(p, FALSE, c)
<1>1. /\ q \in Seq(Steps) /\ Only(q, WorkOps) /\ Paired(q)
      /\ \A k \in 1..Len(q) : q[k].op = "write" => q[k].to = t /\ (k = 1 => q[k].copy = "backup")
      /\ \A k, l \in 1..Len(q) :
           q[k].op = "write" /\ q[l].op = "write" /\ q[k].copy = q[l].copy => k = l
      /\ \A k \in 1..Len(q) : q[k].op = "drop" => k = Len(q) /\ Behind(q, k, {"barrier"})
  BY DEF Body
<1>2. \A k \in 1..Len(q) : q[k].op # "release"
  BY <1>1 DEF Only, WorkOps
<1>3. CASE p = q
  <2>1. \A recs : Ends(q, recs)
    BY <1>1, <1>2 DEF Ends
  <2>2. \A c \in CopyNames : AtMostTwo(q, FALSE, c)
    BY <1>1 DEF AtMostTwo, Due
  <2> QED BY <1>1, <1>3, <2>1, <2>2
<1>4. CASE p = Writes(v) \o q
  <2>1. /\ p \in Seq(Steps) /\ Len(p) = Len(q) + 2 /\ Len(q) \in Nat
        /\ p[1] = Put("backup", v) /\ p[2] = Put("primary", v)
        /\ \A i \in 1..Len(q) : p[i + 2] = q[i]
        /\ \A i \in 1..Len(p) : i = 1 \/ i = 2 \/ (i - 2 \in 1..Len(q) /\ p[i] = q[i - 2])
    BY <1>1, <1>4, Prepended
  <2>2. /\ p[1].op = "write" /\ p[2].op = "write" /\ p[1].copy = "backup" /\ p[2].copy = "primary"
        /\ p[1].to = v /\ p[2].to = v
    BY <2>1, PutFacts
  <2>3. Paired(p)
    <3>1. ASSUME NEW k \in 1..Len(p), p[k].op = "write"
          PROVE  IF p[k].copy = "backup" THEN k < Len(p) /\ p[k + 1] = Put("primary", p[k].to)
                 ELSE k = 1 \/ p[k - 1] = Put("backup", p[k].to)
      <4>1. CASE k = 1
        <5>1. 1 + 1 = 2 /\ 1 < Len(p)
          BY <2>1
        <5> QED BY <2>1, <2>2, <4>1, <5>1
      <4>2. CASE k = 2
        <5>1. 2 - 1 = 1
          OBVIOUS
        <5> QED BY <2>1, <2>2, <4>2, <5>1
      <4>3. CASE k # 1 /\ k # 2
        <5>1. k - 2 \in 1..Len(q) /\ p[k] = q[k - 2] /\ k \in Nat
          BY <2>1, <4>3
        <5>2. CASE p[k].copy = "backup"
          <6>1. k - 2 < Len(q) /\ q[(k - 2) + 1] = Put("primary", p[k].to)
            BY <1>1, <3>1, <5>1, <5>2 DEF Paired
          <6>2. (k - 2) + 1 \in 1..Len(q) /\ ((k - 2) + 1) + 2 = k + 1 /\ k < Len(p)
            BY <2>1, <5>1, <6>1
          <6>3. p[k + 1] = q[(k - 2) + 1]
            BY <2>1, <6>2
          <6> QED BY <5>2, <6>1, <6>2, <6>3
        <5>3. CASE p[k].copy # "backup"
          <6>1. k - 2 # 1
            BY <1>1, <3>1, <5>1, <5>3
          <6>2. q[(k - 2) - 1] = Put("backup", p[k].to)
            BY <1>1, <3>1, <5>1, <5>3, <6>1 DEF Paired
          <6>3. (k - 2) - 1 \in 1..Len(q) /\ ((k - 2) - 1) + 2 = k - 1
            BY <2>1, <5>1, <6>1
          <6>4. p[k - 1] = q[(k - 2) - 1]
            BY <2>1, <6>3
          <6> QED BY <5>3, <6>2, <6>4
        <5> QED BY <5>2, <5>3
      <4> QED BY <4>1, <4>2, <4>3
    <3> QED BY <3>1 DEF Paired
  <2>4. ASSUME NEW recs PROVE Ends(p, recs)
    <3>1. ASSUME NEW k \in 1..Len(p), p[k].op \in {"drop", "release"}
          PROVE  p[k].op = "drop" /\ k = Len(p) /\ Behind(p, k, {"barrier"})
      <4>1. k # 1 /\ k # 2
        BY <2>2, <3>1
      <4>2. k - 2 \in 1..Len(q) /\ p[k] = q[k - 2] /\ (k - 2) + 2 = k
        BY <2>1, <4>1
      <4>3. q[k - 2].op = "drop" /\ k - 2 = Len(q) /\ Behind(q, k - 2, {"barrier"})
        BY <1>1, <1>2, <3>1, <4>2
      <4>4. Behind(p, (k - 2) + 2, {"barrier"})
        BY <1>1, <1>4, <4>2, <4>3, PrependedBehind
      <4>5. k = Len(p)
        BY <2>1, <4>3
      <4> QED BY <4>2, <4>3, <4>4, <4>5
    <3> QED BY <3>1 DEF Ends
  <2>5. ASSUME NEW c \in CopyNames PROVE AtMostTwo(p, FALSE, c)
    <3>1. ASSUME NEW k \in Due(p, FALSE, c), NEW l \in Due(p, FALSE, c), k > 2, l > 2 PROVE k = l
      <4>1. k \in 1..Len(p) /\ l \in 1..Len(p) /\ p[k].op = "write" /\ p[l].op = "write"
            /\ p[k].copy = c /\ p[l].copy = c
        BY DEF Due
      <4>2. /\ k - 2 \in 1..Len(q) /\ p[k] = q[k - 2] /\ l - 2 \in 1..Len(q) /\ p[l] = q[l - 2]
        BY <2>1, <3>1, <4>1
      <4>3. k - 2 = l - 2
        BY <1>1, <4>1, <4>2
      <4> QED BY <2>1, <4>1, <4>3
    <3>2. ASSUME NEW k \in Due(p, FALSE, c), NEW l \in Due(p, FALSE, c), k <= 2, l <= 2 PROVE k = l
      <4>1. k \in 1..Len(p) /\ l \in 1..Len(p) /\ p[k].copy = c /\ p[l].copy = c
        BY DEF Due
      <4>2. k \in {1, 2} /\ l \in {1, 2}
        BY <2>1, <3>2, <4>1
      <4> QED BY <2>2, <4>1, <4>2
    <3>3. \A k \in Due(p, FALSE, c) : k <= 2 \/ k > 2
      BY <2>1 DEF Due
    <3> QED BY <3>1, <3>2, <3>3 DEF AtMostTwo
  <2> QED BY <2>1, <2>3, <2>4, <2>5
<1> QED BY <1>3, <1>4

(* A plan of a job fits the table it begins on.                            *)
LEMMA JobOpening ==
  ASSUME NEW j \in Jobs, NEW q, Body(q, j.to), NEW v \in {j.from, j.to}, NEW p,
         NEW d, NEW saved,
         \/ /\ p = q
            /\ d["backup"] = Image(j.to) \/ Known(d["primary"], j)
            /\ Stands(d, j) \/ \A k \in 1..Len(q) : q[k].op # "save"
         \/ /\ p = Writes(v) \o q
            /\ d["backup"] = Image(v) \/ Known(d["primary"], j)
            /\ j.kind # "grow" => ~saved
  PROVE  JobWrites(p, j, saved) /\ JobDisk(p, d, j)
<1>1. /\ q \in Seq(Steps) /\ Paired(q)
      /\ \A k \in 1..Len(q) : q[k].op = "write" => q[k].to = j.to /\ (k = 1 => q[k].copy = "backup")
  BY DEF Body
<1>2. v \in Readable
  BY Numbers DEF Jobs
<1>3. CASE p = q /\ (d["backup"] = Image(j.to) \/ Known(d["primary"], j))
           /\ (Stands(d, j) \/ \A k \in 1..Len(q) : q[k].op # "save")
  <2>1. ASSUME NEW k \in 1..Len(q), q[k].op = "write", ~Behind(q, k, {"write"})
        PROVE  q[k].copy = "backup"
    <3>1. q[k].copy # "backup" => k # 1 /\ q[k - 1] = Put("backup", q[k].to)
      BY <1>1, <2>1 DEF Paired
    <3>2. k # 1 => k - 1 \in 1..k - 1
      OBVIOUS
    <3>3. Put("backup", q[k].to).op = "write"
      BY DEF Put
    <3> QED BY <2>1, <3>1, <3>2, <3>3 DEF Behind
  <2> QED BY <1>1, <1>3, <2>1 DEF JobWrites, JobDisk
<1>4. CASE p = Writes(v) \o q /\ (d["backup"] = Image(v) \/ Known(d["primary"], j))
           /\ (j.kind # "grow" => ~saved)
  <2>1. /\ p \in Seq(Steps) /\ Len(p) = Len(q) + 2 /\ Len(q) \in Nat
        /\ p[1] = Put("backup", v) /\ p[2] = Put("primary", v)
        /\ \A i \in 1..Len(p) : i = 1 \/ i = 2 \/ (i - 2 \in 1..Len(q) /\ p[i] = q[i - 2])
    BY <1>1, <1>2, <1>4, Prepended
  <2>2. /\ p[1].op = "write" /\ p[2].op = "write" /\ p[1].copy = "backup"
        /\ p[1].to = v /\ p[2].to = v
    BY <1>2, <2>1, PutFacts
  <2>3. \A k \in 1..Len(p) : k # 1 => Behind(p, k, {"write"})
    <3>1. \A k \in 1..Len(p) : k # 1 => 1 \in 1..k - 1
      BY <2>1
    <3> QED BY <2>2, <3>1 DEF Behind
  <2>4. ~Behind(p, 1, {"save"}) /\ ~Behind(p, 2, {"save"})
    <3>1. 1..1 - 1 = {} /\ 1..2 - 1 = {1}
      OBVIOUS
    <3> QED BY <2>2, <3>1 DEF Behind
  <2>5. \A k \in 1..Len(p) : k # 1 /\ k # 2 /\ p[k].op = "write" => p[k].to = j.to
    BY <1>1, <2>1
  <2>6. JobWrites(p, j, saved)
    BY <1>4, <2>2, <2>4, <2>5 DEF JobWrites
  <2>7. JobDisk(p, d, j)
    BY <1>4, <2>2, <2>3 DEF JobDisk
  <2> QED BY <2>6, <2>7
<1> QED BY <1>3, <1>4

(* What is read of the copies.                                             *)
LEMMA WholeFacts ==
  /\ \A v \in Readable : Whole(Image(v)) /\ Image(v)[1] = v /\ v # Damaged
  /\ \A c : Whole(c) => c[1] \in Readable /\ c = Image(c[1])
<1>1. 1 \in 1..Sectors
  BY Numbers
<1>2. ASSUME NEW v \in Readable PROVE Whole(Image(v)) /\ Image(v)[1] = v
  BY <1>1 DEF Whole, Image
<1>3. ASSUME NEW v \in Readable PROVE v # Damaged
  <2>1. MaxEdits \in Nat /\ Versions \subseteq Nat
    BY Numbers
  <2>2. v \in Versions \/ \E n \in 1..MaxEdits : v = -1 - n
    BY DEF Readable, Foreigns, Foreign
  <2> QED BY <2>1, <2>2 DEF Damaged
<1>4. ASSUME NEW c, Whole(c) PROVE c[1] \in Readable /\ c = Image(c[1])
  <2>1. PICK v \in Readable : c = Image(v)
    BY <1>4 DEF Whole
  <2> QED BY <1>2, <2>1
<1> QED BY <1>2, <1>3, <1>4

LEMMA TableFacts ==
  ASSUME NEW d
  PROVE  /\ Table(d) # Damaged =>
              /\ Table(d) \in Readable
              /\ d["primary"] = Image(Table(d)) \/ d["backup"] = Image(Table(d))
         /\ \A j \in Jobs : Stands(d, j) => Table(d) \in {j.from, j.to}
<1>1. Table(d) # Damaged =>
        /\ Table(d) \in Readable
        /\ d["primary"] = Image(Table(d)) \/ d["backup"] = Image(Table(d))
  BY WholeFacts DEF Table
<1>2. ASSUME NEW j \in Jobs, Stands(d, j) PROVE Table(d) \in {j.from, j.to}
  <2>1. j.from \in Readable /\ j.to \in Readable
    BY Numbers DEF Jobs
  <2> QED BY <1>2, <2>1, WholeFacts DEF Table, Stands, Known
<1> QED BY <1>1, <1>2

LEMMA RepairForm ==
  ASSUME IInv, Table(disk) # Damaged, NEW q \in Seq(Steps)
  PROVE  /\ Table(disk) \in Readable /\ Repair \in Seq(Steps)
         /\ \/ Repair \o q = q /\ \A c \in CopyNames : disk[c] = Image(Table(disk))
            \/ Repair \o q = Writes(Table(disk)) \o q
<1>1. Table(disk) \in Readable
  BY TableFacts
<1>2. Writes(Table(disk)) \in Seq(Steps)
  BY <1>1, PairBody DEF Body
<1>3. CASE \E c \in CopyNames : disk[c] # Image(Table(disk))
  BY <1>1, <1>2, <1>3 DEF Repair
<1>4. CASE \A c \in CopyNames : disk[c] = Image(Table(disk))
  <2>1. Repair = <<>>
    BY <1>4 DEF Repair
  <2>2. <<>> \o q = q
    BY ConcatEmptySeq
  <2> QED BY <1>1, <1>4, <2>1, <2>2, EmptySeq
<1> QED BY <1>3, <1>4

(* The plan of a job that begins with the repair.                          *)
LEMMA RepairedJob ==
  ASSUME IInv, NEW j \in Jobs, NEW q, Body(q, j.to), Table(disk) \in {j.from, j.to},
         NEW saved, j.kind # "grow" => ~saved
  PROVE  /\ Table(disk) \in Readable /\ Repair \in Seq(Steps)
         /\ Repair \o q = q \/ Repair \o q = Writes(Table(disk)) \o q
         /\ JobWrites(Repair \o q, j, saved) /\ JobDisk(Repair \o q, disk, j)
<1> DEFINE v == Table(disk)
<1>1. q \in Seq(Steps) /\ v \in Readable /\ v # Damaged
  <2>1. v \in Readable
    BY Numbers DEF Jobs
  <2> QED BY <2>1, WholeFacts DEF Body
<1>2. /\ Repair \in Seq(Steps)
      /\ \/ Repair \o q = q /\ \A c \in CopyNames : disk[c] = Image(v)
         \/ Repair \o q = Writes(v) \o q
  BY <1>1, RepairForm
<1>3. disk["primary"] = Image(v) \/ disk["backup"] = Image(v)
  BY <1>1, TableFacts
<1>4. Image(v) \in {Image(j.from), Image(j.to)}
  OBVIOUS
<1> HIDE DEF v
<1>5. CASE Repair \o q = q /\ \A c \in CopyNames : disk[c] = Image(v)
  <2>1. Known(disk["primary"], j)
    BY <1>4, <1>5, Names DEF Known
  <2>2. Stands(disk, j)
    BY <2>1 DEF Stands
  <2>3. JobWrites(q, j, saved) /\ JobDisk(q, disk, j)
    BY <2>1, <2>2, JobOpening
  <2> QED BY <1>1, <1>2, <1>5, <2>3 DEF v
<1>6. CASE Repair \o q = Writes(v) \o q
  <2>1. disk["backup"] = Image(v) \/ Known(disk["primary"], j)
    BY <1>3, <1>4 DEF Known
  <2>2. v \in {j.from, j.to}
    BY DEF v
  <2>3. JobWrites(Writes(v) \o q, j, saved) /\ JobDisk(Writes(v) \o q, disk, j)
    BY <2>1, <2>2, JobOpening
  <2> QED BY <1>1, <1>2, <1>6, <2>3 DEF v
<1> QED BY <1>2, <1>5, <1>6

LEMMA GrowForm ==
  ASSUME IInv, NEW j \in Jobs, j.kind = "grow", Table(disk) \in {j.from, j.to}, NEW saved
  PROVE  /\ \E q, v : /\ Body(q, j.to) /\ v \in Readable
                      /\ GrowSteps(j) = q \/ GrowSteps(j) = Writes(v) \o q
         /\ JobWrites(GrowSteps(j), j, saved) /\ JobDisk(GrowSteps(j), disk, j)
<1> DEFINE z == <<Step("barrier"), Step("data"), Step("drop")>>
           w == <<Step("save")>> \o Writes(j.to)
<1>1. j.to \in Readable
  BY Numbers DEF Jobs
<1>2. Body(z, j.to) /\ Body(w \o z, j.to) /\ w \in Seq(Steps) /\ z \in Seq(Steps)
  BY <1>1, PlainBody, GrowBody DEF Body
<1>3. Repair \in Seq(Steps)
  BY <1>2, RepairedJob
<1>4. PICK q : Body(q, j.to) /\ GrowSteps(j) = Repair \o q
  <2>1. CASE Table(disk) = j.to
    <3>1. GrowSteps(j) = (Repair \o <<>>) \o z
      BY <2>1 DEF GrowSteps
    <3>2. Repair \o <<>> = Repair
      BY <1>3, ConcatEmptySeq
    <3> QED BY <1>2, <3>1, <3>2
  <2>2. CASE Table(disk) # j.to
    <3>1. GrowSteps(j) = (Repair \o w) \o z
      BY <2>2 DEF GrowSteps
    <3>2. (Repair \o w) \o z = Repair \o (w \o z)
      BY <1>2, <1>3, ConcatAssociative
    <3> QED BY <1>2, <3>1, <3>2
  <2> QED BY <2>1, <2>2
<1>5. /\ Table(disk) \in Readable
      /\ Repair \o q = q \/ Repair \o q = Writes(Table(disk)) \o q
      /\ JobWrites(Repair \o q, j, saved) /\ JobDisk(Repair \o q, disk, j)
  BY <1>4, RepairedJob
<1> QED BY <1>4, <1>5

LEMMA MoveForm ==
  ASSUME IInv, NEW j \in Jobs, j.kind # "grow", Table(disk) \in {j.from, j.to}
  PROVE  /\ \E q, v : /\ Body(q, j.to) /\ v \in Readable
                      /\ MoveSteps(j) = q \/ MoveSteps(j) = Writes(v) \o q
         /\ ckpt = NoJob \/ Stands(disk, j) =>
              JobWrites(MoveSteps(j), j, ckpt # NoJob) /\ JobDisk(MoveSteps(j), disk, j)
<1> DEFINE p == IF ckpt = NoJob THEN Repair ELSE <<>>
           s == <<Step("save"), Step("barrier"), Step("data")>>
           w == Writes(j.to)
           z == <<Step("drop")>>
           q == (s \o w) \o z
<1>1. j.to \in Readable
  BY Numbers DEF Jobs
<1>2. Body(q, j.to) /\ q \in Seq(Steps) /\ s \o w \in Seq(Steps)
  BY <1>1, MoveBody DEF Body
<1>3. s \in Seq(Steps) /\ w \in Seq(Steps) /\ z \in Seq(Steps)
  <2>1. Writes(j.to) \in Seq(Steps)
    BY <1>1, PairBody DEF Body
  <2> QED BY <2>1, BareSteps
<1>4. /\ Table(disk) \in Readable /\ Repair \in Seq(Steps)
      /\ Repair \o q = q \/ Repair \o q = Writes(Table(disk)) \o q
      /\ ckpt = NoJob => JobWrites(Repair \o q, j, FALSE) /\ JobDisk(Repair \o q, disk, j)
  BY <1>2, RepairedJob
<1>5. p \in Seq(Steps)
  BY <1>4, EmptySeq
<1>6. MoveSteps(j) = ((p \o s) \o w) \o z
  BY DEF MoveSteps
<1> HIDE DEF p, s, w, z
<1>7. MoveSteps(j) = p \o q
  <2>1. (p \o s) \o w = p \o (s \o w)
    <3>1. p \in Seq(Steps) /\ s \in Seq(Steps) /\ w \in Seq(Steps)
      BY <1>3, <1>5
    <3> QED BY <3>1, ConcatAssociative, SMTT(30)
  <2>2. (p \o (s \o w)) \o z = p \o ((s \o w) \o z)
    BY <1>2, <1>3, <1>5, ConcatAssociative
  <2> QED BY <1>6, <2>1, <2>2
<1> HIDE DEF q
<1>8. CASE ckpt = NoJob
  <2>1. MoveSteps(j) = Repair \o q
    BY <1>7, <1>8 DEF p
  <2>2. (ckpt # NoJob) = FALSE
    BY <1>8
  <2> QED BY <1>2, <1>4, <1>8, <2>1, <2>2
<1>9. CASE ckpt # NoJob
  <2>1. MoveSteps(j) = q
    BY <1>2, <1>7, <1>9, ConcatEmptySeq DEF p
  <2>2. ASSUME Stands(disk, j)
        PROVE  JobWrites(q, j, ckpt # NoJob) /\ JobDisk(q, disk, j)
    <3>1. disk["backup"] = Image(j.to) \/ Known(disk["primary"], j)
      BY <2>2 DEF Stands
    <3> QED BY <1>2, <2>2, <3>1, JobOpening
  <2> QED BY <1>1, <1>2, <1>9, <2>1, <2>2
<1> QED BY <1>8, <1>9

-----------------------------------------------------------------------------
(* A command begins, with a plan of its form.                              *)
Opened(p, job) ==
  /\ \E q, t, v : Body(q, t) /\ v \in Readable /\ (p = q \/ p = Writes(v) \o q)
  /\ used.edits = 0 /\ ~rewound /\ job # NoJob =>
       JobWrites(p, job, ckpt # NoJob) /\ JobDisk(p, disk, job)

LEMMA OpenedBy ==
  ASSUME IInv, AInv, BeginEdit \/ BeginNew \/ BeginGrow \/ BeginMove \/ Resume
  PROVE  \E p, job :
           /\ Start(p, job) /\ Opened(p, job) /\ Free /\ UNCHANGED <<disk, ckpt, rewound>>
           /\ used'.edits = used.edits
           /\ (ckpt = NoJob /\ file.recs = <<>>) \/ (ckpt = job /\ job # NoJob)
<1>1. ASSUME Fresh
      PROVE  Free /\ ckpt = NoJob /\ file.recs = <<>> /\ used'.edits = used.edits
  <2>1. used \in [commands: 0..MaxCommands, deaths: 0..MaxDeaths, edits: 0..MaxEdits, files: Inodes]
    BY DEF IInv, Sound, TypeOK
  <2> QED BY <1>1, <2>1, Recorded DEF Fresh, Active, Class
<1>2. \A v \in Versions : v \in Readable /\ Body(Writes(v), v) /\ Writes(v) \in Seq(Steps)
  BY Numbers, PairBody DEF Body
<1>3. CASE BeginEdit
  <2>1. Fresh /\ Table(disk) # Damaged /\ UNCHANGED <<disk, ckpt, rewound>>
    BY <1>3 DEF BeginEdit, history
  <2>2. PICK v \in Versions : Start(EditSteps(v), NoJob)
    BY <1>3 DEF BeginEdit
  <2>3. /\ Table(disk) \in Readable
        /\ \/ Repair \o Writes(v) = Writes(v)
           \/ Repair \o Writes(v) = Writes(Table(disk)) \o Writes(v)
    BY <1>2, <2>1, RepairForm
  <2>4. Opened(EditSteps(v), NoJob)
    BY <1>2, <2>3 DEF Opened, EditSteps
  <2> QED BY <1>1, <2>1, <2>2, <2>4
<1>4. CASE BeginNew
  <2>1. Fresh /\ UNCHANGED <<disk, ckpt, rewound>>
    BY <1>4 DEF BeginNew, history
  <2>2. PICK v \in Versions : Start(Writes(v), NoJob)
    BY <1>4 DEF BeginNew
  <2>3. Opened(Writes(v), NoJob)
    BY <1>2 DEF Opened
  <2> QED BY <1>1, <2>1, <2>2, <2>3
<1>5. CASE BeginGrow
  <2>1. Fresh /\ UNCHANGED <<disk, ckpt, rewound>>
    BY <1>5 DEF BeginGrow, history
  <2>2. PICK job \in Jobs : job.kind = "grow" /\ job.from = Table(disk) /\ Start(GrowSteps(job), job)
    BY <1>5 DEF BeginGrow
  <2>3. Opened(GrowSteps(job), job)
    BY <2>2, GrowForm DEF Opened
  <2> QED BY <1>1, <2>1, <2>2, <2>3
<1>6. CASE BeginMove
  <2>1. Fresh /\ UNCHANGED <<disk, ckpt, rewound>>
    BY <1>6 DEF BeginMove, history
  <2>2. PICK job \in Jobs : job.kind = "move" /\ job.from = Table(disk) /\ Start(MoveSteps(job), job)
    BY <1>6 DEF BeginMove
  <2>3. Opened(MoveSteps(job), job)
    BY <1>1, <2>1, <2>2, MoveForm DEF Opened
  <2> QED BY <1>1, <2>1, <2>2, <2>3
<1>7. CASE Resume
  <2>1. /\ Free /\ ckpt # NoJob /\ Table(disk) \in {ckpt.from, ckpt.to}
        /\ Start(IF ckpt.kind = "grow" THEN GrowSteps(ckpt) ELSE MoveSteps(ckpt), ckpt)
        /\ UNCHANGED <<disk, ckpt, rewound, used>>
    BY <1>7 DEF Resume, ResumeAccepted, history
  <2>2. ckpt \in Jobs
    BY Types
  <2>3. used.edits = 0 /\ ~rewound => Stands(disk, ckpt)
    BY <2>1 DEF AInv, JobStands
  <2>4. CASE ckpt.kind = "grow"
    <3>1. Opened(GrowSteps(ckpt), ckpt)
      BY <2>1, <2>2, <2>4, GrowForm DEF Opened
    <3> QED BY <2>1, <2>4, <3>1
  <2>5. CASE ckpt.kind # "grow"
    <3>1. Opened(MoveSteps(ckpt), ckpt)
      BY <2>1, <2>2, <2>3, <2>5, MoveForm DEF Opened
    <3> QED BY <2>1, <2>5, <3>1
  <2> QED BY <2>4, <2>5
<1> QED BY <1>3, <1>4, <1>5, <1>6, <1>7

(* A journal without a record fits any disk.                               *)
LEMMA EmptyFits ==
  ASSUME NEW c, NEW d
  PROVE  /\ UndoFits(<<>>, d, c)
         /\ \A todo : AtMostTwo(todo, FALSE, c) => WorkFits(<<>>, todo, FALSE, d, c)
<1>1. Of(<<>>, c) = {} /\ DOMAIN <<>> = {}
  BY DEF Of
<1> QED BY <1>1 DEF UndoFits, WorkFits, Chained

LEMMA BeginAdvised ==
  ASSUME IInv, AInv, BeginEdit \/ BeginNew \/ BeginGrow \/ BeginMove \/ Resume
  PROVE  AInv'
<1>1. PICK p, job :
        /\ Start(p, job) /\ Opened(p, job) /\ Free /\ UNCHANGED <<disk, ckpt, rewound>>
        /\ used'.edits = used.edits
        /\ (ckpt = NoJob /\ file.recs = <<>>) \/ (ckpt = job /\ job # NoJob)
  BY OpenedBy
<1>2. /\ run'.todo = p /\ ~run'.recorded /\ run'.job = job /\ file'.recs = file.recs
  BY <1>1, AdoptedFacts DEF Start, Idle
<1>3. PICK q, t, v : Body(q, t) /\ v \in Readable /\ (p = q \/ p = Writes(v) \o q)
  BY <1>1 DEF Opened
<1>4. /\ Paired(p) /\ \A recs : Ends(p, recs)
      /\ \A c \in CopyNames : AtMostTwo(p, FALSE, c)
  BY <1>3, Opening
<1>5. PlansEnd'
  BY <1>2, <1>4 DEF PlansEnd
<1>6. JobStands'
  BY <1>1, <1>2 DEF AInv, JobStands, Opened
<1>7. RecordsFit'
  <2>1. ASSUME ckpt = NoJob, NEW c \in CopyNames
        PROVE  UndoFits(file'.recs, disk', c) /\ WorkFits(file'.recs, p, FALSE, disk', c)
    BY <1>1, <1>2, <1>4, <2>1, EmptyFits
  <2>3. run'.recorded = FALSE
    BY <1>1 DEF Start, Idle
  <2> QED BY <1>1, <1>2, <2>1, <2>3 DEF RecordsFit
<1> QED BY <1>1, <1>5, <1>6, <1>7 DEF AInv

-----------------------------------------------------------------------------
(* What stops in the middle.                                               *)
LEMMA LastExists ==
  ASSUME NEW recs \in Seq(Records), NEW c, Of(recs, c) # {}
  PROVE  \E x \in DOMAIN recs : LastOf(recs, c, x)
<1>1. DOMAIN recs = 1..Len(recs) /\ Len(recs) \in Nat
  OBVIOUS
<1>2. Of(recs, c) \in SUBSET (1..Len(recs))
  BY <1>1 DEF Of
<1>3. Max(Of(recs, c)) \in Of(recs, c) /\ \A y \in Of(recs, c) : y <= Max(Of(recs, c))
  BY <1>1, <1>2, MaxFacts
<1> QED BY <1>1, <1>2, <1>3 DEF LastOf

LEMMA PartialFacts ==
  ASSUME NEW old \in Contents, NEW new \in Contents
  PROVE  old \in Partial(old, new) /\ new \in Partial(old, new)
<1>1. Sectors \in Nat /\ 0 \in 0..Sectors /\ Sectors \in 0..Sectors
  BY Numbers
<1>2. old = [i \in 1..Sectors |-> IF i <= 0 THEN new[i] ELSE old[i]]
  BY <1>1, Numbers
<1>3. new = [i \in 1..Sectors |-> IF i <= Sectors THEN new[i] ELSE old[i]]
  BY <1>1, Numbers
<1> QED BY <1>1, <1>2, <1>3 DEF Partial

LEMMA PartialImage ==
  ASSUME NEW old \in Contents, NEW v \in Readable, NEW x \in Partial(old, Image(v))
  PROVE  /\ x = old \/ x = Image(v) \/ ~Whole(x)
         /\ old = Image(v) => x = old
<1>1. PICK k \in 0..Sectors : x = [i \in 1..Sectors |-> IF i <= k THEN Image(v)[i] ELSE old[i]]
  BY DEF Partial
<1>2. old = [i \in 1..Sectors |-> old[i]] /\ 1 \in 1..Sectors /\ Sectors \in Nat
  BY Numbers
<1>3. CASE k = 0
  <2>1. x = old
    BY <1>1, <1>2, <1>3
  <2> QED BY <2>1
<1>4. CASE k # 0
  <2>1. x[1] = v
    <3>1. 1 <= k
      BY <1>2, <1>4
    <3> QED BY <1>1, <1>2, <3>1 DEF Image
  <2>2. Whole(x) => x = Image(v)
    BY <2>1, WholeFacts
  <2>3. ASSUME old = Image(v) PROVE x = old
    <3>1. \A i \in 1..Sectors : x[i] = old[i]
      BY <1>1, <2>3
    <3> QED BY <1>1, <1>2, <3>1
  <2> QED BY <2>2, <2>3
<1> QED BY <1>3, <1>4

LEMMA WorkStops ==
  ASSUME NEW recs \in Seq(Records), NEW todo, NEW recorded, NEW d, NEW c \in CopyNames,
         WorkFits(recs, todo, recorded, d, c), d[c] \in Contents,
         NEW e, \/ e[c] = d[c]
                \/ recorded /\ todo[1].copy = c /\ e[c] \in Partial(d[c], Image(todo[1].to))
  PROVE  UndoFits(recs, e, c)
<1> SUFFICES ASSUME NEW x \in DOMAIN recs, LastOf(recs, c, x)
             PROVE  Matches(e[c], recs[x])
  BY DEF UndoFits, WorkFits
<1>1. IF recorded /\ todo[1].copy = c
      THEN recs[x].pre = d[c] /\ recs[x].after = Image(todo[1].to)
      ELSE d[c] = recs[x].after
  BY DEF WorkFits
<1> QED BY <1>1 DEF Matches

-----------------------------------------------------------------------------
(* A write of a job leaves a table of the job to be read, whole or torn.   *)
LEMMA StandsWrite ==
  ASSUME NEW todo \in Seq(Steps), todo # <<>>, todo[1].op = "write",
         NEW d \in [CopyNames -> Contents], NEW j \in Jobs, Stands(d, j),
         JobDisk(todo, d, j), JobWrites(todo, j, TRUE),
         NEW x \in Partial(d[todo[1].copy], Image(todo[1].to))
  PROVE  Stands([d EXCEPT ![todo[1].copy] = x], j)
<1> DEFINE c == todo[1].copy
           v == todo[1].to
           e == [d EXCEPT ![c] = x]
<1>1. 1 \in 1..Len(todo) /\ todo[1] \in Steps
  BY TailFacts
<1>2. c \in {"backup", "primary"} /\ v \in Readable
  BY <1>1, StepFacts, Names
<1>3. v \in {j.from, j.to} /\ (j.kind # "grow" => v = j.to)
  BY <1>1 DEF JobWrites
<1>4. d["backup"] = Image(v) \/ (c = "backup" /\ Known(d["primary"], j))
  <2>1. ~Behind(todo, 1, {"write"})
    BY DEF Behind
  <2> QED BY <1>1, <2>1 DEF JobDisk
<1>5. /\ d[c] \in Contents
      /\ x = d[c] \/ x = Image(v) \/ ~Whole(x)
      /\ d[c] = Image(v) => x = d[c]
  BY <1>2, Names, PartialImage
<1>6. CASE c = "backup"
  <2>1. e["primary"] = d["primary"] /\ e["backup"] = x
    BY <1>6, Names
  <2>2. CASE Known(d["primary"], j)
    BY <2>1, <2>2 DEF Stands
  <2>3. CASE d["backup"] = Image(v)
    <3>1. e["backup"] = d["backup"]
      BY <1>5, <1>6, <2>1, <2>3
    <3> QED BY <2>1, <3>1 DEF Stands
  <2> QED BY <1>4, <2>2, <2>3
<1>7. CASE c = "primary"
  <2>1. e["primary"] = x /\ e["backup"] = d["backup"] /\ d["backup"] = Image(v)
    BY <1>4, <1>7, Names
  <2>2. CASE x = Image(v)
    BY <1>3, <2>1, <2>2 DEF Stands, Known
  <2>3. CASE x = d[c]
    BY <1>7, <2>1, <2>3 DEF Stands
  <2>4. CASE ~Whole(x)
    BY <1>3, <2>1, <2>4 DEF Stands
  <2> QED BY <1>5, <2>2, <2>3, <2>4
<1> QED BY <1>2, <1>6, <1>7

(* The records of a copy once a record is appended.                        *)
LEMMA OfAppended ==
  ASSUME NEW recs \in Seq(Records), NEW r \in Records, NEW c
  PROVE  LET n == Len(recs) + 1
             new == Append(recs, r) IN
         /\ n \in Nat /\ n \notin DOMAIN recs /\ n \in DOMAIN new /\ new[n] = r
         /\ DOMAIN new = DOMAIN recs \cup {n}
         /\ \A k \in DOMAIN recs : k \in Nat /\ k < n /\ new[k] = recs[k]
         /\ Of(new, c) = IF r.copy = c THEN Of(recs, c) \cup {n} ELSE Of(recs, c)
<1> DEFINE n == Len(recs) + 1
           new == Append(recs, r)
<1>1. /\ DOMAIN new = 1..n /\ DOMAIN recs = 1..Len(recs) /\ Len(recs) \in Nat
      /\ \A k \in DOMAIN recs : new[k] = recs[k]
      /\ new[n] = r
  BY AppendFacts
<1> HIDE DEF new
<1>2. DOMAIN new = DOMAIN recs \cup {n} /\ n \notin DOMAIN recs /\ n \in Nat
  BY <1>1
<1>3. Of(new, c) = IF r.copy = c THEN Of(recs, c) \cup {n} ELSE Of(recs, c)
  BY <1>1, <1>2 DEF Of
<1> QED BY <1>1, <1>2, <1>3 DEF new

(* A write is recorded.                                                    *)
LEMMA WorkRecords ==
  ASSUME NEW recs \in Seq(Records), NEW todo \in Seq(Steps), todo # <<>>,
         todo[1].op = "write", NEW d, NEW c, NEW r \in Records,
         WorkFits(recs, todo, FALSE, d, c),
         r.copy = todo[1].copy, r.pre = d[r.copy], r.after = Image(todo[1].to)
  PROVE  WorkFits(Append(recs, r), todo, TRUE, d, c)
<1> DEFINE n == Len(recs) + 1
           new == Append(recs, r)
<1>1. /\ n \in Nat /\ n \notin DOMAIN recs /\ n \in DOMAIN new /\ new[n] = r
      /\ DOMAIN new = DOMAIN recs \cup {n}
      /\ \A k \in DOMAIN recs : k \in Nat /\ k < n /\ new[k] = recs[k]
      /\ Of(new, c) = IF r.copy = c THEN Of(recs, c) \cup {n} ELSE Of(recs, c)
  BY OfAppended
<1>2. Of(recs, c) \subseteq DOMAIN recs
  BY DEF Of
<1>3. /\ Chained(recs, c) /\ AtMostTwo(todo, FALSE, c)
      /\ \A x \in DOMAIN recs : LastOf(recs, c, x) => d[c] = recs[x].after
      /\ \A k, l \in Due(todo, FALSE, c) : k # l => Of(recs, c) = {}
      /\ Due(todo, FALSE, c) # {} => \A x, y \in Of(recs, c) : x = y
  BY DEF WorkFits
<1>4. 1 \in 1..Len(todo)
  BY TailFacts
<1> HIDE DEF n, new
<1>5. CASE todo[1].copy # c
  <2>1. Of(new, c) = Of(recs, c)
    BY <1>1, <1>5
  <2>2. Due(todo, TRUE, c) = Due(todo, FALSE, c)
    BY <1>5 DEF Due
  <2>3. Chained(new, c)
    BY <1>1, <1>2, <1>3, <2>1 DEF Chained
  <2>4. ASSUME NEW x \in DOMAIN new, LastOf(new, c, x) PROVE d[c] = new[x].after
    <3>1. x \in DOMAIN recs /\ LastOf(recs, c, x)
      BY <1>2, <2>1, <2>4 DEF LastOf
    <3> QED BY <1>1, <1>3, <3>1
  <2>5. AtMostTwo(todo, TRUE, c)
    BY <1>3, <2>2 DEF AtMostTwo
  <2>6. /\ \A k, l \in Due(todo, TRUE, c) : k # l => Of(new, c) = {}
        /\ Due(todo, TRUE, c) # {} => \A x, y \in Of(new, c) : x = y
    BY <1>3, <2>1, <2>2
  <2>7. WorkFits(new, todo, TRUE, d, c)
    BY <1>5, <2>3, <2>4, <2>5, <2>6 DEF WorkFits
  <2> QED BY <2>7 DEF new
<1>6. CASE todo[1].copy = c
  <2>1. Of(new, c) = Of(recs, c) \cup {n}
    BY <1>1, <1>6
  <2>2. 1 \in Due(todo, FALSE, c)
    BY <1>4, <1>6 DEF Due
  <2>3. \A k \in Due(todo, TRUE, c) : k \in Due(todo, FALSE, c) /\ k # 1
    BY DEF Due
  <2>4. \A x, y \in Of(recs, c) : x = y
    BY <1>3, <2>2
  <2>5. \A x \in Of(recs, c) : LastOf(recs, c, x) /\ x \in DOMAIN recs
    <3>1. \A x \in Of(recs, c) : x \in Nat
      BY <1>1, <1>2
    <3>2. \A x \in Of(recs, c), y \in Of(recs, c) : y <= x
      BY <2>4, <3>1
    <3> QED BY <1>2, <3>2 DEF LastOf
  <2>6. Chained(new, c)
    <3>1. ASSUME NEW x \in Of(new, c), NEW y \in Of(new, c), x < y
          PROVE  new[y].pre = new[x].after /\ \A z \in Of(new, c) : z \in {x, y}
      <4>1. \A z \in Of(recs, c) : z < n /\ z \in Nat
        BY <1>1, <1>2
      <4>2. y = n /\ x \in Of(recs, c)
        <5>1. x # n
          <6>1. y = n \/ y < n
            BY <2>1, <4>1
          <6> QED BY <1>1, <2>1, <3>1, <4>1, <6>1
        <5>2. x \in Of(recs, c) /\ x \in Nat
          BY <2>1, <4>1, <5>1
        <5>3. y \notin Of(recs, c)
          <6>1. y \in Of(recs, c) => x = y
            BY <2>4, <5>2
          <6> QED BY <3>1, <5>2, <6>1
        <5> QED BY <2>1, <5>2, <5>3
      <4>3. new[x] = recs[x] /\ recs[x].after = d[c] /\ new[y] = r
        BY <1>1, <1>2, <1>3, <2>5, <4>2
      <4>4. \A z \in Of(new, c) : z \in {x, y}
        BY <2>1, <2>4, <4>2
      <4> QED BY <1>6, <4>3, <4>4
    <3> QED BY <3>1 DEF Chained
  <2>7. ASSUME NEW x \in DOMAIN new, LastOf(new, c, x)
        PROVE  new[x].pre = d[c] /\ new[x].after = Image(todo[1].to)
    <3>1. x = n
      <4>1. n \in Of(new, c) /\ x \in Of(new, c) /\ n <= x
        BY <2>1, <2>7 DEF LastOf
      <4>2. x \in Of(recs, c) => x < n /\ x \in Nat
        BY <1>1, <1>2
      <4> QED BY <1>1, <2>1, <4>1, <4>2
    <3> QED BY <1>1, <1>6, <3>1
  <2>8. \A k, l \in Due(todo, TRUE, c) : k = l
    BY <1>3, <2>2, <2>3 DEF AtMostTwo
  <2>9. Due(todo, TRUE, c) # {} => \A x, y \in Of(new, c) : x = y
    <3>1. ASSUME NEW k \in Due(todo, TRUE, c) PROVE Of(recs, c) = {}
      BY <1>3, <2>2, <2>3
    <3> QED BY <2>1, <3>1
  <2>10. AtMostTwo(todo, TRUE, c)
    BY <2>8 DEF AtMostTwo
  <2>11. WorkFits(new, todo, TRUE, d, c)
    BY <1>6, <2>6, <2>7, <2>8, <2>9, <2>10 DEF WorkFits
  <2> QED BY <2>11 DEF new
<1> QED BY <1>5, <1>6

(* The head of a plan is done: a recorded write, or no write.              *)
LEMMA WorkGoesDown ==
  ASSUME NEW recs \in Seq(Records), NEW todo \in Seq(Steps), todo # <<>>, NEW recorded,
         NEW d, NEW e, NEW c, WorkFits(recs, todo, recorded, d, c),
         recorded <=> todo[1].op = "write",
         e[c] = IF todo[1].op = "write" /\ todo[1].copy = c THEN Image(todo[1].to) ELSE d[c]
  PROVE  WorkFits(recs, Tail(todo), FALSE, e, c)
<1>1. /\ Len(todo) \in Nat \ {0} /\ Len(Tail(todo)) = Len(todo) - 1
      /\ \A k \in 1..Len(todo) - 1 : Tail(todo)[k] = todo[k + 1] /\ k + 1 \in 1..Len(todo)
  BY TailFacts
<1>2. ASSUME NEW k \in Due(Tail(todo), FALSE, c)
      PROVE  k \in Nat /\ k + 1 \in Due(todo, recorded, c)
  <2>1. k \in 1..Len(todo) - 1 /\ Tail(todo)[k].op = "write" /\ Tail(todo)[k].copy = c
    BY <1>1 DEF Due
  <2>2. k + 1 \in 1..Len(todo) /\ Tail(todo)[k] = todo[k + 1] /\ k + 1 # 1 /\ k \in Nat
    BY <1>1, <2>1
  <2> QED BY <2>1, <2>2 DEF Due
<1>3. ASSUME NEW k \in Due(Tail(todo), FALSE, c), NEW l \in Due(Tail(todo), FALSE, c), k # l
      PROVE  k + 1 # l + 1
  <2>1. k \in Nat /\ l \in Nat
    BY <1>2
  <2> QED BY <1>3, <2>1
<1>4. AtMostTwo(Tail(todo), FALSE, c)
  <2>1. ASSUME NEW k \in Due(Tail(todo), FALSE, c), NEW l \in Due(Tail(todo), FALSE, c),
               NEW m \in Due(Tail(todo), FALSE, c), k # l
        PROVE  m \in {k, l}
    <3>1. m + 1 \in {k + 1, l + 1}
      <4>1. /\ k + 1 \in Due(todo, recorded, c) /\ l + 1 \in Due(todo, recorded, c)
            /\ m + 1 \in Due(todo, recorded, c)
        BY <1>2
      <4>2. k + 1 # l + 1
        BY <1>3, <2>1
      <4>3. AtMostTwo(todo, recorded, c)
        BY DEF WorkFits
      <4> QED BY <4>1, <4>2, <4>3 DEF AtMostTwo
    <3>2. k \in Nat /\ l \in Nat /\ m \in Nat
      BY <1>2
    <3> QED BY <3>1, <3>2
  <2> QED BY <2>1 DEF AtMostTwo
<1>5. \A k, l \in Due(Tail(todo), FALSE, c) : k # l => Of(recs, c) = {}
  BY <1>2, <1>3 DEF WorkFits
<1>6. Due(Tail(todo), FALSE, c) # {} => \A x, y \in Of(recs, c) : x = y
  BY <1>2 DEF WorkFits
<1>7. \A x \in DOMAIN recs : LastOf(recs, c, x) => e[c] = recs[x].after
  BY DEF WorkFits
<1> QED BY <1>4, <1>5, <1>6, <1>7 DEF WorkFits

-----------------------------------------------------------------------------
(* A step that leaves no work to do.                                       *)
LEMMA Resting ==
  ASSUME ~Working', ckpt' = NoJob => ~rewound', Ends(run'.todo, file'.recs),
         used'.edits = 0 /\ ~rewound' /\ ckpt' # NoJob => Stands(disk', ckpt'),
         used'.edits = 0 /\ ckpt' = NoJob /\ Intact(file'.recs) =>
           \A c \in CopyNames : UndoFits(file'.recs, disk', c)
  PROVE  AInv'
<1>1. PlansEnd'
  BY DEF PlansEnd
<1>2. JobStands'
  BY DEF JobStands
<1>3. RecordsFit'
  BY DEF RecordsFit
<1> QED BY <1>1, <1>2, <1>3 DEF AInv

(* The journal of any state is one undo accepts, so long as undo is what   *)
(* the user will be told.                                                  *)
LEMMA AlwaysFits ==
  ASSUME IInv, AInv, used.edits = 0, ckpt = NoJob, Intact(file.recs), NEW c \in CopyNames
  PROVE  UndoFits(file.recs, disk, c)
<1>1. disk[c] \in Contents /\ file.recs \in Seq(Records)
  BY Types
<1>2. CASE Working
  <2>1. WorkFits(file.recs, run.todo, run.recorded, disk, c)
    BY <1>2 DEF AInv, RecordsFit
  <2> QED BY <1>1, <2>1, WorkStops
<1>3. CASE ~Working
  BY <1>3 DEF AInv, RecordsFit
<1> QED BY <1>2, <1>3

(* Nothing that matters has changed but that the command is gone.          *)
LEMMA RestingAsIs ==
  ASSUME IInv, AInv, ~Working', Ends(run'.todo, file'.recs), file'.recs = file.recs,
         UNCHANGED <<disk, ckpt, rewound>>, used'.edits = used.edits
  PROVE  AInv'
<1>1. ckpt = NoJob => ~rewound
  BY DEF AInv
<1>2. used.edits = 0 /\ ~rewound /\ ckpt # NoJob => Stands(disk, ckpt)
  BY DEF AInv, JobStands
<1>3. used.edits = 0 /\ ckpt = NoJob /\ Intact(file.recs) =>
        \A c \in CopyNames : UndoFits(file.recs, disk, c)
  BY AlwaysFits
<1> QED BY <1>1, <1>2, <1>3, Resting

LEMMA IdleEnds ==
  /\ \A recs : Ends(<<>>, recs)
  /\ run' = Idle => ~Working' /\ run'.todo = <<>>
<1>1. \A recs : Ends(<<>>, recs)
  BY DEF Ends
<1>2. run' = Idle => ~Working' /\ run'.todo = <<>>
  BY NoFileTypes DEF Working
<1> QED BY <1>1, <1>2

(* Undo and abandon drop no checkpoint before an empty journal's.          *)
LEMMA UndoEnds ==
  ASSUME NEW todo, Only(todo, UndoOps) PROVE Ends(todo, <<>>)
  BY DEF Ends, Only, UndoOps

(* The command works on a job.                                             *)
LEMMA AtWork ==
  ASSUME IInv, AInv, Working
  PROVE  /\ run.todo \in Seq(Steps) /\ run.todo # <<>> /\ 1 \in 1..Len(run.todo)
         /\ run.todo[1] \in Steps /\ Head(run.todo) = run.todo[1] /\ run.todo[1].op \in WorkOps
         /\ Only(run.todo, WorkOps) /\ run.busy
         /\ file.recs \in Seq(Records) /\ disk \in [CopyNames -> Contents]
         /\ run.job \in Jobs /\ ckpt \in {NoJob, run.job}
         /\ Paired(run.todo) /\ Ends(run.todo, file.recs)
         /\ used.edits = 0 /\ ~rewound /\ run.job # NoJob =>
              JobWrites(run.todo, run.job, ckpt # NoJob) /\ JobDisk(run.todo, disk, run.job)
         /\ used.edits = 0 /\ ckpt = NoJob /\ Intact(file.recs) => \A c \in CopyNames :
              WorkFits(file.recs, run.todo, run.recorded, disk, c)
         /\ run.recorded => run.todo[1].op = "write"
<1>1. run.todo \in Seq(Steps) /\ file.recs \in Seq(Records) /\ disk \in [CopyNames -> Contents]
      /\ run.job \in Jobs
  BY Types DEF Runs
<1>2. run.busy /\ run.todo # <<>> /\ run.todo[1].op \in WorkOps
  BY DEF Working
<1>3. 1 \in 1..Len(run.todo) /\ run.todo[1] \in Steps /\ Head(run.todo) = run.todo[1]
  BY <1>1, <1>2, TailFacts
<1>4. Only(run.todo, WorkOps)
  BY <1>2, FirstStep
<1>5. ckpt \in {NoJob, run.job}
  BY DEF IInv, OneJob
<1>6. run.recorded => run.todo[1].op = "write"
  BY <1>3 DEF IInv, Sound, PlanShape, At
<1> QED BY <1>1, <1>2, <1>3, <1>4, <1>5, <1>6 DEF AInv, PlansEnd, JobStands, RecordsFit

LEMMA RecordAdvised == ASSUME IInv, AInv, Record PROVE AInv'
<1> DEFINE new == Append(file.recs, NextRecord)
<1>1. PICK f \in Headed :
        /\ file' = With(f, NextRecord)
        /\ run' = [run EXCEPT !.gen = f.gen, !.ino = f.ino, !.recorded = At("write"),
                              !.todo = IF At("barrier") THEN Tail(@) ELSE @]
  BY DEF Record
<1>2. /\ Appending /\ UNCHANGED <<disk, ckpt, rewound>> /\ used'.edits = used.edits
  <2>1. used \in [commands: 0..MaxCommands, deaths: 0..MaxDeaths, edits: 0..MaxEdits, files: Inodes]
    BY DEF IInv, Sound, TypeOK
  <2> QED BY <2>1 DEF Record, history
<1>3. /\ Working /\ NextRecord \in Records
      /\ At("barrier") => NextRecord = Barrier /\ run.todo[1].op = "barrier"
      /\ ~At("barrier") =>
           /\ At("write") /\ run.todo[1].op = "write" /\ run.todo[1].copy \in CopyNames
           /\ NextRecord.copy = run.todo[1].copy
           /\ NextRecord.pre = disk[NextRecord.copy]
  BY <1>2, NextRecordFacts
<1>4. f \in Files /\ f.recs = file.recs
  BY <1>2, HeadedFacts
<1>5. file'.recs = new
  BY <1>1, <1>3, <1>4, WithFacts
<1>6. Intact(new) => Intact(file.recs) /\ ~At("barrier")
  BY <1>2, OneMoreRecord
<1>7. run \in Runs
  BY DEF IInv, Sound, TypeOK
<1>8. /\ run'.busy = run.busy /\ run'.job = run.job /\ run'.recorded = At("write")
      /\ run'.todo = IF At("barrier") THEN Tail(run.todo) ELSE run.todo
  BY <1>1, <1>7 DEF Runs
<1>9. /\ run.todo \in Seq(Steps) /\ run.todo # <<>> /\ 1 \in 1..Len(run.todo)
      /\ Only(run.todo, WorkOps) /\ Head(run.todo) = run.todo[1]
      /\ file.recs \in Seq(Records) /\ run.job \in Jobs
      /\ Paired(run.todo) /\ Ends(run.todo, file.recs)
      /\ used.edits = 0 /\ ~rewound /\ run.job # NoJob =>
           JobWrites(run.todo, run.job, ckpt # NoJob) /\ JobDisk(run.todo, disk, run.job)
      /\ used.edits = 0 /\ ckpt = NoJob /\ Intact(file.recs) => \A c \in CopyNames :
           WorkFits(file.recs, run.todo, run.recorded, disk, c)
  BY <1>3, AtWork
<1>10. (ckpt = NoJob => ~rewound) /\ (used.edits = 0 /\ ~rewound /\ ckpt # NoJob => Stands(disk, ckpt))
  BY DEF AInv, JobStands
<1> HIDE DEF new
<1>11. CASE At("barrier")
  <2>1. run'.todo = Tail(run.todo) /\ run.todo[1].op = "barrier"
    BY <1>3, <1>8, <1>11
  <2>2. Paired(run'.todo)
    BY <1>9, <2>1, TailPaired
  <2>3. Ends(run'.todo, new)
    BY <1>6, <1>9, <1>11, <2>1, TailEndsToo
  <2>4. PlansEnd'
    BY <1>5, <2>2, <2>3 DEF PlansEnd
  <2>5. JobStands'
    <3>1. used.edits = 0 /\ ~rewound /\ run.job # NoJob =>
            JobWrites(run'.todo, run.job, ckpt # NoJob) /\ JobDisk(run'.todo, disk, run.job)
      <4> SUFFICES ASSUME used.edits = 0, ~rewound, run.job # NoJob
                   PROVE  JobWrites(run'.todo, run.job, ckpt # NoJob) /\ JobDisk(run'.todo, disk, run.job)
        OBVIOUS
      <4>1. JobWrites(Tail(run.todo), run.job, ckpt # NoJob)
        BY <1>9, TailJobWrites
      <4>2. JobDisk(Tail(run.todo), disk, run.job)
        BY <1>9, <2>1, TailJobDisk
      <4> QED BY <2>1, <4>1, <4>2
    <3> QED BY <1>2, <1>8, <1>10, <3>1 DEF JobStands
  <2>6. RecordsFit'
    BY <1>5, <1>6, <1>11 DEF RecordsFit
  <2> QED BY <1>2, <1>10, <2>4, <2>5, <2>6 DEF AInv
<1>12. CASE ~At("barrier")
  <2>1. /\ run'.todo = run.todo /\ run.todo[1].op = "write" /\ run'.recorded = TRUE
        /\ NextRecord.copy = run.todo[1].copy /\ NextRecord.pre = disk[NextRecord.copy]
        /\ NextRecord.after = Image(run.todo[1].to) /\ ~run.recorded
    <3>1. NextRecord.after = Image(run.todo[1].to)
      BY <1>9, <1>12 DEF NextRecord, Now
    <3> QED BY <1>2, <1>3, <1>8, <1>12, <3>1 DEF Appending
  <2>2. Working'
    BY <1>3, <1>8, <2>1 DEF Working
  <2>3. Ends(run.todo, new)
    <3>1. \A k \in 1..Len(run.todo) : run.todo[k].op # "release"
      BY <1>9 DEF Only, WorkOps
    <3> QED BY <1>6, <1>9, <3>1 DEF Ends
  <2>4. PlansEnd'
    BY <1>5, <1>9, <2>1, <2>3 DEF PlansEnd
  <2>5. JobStands'
    BY <1>2, <1>8, <1>9, <1>10, <2>1 DEF JobStands
  <2>6. RecordsFit'
    <3>1. ASSUME used.edits = 0, ckpt = NoJob, Intact(new), NEW c \in CopyNames
          PROVE  WorkFits(new, run.todo, TRUE, disk, c)
      <4>1. WorkFits(file.recs, run.todo, FALSE, disk, c)
        <5>1. WorkFits(file.recs, run.todo, run.recorded, disk, c)
          BY <1>6, <1>9, <3>1
        <5>2. run.recorded = FALSE
          BY <1>7, <2>1 DEF Runs
        <5> QED BY <5>1, <5>2
      <4> QED BY <1>3, <1>9, <2>1, <4>1, WorkRecords DEF new
    <3> QED BY <1>2, <1>5, <2>1, <2>2, <3>1 DEF RecordsFit
  <2> QED BY <1>2, <1>10, <2>4, <2>5, <2>6 DEF AInv
<1> QED BY <1>11, <1>12

(* A step of a plan is done, and the copy it wrote if it wrote one.        *)
LEMMA WorkAdvised ==
  ASSUME IInv, AInv, Working, Advance, run.recorded <=> run.todo[1].op = "write",
         run.todo[1].op \in {"write", "save", "data"},
         UNCHANGED <<file, rewound>>, used'.edits = used.edits,
         disk' = IF run.todo[1].op = "write"
                 THEN [disk EXCEPT ![run.todo[1].copy] = Image(run.todo[1].to)] ELSE disk,
         ckpt' = IF run.todo[1].op = "save" THEN run.job ELSE ckpt
  PROVE  AInv'
<1>1. /\ run.todo \in Seq(Steps) /\ run.todo # <<>> /\ 1 \in 1..Len(run.todo)
      /\ run.todo[1] \in Steps
      /\ Only(run.todo, WorkOps) /\ run.busy
      /\ file.recs \in Seq(Records) /\ disk \in [CopyNames -> Contents]
      /\ run.job \in Jobs /\ ckpt \in {NoJob, run.job}
      /\ Paired(run.todo) /\ Ends(run.todo, file.recs)
      /\ used.edits = 0 /\ ~rewound /\ run.job # NoJob =>
           JobWrites(run.todo, run.job, ckpt # NoJob) /\ JobDisk(run.todo, disk, run.job)
      /\ used.edits = 0 /\ ckpt = NoJob /\ Intact(file.recs) => \A c \in CopyNames :
           WorkFits(file.recs, run.todo, run.recorded, disk, c)
  BY AtWork
<1>2. run'.todo = Tail(run.todo) /\ run'.recorded = FALSE /\ run'.job = run.job
  <2>1. run \in Runs
    BY DEF IInv, Sound, TypeOK
  <2> QED BY <2>1 DEF Advance, Runs
<1>3. ckpt = NoJob => ~rewound
  BY DEF AInv
<1>4. ckpt' = NoJob => ckpt = NoJob
  BY <1>1
<1>5. PlansEnd'
  <2>1. Paired(Tail(run.todo))
    BY <1>1, TailPaired
  <2>2. Ends(Tail(run.todo), file.recs)
    BY <1>1, TailEndsToo
  <2> QED BY <1>2, <2>1, <2>2 DEF PlansEnd
<1>6. JobStands'
  <2> SUFFICES ASSUME used.edits = 0, ~rewound, run.job # NoJob
               PROVE  /\ ckpt' # NoJob => Stands(disk', run.job)
                      /\ JobWrites(Tail(run.todo), run.job, ckpt' # NoJob)
                      /\ JobDisk(Tail(run.todo), disk', run.job)
    <3>1. ckpt' \in {NoJob, run.job}
      BY <1>1
    <3> QED BY <1>2, <3>1 DEF JobStands
  <2>1. JobWrites(run.todo, run.job, ckpt # NoJob) /\ JobDisk(run.todo, disk, run.job)
    BY <1>1
  <2>2. JobWrites(Tail(run.todo), run.job, ckpt' # NoJob)
    <3>1. ckpt' # NoJob => ckpt # NoJob \/ run.todo[1].op = "save"
      OBVIOUS
    <3> QED BY <1>1, <2>1, <3>1, TailJobWrites
  <2>3. ckpt # NoJob => ckpt = run.job /\ Stands(disk, run.job)
    BY <1>1 DEF AInv, JobStands
  <2>4. CASE run.todo[1].op = "write"
    <3> DEFINE e == [disk EXCEPT ![run.todo[1].copy] = Image(run.todo[1].to)]
    <3>1. JobDisk(Tail(run.todo), e, run.job)
      BY <1>1, <2>1, <2>4, WrittenJobDisk
    <3>2. ckpt # NoJob => Stands(e, run.job)
      <4> SUFFICES ASSUME ckpt # NoJob PROVE Stands(e, run.job)
        OBVIOUS
      <4>1. Image(run.todo[1].to) \in Partial(disk[run.todo[1].copy], Image(run.todo[1].to))
        <5>1. run.todo[1].copy \in CopyNames /\ run.todo[1].to \in Readable \cup {-1}
          BY <1>1, <2>4, StepFacts
        <5>2. disk[run.todo[1].copy] \in Contents /\ Image(run.todo[1].to) \in Contents
          BY <1>1, <5>1, ImageIsContent
        <5> QED BY <5>2, PartialFacts
      <4>2. JobWrites(run.todo, run.job, TRUE)
        BY <2>1
      <4> QED BY <1>1, <2>1, <2>3, <2>4, <4>1, <4>2, StandsWrite
    <3> QED BY <2>2, <2>4, <3>1, <3>2
  <2>5. CASE run.todo[1].op # "write"
    <3>1. JobDisk(Tail(run.todo), disk, run.job)
      BY <1>1, <2>1, <2>5, TailJobDisk
    <3>2. run.todo[1].op = "save" => Stands(disk, run.job)
      <4>1. ~Behind(run.todo, 1, {"write"})
        BY DEF Behind
      <4> QED BY <1>1, <2>1, <4>1 DEF JobDisk
    <3> QED BY <2>2, <2>3, <2>5, <3>1, <3>2
  <2> QED BY <2>4, <2>5
<1>7. RecordsFit'
  <2> SUFFICES ASSUME used.edits = 0, ckpt' = NoJob, Intact(file.recs), NEW c \in CopyNames
               PROVE  /\ WorkFits(file.recs, Tail(run.todo), FALSE, disk', c)
                      /\ UndoFits(file.recs, disk', c)
    BY <1>2 DEF RecordsFit
  <2>1. WorkFits(file.recs, run.todo, run.recorded, disk, c)
    BY <1>1, <1>4
  <2>2. /\ disk'[c] = IF run.todo[1].op = "write" /\ run.todo[1].copy = c
                      THEN Image(run.todo[1].to) ELSE disk[c]
    BY <1>1
  <2>3. WorkFits(file.recs, Tail(run.todo), FALSE, disk', c)
    BY <1>1, <2>1, <2>2, WorkGoesDown
  <2>4. disk'[c] \in Contents
    <3>1. run.todo[1].op = "write" => Image(run.todo[1].to) \in Contents
      BY <1>1, StepFacts, ImageIsContent
    <3> QED BY <1>1, <2>2, <3>1
  <2>5. UndoFits(file.recs, disk', c)
    BY <1>1, <2>3, <2>4, WorkStops
  <2> QED BY <2>3, <2>5
<1> QED BY <1>3, <1>4, <1>5, <1>6, <1>7 DEF AInv

LEMMA WriteSaveDataAdvised == ASSUME IInv, AInv, WriteCopy \/ Save \/ Data PROVE AInv'
<1>1. PICK name \in {"write", "save", "data"} :
        /\ At(name) /\ Advance /\ UNCHANGED <<file, rewound, used>>
        /\ name = "write" =>
             /\ run.recorded /\ disk' = [disk EXCEPT ![Now.copy] = Image(Now.to)] /\ ckpt' = ckpt
        /\ name = "save" => disk' = disk /\ ckpt' = run.job
        /\ name = "data" => disk' = disk /\ ckpt' = ckpt
  BY DEF WriteCopy, Save, Data, history
<1>2. run.todo \in Seq(Steps) /\ run.busy /\ run.todo # <<>> /\ Head(run.todo).op = name
  BY <1>1, Types DEF At
<1>3. Head(run.todo) = run.todo[1] /\ Now = run.todo[1]
  BY <1>2, TailFacts DEF Now
<1>4. Working
  BY <1>2, <1>3 DEF Working, WorkOps
<1>5. run.recorded <=> run.todo[1].op = "write"
  BY <1>1, <1>2, <1>3, <1>4, AtWork
<1> QED BY <1>1, <1>2, <1>3, <1>4, <1>5, WorkAdvised

LEMMA DropAdvised == ASSUME IInv, AInv, Drop PROVE AInv'
<1>1. /\ run.todo \in Seq(Steps) /\ run.busy /\ run.todo # <<>> /\ Head(run.todo).op = "drop"
      /\ ckpt' = NoJob /\ rewound' = FALSE /\ Advance /\ UNCHANGED <<disk, file, used>>
  BY Types DEF Drop, At
<1>2. Head(run.todo) = run.todo[1]
  BY <1>1, TailFacts
<1>3. Working
  BY <1>1, <1>2 DEF Working, WorkOps
<1>4. 1 \in 1..Len(run.todo) /\ Ends(run.todo, file.recs)
  BY <1>3, AtWork
<1>5. 1 = Len(run.todo) /\ ~Intact(file.recs)
  <2>1. ~Behind(run.todo, 1, {"barrier"})
    BY DEF Behind
  <2> QED BY <1>1, <1>2, <1>4, <2>1 DEF Ends
<1>6. Tail(run.todo) = <<>>
  <2>1. Len(Tail(run.todo)) = 0 /\ Tail(run.todo) \in Seq(Steps)
    BY <1>1, <1>5, TailFacts
  <2> QED BY <2>1, EmptySeq
<1>7. run'.todo = <<>>
  <2>1. run \in Runs
    BY DEF IInv, Sound, TypeOK
  <2> QED BY <1>1, <1>6, <2>1 DEF Advance, Runs
<1>8. ~Working'
  BY <1>7 DEF Working
<1> QED BY <1>1, <1>5, <1>7, <1>8, IdleEnds, Resting

-----------------------------------------------------------------------------
(* The steps that write no copy of the table.                              *)
LEMMA EndsAdvised ==
  ASSUME IInv, AInv, LeavePending \/ Return PROVE AInv'
<1>1. /\ run' = Idle /\ UNCHANGED <<disk, file, ckpt, rewound>> /\ used'.edits = used.edits
  <2>1. used \in [commands: 0..MaxCommands, deaths: 0..MaxDeaths, edits: 0..MaxEdits, files: Inodes]
    BY DEF IInv, Sound, TypeOK
  <2> QED BY <2>1 DEF LeavePending, Return, history
<1> QED BY <1>1, IdleEnds, RestingAsIs

LEMMA BeginUndoAdvised == ASSUME IInv, AInv, BeginUndo PROVE AInv'
<1>1. /\ run' = [Idle EXCEPT !.busy = TRUE, !.todo = UndoSteps]
      /\ UNCHANGED <<disk, file, ckpt, rewound, used>>
  BY DEF BeginUndo, history
<1>2. /\ UndoSteps \in Seq(Steps) /\ UndoSteps # <<>> /\ Only(UndoSteps, UndoOps)
      /\ LastOp(UndoSteps) = "release" /\ UndoShape(UndoSteps, file.recs)
  BY Types, UndoStepFacts
<1>3. run'.todo = UndoSteps
  BY <1>1 DEF Idle
<1>4. ~Working'
  BY <1>2, <1>3, UndoPlan DEF Working
<1>5. Ends(UndoSteps, file.recs)
  <2> DEFINE short == <<Step("clear"), Step("release")>>
             first == [op |-> "replay", left |-> ToReplay(file.recs)]
             all == <<first>> \o short
  <2>1. /\ short \in Seq(Steps) /\ Len(short) = 2
        /\ short[1].op = "clear" /\ short[2].op = "release"
    BY BareSteps
  <2>2. first \in Steps /\ first.op = "replay"
    <3>1. ToReplay(file.recs) \subseteq Nat
      BY Types DEF ToReplay
    <3> QED BY <3>1 DEF Steps
  <2>3. UndoSteps = short \/ UndoSteps = all
    <3>1. CASE ToReplay(file.recs) = {}
      <4>1. UndoSteps = short
        BY <3>1 DEF UndoSteps
      <4> QED BY <4>1
    <3>2. CASE ToReplay(file.recs) # {}
      <4>1. UndoSteps = all
        BY <3>2 DEF UndoSteps
      <4> QED BY <4>1
    <3> QED BY <3>1, <3>2
  <2> HIDE DEF short, first
  <2>4. CASE UndoSteps = short
    <3>1. Behind(short, 2, {"clear", "retire"})
      <4>1. 1 \in 1..2 - 1
        OBVIOUS
      <4> QED BY <2>1, <4>1 DEF Behind
    <3>2. \A k \in 1..2 : k = 1 \/ k = 2
      OBVIOUS
    <3> QED BY <2>1, <2>4, <3>1, <3>2 DEF Ends
  <2>5. CASE UndoSteps = all
    <3>1. /\ all \in Seq(Steps) /\ Len(all) = Len(short) + 1 /\ all[1] = first
          /\ \A k \in 1..Len(short) : all[k + 1] = short[k]
      BY <2>1, <2>2, Prefixed
    <3> HIDE DEF all
    <3>2. 1 \in 1..2 /\ 2 \in 1..2 /\ 1 + 1 = 2 /\ 2 + 1 = 3
      OBVIOUS
    <3>3. Len(all) = 3 /\ all[1].op = "replay" /\ all[2].op = "clear" /\ all[3].op = "release"
      BY <2>1, <2>2, <3>1, <3>2
    <3>4. Behind(all, 3, {"clear", "retire"})
      <4>1. 2 \in 1..3 - 1
        OBVIOUS
      <4> QED BY <3>3, <4>1 DEF Behind
    <3>5. \A k \in 1..3 : k = 1 \/ k = 2 \/ k = 3
      OBVIOUS
    <3> QED BY <2>5, <3>3, <3>4, <3>5 DEF Ends
  <2> QED BY <2>3, <2>4, <2>5
<1> QED BY <1>1, <1>3, <1>4, <1>5, RestingAsIs

LEMMA BeginAbandonAdvised == ASSUME IInv, AInv, BeginAbandon PROVE AInv'
<1> DEFINE p == IF Class(file) \in {"damaged", "records"} THEN <<Step("retire")>> ELSE <<>>
           q == IF ckpt # NoJob THEN <<Step("release")>> ELSE <<>>
           todo == p \o q
<1>1. /\ run' = [Idle EXCEPT !.busy = TRUE, !.todo = todo]
      /\ UNCHANGED <<disk, file, ckpt, rewound, used>>
  BY DEF BeginAbandon, history
<1>2. Step("retire") \in Steps /\ Step("retire").op = "retire"
      /\ Step("release") \in Steps /\ Step("release").op = "release"
  BY BareSteps
<1>3. /\ \A k \in 1..Len(todo) : todo[k].op \in {"retire", "release"}
      /\ Ends(todo, file.recs)
  <2>1. CASE Class(file) \in {"damaged", "records"} /\ ckpt # NoJob
    <3>1. todo = <<Step("retire")>> \o <<Step("release")>>
      BY <2>1
    <3>2. \A k \in 1..2 : k = 1 \/ k = 2
      OBVIOUS
    <3>3. /\ <<Step("release")>> \in Seq(Steps) /\ Len(<<Step("release")>>) = 1
          /\ <<Step("release")>>[1] = Step("release") /\ 1 \in 1..1 /\ 1 + 1 = 2
      BY <1>2
    <3>4. /\ todo \in Seq(Steps) /\ Len(todo) = 2
          /\ todo[1] = Step("retire") /\ todo[2] = Step("release")
      BY <1>2, <3>1, <3>3, Prefixed
    <3> HIDE DEF todo
    <3>5. Behind(todo, 2, {"clear", "retire"})
      <4>1. 1 \in 1..2 - 1
        OBVIOUS
      <4> QED BY <1>2, <3>4, <4>1 DEF Behind
    <3> QED BY <1>2, <3>2, <3>4, <3>5 DEF Ends
  <2>2. CASE Class(file) \in {"damaged", "records"} /\ ckpt = NoJob
    <3>1. todo = <<Step("retire")>>
      BY <2>2
    <3>2. \A k \in 1..1 : k = 1
      OBVIOUS
    <3> HIDE DEF todo
    <3> QED BY <1>2, <2>2, <3>1, <3>2 DEF Ends
  <2>3. CASE Class(file) \notin {"damaged", "records"}
    <3>1. file.recs = <<>>
      BY <2>3, Recorded
    <3>2. \A k \in 1..Len(todo) : todo[k].op = "release"
      <4>1. todo = <<Step("release")>> \/ todo = <<>>
        BY <2>3
      <4>2. \A k \in 1..1 : k = 1
        OBVIOUS
      <4> HIDE DEF todo
      <4> QED BY <1>2, <4>1, <4>2
    <3> HIDE DEF todo
    <3> QED BY <3>1, <3>2 DEF Ends
  <2> QED BY <2>1, <2>2, <2>3
<1> HIDE DEF todo
<1>4. run'.todo = todo
  BY <1>1 DEF Idle
<1>5. ~Working'
  <2>1. todo \in Seq(Steps) /\ todo # <<>> => todo[1].op \in {"retire", "release"}
    BY <1>3, EmptySeq
  <2>2. Working' => todo # <<>> /\ todo[1].op \in WorkOps
    BY <1>4 DEF Working
  <2>3. todo \in Seq(Steps)
    <3>1. p \in Seq(Steps) /\ q \in Seq(Steps)
      BY <1>2
    <3> QED BY <3>1, ConcatProperties DEF todo
  <2> QED BY <2>1, <2>2, <2>3 DEF WorkOps
<1> QED BY <1>1, <1>3, <1>4, <1>5, RestingAsIs

(* The journal is taken over, or it goes, while nothing runs.              *)
LEMMA FreeAdvised ==
  ASSUME IInv, AInv, Free, run' = run, file'.recs = file.recs \/ file'.recs = <<>>,
         UNCHANGED <<disk, ckpt, rewound>>, used'.edits = used.edits
  PROVE  AInv'
<1>1. run.todo = <<>> /\ run'.todo = <<>> /\ ~Working'
  <2>1. run.todo = <<>>
    BY IdlePlan
  <2> QED BY <2>1 DEF Working
<1>2. CASE file'.recs = file.recs
  BY <1>1, <1>2, IdleEnds, RestingAsIs
<1>3. CASE file'.recs = <<>>
  <2>1. ckpt = NoJob => ~rewound
    BY DEF AInv
  <2>2. used.edits = 0 /\ ~rewound /\ ckpt # NoJob => Stands(disk, ckpt)
    BY DEF AInv, JobStands
  <2> QED BY <1>1, <1>3, <2>1, <2>2, IdleEnds, EmptyFits, Resting
<1> QED BY <1>2, <1>3

LEMMA IntrudeRemoveAdvised == ASSUME IInv, AInv, Intrude \/ RemoveShell PROVE AInv'
<1>1. /\ Free /\ UNCHANGED <<disk, ckpt, run, rewound, used>>
      /\ file' = Adopted \/ file' = NoFile
  BY DEF Intrude, RemoveShell, history
<1>2. Adopted.recs = file.recs /\ NoFile.recs = <<>>
  BY AdoptedFacts, NoFileTypes
<1> QED BY <1>1, <1>2, FreeAdvised

(* Nothing the invariant speaks of has changed.                            *)
LEMMA Unmoved ==
  ASSUME AInv, UNCHANGED <<disk, file, ckpt, run, rewound>>, used'.edits = used.edits
  PROVE  AInv'
<1>1. Working' <=> Working
  BY DEF Working
<1>2. (ckpt' = NoJob => ~rewound') /\ PlansEnd'
  BY <1>1 DEF AInv, PlansEnd
<1>3. JobStands' /\ RecordsFit'
  BY <1>1 DEF AInv, JobStands, RecordsFit
<1> QED BY <1>2, <1>3 DEF AInv

LEMMA CloseAdvised ==
  ASSUME IInv, AInv, NEW s \in closing, Close(s) \/ CloseBusy(s) PROVE AInv'
<1>1. CASE Close(s)
  <2>1. /\ Free /\ UNCHANGED <<disk, ckpt, run, rewound, used>>
        /\ file' = NoFile \/ file' = file
    BY <1>1 DEF Close, history
  <2> QED BY <2>1, NoFileTypes, FreeAdvised
<1>2. CASE CloseBusy(s)
  BY <1>2, Unmoved DEF CloseBusy, history
<1> QED BY <1>1, <1>2

LEMMA DieClosingAdvised == ASSUME IInv, AInv, DieClosing PROVE AInv'
<1>1. used \in [commands: 0..MaxCommands, deaths: 0..MaxDeaths, edits: 0..MaxEdits, files: Inodes]
  BY DEF IInv, Sound, TypeOK
<1>2. UNCHANGED <<disk, file, ckpt, run, rewound>> /\ used'.edits = used.edits
  BY <1>1 DEF DieClosing, history
<1> QED BY <1>2, Unmoved

LEMMA MeddleAdvised == ASSUME IInv, AInv, Meddle PROVE AInv'
<1>1. used \in [commands: 0..MaxCommands, deaths: 0..MaxDeaths, edits: 0..MaxEdits, files: Inodes]
      /\ used.edits \in Nat
  BY Types DEF IInv, Sound, TypeOK
<1>2. UNCHANGED <<file, ckpt, run, rewound>> /\ used'.edits # 0
  BY <1>1 DEF Meddle, history
<1>3. Working' <=> Working
  BY <1>2 DEF Working
<1>4. (ckpt' = NoJob => ~rewound') /\ PlansEnd'
  BY <1>2, <1>3 DEF AInv, PlansEnd
<1>5. JobStands' /\ RecordsFit'
  BY <1>2 DEF JobStands, RecordsFit
<1> QED BY <1>4, <1>5 DEF AInv

LEMMA ClearRetireAdvised == ASSUME IInv, AInv, Clear \/ Retire PROVE AInv'
<1>1. PICK name \in {"clear", "retire"} : At(name)
  BY DEF Clear, Retire
<1>2. Advance /\ file'.recs = <<>> /\ UNCHANGED <<disk, ckpt, rewound, used>>
  BY NoFileTypes DEF Clear, Retire
<1>3. name \in UndoOps /\ name # "release"
  BY DEF UndoOps
<1>4. /\ run'.todo = Tail(run.todo) /\ ~Working' /\ Only(run.todo, UndoOps)
      /\ run.todo \in Seq(Steps) /\ run.todo # <<>>
  BY <1>1, <1>2, <1>3, UndoGoesOn, UndoStep, Types
<1>5. Ends(run'.todo, <<>>)
  <2>1. Only(Tail(run.todo), UndoOps)
    BY <1>4, TailPlan
  <2> QED BY <1>4, <2>1, UndoEnds
<1>6. ckpt = NoJob => ~rewound
  BY DEF AInv
<1>7. used.edits = 0 /\ ~rewound /\ ckpt # NoJob => Stands(disk, ckpt)
  BY DEF AInv, JobStands
<1> QED BY <1>2, <1>4, <1>5, <1>6, <1>7, EmptyFits, Resting

LEMMA ReleaseAdvised == ASSUME IInv, AInv, Release PROVE AInv'
<1>1. At("release") /\ Advance /\ ckpt' = NoJob /\ rewound' = FALSE /\ UNCHANGED <<disk, file, used>>
  BY DEF Release
<1>2. "release" \in UndoOps
  BY DEF UndoOps
<1>3. /\ run'.todo = Tail(run.todo) /\ ~Working' /\ Only(run.todo, UndoOps)
      /\ run.todo \in Seq(Steps) /\ run.todo # <<>> /\ run.todo[1].op = "release"
  BY <1>1, <1>2, UndoGoesOn, UndoStep, Types
<1>4. file.recs = <<>>
  <2>1. 1 \in 1..Len(run.todo) /\ ~Behind(run.todo, 1, {"clear", "retire"})
    BY <1>3, TailFacts DEF Behind
  <2>2. Ends(run.todo, file.recs)
    BY DEF AInv, PlansEnd
  <2> QED BY <1>3, <2>1, <2>2 DEF Ends
<1>5. Ends(run'.todo, <<>>)
  <2>1. Only(Tail(run.todo), UndoOps)
    BY <1>3, TailPlan
  <2> QED BY <1>3, <2>1, UndoEnds
<1> QED BY <1>1, <1>3, <1>4, <1>5, EmptyFits, Resting

-----------------------------------------------------------------------------
(* Undo writes a record back: the first of its copy, or the last.          *)
LEMMA BackFits ==
  ASSUME NEW recs \in Seq(Records), NEW k \in DOMAIN recs, NEW d \in [CopyNames -> Contents],
         recs[k].copy \in CopyNames, NEW c, UndoFits(recs, d, c)
  PROVE  UndoFits(recs, [d EXCEPT ![recs[k].copy] = recs[k].pre], c)
<1> DEFINE e == [d EXCEPT ![recs[k].copy] = recs[k].pre]
<1>1. Chained(recs, c)
  BY DEF UndoFits
<1>2. ASSUME NEW x \in DOMAIN recs, LastOf(recs, c, x)
      PROVE  Matches(e[c], recs[x]) \/ e[c] = First(recs, c).pre
  <2>1. CASE c # recs[k].copy
    <3>1. e[c] = d[c]
      BY <2>1
    <3> QED BY <1>2, <3>1 DEF UndoFits
  <2>2. CASE c = recs[k].copy
    <3>1. e[c] = recs[k].pre /\ k \in Of(recs, c) /\ x \in Of(recs, c) /\ k <= x
      BY <1>2, <2>2 DEF LastOf, Of
    <3>2. CASE k = x
      BY <3>1, <3>2 DEF Matches
    <3>3. CASE k # x
      <4>1. Of(recs, c) \subseteq Nat
        BY DEF Of
      <4>2. k < x
        BY <3>1, <3>3, <4>1
      <4>3. \A z \in Of(recs, c) : z \in {k, x}
        BY <1>1, <3>1, <4>2 DEF Chained
      <4>4. Min(Of(recs, c)) \in Of(recs, c) /\ Min(Of(recs, c)) <= k
        BY <3>1, <4>1, MinFacts
      <4>5. Min(Of(recs, c)) = k
        BY <3>1, <4>1, <4>2, <4>3, <4>4
      <4> QED BY <3>1, <4>5 DEF First
    <3> QED BY <3>2, <3>3
  <2> QED BY <2>1, <2>2
<1> QED BY <1>1, <1>2 DEF UndoFits

LEMMA ReplayAdvised == ASSUME IInv, AInv, Replay PROVE AInv'
<1> DEFINE rec == file.recs[Latest]
           left == run.todo[1].left
<1>1. /\ At("replay")
      /\ \/ Matches(disk[rec.copy], rec) /\ WriteBack(rec) /\ Replayed
         \/ run' = Idle /\ UNCHANGED disk
      /\ rewound' = (rewound \/ (ckpt # NoJob /\ disk' # disk))
      /\ UNCHANGED <<file, ckpt, used>>
  BY DEF Replay, NoteRewind
<1>2. "replay" \in UndoOps
  BY DEF UndoOps
<1>3. /\ ~Working /\ run.busy /\ run.todo # <<>> /\ run.todo[1].op = "replay"
      /\ Only(run.todo, UndoOps)
      /\ run.todo \in Seq(Steps) /\ run \in Runs /\ file.recs \in Seq(Records)
      /\ disk \in [CopyNames -> Contents]
  BY <1>1, <1>2, UndoStep, Types
<1>4. Ends(run.todo, file.recs) /\ (ckpt = NoJob => ~rewound)
  BY DEF AInv, PlansEnd
<1>5. used.edits = 0 /\ ~rewound' /\ ckpt # NoJob => Stands(disk', ckpt)
  BY <1>1 DEF AInv, JobStands
<1>6. CASE run' = Idle /\ UNCHANGED disk
  <2>1. used.edits = 0 /\ ckpt = NoJob /\ Intact(file.recs) =>
          \A c \in CopyNames : UndoFits(file.recs, disk, c)
    BY AlwaysFits
  <2> QED BY <1>1, <1>4, <1>5, <1>6, <2>1, IdleEnds, Resting
<1>7. CASE Matches(disk[rec.copy], rec) /\ WriteBack(rec) /\ Replayed
  <2>1. rec.copy \in CopyNames /\ Latest \in left /\ Now = run.todo[1]
    BY <1>1, <1>7, WriteBackFacts
  <2>2. left \subseteq DOMAIN file.recs /\ 1 \in 1..Len(run.todo)
    <3>1. 1 \in 1..Len(run.todo)
      BY <1>3, TailFacts
    <3> QED BY <1>3, <3>1 DEF IInv, UndoKeeps, UndoShape
  <2>3. disk' = [disk EXCEPT ![rec.copy] = rec.pre]
    BY <1>7 DEF WriteBack
  <2>4. used.edits = 0 /\ ckpt = NoJob /\ Intact(file.recs) =>
          \A c \in CopyNames : UndoFits(file.recs, disk', c)
    BY <1>3, <2>1, <2>2, <2>3, AlwaysFits, BackFits
  <2>5. ~Working' /\ Ends(run'.todo, file.recs)
    <3>1. CASE Advance
      <4>1. run'.todo = Tail(run.todo) /\ ~Working'
        BY <1>1, <1>2, <3>1, UndoGoesOn
      <4>2. Ends(Tail(run.todo), file.recs)
        BY <1>3, <1>4, TailEndsToo
      <4> QED BY <4>1, <4>2
    <3>2. CASE run' = [run EXCEPT !.todo[1].left = @ \ {Latest}]
      <4>1. /\ Len(run'.todo) = Len(run.todo)
            /\ \A k \in 1..Len(run.todo) : run'.todo[k].op = run.todo[k].op
        <5>1. run'.todo = [run.todo EXCEPT ![1] = [run.todo[1] EXCEPT !.left = left \ {Latest}]]
          BY <1>3, <3>2 DEF Runs
        <5>2. run.todo[1] \in Steps
          BY <1>3, <2>2
        <5>3. run.todo[1] \in [op: {"replay"}, left: SUBSET Nat]
          BY <1>3, <5>2 DEF Steps
        <5>4. [run.todo[1] EXCEPT !.left = left \ {Latest}].op = "replay"
          BY <1>3, <5>3
        <5> QED BY <1>3, <2>2, <5>1, <5>4
      <4>2. run'.todo[1].op = "replay"
        BY <1>3, <2>2, <4>1
      <4>3. ~Working'
        BY <4>2 DEF Working, WorkOps
      <4>4. \A ops : \A k \in 1..Len(run.todo) :
               Behind(run'.todo, k, ops) <=> Behind(run.todo, k, ops)
        <5>1. \A k \in 1..Len(run.todo) : 1..k - 1 \subseteq 1..Len(run.todo)
          BY <1>3
        <5> QED BY <4>1, <5>1 DEF Behind
      <4>5. Ends(run'.todo, file.recs)
        BY <1>4, <4>1, <4>4 DEF Ends
      <4> QED BY <4>3, <4>5
    <3> QED BY <1>7, <3>1, <3>2 DEF Replayed
  <2> QED BY <1>1, <1>4, <1>5, <2>4, <2>5, Resting
<1> QED BY <1>1, <1>6, <1>7

(* A death: the journal holds one record more or not, a copy is whole or   *)
(* torn, and what the user is told to run can still be run.                *)
LEMMA DieAdvised == ASSUME IInv, AInv, TearUndo = FALSE, Die PROVE AInv'
<1>1. /\ run.busy /\ run' = Idle /\ ckpt' = ckpt /\ used'.edits = used.edits
      /\ rewound' = (rewound \/ (At("replay") /\ ckpt # NoJob /\ disk' # disk))
  <2>1. used \in [commands: 0..MaxCommands, deaths: 0..MaxDeaths, edits: 0..MaxEdits, files: Inodes]
    BY DEF IInv, Sound, TypeOK
  <2> QED BY <2>1 DEF Die, NoteRewind
<1>2. \/ Appending /\ file' \in Interrupted /\ UNCHANGED disk
      \/ /\ At("write") /\ run.recorded /\ UNCHANGED file
         /\ \E x \in Partial(disk[Now.copy], Image(Now.to)) : disk' = [disk EXCEPT ![Now.copy] = x]
      \/ UNCHANGED <<disk, file>>
  BY DEF Die
<1>3. /\ ckpt = NoJob => ~rewound
      /\ used.edits = 0 /\ ~rewound /\ ckpt # NoJob => Stands(disk, ckpt)
  BY DEF AInv, JobStands
<1>4. ~Working' /\ Ends(run'.todo, file'.recs)
  BY <1>1, IdleEnds
<1>5. CASE UNCHANGED disk /\ (file'.recs = file.recs \/ (Appending /\ file'.recs = Append(file.recs, NextRecord)))
  <2>1. rewound' = rewound
    BY <1>1, <1>5 DEF IInv, Sound, TypeOK
  <2>2. ASSUME used.edits = 0, ckpt = NoJob, Intact(file'.recs), NEW c \in CopyNames
        PROVE  UndoFits(file'.recs, disk, c)
    <3>1. CASE file'.recs = file.recs
      BY <2>2, <3>1, AlwaysFits
    <3>2. CASE Appending /\ file'.recs = Append(file.recs, NextRecord)
      <4>1. /\ Working /\ NextRecord \in Records /\ Intact(file.recs) /\ ~At("barrier")
            /\ At("write") /\ run.todo[1].op = "write" /\ run.todo[1].copy \in CopyNames
            /\ NextRecord.copy = run.todo[1].copy /\ NextRecord.pre = disk[NextRecord.copy]
        BY <2>2, <3>2, NextRecordFacts, OneMoreRecord
      <4>2. /\ run.todo \in Seq(Steps) /\ run.todo # <<>> /\ Head(run.todo) = run.todo[1]
            /\ file.recs \in Seq(Records) /\ disk \in [CopyNames -> Contents]
            /\ WorkFits(file.recs, run.todo, run.recorded, disk, c)
        BY <2>2, <4>1, AtWork
      <4>3. NextRecord.after = Image(run.todo[1].to)
        BY <4>1, <4>2 DEF NextRecord, Now
      <4>4. run.recorded = FALSE
        <5>1. run \in Runs
          BY DEF IInv, Sound, TypeOK
        <5> QED BY <3>2, <4>1, <5>1 DEF Appending, Runs
      <4>5. WorkFits(file'.recs, run.todo, TRUE, disk, c)
        BY <3>2, <4>1, <4>2, <4>3, <4>4, WorkRecords
      <4>6. file'.recs \in Seq(Records)
        BY <3>2, <4>1, <4>2, AppendFacts
      <4> QED BY <4>2, <4>5, <4>6, WorkStops
    <3> QED BY <1>5, <3>1, <3>2
  <2> QED BY <1>1, <1>3, <1>4, <1>5, <2>1, <2>2, Resting
<1>6. CASE /\ At("write") /\ run.recorded /\ UNCHANGED file
           /\ \E x \in Partial(disk[Now.copy], Image(Now.to)) :
                disk' = [disk EXCEPT ![Now.copy] = x]
  <2>1. PICK x \in Partial(disk[Now.copy], Image(Now.to)) : disk' = [disk EXCEPT ![Now.copy] = x]
    BY <1>6
  <2>2. Working /\ Now = run.todo[1] /\ run.todo[1].op = "write" /\ Now.copy \in CopyNames
    BY <1>6, WriteFacts
  <2>3. /\ run.todo \in Seq(Steps) /\ run.todo # <<>> /\ Head(run.todo) = run.todo[1]
        /\ file.recs \in Seq(Records) /\ disk \in [CopyNames -> Contents]
        /\ run.job \in Jobs /\ ckpt \in {NoJob, run.job}
        /\ used.edits = 0 /\ ~rewound /\ run.job # NoJob =>
             JobWrites(run.todo, run.job, ckpt # NoJob) /\ JobDisk(run.todo, disk, run.job)
        /\ used.edits = 0 /\ ckpt = NoJob /\ Intact(file.recs) => \A c \in CopyNames :
             WorkFits(file.recs, run.todo, run.recorded, disk, c)
    BY <2>2, AtWork
  <2>4. rewound' = rewound
    <3>1. ~At("replay")
      BY <2>2, <2>3 DEF At
    <3> QED BY <1>1, <3>1 DEF IInv, Sound, TypeOK
  <2>5. ASSUME used.edits = 0, ~rewound, ckpt # NoJob PROVE Stands(disk', ckpt)
    <3>1. /\ ckpt = run.job /\ JobWrites(run.todo, run.job, TRUE)
          /\ JobDisk(run.todo, disk, run.job) /\ Stands(disk, run.job)
      BY <1>3, <2>3, <2>5
    <3> QED BY <2>1, <2>2, <2>3, <3>1, StandsWrite
  <2>6. ASSUME used.edits = 0, ckpt = NoJob, Intact(file.recs), NEW c \in CopyNames
        PROVE  UndoFits(file.recs, disk', c)
    <3>1. WorkFits(file.recs, run.todo, run.recorded, disk, c) /\ disk[c] \in Contents
      BY <2>3, <2>6
    <3>2. disk'[c] = disk[c] \/ (Now.copy = c /\ disk'[c] = x)
      BY <2>1, <2>3
    <3> QED BY <1>6, <2>1, <2>2, <2>3, <3>1, <3>2, WorkStops
  <2> QED BY <1>1, <1>3, <1>4, <1>6, <2>4, <2>5, <2>6, Resting
<1>7. Appending /\ file' \in Interrupted =>
        file'.recs = file.recs \/ file'.recs = Append(file.recs, NextRecord)
  BY InterruptedFacts
<1>8. CASE Appending /\ file' \in Interrupted /\ UNCHANGED disk
  BY <1>5, <1>7, <1>8
<1>9. CASE UNCHANGED <<disk, file>>
  <2>1. UNCHANGED disk /\ file'.recs = file.recs
    BY <1>9
  <2> QED BY <1>5, <2>1
<1> QED BY <1>2, <1>6, <1>8, <1>9

-----------------------------------------------------------------------------
LEMMA InitAdvised == Init => AInv
<1> SUFFICES ASSUME Init PROVE AInv
  OBVIOUS
<1>1. file.recs = <<>> /\ ckpt = NoJob /\ run.todo = <<>> /\ ~Working /\ ~rewound
  BY NoFileTypes DEF Init, Working
<1>2. PlansEnd
  BY <1>1, IdleEnds DEF PlansEnd
<1>3. JobStands
  BY <1>1 DEF JobStands
<1>4. RecordsFit
  BY <1>1, EmptyFits DEF RecordsFit
<1> QED BY <1>1, <1>2, <1>3, <1>4 DEF AInv

LEMMA NextAdvised == TearUndo = FALSE /\ IInv /\ AInv /\ [Next]_vars => AInv'
<1> SUFFICES ASSUME TearUndo = FALSE, IInv, AInv, [Next]_vars PROVE AInv'
  OBVIOUS
<1>1. CASE BeginEdit \/ BeginNew \/ BeginGrow \/ BeginMove \/ Resume
  BY <1>1, BeginAdvised
<1>2. CASE Intrude \/ BeginUndo \/ RemoveShell \/ BeginAbandon
  BY <1>2, IntrudeRemoveAdvised, BeginUndoAdvised, BeginAbandonAdvised
<1>3. CASE Record \/ WriteCopy \/ Save \/ Data \/ Drop \/ LeavePending
  BY <1>3, RecordAdvised, WriteSaveDataAdvised, DropAdvised, EndsAdvised
<1>4. CASE Replay \/ Clear \/ Retire \/ Release \/ Return
  BY <1>4, ReplayAdvised, ClearRetireAdvised, ReleaseAdvised, EndsAdvised
<1>5. CASE \E s \in closing : Close(s) \/ CloseBusy(s)
  BY <1>5, CloseAdvised
<1>6. CASE Die \/ DieClosing \/ Meddle
  BY <1>6, DieAdvised, DieClosingAdvised, MeddleAdvised
<1>7. CASE UNCHANGED vars
  BY <1>7, Unmoved DEF vars
<1> QED BY <1>1, <1>2, <1>3, <1>4, <1>5, <1>6, <1>7 DEF Next, Begin, Continue

(* A journal whose records fit is one undo's check accepts.                *)
LEMMA FitsAccepted ==
  ASSUME NEW recs \in Seq(Records), Intact(recs), \A c \in CopyNames : UndoFits(recs, disk, c)
  PROVE  PlanHolds(recs)
<1> SUFFICES ASSUME NEW k \in ToReplay(recs) PROVE Matches(Standing(recs, k), recs[k])
  BY DEF PlanHolds
<1> DEFINE c == recs[k].copy
<1>1. k \in DOMAIN recs /\ c \notin RolledBack(recs) /\ DOMAIN recs \subseteq Nat
  BY DEF ToReplay
<1>2. recs[k] \in Records /\ recs[k] # Barrier
  BY <1>1 DEF Intact, Range
<1>3. c \in CopyNames
  BY <1>2 DEF Records, PreImages
<1>4. k \in Of(recs, c) /\ c \in Covered(recs)
  BY <1>1, <1>3 DEF Of, Covered
<1>5. disk[c] # First(recs, c).pre
  BY <1>1, <1>4 DEF RolledBack
<1>6. Chained(recs, c) /\ \A x \in DOMAIN recs : LastOf(recs, c, x) => Matches(disk[c], recs[x])
  BY <1>3, <1>5 DEF UndoFits
<1>7. Of(recs, c) \subseteq DOMAIN recs
  BY DEF Of
<1>8. CASE Later(recs, k) = {}
  <2>1. Standing(recs, k) = disk[c]
    BY <1>8 DEF Standing
  <2>2. \A y \in Of(recs, c) : y <= k
    <3>1. \A y \in Of(recs, c) : ~(y > k) /\ y \in Nat /\ k \in Nat
      BY <1>1, <1>7, <1>8 DEF Later
    <3> QED BY <3>1
  <2>3. LastOf(recs, c, k)
    BY <1>4, <2>2 DEF LastOf
  <2> QED BY <1>1, <1>6, <2>1, <2>3
<1>9. CASE Later(recs, k) # {}
  <2>1. Later(recs, k) \subseteq Nat
    BY <1>1, <1>7 DEF Later
  <2>2. Min(Later(recs, k)) \in Later(recs, k)
    BY <1>9, <2>1, MinFacts
  <2> DEFINE l == Min(Later(recs, k))
  <2>3. l \in Of(recs, c) /\ k < l
    BY <1>1, <2>1, <2>2 DEF Later
  <2>4. Standing(recs, k) = recs[l].pre /\ recs[l].pre = recs[k].after
    <3>1. Standing(recs, k) = recs[l].pre
      BY <1>9 DEF Standing
    <3> QED BY <1>4, <1>6, <2>3, <3>1 DEF Chained
  <2> QED BY <2>4 DEF Matches
<1> QED BY <1>8, <1>9

LEMMA SoundAdvice == IInv /\ AInv => AdviceHolds
<1> SUFFICES ASSUME IInv, AInv, Free, Active, used.edits = 0
             PROVE  /\ WayOut = "undo" => UndoAccepted
                    /\ WayOut = "resume" /\ ~rewound => ResumeAccepted \/ file.kind = "stub"
  BY DEF AdviceHolds
<1>1. ~Working /\ file.recs \in Seq(Records) /\ ckpt \in Jobs
  BY IdlePlan, Types
<1>2. ASSUME WayOut = "undo" PROVE UndoAccepted
  <2>1. ckpt = NoJob /\ Reversibly(file) /\ Intact(file.recs)
    BY <1>2 DEF WayOut, Reversibly, Intact
  <2>2. \A c \in CopyNames : UndoFits(file.recs, disk, c)
    BY <2>1, AlwaysFits
  <2> QED BY <1>1, <2>1, <2>2, FitsAccepted DEF UndoAccepted
<1>3. ASSUME WayOut = "resume", ~rewound PROVE ResumeAccepted \/ file.kind = "stub"
  <2>1. ckpt # NoJob
    BY <1>3 DEF WayOut
  <2>2. Stands(disk, ckpt)
    BY <1>3, <2>1 DEF AInv, JobStands
  <2> QED BY <1>1, <2>1, <2>2, TableFacts DEF ResumeAccepted
<1> QED BY <1>2, <1>3

(* The way out a refused user is given is open (transaction.rs:382-403):   *)
(* however often commands, resumed commands and undo were interrupted, the *)
(* journal undo is offered for passes its check, and the table is still    *)
(* one the job of the checkpoint accepts unless undo has begun to take     *)
(* that job back.  Undo's own writes must not tear: MCUndoJournal_tear     *)
(* shows why.                                                              *)
THEOREM AdviceIsOpen == ASSUME TearUndo = FALSE PROVE Spec => []AdviceHolds
<1>1. IInv /\ AInv /\ [Next]_vars => AInv'
  BY NextAdvised
<1>2. IInv /\ AInv => AdviceHolds
  BY SoundAdvice
<1> QED BY <1>1, <1>2, InitAdvised, InvariantHolds, PTL DEF Spec
=============================================================================
