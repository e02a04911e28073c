-------------------------- MODULE RelocationProofs --------------------------
(***************************************************************************)
(* Type correctness and safety of Relocation for every job, disk, chunk    *)
(* size, batch size and every number of crashes, tool failures and         *)
(* third-party edits.                                                      *)
(*                                                                         *)
(* The types need one more fact to be inductive: in which phase the run    *)
(* may be, given the checkpoint (Phase).  The inductive invariant for      *)
(* safety has two layers.  TableInv is about the table: where the entries  *)
(* stand for the checkpoint (Positions), that no two owners share a sector *)
(* (Clear), what a run knows about the table it works on (RunIsReady) and  *)
(* how far the copy loop is ahead of the checkpoint (CopyBounds).          *)
(* ContentInv says that the content is where the checkpoint implies, in    *)
(* the page cache and on the medium, and rests on TableInv.                *)
(***************************************************************************)
EXTENDS Relocation, TLAPS

-----------------------------------------------------------------------------
(* The arithmetic of a move: how far a chunk reaches and when nothing is   *)
(* left to copy.                                                           *)

(* Division as the chunk count uses it: the rounded-up quotient times the  *)
(* divisor covers the dividend.                                            *)
LEMMA CeilCovers ==
  ASSUME NEW a \in Nat, NEW b \in Nat \ {0}
  PROVE  /\ (a + b - 1) \div b \in Nat
         /\ ((a + b - 1) \div b) * b >= a
<1>1. ((a + b - 1) \div b) \in Int /\ ((a + b - 1) % b) \in 0 .. (b - 1)
  OBVIOUS
<1>2. a + b - 1 = b * ((a + b - 1) \div b) + ((a + b - 1) % b)
  OBVIOUS
<1> QED
  BY <1>1, <1>2

LEMMA TimesMonotone ==
  ASSUME NEW n \in Nat, NEW q \in Nat, NEW b \in Nat, n >= q
  PROVE  n * b >= q * b
  OBVIOUS

(* The chunk of a move is positive, and at most the displacement when the  *)
(* move overlaps itself (move_chunk_layout).                               *)
LEMMA EntryChunkFacts ==
  ASSUME NEW m \in MoveRecords, NEW chunk \in Nat
  PROVE  /\ EntryChunk(m, chunk) \in Nat
         /\ chunk # 0 => EntryChunk(m, chunk) # 0
         /\ RelocationOverlaps(m) => EntryChunk(m, chunk) <= m.delta
  BY DEF MoveRecords, EntryChunk, RelocationOverlaps, Min2

(* What is left after n chunks lies within the partition, shrinks by at    *)
(* most one chunk a time, and is everything at the beginning.              *)
LEMMA LeftFacts ==
  ASSUME NEW m \in MoveRecords, NEW chunk \in Nat, NEW n \in Nat
  PROVE  /\ Left(m, chunk, n) \in 0 .. m.len
         /\ Left(m, chunk, 0) = m.len
         /\ Left(m, chunk, n + 1) \in 0 .. m.len
         /\ Left(m, chunk, n + 1) <= Left(m, chunk, n)
         /\ Left(m, chunk, n + 1) >= Left(m, chunk, n) - EntryChunk(m, chunk)
<1> DEFINE e == EntryChunk(m, chunk)
<1>1. e \in Nat
  BY EntryChunkFacts
<1>2. m.len \in Nat \ {0}
  BY DEF MoveRecords
<1>3. n * e \in Nat /\ (n + 1) * e = n * e + e /\ 0 * e = 0
  BY <1>1
<1> HIDE DEF e
<1>4. /\ Left(m, chunk, n) = Max2(0, m.len - n * e)
      /\ Left(m, chunk, n + 1) = Max2(0, m.len - (n + 1) * e)
      /\ Left(m, chunk, 0) = Max2(0, m.len - 0 * e)
  BY DEF Left, e
<1>5. \A x \in Nat : x = n * e => 
        /\ Max2(0, m.len - x) \in 0 .. m.len
        /\ Max2(0, m.len - (x + e)) \in 0 .. m.len
        /\ Max2(0, m.len - (x + e)) <= Max2(0, m.len - x)
        /\ Max2(0, m.len - (x + e)) >= Max2(0, m.len - x) - e
        /\ Max2(0, m.len - 0) = m.len
  BY <1>1, <1>2 DEF Max2
<1> QED
  BY <1>3, <1>4, <1>5 DEF e

(* More chunks never leave more to copy.                                   *)
LEMMA LeftMonotone ==
  ASSUME NEW m \in MoveRecords, NEW chunk \in Nat, NEW n \in Nat, NEW q \in Nat, n >= q
  PROVE  Left(m, chunk, n) <= Left(m, chunk, q)
<1> DEFINE e == EntryChunk(m, chunk)
<1>1. e \in Nat
  BY EntryChunkFacts
<1>2. n * e >= q * e /\ n * e \in Nat /\ q * e \in Nat
  BY <1>1, TimesMonotone
<1>3. m.len \in Nat
  BY DEF MoveRecords
<1> QED
  BY <1>2, <1>3 DEF Left, Max2

(* When all chunks are copied nothing is left.                             *)
LEMMA AllCopied ==
  ASSUME NEW m \in MoveRecords, NEW chunk \in Nat \ {0}, NEW n \in Nat,
         n >= ChunkCount(m, chunk)
  PROVE  Left(m, chunk, n) = 0
<1> DEFINE e == EntryChunk(m, chunk)
<1>1. e \in Nat \ {0} /\ m.len \in Nat
  BY EntryChunkFacts DEF MoveRecords
<1> DEFINE q == ChunkCount(m, chunk)
<1>2. q = (m.len + e - 1) \div e
  BY DEF ChunkCount
<1>3. q \in Nat /\ q * e >= m.len
  BY <1>1, <1>2, CeilCovers
<1>4. n * e >= q * e
  BY <1>1, <1>3, TimesMonotone
<1>5. n * e >= m.len
  BY <1>1, <1>3, <1>4
<1> QED
  BY <1>1, <1>5 DEF Left, Max2

-----------------------------------------------------------------------------
(* The inductive invariant.                                                *)

InRun == pc \notin {"down", "prepared"}

(* The checkpoint's index is in range, and each program point is reached   *)
(* only for the kind of entry it is about.                                 *)
Phase ==
  /\ ckpt # NoCkpt => ckpt.cur \in 1 .. (Len(job.moves) + 1) /\ ckpt.chunk \in Chunks
  /\ ckpt = NoCkpt => ~InRun
  /\ pc = "prepared" => req \in Chunks
  /\ pc \in {"copy", "sync", "save", "hidden", "advance", "mkswap"} =>
       ckpt.cur \in Members /\ Current.delta # 0
  /\ pc \in {"copy", "sync", "save", "hidden"} => ~Current.swap
  /\ pc = "mkswap" => Current.swap
  /\ pc \in {"growfs", "finish"} => Finished /\ target.last = GrowTo
  /\ pc = "copy" => batch < BatchCap
  /\ outcome = "done" => ckpt = NoCkpt /\ pc = "down"

-----------------------------------------------------------------------------
(* What a job is: the assumption on the constants, spelt out for `job`.    *)
LEMMA JobFacts ==
  ASSUME job \in Jobs
  PROVE  /\ Len(job.moves) \in Nat /\ Members = 1 .. Len(job.moves)
         /\ job.lastUsable \in Nat /\ job.lastUsable < DiskSize
         /\ DiskSize \in Nat
         /\ job.target \in Entries
         /\ GrowTo \in Nat /\ job.target.last <= GrowTo /\ GrowTo <= job.lastUsable
         /\ \A i \in Members :
              /\ job.moves[i] \in MoveRecords
              /\ NewFirst(job.moves[i]) + job.moves[i].len - 1 <= job.lastUsable
              /\ GrowTo < NewFirst(job.moves[i])
              /\ job.target.last < job.moves[i].first
         /\ \A i, k \in Members : i < k =>
              /\ Disjoint(Source(job.moves[i]), Source(job.moves[k]))
              /\ Disjoint(Target(job.moves[i]), Target(job.moves[k]))
              /\ Disjoint(Target(job.moves[i]), Source(job.moves[k]))
<1>1. JobOK(job) /\ DiskSize \in Nat
  BY RelocationAssumption
<1>2. job.moves \in Seq(MoveRecords) /\ job.target \in Entries /\ job.lastUsable \in Nat
  BY <1>1 DEF JobOK, JobRecords
<1>3. Len(job.moves) \in Nat /\ Members = 1 .. Len(job.moves)
      /\ \A i \in Members : job.moves[i] \in MoveRecords
  BY <1>2 DEF Members
<1>4. GrowTo \in Nat /\ job.target.last <= GrowTo /\ GrowTo <= job.lastUsable
  BY <1>1, <1>2 DEF JobOK, Relocatable, GrowTo
<1>5. \A i \in Members : /\ NewFirst(job.moves[i]) + job.moves[i].len - 1 <= job.lastUsable
                         /\ GrowTo < NewFirst(job.moves[i])
                         /\ job.target.last < job.moves[i].first
  BY <1>1 DEF JobOK, Relocatable, Executable, Members, GrowTo
<1>6. \A i, k \in Members : i < k =>
              /\ Disjoint(Source(job.moves[i]), Source(job.moves[k]))
              /\ Disjoint(Target(job.moves[i]), Target(job.moves[k]))
              /\ Disjoint(Target(job.moves[i]), Source(job.moves[k]))
  BY <1>1 DEF JobOK, Relocatable, Executable, Members
<1> QED
  BY <1>1, <1>2, <1>3, <1>4, <1>5, <1>6 DEF JobOK, Relocatable

(* The initial state is well typed and no run is active.                   *)
LEMMA InitTypes == Init => TypeOK /\ Phase
<1> SUFFICES ASSUME Init PROVE TypeOK /\ Phase
  OBVIOUS
<1>1. job \in Jobs
  BY DEF Init
<1>2. DiskSize \in Nat /\ BatchCap \in Nat \ {0} /\ MaxCrashes \in Nat
      /\ MaxToolFailures \in Nat /\ MaxEdits \in Nat
  BY RelocationAssumption
<1>3. \A i \in Members : EntryAtSource(job.moves[i]) \in Entries
  BY <1>1, JobFacts DEF EntryAtSource, Entries, MoveRecords
<1>4. entry \in [Members -> Entries]
  BY <1>3 DEF Init, Members
<1>5. job.target \in Entries /\ job.target.last \in Nat
  BY <1>1, JobFacts DEF Entries
<1>6. disk \in [LBA -> Contents]
  BY <1>2 DEF Init, LBA, Contents
<1>7. TypeOK
  BY <1>1, <1>2, <1>4, <1>5, <1>6 DEF Init, TypeOK, NoCkpt, Checkpoints
<1>8. Phase
  BY DEF Init, Phase, InRun
<1> QED
  BY <1>7, <1>8

(* The job never changes, and neither do the facts about it.               *)
LEMMA JobFixed ==
  ASSUME [Next]_vars
  PROVE  job' = job /\ Members' = Members /\ GrowTo' = GrowTo
<1>1. job' = job
  BY DEF Next, Command, Run, CopyEntry, MoveSwap, Grow, Edit, vars, Prepare, PrepareRefuses,
         Execute, ExecuteRefuses, SkipUnmoved, BeginCopy, CopyChunk, SyncData, SaveProgress,
         CommitEntry, FixHiddenSectors, Advance, SwapTypeGone, CommitSwap, RecreateSwap,
         RecreateSwapFails, GrowTarget, GrowFs, GrowFsFails, Finish, FinishCannotRemove,
         Kill, PowerLoss, Dies, AlienCreates, AlienRetypes, AlienShrinks, AlienExtends
<1> QED
  BY <1>1 DEF Members, GrowTo

(* The move a checkpoint names.                                            *)
LEMMA CurrentFacts ==
  ASSUME TypeOK, ckpt.cur \in Members
  PROVE  /\ Current \in MoveRecords
         /\ Current.first \in Nat /\ Current.len \in Nat \ {0} /\ Current.delta \in Nat
         /\ NewFirst(Current) \in Nat
         /\ NewFirst(Current) + Current.len - 1 \in Nat
         /\ NewFirst(Current) + Current.len - 1 < DiskSize
         /\ Current.first \in LBA /\ NewFirst(Current) \in LBA
<1>1. job \in Jobs
  BY DEF TypeOK
<1>2. /\ Current \in MoveRecords /\ DiskSize \in Nat
      /\ NewFirst(Current) + Current.len - 1 <= job.lastUsable
      /\ job.lastUsable \in Nat /\ job.lastUsable < DiskSize
  BY <1>1, JobFacts DEF Current
<1>3. Current.first \in Nat /\ Current.len \in Nat \ {0} /\ Current.delta \in Nat
  BY <1>2 DEF MoveRecords
<1>4. NewFirst(Current) \in Nat /\ Current.first <= NewFirst(Current)
  BY <1>3 DEF NewFirst
<1> QED
  BY <1>2, <1>3, <1>4 DEF LBA

(* Writing an entry of the members keeps the types: its first and last LBA *)
(* come from the job.                                                      *)
LEMMA PlaceCurrentTypes ==
  ASSUME TypeOK, ckpt.cur \in Members, PlaceCurrent
  PROVE  entry' \in [Members -> Entries]
<1>1. NewFirst(Current) \in Nat /\ NewFirst(Current) + Current.len - 1 \in Nat
  BY CurrentFacts
<1> QED
  BY <1>1 DEF TypeOK, PlaceCurrent, Entries

(* A chunk is read from the disk and written on the disk.                  *)
LEMMA CopyChunkTypes ==
  ASSUME TypeOK, Phase, CopyChunk
  PROVE  disk' \in [LBA -> Contents]
<1> DEFINE m == Current
           written == {NewFirst(m) + k : k \in ChunkOffsets(m, ckpt.chunk, next)}
<1>1. ckpt.cur \in Members /\ ckpt.chunk \in Nat /\ next \in Nat
  BY DEF TypeOK, Phase, CopyChunk, Checkpoints
<1>2. /\ m \in MoveRecords /\ m.len \in Nat \ {0} /\ m.first \in Nat /\ m.delta \in Nat
      /\ NewFirst(m) = m.first + m.delta
      /\ NewFirst(m) + m.len - 1 < DiskSize
  BY <1>1, CurrentFacts DEF NewFirst
<1>3. /\ Left(m, ckpt.chunk, next) \in 0 .. m.len
      /\ Left(m, ckpt.chunk, next + 1) \in 0 .. m.len
  BY <1>1, <1>2, LeftFacts
<1>4. disk' = [s \in LBA |-> IF s \in written THEN disk[s - m.delta] ELSE disk[s]]
  BY DEF CopyChunk
<1>5. ASSUME NEW k \in ChunkOffsets(m, ckpt.chunk, next)
      PROVE  NewFirst(m) + k - m.delta \in LBA
  <2>1. k \in 0 .. (m.len - 1)
    BY <1>2, <1>3 DEF ChunkOffsets
  <2>2. m.first + k \in LBA
    BY <1>2, <2>1, RelocationAssumption DEF LBA
  <2> QED
    BY <1>2, <2>1, <2>2
<1>6. ASSUME NEW s \in LBA
      PROVE  (IF s \in written THEN disk[s - m.delta] ELSE disk[s]) \in Contents
  <2>1. CASE s \in written
    <3>1. PICK k \in ChunkOffsets(m, ckpt.chunk, next) : s = NewFirst(m) + k
      BY <2>1
    <3>2. NewFirst(m) \in Nat /\ m.delta \in Nat /\ k \in Nat
      BY <1>2, <1>3 DEF ChunkOffsets
    <3>3. disk[s - m.delta] \in Contents
      BY <3>1, <3>2, <1>5 DEF TypeOK
    <3> QED
      BY <2>1, <3>3
  <2>2. CASE s \notin written
    BY <2>2 DEF TypeOK
  <2> QED
    BY <2>1, <2>2
<1> HIDE DEF written
<1> QED
  BY <1>4, <1>6

(* The types of what each step changes; the rest of TypeOK follows.        *)
LEMMA CkptTypes ==
  ASSUME TypeOK, Phase, NEW n \in Nat
  PROVE  /\ [ckpt EXCEPT !.done = n] \in Checkpoints
         /\ [ckpt EXCEPT !.cur = @ + 1, !.done = 0] \in Checkpoints
         /\ NoCkpt \in Checkpoints
         /\ \A c \in Chunks : [cur |-> 1, done |-> 0, chunk |-> c] \in Checkpoints
<1>1. ckpt \in [cur: Nat, done: Nat, chunk: Nat]
  BY DEF TypeOK, Checkpoints
<1>2. [ckpt EXCEPT !.done = n] \in Checkpoints
  BY <1>1 DEF Checkpoints
<1>3. [ckpt EXCEPT !.cur = ckpt.cur + 1, !.done = 0] \in Checkpoints
  <2>1. ckpt.cur + 1 \in Nat /\ 0 \in Nat
    BY <1>1
  <2>2. [ckpt EXCEPT !.cur = ckpt.cur + 1] \in [cur: Nat, done: Nat, chunk: Nat]
    BY <1>1, <2>1
  <2> QED
    BY <1>1, <2>1, <2>2 DEF Checkpoints
<1>4. NoCkpt \in Checkpoints
  BY DEF Checkpoints, NoCkpt
<1>5. ASSUME NEW c \in Chunks PROVE [cur |-> 1, done |-> 0, chunk |-> c] \in Checkpoints
  <2>1. c \in Nat
    BY RelocationAssumption
  <2> QED
    BY <2>1 DEF Checkpoints
<1> QED
  BY <1>2, <1>3, <1>4, <1>5

(* The checkpoint's fields after the two ways it moves on.                 *)
LEMMA CkptMoves ==
  ASSUME TypeOK
  PROVE  /\ NextEntry =>
              /\ ckpt' # NoCkpt
              /\ ckpt'.cur = ckpt.cur + 1 /\ ckpt'.done = 0 /\ ckpt'.chunk = ckpt.chunk
         /\ \A n : ckpt' = [ckpt EXCEPT !.done = n] =>
              ckpt'.cur = ckpt.cur /\ ckpt'.done = n /\ ckpt'.chunk = ckpt.chunk
<1>1. ckpt \in [cur: Nat, done: Nat, chunk: Nat]
  BY DEF TypeOK, Checkpoints
<1>2. ckpt.cur + 1 # 0
  BY <1>1
<1>3. ASSUME NextEntry
      PROVE  ckpt'.cur = ckpt.cur + 1 /\ ckpt'.done = 0 /\ ckpt'.chunk = ckpt.chunk
  BY <1>1, <1>3 DEF NextEntry
<1>4. ASSUME NEW n, ckpt' = [ckpt EXCEPT !.done = n]
      PROVE  ckpt'.cur = ckpt.cur /\ ckpt'.done = n /\ ckpt'.chunk = ckpt.chunk
  BY <1>1, <1>4
<1> QED
  BY <1>2, <1>3, <1>4 DEF NoCkpt

(* The environment stays within its bounds.                              *)
LEMMA UsedTypes ==
  ASSUME TypeOK
  PROVE  /\ SpendTool => used' \in [crash: 0 .. MaxCrashes, tool: 0 .. MaxToolFailures, edit: 0 .. MaxEdits]
         /\ SpendEdit /\ MayEdit => used' \in [crash: 0 .. MaxCrashes, tool: 0 .. MaxToolFailures, edit: 0 .. MaxEdits]
         /\ Dies => used' \in [crash: 0 .. MaxCrashes, tool: 0 .. MaxToolFailures, edit: 0 .. MaxEdits]
<1>1. MaxCrashes \in Nat /\ MaxToolFailures \in Nat /\ MaxEdits \in Nat
  BY RelocationAssumption
<1> QED
  BY <1>1 DEF TypeOK, SpendTool, SpendEdit, MayEdit, Dies

(* A patched boot sector is a content the model knows.                   *)
LEMMA FixHiddenTypes ==
  ASSUME TypeOK, Phase, FixHiddenSectors
  PROVE  disk' \in [LBA -> Contents]
<1>1. NewFirst(Current) \in LBA
  BY CurrentFacts DEF Phase, FixHiddenSectors
<1>2. disk[NewFirst(Current)] \in Contents
  BY <1>1 DEF TypeOK
<1>3. Patched(disk[NewFirst(Current)]) \in Contents
  BY <1>2, RelocationAssumption DEF Patched, Contents, LBA
<1> QED
  BY <1>1, <1>3 DEF FixHiddenSectors, TypeOK

(* So is a swap header, with the old identity or a fresh one.            *)
LEMMA RecreateSwapTypes ==
  ASSUME TypeOK, Phase, RecreateSwap
  PROVE  disk' \in [LBA -> Contents]
<1>1. NewFirst(Current) \in LBA /\ Current.first \in LBA
  BY CurrentFacts DEF Phase, RecreateSwap
<1>2. SwapIdentity(Current) \in Contents
  BY <1>1, RelocationAssumption DEF SwapIdentity, Fresh, Contents, LBA
<1> QED
  BY <1>1, <1>2 DEF RecreateSwap, TypeOK

(* Entries edited by third parties remain entries.                       *)
LEMMA EntryTypes ==
  ASSUME TypeOK, NEW i \in Members
  PROVE  /\ [entry EXCEPT ![i].swap = FALSE] \in [Members -> Entries]
         /\ entry[i].first < entry[i].last =>
              [entry EXCEPT ![i].last = @ - 1] \in [Members -> Entries]
<1>1. entry[i] \in Entries /\ entry \in [Members -> Entries]
  BY DEF TypeOK
<1>2. [entry[i] EXCEPT !.swap = FALSE] \in Entries
  BY <1>1 DEF Entries
<1>3. ASSUME entry[i].first < entry[i].last
      PROVE  [entry[i] EXCEPT !.last = entry[i].last - 1] \in Entries
  <2>1. entry[i].first \in Nat /\ entry[i].last \in Nat
    BY <1>1 DEF Entries
  <2>2. entry[i].last - 1 \in Nat
    BY <2>1, <1>3
  <2> QED
    BY <1>1, <2>2 DEF Entries
<1> QED
  BY <1>1, <1>2, <1>3

(* Every step of the program keeps the types and the phase.                *)
LEMMA TypesStep == TypeOK /\ Phase /\ [Next]_vars => TypeOK' /\ Phase'
<1> SUFFICES ASSUME TypeOK, Phase, [Next]_vars
             PROVE  TypeOK' /\ Phase'
  OBVIOUS
<1>a. job' = job /\ Members' = Members /\ GrowTo' = GrowTo
  BY JobFixed
<1>b. Chunks \subseteq Nat \ {0} /\ BatchCap \in Nat \ {0} /\ DiskSize \in Nat
  BY RelocationAssumption
<1>c. /\ Len(job.moves) \in Nat /\ Members = 1 .. Len(job.moves) /\ GrowTo \in Nat
      /\ job.lastUsable < DiskSize /\ job.lastUsable \in Nat
  BY JobFacts DEF TypeOK
<1>1. ASSUME NEW c \in Chunks, Prepare(c) PROVE TypeOK' /\ Phase'
  <2>1. seen' \in [entry: [Members -> Entries], target: Entries, alien: SUBSET LBA]
    BY <1>1 DEF TypeOK, Prepare, Table
  <2>2. TypeOK'
    BY <1>1, <1>a, <2>1, <1>b DEF TypeOK, Prepare, onDisk
  <2>3. Phase'
    BY <1>1, <1>a DEF Phase, InRun, Current, Prepare, StartsRun, onDisk
  <2> QED
    BY <2>2, <2>3
<1>2. ASSUME NEW c \in Chunks, PrepareRefuses(c) PROVE TypeOK' /\ Phase'
  <2>1. TypeOK'
    BY <1>2, <1>a DEF TypeOK, PrepareRefuses, onDisk, inRun
  <2>2. Phase'
    BY <1>2, <1>a DEF Phase, InRun, Current, PrepareRefuses, StartsRun, onDisk, inRun
  <2> QED
    BY <2>1, <2>2
<1>3. CASE Execute
  <2>1. ckpt' \in Checkpoints
    BY <1>3, CkptTypes DEF Execute, TypeOK, Phase
  <2>2. TypeOK'
    BY <1>3, <1>a, <2>1 DEF TypeOK, Execute, inRun
  <2>3. Phase'
    BY <1>3, <1>a, <1>c DEF Phase, InRun, Current, Execute, inRun, NoCkpt
  <2> QED
    BY <2>2, <2>3
<1>4. CASE ExecuteRefuses
  <2>1. TypeOK'
    BY <1>4, <1>a DEF TypeOK, ExecuteRefuses, onDisk, inRun
  <2>2. Phase'
    BY <1>4, <1>a DEF Phase, InRun, Current, ExecuteRefuses, onDisk, inRun
  <2> QED
    BY <2>1, <2>2
<1>5. CASE SkipUnmoved
  <2>1. TypeOK'
    BY <1>5, <1>a, <1>b, <1>c, CkptTypes DEF TypeOK, Phase, InRun, SkipUnmoved, NextEntry, inRun
  <2>2. Phase'
    BY <1>5, <1>a, <1>c, CkptMoves DEF Phase, InRun, SkipUnmoved, inRun, Finished
  <2> QED
    BY <2>1, <2>2
<1>6. CASE BeginCopy
  <2>1. TypeOK'
    BY <1>6, <1>a, <1>b, <1>c DEF TypeOK, Phase, InRun, BeginCopy, onDisk, Checkpoints
  <2>2. Phase'
    BY <1>6, <1>a, <1>b, <1>c DEF TypeOK, Phase, InRun, Current, BeginCopy, onDisk, Checkpoints, Finished
  <2> QED
    BY <2>1, <2>2
<1>7. CASE CopyChunk
  <2>1. TypeOK'
    BY <1>7, <1>a, <1>b, <1>c, CopyChunkTypes DEF TypeOK, Phase, InRun, CopyChunk
  <2>2. Phase'
    BY <1>7, <1>a, <1>b, <1>c DEF TypeOK, Phase, InRun, Current, CopyChunk
  <2> QED
    BY <2>1, <2>2
<1>8. CASE SyncData
  <2>1. TypeOK'
    BY <1>8, <1>a, <1>b, <1>c DEF TypeOK, Phase, InRun, SyncData, inRun
  <2>2. Phase'
    BY <1>8, <1>a, <1>b, <1>c DEF TypeOK, Phase, InRun, Current, SyncData, inRun
  <2> QED
    BY <2>1, <2>2
<1>9. CASE SaveProgress
  <2>1. TypeOK'
    BY <1>9, <1>a, <1>b, <1>c, CkptTypes DEF TypeOK, Phase, InRun, SaveProgress
  <2>2. Phase'
    BY <1>9, <1>a, <1>b, <1>c, CkptMoves DEF Phase, InRun, Current, SaveProgress, NoCkpt
  <2> QED
    BY <2>1, <2>2
<1>10. CASE CommitEntry
  <2>1. TypeOK'
    BY <1>10, <1>a, <1>b, <1>c, PlaceCurrentTypes DEF TypeOK, Phase, InRun, CommitEntry, inRun
  <2>2. Phase'
    BY <1>10, <1>a, <1>b, <1>c DEF TypeOK, Phase, InRun, Current, CommitEntry, inRun
  <2> QED
    BY <2>1, <2>2
<1>11. CASE FixHiddenSectors
  <2>1. TypeOK'
    BY <1>11, <1>a, <1>b, <1>c, FixHiddenTypes DEF TypeOK, Phase, InRun, FixHiddenSectors, inRun
  <2>2. Phase'
    BY <1>11, <1>a, <1>b, <1>c DEF TypeOK, Phase, InRun, Current, FixHiddenSectors, inRun
  <2> QED
    BY <2>1, <2>2
<1>12. CASE Advance
  <2>1. TypeOK'
    BY <1>12, <1>a, <1>b, <1>c, CkptTypes DEF TypeOK, Phase, InRun, Advance, NextEntry, inRun
  <2>2. Phase'
    BY <1>12, <1>a, <1>c, CkptMoves DEF Phase, InRun, Advance, inRun
  <2> QED
    BY <2>1, <2>2
<1>13. CASE SwapTypeGone
  <2>1. TypeOK'
    BY <1>13, <1>a, <1>b, <1>c DEF TypeOK, Phase, InRun, SwapTypeGone, onDisk, inRun
  <2>2. Phase'
    BY <1>13, <1>a, <1>b, <1>c DEF TypeOK, Phase, InRun, Current, SwapTypeGone, onDisk, inRun, Finished
  <2> QED
    BY <2>1, <2>2
<1>14. CASE CommitSwap
  <2>1. TypeOK'
    BY <1>14, <1>a, <1>b, <1>c, PlaceCurrentTypes DEF TypeOK, Phase, InRun, CommitSwap, inRun, Finished
  <2>2. Phase'
    BY <1>14, <1>a, <1>b, <1>c DEF TypeOK, Phase, InRun, Current, CommitSwap, inRun, Finished
  <2> QED
    BY <2>1, <2>2
<1>15. CASE RecreateSwap
  <2>1. TypeOK'
    BY <1>15, <1>a, <1>b, <1>c, RecreateSwapTypes DEF TypeOK, Phase, InRun, RecreateSwap, inRun
  <2>2. Phase'
    BY <1>15, <1>a, <1>b, <1>c DEF TypeOK, Phase, InRun, Current, RecreateSwap, inRun
  <2> QED
    BY <2>1, <2>2
<1>16. CASE RecreateSwapFails
  <2>1. TypeOK'
    BY <1>16, <1>a, <1>b, <1>c, CkptTypes, UsedTypes DEF TypeOK, Phase, InRun, RecreateSwapFails
  <2>2. Phase'
    BY <1>16, <1>a, <1>b, <1>c DEF TypeOK, Phase, InRun, Current, RecreateSwapFails, NoCkpt, Checkpoints
  <2> QED
    BY <2>1, <2>2
<1>17. CASE GrowTarget
  <2>1. TypeOK'
    BY <1>17, <1>a, <1>b, <1>c DEF TypeOK, Phase, InRun, GrowTarget, inRun, Entries
  <2>2. Phase'
    BY <1>17, <1>a, <1>b, <1>c DEF TypeOK, Phase, InRun, Current, GrowTarget, inRun, Finished, NoCkpt
  <2> QED
    BY <2>1, <2>2
<1>18. CASE GrowFs
  <2>1. TypeOK'
    <3>1. FsData \in Contents /\ target.last \in Nat
      BY <1>b DEF FsData, Contents, TypeOK, Entries
    <3>2. disk' \in [LBA -> Contents]
      BY <1>18, <3>1 DEF GrowFs, TypeOK
    <3> QED
      BY <1>18, <1>a, <3>1, <3>2 DEF TypeOK, GrowFs, inRun
  <2>2. Phase'
    BY <1>18, <1>a, <1>b, <1>c DEF TypeOK, Phase, InRun, Current, GrowFs, inRun, Finished
  <2> QED
    BY <2>1, <2>2
<1>19. CASE GrowFsFails
  <2>1. TypeOK'
    BY <1>19, <1>a, <1>b, <1>c, UsedTypes DEF TypeOK, Phase, InRun, GrowFsFails, onDisk
  <2>2. Phase'
    BY <1>19, <1>a, <1>b, <1>c DEF TypeOK, Phase, InRun, Current, GrowFsFails, onDisk, Finished
  <2> QED
    BY <2>1, <2>2
<1>20. CASE Finish
  <2>1. TypeOK'
    BY <1>20, <1>a, <1>b, <1>c, CkptTypes DEF TypeOK, Phase, InRun, Finish, inRun
  <2>2. Phase'
    BY <1>20, <1>a, <1>b, <1>c DEF TypeOK, Phase, InRun, Current, Finish, inRun, NoCkpt, Checkpoints, Finished
  <2> QED
    BY <2>1, <2>2
<1>21. CASE FinishCannotRemove
  <2>1. TypeOK'
    BY <1>21, <1>a, <1>b, <1>c, UsedTypes DEF TypeOK, Phase, InRun, FinishCannotRemove, onDisk
  <2>2. Phase'
    BY <1>21, <1>a, <1>b, <1>c DEF TypeOK, Phase, InRun, Current, FinishCannotRemove, onDisk, Finished
  <2> QED
    BY <2>1, <2>2
<1>22. CASE Kill
  <2>1. TypeOK'
    BY <1>22, <1>a, <1>b, <1>c, UsedTypes DEF TypeOK, Phase, InRun, Kill, Dies
  <2>2. Phase'
    BY <1>22, <1>a, <1>b, <1>c DEF TypeOK, Phase, InRun, Current, Kill, Dies, Finished
  <2> QED
    BY <2>1, <2>2
<1>23. CASE AlienRetypes
  <2>1. TypeOK'
    <3>1. Alien \in Contents
      BY <1>b DEF Alien, Contents
    <3>2. disk' \in [LBA -> Contents]
      BY <1>23, <3>1 DEF AlienRetypes, TypeOK
    <3>3. media' \in [LBA -> Contents]
      BY <1>23, <3>1 DEF AlienRetypes, TypeOK
    <3>4. used' \in [crash: 0 .. MaxCrashes, tool: 0 .. MaxToolFailures, edit: 0 .. MaxEdits]
      BY <1>23, UsedTypes DEF AlienRetypes
    <3>5. entry' \in [Members -> Entries]
      BY <1>23, EntryTypes DEF AlienRetypes
    <3> QED
      BY <1>23, <1>a, <3>2, <3>3, <3>4, <3>5 DEF TypeOK, AlienRetypes, inRun
  <2>2. Phase'
    BY <1>23, <1>a, <1>b, <1>c DEF TypeOK, Phase, InRun, Current, AlienRetypes, MayEdit, inRun, Finished
  <2> QED
    BY <2>1, <2>2
<1>24. CASE AlienShrinks
  <2>1. TypeOK'
    <3>1. used' \in [crash: 0 .. MaxCrashes, tool: 0 .. MaxToolFailures, edit: 0 .. MaxEdits]
      BY <1>24, UsedTypes DEF AlienShrinks
    <3>2. entry' \in [Members -> Entries]
      BY <1>24, EntryTypes DEF AlienShrinks
    <3> QED
      BY <1>24, <1>a, <3>1, <3>2 DEF TypeOK, AlienShrinks, inRun
  <2>2. Phase'
    BY <1>24, <1>a, <1>b, <1>c DEF TypeOK, Phase, InRun, Current, AlienShrinks, MayEdit, inRun, Finished
  <2> QED
    BY <2>1, <2>2
<1>25. CASE AlienCreates
  <2>1. TypeOK'
    <3>1. Alien \in Contents
      BY <1>b DEF Alien, Contents
    <3>2. disk' \in [LBA -> Contents]
      BY <1>25, <3>1 DEF AlienCreates, TypeOK
    <3>3. media' \in [LBA -> Contents]
      BY <1>25, <3>1 DEF AlienCreates, TypeOK
    <3>4. used' \in [crash: 0 .. MaxCrashes, tool: 0 .. MaxToolFailures, edit: 0 .. MaxEdits]
      BY <1>25, UsedTypes DEF AlienCreates
    <3>5. alien' \subseteq LBA
      <4>1. PICK a \in FirstUsable .. job.lastUsable : \E b \in a .. job.lastUsable :
              alien' = alien \cup (a .. b)
        BY <1>25 DEF AlienCreates
      <4>2. PICK b \in a .. job.lastUsable : alien' = alien \cup (a .. b)
        BY <4>1
      <4>3. a .. b \subseteq LBA
        BY <1>b, <1>c, RelocationAssumption DEF LBA
      <4> QED
        BY <4>2, <4>3 DEF TypeOK
    <3> QED
      BY <1>25, <1>a, <3>2, <3>3, <3>4, <3>5 DEF TypeOK, AlienCreates, inRun
  <2>2. Phase'
    BY <1>25, <1>a, <1>b, <1>c DEF TypeOK, Phase, InRun, Current, AlienCreates, MayEdit, inRun, Finished
  <2> QED
    BY <2>1, <2>2
<1>26. CASE AlienExtends
  <2>1. TypeOK'
    <3>1. used' \in [crash: 0 .. MaxCrashes, tool: 0 .. MaxToolFailures, edit: 0 .. MaxEdits]
      BY <1>26, UsedTypes DEF AlienExtends
    <3>2. target' \in Entries
      BY <1>26 DEF AlienExtends, TypeOK, Entries
    <3> QED
      BY <1>26, <1>a, <3>1, <3>2 DEF TypeOK, AlienExtends, inRun
  <2>2. Phase'
    BY <1>26, <1>a, <1>b, <1>c DEF TypeOK, Phase, InRun, Current, AlienExtends, MayEdit, inRun, Finished
  <2> QED
    BY <2>1, <2>2
<1>27. CASE PowerLoss
  <2>1. TypeOK'
    BY <1>27, <1>a, <1>b, <1>c, UsedTypes DEF TypeOK, Phase, InRun, PowerLoss, Dies, Dirty
  <2>2. Phase'
    BY <1>27, <1>a, <1>b, <1>c DEF TypeOK, Phase, InRun, Current, PowerLoss, Dies, Finished
  <2> QED
    BY <2>1, <2>2
<1>28. CASE UNCHANGED vars
  <2>1. TypeOK'
    BY <1>28, <1>a DEF TypeOK, vars
  <2>2. Phase'
    BY <1>28, <1>a DEF Phase, InRun, Current, Finished, vars
  <2> QED
    BY <2>1, <2>2
<1> QED
  BY <1>1, <1>2, <1>3, <1>4, <1>5, <1>6, <1>7, <1>8, <1>9, <1>10, <1>11, <1>12, <1>13, <1>14, <1>15, <1>16, <1>17, <1>18, <1>19, <1>20, <1>21, <1>22, <1>23, <1>24, <1>25, <1>26, <1>27, <1>28
     DEF Next, Command, Run, CopyEntry, MoveSwap, Grow, Edit

(* Every variable keeps its type, whatever the job and however often it is *)
(* interrupted.                                                            *)
THEOREM TypeCorrect == Spec => []TypeOK
<1>1. Spec => [](TypeOK /\ Phase)
  BY InitTypes, TypesStep, PTL DEF Spec
<1> QED
  BY <1>1, PTL

-----------------------------------------------------------------------------

AllLeft(i) == Left(job.moves[i], ResumeAt.chunk, ResumeAt.done)

(* The entries of finished members stand at their targets, those of later  *)
(* ones at their sources; an entry stands at its target before the         *)
(* checkpoint has advanced only when everything is copied.                 *)
Standing(i) ==
  LET m == job.moves[i] IN
  /\ entry[i].last <= entry[i].first + m.len - 1
  /\ entry[i].swap => m.swap
  /\ entry[i].first \in {m.first, NewFirst(m)}
  /\ i < ResumeAt.cur => entry[i].first = NewFirst(m)
  /\ i > ResumeAt.cur => entry[i].first = m.first
  /\ i = ResumeAt.cur /\ ~m.swap /\ entry[i].first # m.first => AllLeft(i) = 0

Positions ==
  /\ \A i \in Members : Standing(i)
  /\ pc \in {"hidden", "advance", "mkswap"} => entry[ckpt.cur].first = NewFirst(Current)

(* Members, the target and third parties do not share sectors.             *)
Clear ==
  /\ \A i \in Members :
       /\ Disjoint(entry[i].first .. entry[i].last, target.first .. target.last)
       /\ Disjoint(entry[i].first .. entry[i].last, alien)
  /\ Disjoint(alien, target.first .. target.last)

(* What prepare_apply has made sure of, in a table t.                      *)
Ready(t) ==
  /\ \A i \in Members :
       LET m == job.moves[i] IN
       /\ \/ At(t.entry[i], m.first, m.len)
          \/ At(t.entry[i], NewFirst(m), m.len)
       /\ Disjoint(Target(m), t.alien)
  /\ t.target.last <= GrowTo
  /\ Disjoint((t.target.last + 1) .. GrowTo, t.alien)

RunIsReady ==
  /\ InRun => Ready(Table)
  /\ pc = "prepared" => Ready(seen)
  /\ ckpt = NoCkpt /\ outcome # "done" /\ used.edit = 0 => target = job.target /\ alien = {}

(* A self-overlapping move is never more than one chunk ahead of the       *)
(* checkpoint, and never ahead when the next chunk is read.                *)
CopyBounds ==
  /\ pc \in {"copy", "sync", "save"} =>
       /\ next >= ckpt.done
       /\ RelocationOverlaps(Current) => next <= ckpt.done + 1
  /\ pc = "copy" => /\ RelocationOverlaps(Current) => next = ckpt.done
                    /\ next < ChunksOf(Current) \/ next = ckpt.done

TableInv == TypeOK /\ Phase /\ Positions /\ Clear /\ RunIsReady /\ CopyBounds

-----------------------------------------------------------------------------
(* Where the job stands is a checkpoint in range, the file's if there is   *)
(* one.                                                                    *)
LEMMA ResumeAtFacts ==
  ASSUME TypeOK, Phase
  PROVE  /\ ResumeAt.cur \in 1 .. (Len(job.moves) + 1)
         /\ ResumeAt.done \in Nat /\ ResumeAt.chunk \in Nat
         /\ ckpt # NoCkpt => ResumeAt = ckpt
         /\ Members = 1 .. Len(job.moves) /\ Len(job.moves) \in Nat
<1>1. Members = 1 .. Len(job.moves) /\ Len(job.moves) \in Nat
  BY JobFacts DEF TypeOK
<1>2. CASE ckpt # NoCkpt
  BY <1>1, <1>2 DEF ResumeAt, TypeOK, Phase, Checkpoints
<1>3. CASE ckpt = NoCkpt /\ outcome = "done"
  BY <1>1, <1>3 DEF ResumeAt, NoCkpt
<1>4. CASE ckpt = NoCkpt /\ outcome # "done"
  BY <1>1, <1>4 DEF ResumeAt, NoCkpt
<1> QED
  BY <1>1, <1>2, <1>3, <1>4

(* A step that leaves the checkpoint alone leaves the job where it stands. *)
LEMMA ResumeAtFixed ==
  ASSUME TypeOK, Phase, [Next]_vars, ckpt' = ckpt
  PROVE  ResumeAt' = ResumeAt
<1>1. job' = job
  BY JobFixed
<1>2. CASE ckpt # NoCkpt
  BY <1>2 DEF ResumeAt
<1>3. CASE ckpt = NoCkpt
  <2>1. ~InRun /\ (pc = "prepared" => outcome # "done")
    BY <1>3 DEF Phase
  <2>2. outcome' = "done" <=> outcome = "done"
    BY <2>1 DEF InRun, Next, Command, Run, CopyEntry, MoveSwap, Grow, Edit, vars, Prepare,
         PrepareRefuses, StartsRun, Execute, ExecuteRefuses, SkipUnmoved, BeginCopy, CopyChunk,
         SyncData, SaveProgress, CommitEntry, FixHiddenSectors, Advance, SwapTypeGone, CommitSwap,
         RecreateSwap, RecreateSwapFails, GrowTarget, GrowFs, GrowFsFails, Finish,
         FinishCannotRemove, Kill, PowerLoss, Dies, AlienCreates, AlienRetypes, AlienShrinks,
         AlienExtends
  <2> QED
    BY <1>1, <1>3, <2>2 DEF ResumeAt, NoCkpt
<1> QED
  BY <1>2, <1>3

(* The sectors member i may occupy: at its source until it is finished, at *)
(* its target from its turn on.                                            *)
Reach(i) ==
  (IF i >= ResumeAt.cur THEN Source(job.moves[i]) ELSE {})
  \cup (IF i <= ResumeAt.cur THEN Target(job.moves[i]) ELSE {})

(* The plan's order keeps the members apart at every stage.                *)
LEMMA ReachApart ==
  ASSUME TypeOK, Phase, NEW i \in Members, NEW k \in Members, i # k
  PROVE  Disjoint(Reach(i), Reach(k))
<1>1. ResumeAt.cur \in Nat /\ i \in Nat /\ k \in Nat
  BY ResumeAtFacts
<1>2. ASSUME NEW a \in Members, NEW b \in Members, a < b, a \in Nat, b \in Nat
      PROVE  Disjoint(Reach(a), Reach(b))
  <2>1. /\ Disjoint(Source(job.moves[a]), Source(job.moves[b]))
        /\ Disjoint(Target(job.moves[a]), Target(job.moves[b]))
        /\ Disjoint(Target(job.moves[a]), Source(job.moves[b]))
    BY <1>2, JobFacts DEF TypeOK
  <2>2. ~(a >= ResumeAt.cur /\ b <= ResumeAt.cur)
    BY <1>1, <1>2
  <2> QED
    BY <2>1, <2>2 DEF Reach, Disjoint
<1>3. CASE i < k
  BY <1>1, <1>2, <1>3
<1>4. CASE k < i
  <2>1. Disjoint(Reach(k), Reach(i))
    BY <1>1, <1>2, <1>4
  <2> QED
    BY <2>1 DEF Disjoint
<1> QED
  BY <1>1, <1>3, <1>4

(* A member's move, as numbers.                                            *)
LEMMA MoveFacts ==
  ASSUME TypeOK, NEW i \in Members
  PROVE  /\ job.moves[i] \in MoveRecords
         /\ job.moves[i].first \in Nat /\ job.moves[i].len \in Nat \ {0}
         /\ job.moves[i].delta \in Nat /\ NewFirst(job.moves[i]) \in Nat
         /\ NewFirst(job.moves[i]) = job.moves[i].first + job.moves[i].delta
         /\ NewFirst(job.moves[i]) + job.moves[i].len - 1 < DiskSize
         /\ GrowTo < NewFirst(job.moves[i]) /\ GrowTo \in Nat /\ DiskSize \in Nat
         /\ entry[i].first \in Nat /\ entry[i].last \in Nat
<1>1. /\ job.moves[i] \in MoveRecords /\ DiskSize \in Nat /\ GrowTo \in Nat
      /\ GrowTo < NewFirst(job.moves[i])
      /\ NewFirst(job.moves[i]) + job.moves[i].len - 1 <= job.lastUsable
      /\ job.lastUsable \in Nat /\ job.lastUsable < DiskSize
  BY JobFacts DEF TypeOK
<1>2. /\ job.moves[i].first \in Nat /\ job.moves[i].len \in Nat \ {0}
      /\ job.moves[i].delta \in Nat
  BY <1>1 DEF MoveRecords
<1>3. entry[i].first \in Nat /\ entry[i].last \in Nat
  BY DEF TypeOK, Entries
<1> QED
  BY <1>1, <1>2, <1>3 DEF NewFirst

(* What an entry describes lies within the member's reach.                 *)
LEMMA ExtentInReach ==
  ASSUME TypeOK, Phase, NEW i \in Members, Standing(i)
  PROVE  entry[i].first .. entry[i].last \subseteq Reach(i)
<1> DEFINE m == job.moves[i]
<1>1. /\ m.first \in Nat /\ m.len \in Nat /\ NewFirst(m) \in Nat
      /\ entry[i].first \in Nat /\ entry[i].last \in Nat
  BY MoveFacts
<1>2. entry[i].last <= entry[i].first + m.len - 1
  BY DEF Standing
<1>3. ASSUME entry[i].first = m.first
      PROVE  entry[i].first .. entry[i].last \subseteq Source(m)
  BY <1>1, <1>2, <1>3 DEF Source, Extent
<1>4. ASSUME entry[i].first = NewFirst(m)
      PROVE  entry[i].first .. entry[i].last \subseteq Target(m)
  BY <1>1, <1>2, <1>4 DEF Target, Extent
<1>5. ResumeAt.cur \in Nat /\ i \in Nat
  BY ResumeAtFacts
<1>6. CASE i < ResumeAt.cur
  <2>1. entry[i].first = NewFirst(m)
    BY <1>6 DEF Standing
  <2> QED
    BY <1>4, <1>5, <1>6, <2>1 DEF Reach
<1>7. CASE i > ResumeAt.cur
  <2>1. entry[i].first = m.first
    BY <1>7 DEF Standing
  <2> QED
    BY <1>3, <1>5, <1>7, <2>1 DEF Reach
<1>8. CASE i = ResumeAt.cur
  <2>1. entry[i].first \in {m.first, NewFirst(m)}
    BY DEF Standing
  <2> QED
    BY <1>3, <1>4, <1>5, <1>8, <2>1 DEF Reach
<1> QED
  BY <1>5, <1>6, <1>7, <1>8

(* Steps that keep the checkpoint and an entry keep what is known of it.   *)
LEMMA StandingKept ==
  ASSUME TypeOK, Phase, [Next]_vars, ckpt' = ckpt,
         NEW i \in Members, Standing(i), entry'[i] = entry[i]
  PROVE  Standing(i)'
<1>1. job' = job /\ ResumeAt' = ResumeAt
  BY JobFixed, ResumeAtFixed
<1>2. AllLeft(i)' = AllLeft(i)
  BY <1>1 DEF AllLeft
<1> QED
  BY <1>1, <1>2 DEF Standing

(* Committing the current entry at its target, everything copied.          *)
LEMMA PositionsPlaced ==
  ASSUME TypeOK, Phase, Positions, [Next]_vars, ckpt' = ckpt, ckpt # NoCkpt,
         ckpt.cur \in Members, PlaceCurrent,
         Current.swap \/ Left(Current, ckpt.chunk, ckpt.done) = 0
  PROVE  Positions'
<1>1. /\ job' = job /\ Members' = Members /\ ResumeAt' = ResumeAt /\ ResumeAt = ckpt
      /\ Current' = Current
  BY JobFixed, ResumeAtFixed, ResumeAtFacts DEF Current
<1>2. /\ entry'[ckpt.cur].first = NewFirst(Current)
      /\ entry'[ckpt.cur].last = NewFirst(Current) + Current.len - 1
      /\ entry'[ckpt.cur].swap = entry[ckpt.cur].swap
      /\ \A i \in Members : i # ckpt.cur => entry'[i] = entry[i]
  BY DEF PlaceCurrent, TypeOK, Entries
<1>3. ASSUME NEW i \in Members, i # ckpt.cur
      PROVE  Standing(i)'
  BY <1>2, <1>3, StandingKept DEF Positions
<1>4. Standing(ckpt.cur)'
  <2>1. NewFirst(Current) + Current.len - 1 \in Nat /\ ckpt.cur \in Nat
    BY CurrentFacts, ResumeAtFacts
  <2>2. entry[ckpt.cur].swap => Current.swap
    BY DEF Positions, Standing, Current
  <2>3. AllLeft(ckpt.cur)' = Left(Current, ckpt.chunk, ckpt.done)
    BY <1>1 DEF AllLeft, Current
  <2> QED
    BY <1>1, <1>2, <2>1, <2>2, <2>3 DEF Standing, Current
<1> QED
  BY <1>1, <1>2, <1>3, <1>4 DEF Positions

(* Advancing to the next entry: the one left behind is at its target.      *)
LEMMA PositionsAdvanced ==
  ASSUME TypeOK, Phase, Positions, [Next]_vars, NextEntry, entry' = entry,
         ckpt # NoCkpt, ckpt.cur \in Members, pc' = "entry",
         entry[ckpt.cur].first = NewFirst(Current)
  PROVE  Positions'
<1>1. job' = job /\ Members' = Members /\ ResumeAt = ckpt /\ ckpt.cur \in Nat
  BY JobFixed, ResumeAtFacts
<1>2. ResumeAt'.cur = ckpt.cur + 1
  BY CkptMoves DEF ResumeAt
<1>3. ASSUME NEW i \in Members
      PROVE  Standing(i)'
  <2>1. Standing(i) /\ i \in Nat
    BY ResumeAtFacts DEF Positions
  <2>2. CASE i <= ckpt.cur
    <3>1. entry[i].first = NewFirst(job.moves[i])
      BY <1>1, <2>1, <2>2 DEF Standing, Current
    <3> QED
      BY <1>1, <1>2, <2>1, <2>2, <3>1 DEF Standing
  <2>3. CASE i > ckpt.cur
    <3>1. entry[i].first = job.moves[i].first
      BY <1>1, <2>1, <2>3 DEF Standing
    <3> QED
      BY <1>1, <1>2, <2>1, <2>3, <3>1 DEF Standing
  <2> QED
    BY <1>1, <2>1, <2>2, <2>3
<1> QED
  BY <1>1, <1>3 DEF Positions

(* More chunks counted for the current entry, or a swap member's counter   *)
(* reset.                                                                  *)
LEMMA PositionsCounted ==
  ASSUME TypeOK, Phase, Positions, [Next]_vars, entry' = entry,
         ckpt # NoCkpt, ckpt.cur \in Members, NEW n \in Nat,
         ckpt' = [ckpt EXCEPT !.done = n],
         pc' \notin {"hidden", "advance", "mkswap"},
         Current.swap \/ n >= ckpt.done
  PROVE  Positions'
<1>1. job' = job /\ Members' = Members /\ ResumeAt = ckpt
      /\ ckpt.cur \in Nat /\ ckpt.cur # 0 /\ ckpt.done \in Nat /\ ckpt.chunk \in Nat
  BY JobFixed, ResumeAtFacts
<1>2. ckpt'.cur = ckpt.cur /\ ckpt'.done = n /\ ckpt'.chunk = ckpt.chunk
  BY CkptMoves
<1>3. ResumeAt' = ckpt'
  BY <1>1, <1>2 DEF ResumeAt, NoCkpt
<1>4. ASSUME NEW i \in Members
      PROVE  Standing(i)'
  <2>1. Standing(i) /\ i \in Nat /\ job.moves[i] \in MoveRecords
    BY ResumeAtFacts, MoveFacts DEF Positions
  <2>2. ASSUME i = ckpt.cur, ~job.moves[i].swap, AllLeft(i) = 0
        PROVE  AllLeft(i)' = 0
    <3>1. n >= ckpt.done
      BY <2>2 DEF Current
    <3>2. Left(job.moves[i], ckpt.chunk, n) <= Left(job.moves[i], ckpt.chunk, ckpt.done)
      BY <1>1, <2>1, <3>1, LeftMonotone
    <3>3. Left(job.moves[i], ckpt.chunk, n) \in 0 .. job.moves[i].len
      BY <1>1, <2>1, LeftFacts
    <3>4. job.moves[i].len \in Nat
      BY MoveFacts
    <3> QED
      BY <1>1, <1>2, <1>3, <2>2, <3>2, <3>3, <3>4 DEF AllLeft
  <2> QED
    BY <1>1, <1>2, <1>3, <2>1, <2>2 DEF Standing
<1> QED
  BY <1>1, <1>4 DEF Positions

(* A fresh job starts at its first entry, with nothing copied.             *)
LEMMA PositionsExecute ==
  ASSUME TypeOK, Phase, Positions, [Next]_vars, Execute
  PROVE  Positions'
<1>1. job' = job /\ Members' = Members /\ entry' = entry /\ pc' = "entry" /\ pc = "prepared"
  BY JobFixed DEF Execute
<1>2. CASE ckpt # NoCkpt
  <2>1. ckpt' = ckpt
    BY <1>2 DEF Execute
  <2> QED
    BY <1>1, <2>1, StandingKept DEF Positions
<1>3. CASE ckpt = NoCkpt
  <2>1. ckpt' = [cur |-> 1, done |-> 0, chunk |-> req] /\ req \in Nat
    BY <1>1, <1>3, RelocationAssumption DEF Execute, Phase
  <2>2. outcome # "done"
    BY <1>1 DEF Phase
  <2>3. ResumeAt = [cur |-> 1, done |-> 0, chunk |-> 0]
    BY <1>3, <2>2 DEF ResumeAt, NoCkpt
  <2>4. ResumeAt' = ckpt'
    BY <2>1 DEF ResumeAt, NoCkpt
  <2>5. ASSUME NEW i \in Members
        PROVE  Standing(i)'
    <3>1. Standing(i) /\ job.moves[i] \in MoveRecords /\ job.moves[i].len \in Nat \ {0}
      BY MoveFacts DEF Positions
    <3>2. AllLeft(i) = job.moves[i].len
      BY <2>3, <3>1, LeftFacts DEF AllLeft
    <3>3. ResumeAt'.cur = ResumeAt.cur
      BY <2>1, <2>3, <2>4
    <3> QED
      BY <1>1, <3>1, <3>2, <3>3 DEF Standing
  <2> QED
    BY <1>1, <2>5 DEF Positions
<1> QED
  BY <1>2, <1>3

(* A finished job stands behind its last entry, with or without its file.  *)
LEMMA PositionsFinish ==
  ASSUME TypeOK, Phase, Positions, [Next]_vars, Finish
  PROVE  Positions'
<1>1. job' = job /\ Members' = Members /\ entry' = entry /\ pc' = "down" /\ pc = "finish"
  BY JobFixed DEF Finish
<1>2. ckpt # NoCkpt /\ ckpt.cur = Len(job.moves) + 1
  BY <1>1, ResumeAtFacts DEF Phase, InRun, Finished
<1>3. CASE owed # {}
  <2>1. ckpt' = ckpt
    BY <1>3 DEF Finish
  <2> QED
    BY <1>1, <2>1, StandingKept DEF Positions
<1>4. CASE owed = {}
  <2>1. ckpt' = NoCkpt /\ outcome' = "done"
    BY <1>4 DEF Finish
  <2>2. ResumeAt'.cur = Len(job.moves) + 1 /\ ResumeAt.cur = Len(job.moves) + 1
    BY <1>1, <1>2, <2>1 DEF ResumeAt, NoCkpt
  <2>3. ASSUME NEW i \in Members
        PROVE  Standing(i)'
    <3>1. Standing(i) /\ i # Len(job.moves) + 1
      BY ResumeAtFacts DEF Positions
    <3> QED
      BY <1>1, <2>2, <3>1 DEF Standing
  <2> QED
    BY <1>1, <2>3 DEF Positions
<1> QED
  BY <1>3, <1>4

(* Third parties shrink or retype an entry.                                *)
LEMMA PositionsEdited ==
  ASSUME TypeOK, Phase, Positions, [Next]_vars, AlienRetypes \/ AlienShrinks
  PROVE  Positions'
<1>1. job' = job /\ Members' = Members /\ ckpt' = ckpt /\ pc' \in {"down", "prepared"}
      /\ ResumeAt' = ResumeAt
  BY JobFixed, ResumeAtFixed DEF AlienRetypes, AlienShrinks, MayEdit
<1>2. PICK i \in Members :
        \/ entry' = [entry EXCEPT ![i].swap = FALSE]
        \/ entry' = [entry EXCEPT ![i].last = entry[i].last - 1]
  BY DEF AlienRetypes, AlienShrinks
<1>3. ASSUME NEW k \in Members, k # i
      PROVE  Standing(k)'
  <2>1. entry'[k] = entry[k] /\ Standing(k)
    BY <1>2, <1>3 DEF TypeOK, Positions
  <2> QED
    BY <1>1, <2>1, StandingKept
<1>4. Standing(i)'
  <2>1. Standing(i) /\ entry[i] \in Entries
    BY DEF Positions, TypeOK
  <2>2. /\ entry'[i].first = entry[i].first
        /\ entry'[i].last \in {entry[i].last, entry[i].last - 1}
        /\ entry'[i].swap => entry[i].swap
    BY <1>2, <2>1 DEF TypeOK, Entries
  <2>3. /\ entry[i].first \in Nat /\ entry[i].last \in Nat /\ job.moves[i].len \in Nat
    BY MoveFacts
  <2>4. entry'[i].last <= entry'[i].first + job.moves[i].len - 1
    BY <2>1, <2>2, <2>3 DEF Standing
  <2>5. AllLeft(i)' = AllLeft(i)
    BY <1>1 DEF AllLeft
  <2> QED
    BY <1>1, <2>1, <2>2, <2>4, <2>5 DEF Standing
<1> QED
  BY <1>1, <1>3, <1>4 DEF Positions

(* Every step keeps the entries where the checkpoint says.                 *)
LEMMA PositionsStep ==
  ASSUME TypeOK, Phase, Positions, CopyBounds, [Next]_vars
  PROVE  Positions'
<1>1. CASE Execute
  BY <1>1, PositionsExecute
<1>2. CASE SkipUnmoved
  <2>1. ckpt # NoCkpt /\ ckpt.cur \in Members
    BY <1>2, ResumeAtFacts DEF SkipUnmoved, Phase, InRun, Finished
  <2>2. entry[ckpt.cur].first = NewFirst(Current)
    <3>1. Standing(ckpt.cur) /\ Current.delta = 0
      BY <1>2, <2>1 DEF Positions, SkipUnmoved
    <3>2. NewFirst(Current) = Current.first
      BY <2>1, <3>1, CurrentFacts DEF NewFirst
    <3> QED
      BY <3>1, <3>2 DEF Standing, Current
  <2> QED
    BY <1>2, <2>1, <2>2, PositionsAdvanced DEF SkipUnmoved
<1>3. CASE Advance
  <2>1. ckpt # NoCkpt /\ ckpt.cur \in Members /\ entry[ckpt.cur].first = NewFirst(Current)
    BY <1>3 DEF Advance, Phase, InRun, Positions
  <2> QED
    BY <1>3, <2>1, PositionsAdvanced DEF Advance
<1>4. CASE SaveProgress
  <2>1. ckpt # NoCkpt /\ ckpt.cur \in Members /\ next \in Nat /\ next >= ckpt.done
    BY <1>4 DEF SaveProgress, Phase, InRun, TypeOK, CopyBounds
  <2> QED
    BY <1>4, <2>1, PositionsCounted DEF SaveProgress
<1>5. CASE RecreateSwapFails
  <2>1. ckpt # NoCkpt /\ ckpt.cur \in Members /\ Current.swap
    BY <1>5 DEF RecreateSwapFails, Phase, InRun
  <2> QED
    BY <1>5, <2>1, PositionsCounted DEF RecreateSwapFails
<1>6. CASE CommitEntry
  <2>1. ckpt # NoCkpt /\ ckpt.cur \in Members /\ ckpt.chunk \in Chunks /\ ckpt.done \in Nat
    BY <1>6 DEF CommitEntry, Phase, InRun, TypeOK, Checkpoints
  <2>2. Current \in MoveRecords /\ ckpt.chunk \in Nat \ {0}
    BY <2>1, CurrentFacts, RelocationAssumption
  <2>3. next \in Nat /\ ChunksOf(Current) \in Nat
    <3>1. EntryChunk(Current, ckpt.chunk) \in Nat \ {0} /\ Current.len \in Nat
      BY <2>2, EntryChunkFacts DEF MoveRecords
    <3> QED
      BY <3>1, CeilCovers DEF ChunksOf, ChunkCount, TypeOK
  <2>4. ckpt.done >= ChunksOf(Current)
    BY <1>6, <2>1, <2>3 DEF CommitEntry, CopyBounds
  <2>5. Left(Current, ckpt.chunk, ckpt.done) = 0
    BY <2>1, <2>2, <2>4, AllCopied DEF ChunksOf
  <2> QED
    BY <1>6, <2>1, <2>5, PositionsPlaced DEF CommitEntry
<1>7. CASE CommitSwap
  <2>1. ckpt # NoCkpt /\ ckpt.cur \in Members /\ Current.swap
    BY <1>7, ResumeAtFacts DEF CommitSwap, Phase, InRun, Finished
  <2> QED
    BY <1>7, <2>1, PositionsPlaced DEF CommitSwap
<1>8. CASE Finish
  BY <1>8, PositionsFinish
<1>9. CASE AlienRetypes \/ AlienShrinks
  BY <1>9, PositionsEdited
<1>10. ASSUME entry' = entry, ckpt' = ckpt,
              pc' \in {"hidden", "advance", "mkswap"} => pc \in {"hidden", "advance", "mkswap"}
       PROVE  Positions'
  <2>1. job' = job /\ Members' = Members
    BY JobFixed
  <2>2. \A i \in Members : Standing(i)'
    BY <1>10, StandingKept DEF Positions
  <2> QED
    BY <1>10, <2>1, <2>2 DEF Positions, Current
<1>11. ASSUME NEW c \in Chunks, Prepare(c) \/ PrepareRefuses(c)
       PROVE  Positions'
  BY <1>10, <1>11 DEF Prepare, PrepareRefuses, onDisk
<1>12. CASE ExecuteRefuses \/ BeginCopy \/ CopyChunk \/ SyncData
  BY <1>10, <1>12 DEF ExecuteRefuses, BeginCopy, CopyChunk, SyncData, onDisk
<1>13. CASE FixHiddenSectors \/ SwapTypeGone \/ RecreateSwap
  BY <1>10, <1>13 DEF FixHiddenSectors, SwapTypeGone, RecreateSwap, onDisk
<1>14. CASE GrowTarget \/ GrowFs \/ GrowFsFails \/ FinishCannotRemove
  BY <1>10, <1>14 DEF GrowTarget, GrowFs, GrowFsFails, FinishCannotRemove, onDisk
<1>15. CASE Kill \/ PowerLoss \/ UNCHANGED vars
  BY <1>10, <1>15 DEF Kill, PowerLoss, Dies, vars
<1>16. CASE AlienCreates \/ AlienExtends
  BY <1>10, <1>16 DEF AlienCreates, AlienExtends
<1> QED
  BY <1>1, <1>2, <1>3, <1>4, <1>5, <1>6, <1>7, <1>8, <1>9, <1>11, <1>12, <1>13, <1>14,
     <1>15, <1>16 DEF Next, Command, Run, CopyEntry, MoveSwap, Grow, Edit

(* The copy loop's counter and the checkpoint's.                           *)
LEMMA CopyBoundsStep ==
  ASSUME TypeOK, Phase, CopyBounds, [Next]_vars
  PROVE  CopyBounds'
<1>1. job' = job
  BY JobFixed
<1>2. next \in Nat /\ ckpt \in Checkpoints /\ ckpt.done \in Nat
  BY DEF TypeOK, Checkpoints
<1>3. CASE BeginCopy
  BY <1>1, <1>2, <1>3 DEF BeginCopy, onDisk, CopyBounds, Current
<1>4. CASE CopyChunk
  <2>1. Current' = Current /\ ckpt' = ckpt /\ next' = next + 1
    BY <1>1, <1>4 DEF CopyChunk, Current
  <2>2. ChunksOf(Current)' = ChunksOf(Current)
    BY <2>1 DEF ChunksOf
  <2>3. next >= ckpt.done /\ (RelocationOverlaps(Current) => next = ckpt.done)
    BY <1>4 DEF CopyChunk, CopyBounds
  <2>4. pc' = "copy" => ~RelocationOverlaps(Current) /\ next' < ChunksOf(Current)
    BY <1>4 DEF CopyChunk
  <2>5. pc' \in {"copy", "sync"}
    BY <1>4 DEF CopyChunk
  <2> QED
    BY <1>2, <2>1, <2>2, <2>3, <2>4, <2>5 DEF CopyBounds
<1>5. CASE SyncData
  BY <1>1, <1>5 DEF SyncData, inRun, CopyBounds, Current
<1>6. CASE SaveProgress
  <2>1. ckpt'.done = next /\ next' = next /\ pc' = "copy"
    BY <1>6, CkptMoves DEF SaveProgress
  <2> QED
    BY <1>2, <2>1 DEF CopyBounds
<1>7. ASSUME pc' \notin {"copy", "sync", "save"}
      PROVE  CopyBounds'
  BY <1>7 DEF CopyBounds
<1>8. ASSUME NEW c \in Chunks, Prepare(c) \/ PrepareRefuses(c)
      PROVE  CopyBounds'
  BY <1>7, <1>8 DEF Prepare, PrepareRefuses, StartsRun
<1>9. CASE Execute \/ ExecuteRefuses \/ SkipUnmoved \/ Advance \/ CommitEntry \/ FixHiddenSectors
  BY <1>7, <1>9 DEF Execute, ExecuteRefuses, SkipUnmoved, Advance, CommitEntry, FixHiddenSectors
<1>10. CASE MoveSwap
  BY <1>7, <1>10 DEF MoveSwap, SwapTypeGone, CommitSwap, RecreateSwap, RecreateSwapFails
<1>11. CASE Grow
  BY <1>7, <1>11 DEF Grow, GrowTarget, GrowFs, GrowFsFails, Finish, FinishCannotRemove
<1>12. CASE Kill \/ PowerLoss
  BY <1>7, <1>12 DEF Kill, PowerLoss, Dies
<1>13. CASE Edit
  BY <1>7, <1>13 DEF Edit, AlienCreates, AlienRetypes, AlienShrinks, AlienExtends, MayEdit
<1>14. CASE UNCHANGED vars
  BY <1>14 DEF vars, CopyBounds, Current, ChunksOf
<1> QED
  BY <1>3, <1>4, <1>5, <1>6, <1>8, <1>9, <1>10, <1>11, <1>12, <1>13, <1>14
     DEF Next, Command, Run, CopyEntry

(* What prepare_apply looks at makes the table ready: of a fresh job, that *)
(* every member is in place; of a resumed one, every check of its list.    *)
LEMMA PrepareMakesReady ==
  ASSUME TypeOK, RunIsReady, NEW c \in Chunks, Prepare(c)
  PROVE  Ready(Table)
<1>1. CASE ckpt = NoCkpt
  <2>1. FreshAllowed /\ target = job.target /\ alien = {}
    BY <1>1 DEF Prepare, StartsRun, MayRun, RunIsReady
  <2>2. job.target.last <= GrowTo
    BY JobFacts DEF TypeOK
  <2> QED
    BY <2>1, <2>2 DEF Ready, Table, FreshAllowed, Disjoint
<1>2. CASE ckpt # NoCkpt
  <2>1. ResumeAllowed(c)
    BY <1>2 DEF Prepare, MayRun
  <2>2. \A i \in Members : i \in Nat /\ ckpt.cur \in Nat
    BY JobFacts DEF TypeOK, Checkpoints
  <2>3. ASSUME NEW i \in Members
        PROVE  \/ At(entry[i], job.moves[i].first, job.moves[i].len)
               \/ At(entry[i], NewFirst(job.moves[i]), job.moves[i].len)
    <3>1. StandsWhereExpected(i)
      BY <2>1 DEF ResumeAllowed
    <3>2. i < ckpt.cur \/ i = ckpt.cur \/ i > ckpt.cur
      BY <2>2
    <3> QED
      BY <2>2, <3>1, <3>2 DEF StandsWhereExpected
  <2> QED
    BY <2>1, <2>3 DEF Ready, Table, ResumeAllowed
<1> QED
  BY <1>1, <1>2

(* Committing an entry at its target keeps a ready table ready.            *)
LEMMA PlacedIsReady ==
  ASSUME TypeOK, [Next]_vars, Ready(Table), ckpt.cur \in Members, PlaceCurrent,
         target' = target, alien' = alien
  PROVE  Ready(Table)'
<1>1. job' = job /\ Members' = Members /\ GrowTo' = GrowTo
  BY JobFixed
<1>2. /\ At(entry'[ckpt.cur], NewFirst(Current), Current.len)
      /\ \A i \in Members : i # ckpt.cur => entry'[i] = entry[i]
  BY DEF PlaceCurrent, TypeOK, Entries, At
<1>3. ASSUME NEW i \in Members
      PROVE  \/ At(entry'[i], job.moves[i].first, job.moves[i].len)
             \/ At(entry'[i], NewFirst(job.moves[i]), job.moves[i].len)
  <2>1. CASE i = ckpt.cur
    BY <1>2, <2>1 DEF Current
  <2>2. CASE i # ckpt.cur
    BY <1>2, <2>2 DEF Ready, Table
  <2> QED
    BY <2>1, <2>2
<1> QED
  BY <1>1, <1>3 DEF Ready, Table

(* A run works on the table it was prepared on.                            *)
LEMMA RunIsReadyStep ==
  ASSUME TypeOK, Phase, RunIsReady, [Next]_vars
  PROVE  RunIsReady'
<1>1. job' = job /\ Members' = Members /\ GrowTo' = GrowTo
  BY JobFixed
<1>2. ckpt = NoCkpt => pc \in {"down", "prepared"}
  BY DEF Phase, InRun
<1>3. used.edit \in Nat
  BY RelocationAssumption DEF TypeOK
(* Steps that leave the table alone and do not start a run.                *)
<1>4. ASSUME UNCHANGED <<entry, target, alien, seen>>, InRun' => InRun,
             pc' = "prepared" => pc = "prepared",
             ckpt' = NoCkpt /\ outcome' # "done" =>
               ckpt = NoCkpt /\ outcome # "done" /\ used'.edit = used.edit
      PROVE  RunIsReady'
  BY <1>1, <1>4 DEF RunIsReady, Ready, Table
<1>5. ASSUME NEW c \in Chunks, Prepare(c)
      PROVE  RunIsReady'
  <2>1. Ready(Table) /\ seen' = Table /\ pc' = "prepared"
    BY <1>5, PrepareMakesReady DEF Prepare
  <2>2. UNCHANGED <<entry, target, alien, ckpt, used>> /\ outcome # "done"
    BY <1>5 DEF Prepare, StartsRun, onDisk
  <2>3. Ready(seen)'
    BY <1>1, <2>1, <2>2 DEF Ready, Table
  <2> QED
    BY <1>1, <2>1, <2>2, <2>3 DEF RunIsReady, InRun
<1>6. ASSUME NEW c \in Chunks, PrepareRefuses(c)
      PROVE  RunIsReady'
  BY <1>4, <1>6 DEF PrepareRefuses, StartsRun, onDisk, inRun, InRun
<1>7. CASE Execute
  <2>1. Ready(Table) /\ pc' = "entry"
    BY <1>7 DEF Execute, RunIsReady
  <2>2. UNCHANGED <<entry, target, alien>> /\ ckpt' # NoCkpt
    BY <1>7 DEF Execute, NoCkpt
  <2>3. Ready(Table)'
    BY <1>1, <2>1, <2>2 DEF Ready, Table
  <2> QED
    BY <2>1, <2>2, <2>3 DEF RunIsReady
<1>8. CASE ExecuteRefuses
  BY <1>4, <1>8 DEF ExecuteRefuses, onDisk, inRun, InRun, Phase
<1>9. CASE SkipUnmoved \/ Advance
  BY <1>4, <1>9, CkptMoves DEF SkipUnmoved, Advance, inRun, InRun
<1>10. CASE SaveProgress
  <2>1. ckpt.cur # 0 /\ ckpt'.cur = ckpt.cur
    BY <1>10, CkptMoves, ResumeAtFacts DEF SaveProgress, Phase, InRun
  <2> QED
    BY <1>4, <1>10, <2>1 DEF SaveProgress, InRun, NoCkpt
<1>11. CASE RecreateSwapFails
  <2>1. ckpt.cur # 0 /\ ckpt'.cur = ckpt.cur
    BY <1>11, CkptMoves, ResumeAtFacts DEF RecreateSwapFails, Phase, InRun
  <2> QED
    BY <1>4, <1>11, <2>1 DEF RecreateSwapFails, InRun, NoCkpt
<1>12. CASE BeginCopy \/ CopyChunk \/ SyncData \/ FixHiddenSectors \/ SwapTypeGone \/ RecreateSwap
  BY <1>2, <1>4, <1>12 DEF BeginCopy, CopyChunk, SyncData, FixHiddenSectors, SwapTypeGone,
     RecreateSwap, onDisk, inRun, InRun
<1>13. CASE CommitEntry \/ CommitSwap
  <2>1. /\ ckpt.cur \in Members /\ PlaceCurrent /\ InRun /\ ckpt' = ckpt /\ ckpt # NoCkpt
        /\ target' = target /\ alien' = alien /\ pc' # "prepared"
    BY <1>13, ResumeAtFacts DEF CommitEntry, CommitSwap, Phase, InRun, Finished
  <2>2. Ready(Table)'
    BY <2>1, PlacedIsReady DEF RunIsReady
  <2> QED
    BY <2>1, <2>2 DEF RunIsReady
<1>14. CASE GrowTarget
  <2>1. Ready(Table) /\ ckpt' = ckpt /\ ckpt # NoCkpt /\ pc' # "prepared"
    BY <1>14 DEF GrowTarget, RunIsReady, Phase, InRun
  <2>2. target'.last = GrowTo /\ entry' = entry /\ alien' = alien /\ GrowTo \in Nat
    BY <1>14, JobFacts DEF GrowTarget, TypeOK, Entries
  <2>3. (target'.last + 1) .. GrowTo = {}
    BY <2>2
  <2>4. Ready(Table)'
    BY <1>1, <2>1, <2>2, <2>3 DEF Ready, Table, Disjoint
  <2> QED
    BY <2>1, <2>4 DEF RunIsReady
<1>15. CASE GrowFs \/ GrowFsFails \/ FinishCannotRemove
  BY <1>2, <1>4, <1>15 DEF GrowFs, GrowFsFails, FinishCannotRemove, onDisk, inRun, InRun
<1>16. CASE Finish
  <2>1. ckpt' = NoCkpt => outcome' = "done"
    BY <1>16 DEF Finish, Phase, InRun
  <2> QED
    BY <1>4, <1>16, <2>1 DEF Finish, inRun, InRun
<1>17. CASE Kill \/ PowerLoss
  <2>1. /\ UNCHANGED <<entry, target, alien, ckpt, seen>> /\ pc' = "down"
        /\ used'.edit = used.edit
        /\ outcome' = IF pc = "down" THEN outcome ELSE "none"
    BY <1>17 DEF Kill, PowerLoss, Dies, TypeOK
  <2>2. outcome = "done" => outcome' = "done"
    BY <2>1 DEF Phase
  <2> QED
    BY <1>4, <2>1, <2>2 DEF InRun
<1>18. CASE Edit
  <2>1. /\ seen' = seen /\ pc' = pc /\ pc \in {"down", "prepared"} /\ used'.edit = used.edit + 1
    BY <1>18 DEF Edit, AlienCreates, AlienRetypes, AlienShrinks, AlienExtends, MayEdit, SpendEdit,
       inRun, TypeOK
  <2> QED
    BY <1>1, <1>3, <2>1 DEF RunIsReady, InRun, Ready
<1>19. CASE UNCHANGED vars
  BY <1>1, <1>19 DEF vars, RunIsReady, InRun, Ready, Table
<1> QED
  BY <1>5, <1>6, <1>7, <1>8, <1>9, <1>10, <1>11, <1>12, <1>13, <1>14, <1>15, <1>16, <1>17,
     <1>18, <1>19 DEF Next, Command, Run, CopyEntry, MoveSwap, Grow

(* Where an entry stands, in numbers: right of the room the target gets    *)
(* once everything is at its target.                                       *)
LEMMA FinishedRightOfRoom ==
  ASSUME TypeOK, Phase, Positions, ckpt # NoCkpt, Finished, NEW i \in Members
  PROVE  entry[i].first > GrowTo
<1>1. ResumeAt.cur > i
  BY ResumeAtFacts DEF Finished, Phase
<1>2. entry[i].first = NewFirst(job.moves[i])
  BY <1>1 DEF Positions, Standing
<1> QED
  BY <1>2, MoveFacts

(* Where the current entry lands nobody stands.                            *)
LEMMA TargetIsClear ==
  ASSUME TypeOK, Phase, Ready(Table), ckpt.cur \in Members
  PROVE  /\ Disjoint(Target(Current), alien)
         /\ Disjoint(Target(Current), target.first .. target.last)
<1>1. Disjoint(Target(Current), alien) /\ target.last <= GrowTo
  BY DEF Ready, Table, Current
<1>2. /\ GrowTo < NewFirst(Current) /\ GrowTo \in Nat /\ NewFirst(Current) \in Nat
      /\ Current.len \in Nat
  BY MoveFacts DEF Current
<1>3. target.first \in Nat /\ target.last \in Nat
  BY DEF TypeOK, Entries
<1> QED
  BY <1>1, <1>2, <1>3 DEF Disjoint, Target, Extent

(* The first write of a run and every later one lands on free sectors.     *)
LEMMA ClearStep ==
  ASSUME TypeOK, Phase, Positions, Clear, RunIsReady, [Next]_vars
  PROVE  Clear'
<1>1. Members' = Members /\ GrowTo' = GrowTo /\ job' = job
  BY JobFixed
<1>2. ASSUME UNCHANGED <<entry, target, alien>>
      PROVE  Clear'
  BY <1>1, <1>2 DEF Clear
<1>3. CASE CommitEntry \/ CommitSwap
  <2>1. /\ ckpt.cur \in Members /\ PlaceCurrent /\ Ready(Table)
        /\ target' = target /\ alien' = alien
    BY <1>3, ResumeAtFacts DEF CommitEntry, CommitSwap, Phase, InRun, Finished, RunIsReady
  <2>2. /\ entry'[ckpt.cur].first = NewFirst(Current)
        /\ entry'[ckpt.cur].last = NewFirst(Current) + Current.len - 1
        /\ \A i \in Members : i # ckpt.cur => entry'[i] = entry[i]
    BY <2>1 DEF PlaceCurrent, TypeOK, Entries
  <2>3. entry'[ckpt.cur].first .. entry'[ckpt.cur].last = Target(Current)
    BY <2>2 DEF Target, Extent
  <2>4. ASSUME NEW i \in Members
        PROVE  /\ Disjoint(entry'[i].first .. entry'[i].last, target.first .. target.last)
               /\ Disjoint(entry'[i].first .. entry'[i].last, alien)
    <3>1. CASE i = ckpt.cur
      BY <2>1, <2>3, <3>1, TargetIsClear
    <3>2. CASE i # ckpt.cur
      BY <2>2, <3>2 DEF Clear
    <3> QED
      BY <3>1, <3>2
  <2> QED
    BY <1>1, <2>1, <2>4 DEF Clear
<1>4. CASE GrowTarget
  <2>1. ckpt # NoCkpt /\ Finished /\ Ready(Table) /\ entry' = entry /\ alien' = alien
    BY <1>4 DEF GrowTarget, Phase, InRun, RunIsReady
  <2>2. target'.first = target.first /\ target'.last = GrowTo /\ GrowTo \in Nat
        /\ target.first \in Nat /\ target.last \in Nat /\ target.last <= GrowTo
    BY <1>4, <2>1, JobFacts DEF GrowTarget, TypeOK, Entries, Ready, Table
  <2>3. ASSUME NEW i \in Members
        PROVE  Disjoint(entry[i].first .. entry[i].last, target'.first .. target'.last)
    <3>1. entry[i].first > GrowTo /\ entry[i].first \in Nat /\ entry[i].last \in Nat
      BY <2>1, FinishedRightOfRoom, MoveFacts
    <3> QED
      BY <2>2, <3>1 DEF Disjoint
  <2>4. Disjoint(alien, target'.first .. target'.last)
    <3>1. /\ Disjoint(alien, target.first .. target.last)
          /\ Disjoint((target.last + 1) .. GrowTo, alien)
      BY <2>1 DEF Clear, Ready, Table
    <3>2. \A s \in target.first .. GrowTo :
             s \in target.first .. target.last \/ s \in (target.last + 1) .. GrowTo
      BY <2>2
    <3> QED
      BY <2>2, <3>1, <3>2 DEF Disjoint
  <2> QED
    BY <1>1, <2>1, <2>3, <2>4 DEF Clear
<1>5. CASE AlienCreates
  <2>1. PICK a \in FirstUsable .. job.lastUsable : \E b \in a .. job.lastUsable :
          Disjoint(a .. b, Occupied) /\ alien' = alien \cup (a .. b)
    BY <1>5 DEF AlienCreates
  <2>2. PICK b \in a .. job.lastUsable :
          Disjoint(a .. b, Occupied) /\ alien' = alien \cup (a .. b)
    BY <2>1
  <2>3. /\ Disjoint(a .. b, target.first .. target.last)
        /\ \A i \in Members : Disjoint(a .. b, entry[i].first .. entry[i].last)
    BY <2>2 DEF Occupied, Disjoint
  <2>4. entry' = entry /\ target' = target
    BY <1>5 DEF AlienCreates
  <2> QED
    BY <1>1, <2>2, <2>3, <2>4 DEF Clear, Disjoint
<1>6. CASE AlienRetypes \/ AlienShrinks
  <2>1. PICK i \in Members :
          \/ entry' = [entry EXCEPT ![i].swap = FALSE]
          \/ entry' = [entry EXCEPT ![i].last = entry[i].last - 1]
    BY <1>6 DEF AlienRetypes, AlienShrinks
  <2>2. target' = target /\ alien' = alien
    BY <1>6 DEF AlienRetypes, AlienShrinks
  <2>3. ASSUME NEW k \in Members
        PROVE  entry'[k].first .. entry'[k].last \subseteq entry[k].first .. entry[k].last
    <3>1. entry[k].first \in Nat /\ entry[k].last \in Nat
      BY MoveFacts
    <3>2. /\ entry'[k].first = entry[k].first
          /\ entry'[k].last \in {entry[k].last, entry[k].last - 1}
      BY <2>1 DEF TypeOK, Entries
    <3> QED
      BY <3>1, <3>2
  <2> QED
    BY <1>1, <2>2, <2>3 DEF Clear, Disjoint
<1>7. CASE AlienExtends
  <2>1. /\ target.last + 1 \notin Occupied /\ entry' = entry /\ alien' = alien
        /\ target'.first = target.first /\ target'.last = target.last + 1
        /\ target.first \in Nat /\ target.last \in Nat
    BY <1>7 DEF AlienExtends, TypeOK, Entries
  <2>2. \A s \in target'.first .. target'.last :
           s \in target.first .. target.last \/ s = target.last + 1
    BY <2>1
  <2>3. /\ target.last + 1 \notin alien
        /\ \A i \in Members : target.last + 1 \notin entry[i].first .. entry[i].last
    BY <2>1 DEF Occupied
  <2> QED
    BY <1>1, <2>1, <2>2, <2>3 DEF Clear, Disjoint
<1>8. ASSUME NEW c \in Chunks, Prepare(c) \/ PrepareRefuses(c)
      PROVE  Clear'
  BY <1>2, <1>8 DEF Prepare, PrepareRefuses, onDisk
<1>9. CASE Execute \/ ExecuteRefuses \/ SkipUnmoved \/ Advance
  BY <1>2, <1>9 DEF Execute, ExecuteRefuses, SkipUnmoved, Advance, onDisk
<1>10. CASE BeginCopy \/ CopyChunk \/ SyncData \/ SaveProgress \/ FixHiddenSectors
  BY <1>2, <1>10 DEF BeginCopy, CopyChunk, SyncData, SaveProgress, FixHiddenSectors, onDisk
<1>11. CASE SwapTypeGone \/ RecreateSwap \/ RecreateSwapFails
  BY <1>2, <1>11 DEF SwapTypeGone, RecreateSwap, RecreateSwapFails, onDisk
<1>12. CASE GrowFs \/ GrowFsFails \/ Finish \/ FinishCannotRemove
  BY <1>2, <1>12 DEF GrowFs, GrowFsFails, Finish, FinishCannotRemove, onDisk
<1>13. CASE Kill \/ PowerLoss \/ UNCHANGED vars
  BY <1>2, <1>13 DEF Kill, PowerLoss, Dies, vars
<1> QED
  BY <1>3, <1>4, <1>5, <1>6, <1>7, <1>8, <1>9, <1>10, <1>11, <1>12, <1>13
     DEF Next, Command, Run, CopyEntry, MoveSwap, Grow, Edit

(* In the first state everything is at its source and third parties own    *)
(* nothing.                                                                *)
LEMMA InitTable == Init => TableInv
<1> SUFFICES ASSUME Init PROVE TableInv
  OBVIOUS
<1>1. TypeOK /\ Phase
  BY InitTypes
<1>2. /\ ckpt = NoCkpt /\ outcome = "none" /\ pc = "down" /\ alien = {} /\ target = job.target
      /\ entry = [i \in Members |-> EntryAtSource(job.moves[i])]
  BY DEF Init, Members
<1>3. ResumeAt.cur = 1 /\ ResumeAt.chunk = 0 /\ ResumeAt.done = 0
  BY <1>2 DEF ResumeAt, NoCkpt
<1>4. ASSUME NEW i \in Members
      PROVE  /\ entry[i].first = job.moves[i].first
             /\ entry[i].last = job.moves[i].first + job.moves[i].len - 1
             /\ entry[i].swap = job.moves[i].swap
             /\ i \in 1 .. Len(job.moves)
  BY <1>1, <1>2, ResumeAtFacts DEF EntryAtSource
<1>5. ASSUME NEW i \in Members
      PROVE  Standing(i)
  <2>1. i \in Nat /\ ~(i < 1)
    BY <1>1, <1>4, ResumeAtFacts
  <2>2. /\ job.moves[i].first \in Nat /\ job.moves[i].len \in Nat
    BY <1>1, MoveFacts
  <2> QED
    BY <1>3, <1>4, <2>1, <2>2 DEF Standing
<1>6. Clear
  <2>1. ASSUME NEW i \in Members
        PROVE  Disjoint(entry[i].first .. entry[i].last, target.first .. target.last)
    <3>1. /\ job.target.last < job.moves[i].first /\ job.target.last \in Nat
          /\ job.target.first \in Nat
      BY <1>1, JobFacts DEF TypeOK, Entries
    <3>2. entry[i].first \in Nat /\ entry[i].last \in Nat
      BY <1>1, MoveFacts
    <3> QED
      BY <1>2, <1>4, <3>1, <3>2 DEF Disjoint
  <2> QED
    BY <1>2, <2>1 DEF Clear, Disjoint
<1>7. Positions
  BY <1>2, <1>5 DEF Positions
<1>8. RunIsReady /\ CopyBounds
  BY <1>2 DEF RunIsReady, CopyBounds, InRun
<1> QED
  BY <1>1, <1>6, <1>7, <1>8 DEF TableInv

(* The invariant of the table is inductive.                              *)
LEMMA TableStep == TableInv /\ [Next]_vars => TableInv'
  BY TypesStep, PositionsStep, ClearStep, RunIsReadyStep, CopyBoundsStep DEF TableInv

(* It holds of every reachable state.                                    *)
LEMMA TableIsInvariant == Spec => []TableInv
  BY InitTable, TableStep, PTL DEF Spec

(* Members within their reach, clear of the target and of third parties, *)
(* do not overlap.                                                       *)
LEMMA TableInvImplies == TableInv => TableNeverOverlaps
<1> SUFFICES ASSUME TableInv PROVE TableNeverOverlaps
  OBVIOUS
<1>1. ASSUME NEW i \in Members, NEW k \in Members, i # k
      PROVE  Disjoint(entry[i].first .. entry[i].last, entry[k].first .. entry[k].last)
  <2>1. /\ entry[i].first .. entry[i].last \subseteq Reach(i)
        /\ entry[k].first .. entry[k].last \subseteq Reach(k)
    BY ExtentInReach DEF TableInv, Positions
  <2>2. Disjoint(Reach(i), Reach(k))
    BY <1>1, ReachApart DEF TableInv
  <2> QED
    BY <2>1, <2>2 DEF Disjoint
<1> QED
  BY <1>1 DEF TableInv, Clear, TableNeverOverlaps

(* No crash, failure, resume or edit ever leaves a table in which two      *)
(* members, a member and the target, or a member and somebody else's       *)
(* partition share a sector.                                               *)
THEOREM NoOverlapEver == Spec => []TableNeverOverlaps
  BY TableIsInvariant, TableInvImplies, PTL

-----------------------------------------------------------------------------
(* The content.  Chunks counted in memory are at the target in the page    *)
(* cache, and on the medium once synced; everything is where the           *)
(* checkpoint implies, in both.                                            *)
AtTarget(content, i, n) ==
  \A k \in 0 .. (job.moves[i].len - 1) :
    k >= Left(job.moves[i], ckpt.chunk, n)
      => SameData(content[NewFirst(job.moves[i]) + k], job.moves[i].first + k)

Intact(content) ==
  \A i \in DataMembers : \A k \in 0 .. (job.moves[i].len - 1) :
    Holds(content, Location(i, k), i, k)

ContentInv ==
  /\ pc \in {"copy", "sync", "save"} => AtTarget(disk, ckpt.cur, next)
  /\ pc = "save" => AtTarget(media, ckpt.cur, next)
  /\ Intact(disk) /\ Intact(media)

(* A sector of the content lies on the disk, within its member's reach.    *)
LEMMA LocationFacts ==
  ASSUME TypeOK, Phase, NEW i \in Members, NEW k \in 0 .. (job.moves[i].len - 1)
  PROVE  /\ Location(i, k) \in LBA /\ Location(i, k) \in Reach(i)
         /\ job.moves[i].first + k \in LBA /\ NewFirst(job.moves[i]) + k \in LBA
         /\ job.moves[i].first + k \in Source(job.moves[i])
         /\ NewFirst(job.moves[i]) + k \in Target(job.moves[i])
         /\ k \in Nat
<1> DEFINE m == job.moves[i]
<1>1. /\ m.first \in Nat /\ m.len \in Nat \ {0} /\ NewFirst(m) \in Nat /\ DiskSize \in Nat
      /\ NewFirst(m) = m.first + m.delta /\ m.delta \in Nat
      /\ NewFirst(m) + m.len - 1 < DiskSize
  BY MoveFacts
<1>2. k \in Nat /\ k <= m.len - 1
  BY <1>1
<1>3. /\ m.first + k \in LBA /\ NewFirst(m) + k \in LBA
      /\ m.first + k \in Source(m) /\ NewFirst(m) + k \in Target(m)
  BY <1>1, <1>2 DEF LBA, Source, Target, Extent
<1>4. ResumeAt.cur \in Nat /\ i \in Nat
  BY ResumeAtFacts
<1>5. CASE Copied(i, k)
  <2>1. Location(i, k) = NewFirst(m) + k /\ i <= ResumeAt.cur
    BY <1>4, <1>5 DEF Location, Copied
  <2> QED
    BY <1>2, <1>3, <2>1 DEF Reach
<1>6. CASE ~Copied(i, k)
  <2>1. Location(i, k) = m.first + k /\ i >= ResumeAt.cur
    BY <1>4, <1>6 DEF Location, Copied
  <2> QED
    BY <1>2, <1>3, <2>1 DEF Reach
<1> QED
  BY <1>5, <1>6

(* Moving the checkpoint on does not move the content, unless progress is  *)
(* saved: an entry is left behind when it is copied, and taken up when     *)
(* nothing of it is.                                                       *)
LEMMA LocationKept ==
  ASSUME TableInv, [Next]_vars, ~SaveProgress,
         NEW i \in DataMembers, NEW k \in 0 .. (job.moves[i].len - 1)
  PROVE  Location(i, k)' = Location(i, k)
<1> DEFINE m == job.moves[i]
<1>1. job' = job /\ TypeOK /\ Phase /\ Positions /\ i \in Members /\ ~m.swap
  BY JobFixed DEF TableInv, DataMembers
<1>2. /\ m \in MoveRecords /\ m.len \in Nat \ {0} /\ k \in Nat /\ k < m.len /\ i \in Nat
      /\ m.first \in Nat /\ m.delta \in Nat /\ NewFirst(m) = m.first + m.delta
      /\ i <= Len(job.moves) /\ Len(job.moves) \in Nat
  <2>1. /\ m \in MoveRecords /\ m.len \in Nat \ {0} /\ m.first \in Nat /\ m.delta \in Nat
        /\ NewFirst(m) = m.first + m.delta
    BY <1>1, MoveFacts
  <2>2. i \in 1 .. Len(job.moves) /\ Len(job.moves) \in Nat
    BY <1>1, ResumeAtFacts
  <2> QED
    BY <2>1, <2>2
<1>3. /\ ResumeAt.cur \in Nat /\ ResumeAt.done \in Nat /\ ResumeAt.chunk \in Nat
      /\ ckpt # NoCkpt => ResumeAt = ckpt
  BY <1>1, ResumeAtFacts
<1>4. ASSUME Copied(i, k)' <=> Copied(i, k)
      PROVE  Location(i, k)' = Location(i, k)
  BY <1>1, <1>4 DEF Location
<1>5. ASSUME NEW c \in Nat
      PROVE  ~(k >= Left(m, c, 0))
  <2>1. Left(m, c, 0) = m.len
    BY <1>2, LeftFacts
  <2> QED
    BY <1>2, <2>1
<1>6. CASE ckpt' = ckpt
  <2>1. ResumeAt' = ResumeAt
    BY <1>1, <1>6, ResumeAtFixed
  <2> QED
    BY <1>1, <1>4, <2>1 DEF Copied
<1>7. CASE Execute /\ ckpt = NoCkpt
  <2>1. ckpt' = [cur |-> 1, done |-> 0, chunk |-> req] /\ req \in Nat /\ outcome # "done"
    BY <1>1, <1>7, RelocationAssumption DEF Execute, Phase
  <2>2. ResumeAt = [cur |-> 1, done |-> 0, chunk |-> 0]
    BY <1>7, <2>1 DEF ResumeAt, NoCkpt
  <2>3. ResumeAt' = [cur |-> 1, done |-> 0, chunk |-> req]
    BY <2>1 DEF ResumeAt, NoCkpt
  <2> QED
    BY <1>1, <1>4, <1>5, <2>1, <2>2, <2>3 DEF Copied
<1>8. ASSUME NextEntry, ckpt # NoCkpt, ckpt.cur \in Members,
             Current.swap \/ Current.delta = 0 \/ AllLeft(ckpt.cur) = 0
      PROVE  Location(i, k)' = Location(i, k)
  <2>1. /\ ResumeAt = ckpt /\ ResumeAt'.cur = ckpt.cur + 1 /\ ckpt.cur \in Nat
        /\ ResumeAt'.done = 0 /\ ResumeAt'.chunk = ckpt.chunk /\ ckpt.chunk \in Nat
    BY <1>1, <1>3, <1>8, CkptMoves DEF ResumeAt
  <2>2. CASE i < ckpt.cur
    BY <1>1, <1>2, <1>4, <2>1, <2>2 DEF Copied
  <2>3. CASE i = ckpt.cur /\ AllLeft(i) = 0
    BY <1>1, <1>2, <1>4, <2>1, <2>3 DEF Copied, AllLeft
  <2>4. CASE i = ckpt.cur /\ Current.delta = 0
    <3>1. NewFirst(m) = m.first
      BY <1>2, <2>4 DEF Current
    <3> QED
      BY <1>1, <3>1 DEF Location
  <2>5. CASE i = ckpt.cur + 1
    BY <1>1, <1>2, <1>4, <1>5, <2>1, <2>5 DEF Copied
  <2>6. CASE i > ckpt.cur + 1
    BY <1>1, <1>2, <1>4, <2>1, <2>6 DEF Copied
  <2>7. i = ckpt.cur => AllLeft(i) = 0 \/ Current.delta = 0
    BY <1>1, <1>8 DEF Current
  <2> QED
    BY <1>2, <2>1, <2>2, <2>3, <2>4, <2>5, <2>6, <2>7
<1>9. CASE SkipUnmoved
  <2>1. ckpt # NoCkpt /\ ckpt.cur \in Members
    BY <1>1, <1>9, ResumeAtFacts DEF SkipUnmoved, Phase, InRun, Finished
  <2> QED
    BY <1>8, <1>9, <2>1 DEF SkipUnmoved
<1>10. CASE Advance
  <2>1. /\ ckpt # NoCkpt /\ ckpt.cur \in Members /\ Current.delta # 0
        /\ entry[ckpt.cur].first = NewFirst(Current)
    BY <1>1, <1>10 DEF Advance, Phase, InRun, Positions
  <2>2. entry[ckpt.cur].first # Current.first
    BY <1>1, <2>1, CurrentFacts DEF NewFirst
  <2>3. Current.swap \/ AllLeft(ckpt.cur) = 0
    BY <1>1, <1>3, <2>1, <2>2 DEF Positions, Standing, Current
  <2> QED
    BY <1>8, <1>10, <2>1, <2>3 DEF Advance
<1>11. CASE RecreateSwapFails
  <2>1. /\ ckpt # NoCkpt /\ Current.swap /\ ckpt.cur # 0 /\ ckpt'.cur = ckpt.cur
        /\ ckpt.cur \in Nat
    BY <1>1, <1>11, CkptMoves, ResumeAtFacts DEF RecreateSwapFails, Phase, InRun
  <2>2. ResumeAt = ckpt /\ ResumeAt' = ckpt'
    BY <1>3, <2>1 DEF ResumeAt, NoCkpt
  <2>3. i # ckpt.cur
    BY <1>1, <2>1 DEF Current
  <2> QED
    BY <1>1, <1>4, <2>1, <2>2, <2>3 DEF Copied
<1>12. CASE Finish /\ ckpt' # ckpt
  <2>1. ckpt' = NoCkpt /\ outcome' = "done" /\ ckpt # NoCkpt /\ ckpt.cur > Len(job.moves)
    BY <1>1, <1>12 DEF Finish, Phase, InRun, Finished
  <2>2. ResumeAt'.cur = Len(job.moves) + 1 /\ ResumeAt = ckpt
    BY <1>1, <1>3, <2>1 DEF ResumeAt, NoCkpt
  <2>3. i < ResumeAt'.cur /\ i < ResumeAt.cur
    BY <1>2, <1>3, <2>1, <2>2
  <2> QED
    BY <1>1, <1>4, <2>3 DEF Copied
<1>13. ckpt' = ckpt \/ (Execute /\ ckpt = NoCkpt) \/ SkipUnmoved \/ Advance \/ RecreateSwapFails
       \/ Finish
  BY DEF Next, Command, Run, CopyEntry, MoveSwap, Grow, Edit, vars, Prepare, PrepareRefuses,
         Execute, ExecuteRefuses, BeginCopy, CopyChunk, SyncData, CommitEntry, FixHiddenSectors,
         SwapTypeGone, CommitSwap, RecreateSwap, GrowTarget, GrowFs, GrowFsFails,
         FinishCannotRemove, Kill, PowerLoss, Dies, AlienCreates, AlienRetypes, AlienShrinks,
         AlienExtends, onDisk
<1> QED
  BY <1>6, <1>7, <1>9, <1>10, <1>11, <1>12, <1>13

(* A step that writes no sector of the content, except with what a third   *)
(* party owns, keeps it in the page cache, and so on the medium.           *)
LEMMA IntactDiskKept ==
  ASSUME TableInv, [Next]_vars, ~SaveProgress, Intact(disk), alien \subseteq alien',
         \A i \in DataMembers : \A k \in 0 .. (job.moves[i].len - 1) :
           disk'[Location(i, k)] = disk[Location(i, k)] \/ Location(i, k) \in alien'
  PROVE  Intact(disk)'
<1>1. job' = job /\ DataMembers' = DataMembers
  BY JobFixed DEF DataMembers
<1>2. ASSUME NEW i \in DataMembers, NEW k \in 0 .. (job.moves[i].len - 1)
      PROVE  Holds(disk, Location(i, k), i, k)'
  <2>1. Location(i, k)' = Location(i, k) /\ Holds(disk, Location(i, k), i, k)
    BY LocationKept DEF Intact
  <2>2. disk'[Location(i, k)] = disk[Location(i, k)] \/ Location(i, k) \in alien'
    OBVIOUS
  <2> QED
    BY <1>1, <2>1, <2>2 DEF Holds
<1> QED
  BY <1>1, <1>2 DEF Intact

(* The same on the medium.                                               *)
LEMMA IntactMediaKept ==
  ASSUME TableInv, [Next]_vars, ~SaveProgress, Intact(media), alien \subseteq alien',
         \A i \in DataMembers : \A k \in 0 .. (job.moves[i].len - 1) :
           media'[Location(i, k)] = media[Location(i, k)] \/ Location(i, k) \in alien'
  PROVE  Intact(media)'
<1>1. job' = job /\ DataMembers' = DataMembers
  BY JobFixed DEF DataMembers
<1>2. ASSUME NEW i \in DataMembers, NEW k \in 0 .. (job.moves[i].len - 1)
      PROVE  Holds(media, Location(i, k), i, k)'
  <2>1. Location(i, k)' = Location(i, k) /\ Holds(media, Location(i, k), i, k)
    BY LocationKept DEF Intact
  <2>2. media'[Location(i, k)] = media[Location(i, k)] \/ Location(i, k) \in alien'
    OBVIOUS
  <2> QED
    BY <1>1, <2>1, <2>2 DEF Holds
<1> QED
  BY <1>1, <1>2 DEF Intact

(* A sync makes the medium as good as the page cache.                      *)
LEMMA IntactSynced ==
  ASSUME Intact(disk)', media' = disk'
  PROVE  Intact(media)'
  BY DEF Intact, Holds

(* The move in progress, in numbers.                                       *)
LEMMA CopyFacts ==
  ASSUME TableInv, pc \in {"copy", "sync", "save"}
  PROVE  /\ ckpt # NoCkpt /\ ResumeAt = ckpt /\ ckpt.cur \in Members /\ ckpt.cur \in DataMembers
         /\ ckpt.chunk \in Nat \ {0} /\ ckpt.done \in Nat /\ next \in Nat /\ next >= ckpt.done
         /\ Current \in MoveRecords /\ Current.delta \in Nat \ {0}
         /\ Current.len \in Nat \ {0} /\ Current.first \in Nat
         /\ NewFirst(Current) \in Nat /\ NewFirst(Current) = Current.first + Current.delta
         /\ Left(Current, ckpt.chunk, ckpt.done) \in 0 .. Current.len
         /\ Left(Current, ckpt.chunk, next) \in 0 .. Current.len
         /\ Left(Current, ckpt.chunk, next + 1) \in 0 .. Current.len
         /\ Left(Current, ckpt.chunk, next) <= Left(Current, ckpt.chunk, ckpt.done)
<1>1. /\ TypeOK /\ Phase /\ ckpt # NoCkpt /\ ckpt.cur \in Members /\ ckpt.cur \in DataMembers
      /\ Current.delta # 0 /\ next >= ckpt.done
  BY DEF TableInv, Phase, InRun, CopyBounds, DataMembers, Current
<1>2. ckpt.chunk \in Nat \ {0} /\ ckpt.done \in Nat /\ next \in Nat /\ ResumeAt = ckpt
  BY <1>1, RelocationAssumption, ResumeAtFacts DEF TypeOK, Phase, Checkpoints
<1>3. /\ Current \in MoveRecords /\ Current.first \in Nat /\ Current.delta \in Nat \ {0}
      /\ Current.len \in Nat \ {0} /\ NewFirst(Current) \in Nat
  BY <1>1, CurrentFacts
<1>4. /\ Left(Current, ckpt.chunk, ckpt.done) \in 0 .. Current.len
      /\ Left(Current, ckpt.chunk, next) \in 0 .. Current.len
      /\ Left(Current, ckpt.chunk, next + 1) \in 0 .. Current.len
      /\ Left(Current, ckpt.chunk, next) <= Left(Current, ckpt.chunk, ckpt.done)
  BY <1>1, <1>2, <1>3, LeftFacts, LeftMonotone
<1> QED
  BY <1>1, <1>2, <1>3, <1>4 DEF NewFirst

(* A chunk is written where no content is needed: not on another member,   *)
(* not on what is already copied, and not on the part of the source that   *)
(* would be read again after a crash.                                      *)
LEMMA ChunkMisses ==
  ASSUME TableInv, CopyChunk,
         NEW i \in DataMembers, NEW k \in 0 .. (job.moves[i].len - 1),
         NEW w \in ChunkOffsets(Current, ckpt.chunk, next)
  PROVE  Location(i, k) # NewFirst(Current) + w
<1> DEFINE m == Current
           left == Left(m, ckpt.chunk, ckpt.done)
<1>1. /\ TypeOK /\ Phase /\ CopyBounds /\ i \in Members /\ pc = "copy"
  BY DEF TableInv, DataMembers, CopyChunk
<1>2. /\ ResumeAt = ckpt /\ ckpt.cur \in Members /\ ckpt.chunk \in Nat \ {0} /\ ckpt.done \in Nat
      /\ next \in Nat /\ m \in MoveRecords /\ m.delta \in Nat \ {0} /\ m.len \in Nat \ {0}
      /\ m.first \in Nat /\ NewFirst(m) = m.first + m.delta /\ left \in 0 .. m.len
      /\ Left(m, ckpt.chunk, next) \in 0 .. m.len
      /\ Left(m, ckpt.chunk, next + 1) \in 0 .. m.len
      /\ Left(m, ckpt.chunk, next) <= left
  BY <1>1, CopyFacts
<1>3. /\ w \in 0 .. (m.len - 1) /\ w < Left(m, ckpt.chunk, next)
      /\ w >= Left(m, ckpt.chunk, next + 1) /\ w < left
  BY <1>2 DEF ChunkOffsets
<1>4. CASE i # ckpt.cur
  <2>1. NewFirst(m) + w \in Reach(ckpt.cur)
    <3>1. NewFirst(m) + w \in Target(m)
      BY <1>2, <1>3 DEF Target, Extent
    <3>2. ckpt.cur <= ResumeAt.cur
      BY <1>1, <1>2, ResumeAtFacts
    <3> QED
      BY <3>1, <3>2 DEF Reach, Current
  <2>2. Location(i, k) \in Reach(i)
    BY <1>1, LocationFacts
  <2>3. Disjoint(Reach(i), Reach(ckpt.cur))
    BY <1>1, <1>2, <1>4, ReachApart
  <2> QED
    BY <2>1, <2>2, <2>3 DEF Disjoint
<1>5. CASE i = ckpt.cur
  <2>1. k \in 0 .. (m.len - 1) /\ job.moves[i] = m
    BY <1>5 DEF Current
  <2>2. CASE k >= left
    <3>1. Location(i, k) = NewFirst(m) + k
      BY <1>2, <1>5, <2>1, <2>2 DEF Location, Copied
    <3> QED
      BY <1>2, <1>3, <2>1, <2>2, <3>1
  <2>3. CASE ~(k >= left)
    <3>1. Location(i, k) = m.first + k
      <4>1. ~(i < ResumeAt.cur)
        BY <1>1, <1>2, <1>5, ResumeAtFacts
      <4> QED
        BY <1>2, <1>5, <2>1, <2>3, <4>1 DEF Location, Copied
    <3>2. k # m.delta + w
      <4>1. CASE RelocationOverlaps(m)
        <5>1. next = ckpt.done
          BY <1>1, <4>1 DEF CopyBounds
        <5>2. /\ Left(m, ckpt.chunk, next + 1) >= left - EntryChunk(m, ckpt.chunk)
              /\ EntryChunk(m, ckpt.chunk) <= m.delta /\ EntryChunk(m, ckpt.chunk) \in Nat
          BY <1>2, <4>1, <5>1, LeftFacts, EntryChunkFacts
        <5> HIDE DEF left
        <5> QED
          BY <1>2, <1>3, <2>1, <2>3, <5>2
      <4>2. CASE ~RelocationOverlaps(m)
        <5>1. m.delta >= m.len
          BY <1>2, <4>2 DEF RelocationOverlaps
        <5> QED
          BY <1>2, <1>3, <2>1, <5>1
      <4> QED
        BY <4>1, <4>2
    <3>3. k \in Nat /\ w \in Nat
      BY <1>2, <1>3, <2>1
    <3>4. m.first + k # NewFirst(m) + w
      BY <1>2, <3>2, <3>3
    <3> QED
      BY <3>1, <3>4
  <2> QED
    BY <2>2, <2>3
<1> QED
  BY <1>4, <1>5

(* Copying keeps the content and takes it one chunk further.               *)
LEMMA ContentCopied ==
  ASSUME TableInv, ContentInv, [Next]_vars, CopyChunk
  PROVE  ContentInv'
<1> DEFINE m == Current
           offsets == ChunkOffsets(m, ckpt.chunk, next)
           written == {NewFirst(m) + k : k \in offsets}
<1>1. /\ job' = job /\ ckpt' = ckpt /\ alien' = alien /\ media' = media /\ next' = next + 1
      /\ pc = "copy" /\ pc' # "save" /\ TypeOK /\ Phase /\ Ready(Table)
  BY JobFixed DEF CopyChunk, TableInv, RunIsReady, InRun
<1>2. disk' = [s \in LBA |-> IF s \in written THEN disk[s - m.delta] ELSE disk[s]]
  BY DEF CopyChunk
<1>3. /\ ResumeAt = ckpt /\ ckpt.cur \in Members /\ ckpt.cur \in DataMembers
      /\ ckpt.chunk \in Nat \ {0} /\ ckpt.done \in Nat
      /\ next \in Nat /\ m \in MoveRecords /\ m.delta \in Nat \ {0} /\ m.len \in Nat \ {0}
      /\ m.first \in Nat /\ NewFirst(m) = m.first + m.delta /\ NewFirst(m) \in Nat
      /\ Left(m, ckpt.chunk, ckpt.done) \in 0 .. m.len
      /\ Left(m, ckpt.chunk, next) \in 0 .. m.len
      /\ Left(m, ckpt.chunk, next + 1) \in 0 .. m.len
      /\ Left(m, ckpt.chunk, next) <= Left(m, ckpt.chunk, ckpt.done)
  BY <1>1, CopyFacts
<1>4. ASSUME NEW i \in DataMembers, NEW k \in 0 .. (job.moves[i].len - 1)
      PROVE  disk'[Location(i, k)] = disk[Location(i, k)]
  <2>1. Location(i, k) \in LBA
    BY <1>1, LocationFacts DEF DataMembers
  <2>2. Location(i, k) \notin written
    BY ChunkMisses
  <2> HIDE DEF written
  <2> QED
    BY <1>2, <2>1, <2>2
<1>5. ~SaveProgress
  BY <1>1 DEF SaveProgress
<1>6. Intact(disk)'
  BY <1>1, <1>4, <1>5, IntactDiskKept DEF ContentInv
<1>7. Intact(media)'
  BY <1>1, <1>5, IntactMediaKept DEF ContentInv
<1>8. ASSUME NEW k \in 0 .. (m.len - 1), k >= Left(m, ckpt.chunk, next + 1)
      PROVE  SameData(disk'[NewFirst(m) + k], m.first + k)
  <2>1. NewFirst(m) + k \in LBA /\ m.first + k \in LBA /\ k \in Nat
        /\ m.first + k \in Source(m)
    BY <1>1, <1>3, LocationFacts DEF Current
  <2>2. CASE k >= Left(m, ckpt.chunk, next)
    <3>1. SameData(disk[NewFirst(m) + k], m.first + k)
      BY <1>1, <2>2 DEF ContentInv, AtTarget, Current
    <3>2. NewFirst(m) + k \notin written
      <4>1. \A w \in offsets : w < Left(m, ckpt.chunk, next) /\ w \in Nat
        BY <1>3 DEF ChunkOffsets
      <4>2. \A w \in offsets : w # k
        BY <1>3, <2>1, <2>2, <4>1
      <4> HIDE DEF offsets
      <4> QED
        BY <1>3, <2>1, <4>1, <4>2
    <3> HIDE DEF written
    <3> QED
      BY <1>2, <2>1, <3>1, <3>2
  <2>3. CASE ~(k >= Left(m, ckpt.chunk, next))
    <3>1. k \in offsets
      BY <1>3, <1>8, <2>1, <2>3 DEF ChunkOffsets
    <3>2. ~(k >= Left(m, ckpt.chunk, ckpt.done)) /\ Left(m, ckpt.chunk, ckpt.done) # 0
      BY <1>3, <2>1, <2>3
    <3>3. Location(ckpt.cur, k) = m.first + k
      <4>1. ~(ckpt.cur < ResumeAt.cur)
        BY <1>1, <1>3, ResumeAtFacts
      <4> QED
        BY <1>3, <3>2, <4>1 DEF Location, Copied, Current
    <3>4. m.first + k \notin alien
      <4>1. entry[ckpt.cur].first = m.first
        <5>1. Standing(ckpt.cur) /\ ~m.swap
          BY <1>3 DEF TableInv, Positions, DataMembers, Current
        <5>2. AllLeft(ckpt.cur) # 0
          BY <1>3, <3>2 DEF AllLeft, Current
        <5> QED
          BY <1>3, <5>1, <5>2 DEF Standing, Current
      <4>2. At(entry[ckpt.cur], m.first, m.len)
        BY <1>1, <1>3, <4>1 DEF Ready, Table, At, Current
      <4>3. Disjoint(Source(m), alien)
        BY <1>3, <4>2 DEF TableInv, Clear, At, Source, Extent
      <4> QED
        BY <2>1, <4>3 DEF Disjoint
    <3>5. SameData(disk[m.first + k], m.first + k)
      BY <1>3, <3>3, <3>4 DEF ContentInv, Intact, Holds, Current
    <3>6. disk'[NewFirst(m) + k] = disk[NewFirst(m) + k - m.delta]
      <4>1. NewFirst(m) + k \in written
        BY <3>1
      <4> DEFINE s == NewFirst(m) + k
      <4>2. s \in written /\ s \in LBA
        BY <2>1, <4>1
      <4> HIDE DEF written, s
      <4>3. disk'[s] = disk[s - m.delta]
        BY <1>2, <4>2
      <4> QED
        BY <1>3, <2>1, <4>3 DEF s
    <3>7. NewFirst(m) + k - m.delta = m.first + k
      BY <1>3, <2>1
    <3> QED
      BY <3>5, <3>6, <3>7
  <2> QED
    BY <2>2, <2>3
<1>9. AtTarget(disk, ckpt.cur, next)'
  BY <1>1, <1>8 DEF AtTarget, Current
<1> QED
  BY <1>1, <1>6, <1>7, <1>9 DEF ContentInv

(* Saving progress: what is counted is at the target, in the page cache    *)
(* and on the medium.                                                      *)
LEMMA ContentSaved ==
  ASSUME TableInv, ContentInv, [Next]_vars, SaveProgress
  PROVE  ContentInv'
<1> DEFINE m == Current
<1>1. /\ job' = job /\ DataMembers' = DataMembers /\ next' = next /\ pc = "save" /\ pc' = "copy"
      /\ disk' = disk /\ media' = media /\ alien' = alien /\ TypeOK /\ Phase
  BY JobFixed DEF SaveProgress, TableInv, DataMembers
<1>2. /\ ckpt # NoCkpt /\ ResumeAt = ckpt /\ ckpt.cur \in Members /\ m.len \in Nat \ {0}
      /\ Left(m, ckpt.chunk, ckpt.done) \in 0 .. m.len
      /\ Left(m, ckpt.chunk, next) \in 0 .. m.len
      /\ Left(m, ckpt.chunk, next) <= Left(m, ckpt.chunk, ckpt.done)
  BY <1>1, CopyFacts
<1>3. ckpt'.cur = ckpt.cur /\ ckpt'.done = next /\ ckpt'.chunk = ckpt.chunk /\ ckpt.cur # 0
  BY <1>1, <1>2, CkptMoves, ResumeAtFacts DEF SaveProgress
<1>4. ResumeAt' = ckpt'
  BY <1>2, <1>3 DEF ResumeAt, NoCkpt
<1>5. ASSUME NEW i \in DataMembers, NEW k \in 0 .. (job.moves[i].len - 1)
      PROVE  \/ Location(i, k)' = Location(i, k)
             \/ /\ i = ckpt.cur /\ k >= Left(m, ckpt.chunk, next)
                /\ Location(i, k)' = NewFirst(m) + k
  <2>1. CASE i # ckpt.cur
    BY <1>1, <1>2, <1>3, <1>4, <2>1 DEF Location, Copied
  <2>2. CASE i = ckpt.cur /\ k >= Left(m, ckpt.chunk, next)
    BY <1>1, <1>2, <1>3, <1>4, <2>2 DEF Location, Copied, Current
  <2>3. CASE i = ckpt.cur /\ ~(k >= Left(m, ckpt.chunk, next))
    <3>1. k \in Nat
      BY <1>2, <2>3 DEF Current
    <3>2. ~(k >= Left(m, ckpt.chunk, ckpt.done))
      BY <1>2, <2>3, <3>1
    <3> QED
      BY <1>1, <1>2, <1>3, <1>4, <2>3, <3>2 DEF Location, Copied, Current
  <2> QED
    BY <2>1, <2>2, <2>3
<1>6. AtTarget(disk, ckpt.cur, next) /\ AtTarget(media, ckpt.cur, next)
  BY <1>1 DEF ContentInv
<1>7. ASSUME NEW i \in DataMembers, NEW k \in 0 .. (job.moves[i].len - 1)
      PROVE  Holds(disk, Location(i, k), i, k)' /\ Holds(media, Location(i, k), i, k)'
  <2>1. CASE Location(i, k)' = Location(i, k)
    BY <1>1, <2>1 DEF ContentInv, Intact, Holds
  <2>2. CASE i = ckpt.cur /\ k >= Left(m, ckpt.chunk, next) /\ Location(i, k)' = NewFirst(m) + k
    BY <1>1, <1>6, <2>2 DEF AtTarget, Holds, Current
  <2> QED
    BY <1>5, <2>1, <2>2
<1>8. AtTarget(disk, ckpt.cur, next)'
  BY <1>1, <1>3, <1>6 DEF AtTarget
<1> QED
  BY <1>1, <1>7, <1>8 DEF ContentInv, Intact

(* What is counted as copied when the loop begins is at the target.        *)
LEMMA ContentBegun ==
  ASSUME TableInv, ContentInv, [Next]_vars, BeginCopy
  PROVE  ContentInv'
<1>1. /\ job' = job /\ UNCHANGED <<disk, media, ckpt, alien>> /\ next' = ckpt.done
      /\ pc' = "copy" /\ TypeOK /\ Phase /\ Ready(Table) /\ ckpt # NoCkpt /\ ~Current.swap
  BY JobFixed DEF BeginCopy, onDisk, TableInv, RunIsReady, InRun, Phase
<1>2. ckpt.cur \in Members /\ ckpt.cur \in DataMembers /\ ResumeAt = ckpt
  BY <1>1, ResumeAtFacts DEF BeginCopy, Finished, DataMembers, Current
<1>3. ~SaveProgress
  BY DEF SaveProgress, BeginCopy
<1>4. Intact(disk)' /\ Intact(media)'
  BY <1>1, <1>3, IntactDiskKept, IntactMediaKept DEF ContentInv
<1>5. ASSUME NEW k \in 0 .. (Current.len - 1), k >= Left(Current, ckpt.chunk, ckpt.done)
      PROVE  SameData(disk[NewFirst(Current) + k], Current.first + k)
  <2>1. Location(ckpt.cur, k) = NewFirst(Current) + k
    BY <1>2, <1>5 DEF Location, Copied, Current
  <2>2. NewFirst(Current) + k \notin alien
    <3>1. NewFirst(Current) + k \in Target(Current)
      BY <1>1, <1>2, LocationFacts DEF Current
    <3>2. Disjoint(Target(Current), alien)
      BY <1>1, <1>2, TargetIsClear
    <3> QED
      BY <3>1, <3>2 DEF Disjoint
  <2> QED
    BY <1>2, <2>1, <2>2 DEF ContentInv, Intact, Holds, Current
<1>6. AtTarget(disk, ckpt.cur, next)'
  BY <1>1, <1>5 DEF AtTarget, Current
<1> QED
  BY <1>1, <1>4, <1>6 DEF ContentInv

(* The boot sector patch changes no data, wherever it lands.               *)
LEMMA ContentPatched ==
  ASSUME TableInv, ContentInv, [Next]_vars, FixHiddenSectors
  PROVE  ContentInv'
<1>1. /\ job' = job /\ DataMembers' = DataMembers /\ alien' = alien /\ media' = disk'
      /\ pc' = "advance" /\ TypeOK /\ Phase /\ ~SaveProgress
  BY JobFixed DEF FixHiddenSectors, TableInv, DataMembers, SaveProgress
<1>2. ASSUME NEW i \in DataMembers, NEW k \in 0 .. (job.moves[i].len - 1)
      PROVE  Holds(disk, Location(i, k), i, k)'
  <2>1. /\ Location(i, k)' = Location(i, k) /\ Location(i, k) \in LBA
        /\ Holds(disk, Location(i, k), i, k)
        /\ job.moves[i].first + k \in LBA
    BY <1>1, LocationKept, LocationFacts DEF ContentInv, Intact, DataMembers
  <2>2. disk'[Location(i, k)] \in {disk[Location(i, k)], Patched(disk[Location(i, k)])}
    BY <1>1, <2>1 DEF FixHiddenSectors, TypeOK
  <2>3. ASSUME NEW c, SameData(c, job.moves[i].first + k)
        PROVE  SameData(Patched(c), job.moves[i].first + k)
    <3>1. job.moves[i].first + k \in Nat /\ job.moves[i].first + k < DiskSize
          /\ DiskSize \in Nat
      BY <2>1, RelocationAssumption DEF LBA
    <3> DEFINE o == job.moves[i].first + k
    <3> HIDE DEF o
    <3>2. ASSUME o \in Nat, o < DiskSize, DiskSize \in Nat, SameData(c, o)
          PROVE  SameData(Patched(c), o)
      BY <3>2 DEF SameData, Patched, LBA
    <3> QED
      BY <2>3, <3>1, <3>2 DEF o
  <2> QED
    BY <1>1, <2>1, <2>2, <2>3 DEF Holds
<1>3. Intact(disk)'
  BY <1>1, <1>2 DEF Intact
<1> QED
  BY <1>1, <1>3, IntactSynced DEF ContentInv

(* mkswap writes on a swap member, which shares no sector with the data.   *)
LEMMA ContentBesideSwap ==
  ASSUME TableInv, ContentInv, [Next]_vars, RecreateSwap
  PROVE  ContentInv'
<1>1. /\ alien' = alien /\ media' = disk' /\ pc' = "advance" /\ TypeOK /\ Phase /\ ~SaveProgress
      /\ ckpt # NoCkpt /\ ckpt.cur \in Members /\ Current.swap
  BY DEF RecreateSwap, TableInv, SaveProgress, Phase, InRun
<1>2. ASSUME NEW i \in DataMembers, NEW k \in 0 .. (job.moves[i].len - 1)
      PROVE  disk'[Location(i, k)] = disk[Location(i, k)]
  <2>1. i \in Members /\ i # ckpt.cur
    BY <1>1 DEF DataMembers, Current
  <2>2. Location(i, k) \in LBA /\ Location(i, k) \in Reach(i)
    BY <1>1, <2>1, LocationFacts
  <2>3. NewFirst(Current) \in Reach(ckpt.cur)
    <3>1. Current.len \in Nat \ {0} /\ NewFirst(Current) \in Nat
      BY <1>1, CurrentFacts
    <3>2. NewFirst(Current) \in Target(Current)
      BY <3>1 DEF Target, Extent
    <3>3. ckpt.cur <= ResumeAt.cur
      BY <1>1, ResumeAtFacts
    <3> QED
      BY <3>2, <3>3 DEF Reach, Current
  <2>4. Location(i, k) # NewFirst(Current)
    BY <1>1, <2>1, <2>2, <2>3, ReachApart DEF Disjoint
  <2> QED
    BY <2>2, <2>4 DEF RecreateSwap, TypeOK, TableInv
<1>3. Intact(disk)'
  BY <1>1, <1>2, IntactDiskKept DEF ContentInv
<1> QED
  BY <1>1, <1>3, IntactSynced DEF ContentInv

(* The filesystem grows left of every member.                              *)
LEMMA ContentBesideGrowth ==
  ASSUME TableInv, ContentInv, [Next]_vars, GrowFs
  PROVE  ContentInv'
<1>1. /\ alien' = alien /\ media' = disk' /\ pc' = "finish" /\ TypeOK /\ Phase /\ ~SaveProgress
      /\ ckpt # NoCkpt /\ Finished /\ target.last = GrowTo
      /\ disk' = [s \in LBA |-> IF s \in (fsEnd + 1) .. target.last THEN FsData ELSE disk[s]]
  BY DEF GrowFs, TableInv, SaveProgress, Phase, InRun
<1>2. ASSUME NEW i \in DataMembers, NEW k \in 0 .. (job.moves[i].len - 1)
      PROVE  disk'[Location(i, k)] = disk[Location(i, k)]
  <2>1. i \in Members /\ i < ResumeAt.cur
    BY <1>1, ResumeAtFacts DEF DataMembers, Finished
  <2>2. Location(i, k) = NewFirst(job.moves[i]) + k /\ Location(i, k) \in LBA /\ k \in Nat
    BY <1>1, <2>1, LocationFacts DEF Location, Copied
  <2>3. GrowTo < NewFirst(job.moves[i]) /\ GrowTo \in Nat /\ NewFirst(job.moves[i]) \in Nat
    BY <1>1, <2>1, MoveFacts
  <2>4. Location(i, k) > GrowTo /\ Location(i, k) \in Nat
    BY <2>2, <2>3
  <2>5. Location(i, k) \notin (fsEnd + 1) .. target.last
    BY <1>1, <2>3, <2>4 DEF TypeOK
  <2> QED
    BY <1>1, <2>2, <2>5
<1>3. Intact(disk)'
  BY <1>1, <1>2, IntactDiskKept DEF ContentInv
<1> QED
  BY <1>1, <1>3, IntactSynced DEF ContentInv

(* A third party writes into its own new partition, or into a swap member  *)
(* it took over.                                                           *)
LEMMA ContentBesideNew ==
  ASSUME TableInv, ContentInv, [Next]_vars, AlienCreates
  PROVE  ContentInv'
<1>1. pc' = pc /\ pc \in {"down", "prepared"} /\ ~SaveProgress /\ TypeOK /\ Phase
  BY DEF AlienCreates, MayEdit, TableInv, SaveProgress
<1>2. PICK a \in FirstUsable .. job.lastUsable : \E b \in a .. job.lastUsable :
        /\ alien' = alien \cup (a .. b)
        /\ disk' = [s \in LBA |-> IF s \in a .. b THEN Alien ELSE disk[s]]
        /\ media' = [s \in LBA |-> IF s \in a .. b THEN Alien ELSE media[s]]
  BY DEF AlienCreates
<1>3. PICK b \in a .. job.lastUsable :
        /\ alien' = alien \cup (a .. b)
        /\ disk' = [s \in LBA |-> IF s \in a .. b THEN Alien ELSE disk[s]]
        /\ media' = [s \in LBA |-> IF s \in a .. b THEN Alien ELSE media[s]]
  BY <1>2
<1>4. \A s \in LBA : /\ disk'[s] = disk[s] \/ s \in alien'
                     /\ media'[s] = media[s] \/ s \in alien'
  BY <1>3
<1>5. \A i \in DataMembers : \A k \in 0 .. (job.moves[i].len - 1) : Location(i, k) \in LBA
  BY <1>1, LocationFacts DEF DataMembers
<1>6. Intact(disk)' /\ Intact(media)'
  BY <1>1, <1>3, <1>4, <1>5, IntactDiskKept, IntactMediaKept DEF ContentInv
<1> QED
  BY <1>1, <1>6 DEF ContentInv

(* A retyped swap member is overwritten, no data member is.              *)
LEMMA ContentBesideTaken ==
  ASSUME TableInv, ContentInv, [Next]_vars, AlienRetypes
  PROVE  ContentInv'
<1>1. pc' = pc /\ pc \in {"down", "prepared"} /\ ~SaveProgress /\ TypeOK /\ Phase /\ alien' = alien
  BY DEF AlienRetypes, MayEdit, TableInv, SaveProgress
<1>2. PICK n \in Members :
        /\ entry[n].swap
        /\ LET taken == entry[n].first .. entry[n].last
           IN /\ disk' = [s \in LBA |-> IF s \in taken THEN Alien ELSE disk[s]]
              /\ media' = [s \in LBA |-> IF s \in taken THEN Alien ELSE media[s]]
  BY DEF AlienRetypes
<1>3. ASSUME NEW i \in DataMembers, NEW k \in 0 .. (job.moves[i].len - 1)
      PROVE  /\ Location(i, k) \in LBA
             /\ Location(i, k) \notin entry[n].first .. entry[n].last
  <2>1. Standing(n) /\ job.moves[n].swap /\ n # i /\ i \in Members
    BY <1>2 DEF TableInv, Positions, Standing, DataMembers
  <2>2. Location(i, k) \in LBA /\ Location(i, k) \in Reach(i)
    BY <1>1, <2>1, LocationFacts
  <2>3. entry[n].first .. entry[n].last \subseteq Reach(n)
    BY <1>1, <2>1, ExtentInReach
  <2>4. Disjoint(Reach(i), Reach(n))
    BY <1>1, <2>1, ReachApart
  <2> QED
    BY <2>2, <2>3, <2>4 DEF Disjoint
<1>4. Intact(disk)' /\ Intact(media)'
  BY <1>1, <1>2, <1>3, IntactDiskKept, IntactMediaKept DEF ContentInv
<1> QED
  BY <1>1, <1>4 DEF ContentInv

(* A power loss keeps, sector by sector, one of two intact versions.       *)
LEMMA ContentAfterPowerLoss ==
  ASSUME TableInv, ContentInv, [Next]_vars, PowerLoss
  PROVE  ContentInv'
<1>1. /\ pc' = "down" /\ ~SaveProgress /\ TypeOK /\ Phase /\ alien' = alien /\ disk' = media'
      /\ job' = job /\ DataMembers' = DataMembers /\ ckpt' = ckpt
  BY JobFixed DEF PowerLoss, Dies, TableInv, SaveProgress, DataMembers
<1>2. PICK kept \in SUBSET Dirty :
        media' = [s \in LBA |-> IF s \in kept THEN disk[s] ELSE media[s]]
  BY DEF PowerLoss
<1>3. ASSUME NEW i \in DataMembers, NEW k \in 0 .. (job.moves[i].len - 1)
      PROVE  Holds(media, Location(i, k), i, k)'
  <2>1. Location(i, k)' = Location(i, k) /\ Location(i, k) \in LBA
    BY <1>1, LocationKept, LocationFacts DEF DataMembers
  <2>2. Holds(disk, Location(i, k), i, k) /\ Holds(media, Location(i, k), i, k)
    BY DEF ContentInv, Intact
  <2>3. media'[Location(i, k)] \in {disk[Location(i, k)], media[Location(i, k)]}
    BY <1>2, <2>1
  <2> QED
    BY <1>1, <2>1, <2>2, <2>3 DEF Holds
<1> QED
  BY <1>1, <1>3 DEF ContentInv, Intact, Holds

(* Every step keeps the content where the checkpoint says.                 *)
LEMMA ContentStep ==
  ASSUME TableInv, ContentInv, [Next]_vars
  PROVE  ContentInv'
<1>1. job' = job
  BY JobFixed
<1>2. ASSUME UNCHANGED <<disk, alien>>, ~SaveProgress, media' = media \/ media' = disk,
             pc' \notin {"copy", "sync", "save"}
      PROVE  ContentInv'
  <2>1. Intact(disk)'
    BY <1>2, IntactDiskKept DEF ContentInv
  <2>2. Intact(media)'
    BY <1>2, <2>1, IntactMediaKept, IntactSynced DEF ContentInv
  <2> QED
    BY <1>2, <2>1, <2>2 DEF ContentInv
<1>3. CASE SyncData
  <2>1. /\ UNCHANGED <<disk, alien, ckpt, next>> /\ media' = disk /\ ~SaveProgress
        /\ pc = "sync" /\ pc' = "save"
    BY <1>3 DEF SyncData, inRun, SaveProgress
  <2>2. Intact(disk)'
    BY <2>1, IntactDiskKept DEF ContentInv
  <2>3. Intact(media)'
    BY <2>1, <2>2, IntactSynced
  <2>4. AtTarget(disk, ckpt.cur, next)' /\ AtTarget(media, ckpt.cur, next)'
    BY <1>1, <2>1 DEF ContentInv, AtTarget
  <2> QED
    BY <2>1, <2>2, <2>3, <2>4 DEF ContentInv
<1>4. CASE CopyChunk
  BY <1>4, ContentCopied
<1>5. CASE SaveProgress
  BY <1>5, ContentSaved
<1>6. CASE BeginCopy
  BY <1>6, ContentBegun
<1>7. CASE FixHiddenSectors
  BY <1>7, ContentPatched
<1>8. CASE RecreateSwap
  BY <1>8, ContentBesideSwap
<1>9. CASE GrowFs
  BY <1>9, ContentBesideGrowth
<1>10. CASE AlienCreates
  BY <1>10, ContentBesideNew
<1>11. CASE AlienRetypes
  BY <1>11, ContentBesideTaken
<1>12. CASE PowerLoss
  BY <1>12, ContentAfterPowerLoss
<1>13. CASE UNCHANGED vars
  <2>1. /\ UNCHANGED <<job, disk, media, alien, ckpt, pc, next, outcome>>
    BY <1>13 DEF vars
  <2>2. DataMembers' = DataMembers /\ ResumeAt' = ResumeAt
    BY <2>1 DEF DataMembers, Members, ResumeAt
  <2>3. Intact(disk)' /\ Intact(media)'
    BY <2>1, <2>2 DEF ContentInv, Intact, Holds, Location, Copied
  <2>4. /\ AtTarget(disk, ckpt.cur, next) => AtTarget(disk, ckpt.cur, next)'
        /\ AtTarget(media, ckpt.cur, next) => AtTarget(media, ckpt.cur, next)'
    BY <2>1 DEF AtTarget
  <2> QED
    BY <2>1, <2>3, <2>4 DEF ContentInv
<1>14. ASSUME NEW c \in Chunks, Prepare(c) \/ PrepareRefuses(c)
       PROVE  ContentInv'
  BY <1>2, <1>14 DEF Prepare, PrepareRefuses, StartsRun, onDisk, SaveProgress
<1>15. CASE Execute \/ ExecuteRefuses \/ SkipUnmoved \/ Advance \/ CommitEntry
  BY <1>2, <1>15 DEF Execute, ExecuteRefuses, SkipUnmoved, Advance, CommitEntry, onDisk,
     SaveProgress
<1>16. CASE SwapTypeGone \/ CommitSwap \/ RecreateSwapFails
  BY <1>2, <1>16 DEF SwapTypeGone, CommitSwap, RecreateSwapFails, onDisk, SaveProgress
<1>17. CASE GrowTarget \/ GrowFsFails \/ Finish \/ FinishCannotRemove
  BY <1>2, <1>17 DEF GrowTarget, GrowFsFails, Finish, FinishCannotRemove, onDisk, SaveProgress
<1>18. CASE Kill
  <2>1. pc' = "down" /\ UNCHANGED <<disk, media, alien, ckpt>>
    BY <1>18 DEF Kill, Dies
  <2>2. ~SaveProgress
    BY <2>1 DEF SaveProgress
  <2> QED
    BY <1>2, <2>1, <2>2
<1>19. CASE AlienShrinks \/ AlienExtends
  BY <1>2, <1>19 DEF AlienShrinks, AlienExtends, MayEdit, SaveProgress
<1> QED
  BY <1>3, <1>4, <1>5, <1>6, <1>7, <1>8, <1>9, <1>10, <1>11, <1>12, <1>13, <1>14, <1>15,
     <1>16, <1>17, <1>18, <1>19 DEF Next, Command, Run, CopyEntry, MoveSwap, Grow, Edit

(* In the first state every sector holds its own content and nothing is    *)
(* copied.                                                                 *)
LEMMA InitContent == Init => ContentInv
<1> SUFFICES ASSUME Init PROVE ContentInv
  OBVIOUS
<1>1. TableInv
  BY InitTable
<1>2. /\ pc = "down" /\ ckpt = NoCkpt /\ outcome = "none"
      /\ disk = [s \in LBA |-> s] /\ media = [s \in LBA |-> s]
  BY DEF Init
<1>3. ResumeAt.cur = 1 /\ ResumeAt.chunk = 0 /\ ResumeAt.done = 0
  BY <1>2 DEF ResumeAt, NoCkpt
<1>4. ASSUME NEW i \in DataMembers, NEW k \in 0 .. (job.moves[i].len - 1)
      PROVE  Location(i, k) = job.moves[i].first + k /\ Location(i, k) \in LBA
  <2>1. TypeOK /\ Phase /\ i \in Members
    BY <1>1 DEF TableInv, DataMembers
  <2>2. i \in Nat /\ ~(i < 1)
    BY <2>1, ResumeAtFacts
  <2>3. /\ job.moves[i] \in MoveRecords /\ job.moves[i].len \in Nat \ {0}
    BY <2>1, MoveFacts
  <2>4. Left(job.moves[i], 0, 0) = job.moves[i].len
    BY <2>3, LeftFacts
  <2>5. ~(k >= Left(job.moves[i], 0, 0))
    BY <2>3, <2>4
  <2>6. Location(i, k) \in LBA
    BY <2>1, LocationFacts
  <2> QED
    BY <1>3, <2>2, <2>5, <2>6 DEF Location, Copied
<1>5. Intact(disk) /\ Intact(media)
  BY <1>2, <1>4 DEF Intact, Holds, SameData
<1> QED
  BY <1>2, <1>5 DEF ContentInv

(* The inductive invariant.                                               *)
IInv == TableInv /\ ContentInv

(* Table and content together are inductive.                             *)
LEMMA Inductive == IInv /\ [Next]_vars => IInv'
  BY TableStep, ContentStep DEF IInv

(* They hold of every reachable state.                                   *)
LEMMA IInvIsInvariant == Spec => []IInv
<1>1. Init => IInv
  BY InitTable, InitContent DEF IInv
<1> QED
  BY <1>1, Inductive, PTL DEF Spec

(* After any sequence of kills, power losses, tool failures, resumes and   *)
(* edits by third parties, the content of every member is on the medium at *)
(* the place the checkpoint implies, for every executable job and every    *)
(* chunk and batch size.                                                   *)
THEOREM NothingIsLost == Spec => []Recoverable
<1>1. IInv => Recoverable
  BY DEF IInv, ContentInv, Intact, Recoverable
<1> QED
  BY <1>1, IInvIsInvariant, PTL

(* Once a run has written, its checkpoint goes only with a finished job    *)
(* that owes nothing: no crash, refusal, failure or edit takes the record  *)
(* a resumed run needs.                                                    *)
THEOREM SceneIsKept == Spec => KeepsTheScene
<1>1. ASSUME TableInv, [Next]_vars, ckpt # NoCkpt, ckpt' = NoCkpt
      PROVE  outcome' = "done" /\ Finished /\ owed = {}
  <2>1. ckpt.cur # 0 /\ TypeOK /\ Phase
    BY <1>1, ResumeAtFacts DEF TableInv, Phase
  <2>2. ~NextEntry /\ \A n : ckpt' # [ckpt EXCEPT !.done = n]
    BY <1>1, <2>1, CkptMoves DEF NoCkpt
  <2>3. Finish
    BY <1>1, <2>2 DEF Next, Command, Run, CopyEntry, MoveSwap, Grow, Edit, vars, Prepare,
         PrepareRefuses, Execute, ExecuteRefuses, SkipUnmoved, BeginCopy, CopyChunk, SyncData,
         SaveProgress, CommitEntry, FixHiddenSectors, Advance, SwapTypeGone, CommitSwap,
         RecreateSwap, RecreateSwapFails, GrowTarget, GrowFs, GrowFsFails, FinishCannotRemove,
         Kill, PowerLoss, Dies, AlienCreates, AlienRetypes, AlienShrinks, AlienExtends, onDisk
  <2> QED
    BY <1>1, <2>1, <2>3 DEF Finish, Phase
<1>2. TableInv /\ [Next]_vars =>
        [ckpt # NoCkpt /\ ckpt' = NoCkpt => outcome' = "done" /\ Finished /\ owed = {}]_vars
  BY <1>1
<1> QED
  BY <1>2, TableIsInvariant, PTL DEF Spec, KeepsTheScene
=============================================================================
