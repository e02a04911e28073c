------------------------- MODULE OnlineResizeProofs -------------------------
(* Proofs about OnlineResize, for every size of disk, extent and request,  *)
(* and for any number of crashes, failing tools, edits and remounts.       *)
EXTENDS OnlineResize, TLAPS

Writing == {"grow", "pvgrow", "sync", "pvsync", "growfs", "grow tool"}
Shrinking == {"shrink", "shrink look", "shrink tool", "cut", "cutsync"}

(* What the decision came to is what the later steps rely on.              *)
Decided ==
  /\ pc \in Writing => snap.len < want
  /\ pc \in Shrinking => want < snap.len /\ want > 0

(* Which views are known to agree.  Others may have the kernel read the    *)
(* table again at any moment, so the kernel's own view counts only once    *)
(* the run has told the kernel what it wrote.                              *)
KernelKnown ==
  /\ pc \in {"fill", "fill tool", "shrink tool"} => snap.len = disk.len
  /\ pc \in {"sync", "pvsync", "cutsync"} => disk.len = want
  /\ pc \in {"growfs", "grow tool"} => kern.len = disk.len
  /\ pc = "pvresize" => want = snap.len \/ kern.len = disk.len

(* The shrinking steps work on a filesystem that can shrink.               *)
ShrinkKnown == pc \in Shrinking => kind \in CanShrink

(* Each path keeps to its own steps.                                       *)
PathKnown ==
  /\ pc \in {"pvgrow", "pvsync", "pvresize", "lvextend"} => viaPv
  /\ pc \in {"fill", "fill tool", "grow", "sync", "growfs", "grow tool"} \cup Shrinking => ~viaPv
  /\ pc \in {"fill", "fill tool"} => Fills

(* Between the last check of the mount and the tool only a remark in the   *)
(* history tells that the mount has changed.                               *)
BeforeTool == {"fill tool", "grow tool", "shrink look", "shrink tool"}
MountKnown == pc \in BeforeTool => mount = "target" \/ slipped

(* The size one step reached is the one the next works with.               *)
SizesReached ==
  /\ pc \in {"cut", "cutsync"} => fs <= want /\ (fs = want \/ TookOther)
  /\ pc \in {"growfs", "grow tool"} => disk.len = want
  /\ pc = "lvextend" => fs = disk.len \/ blind

(* A volume is recorded to grow by whole extents, and by one at least.     *)
FactsWhole ==
  facts.kind = "lv" => \E k \in Nat \ {0} : facts.target = facts.before + Extent * k

(* Nothing is written before the first tool runs, and a run that goes on   *)
(* has no outcome yet.                                                     *)
BeforeWriting == {"resolved", "gated", "decided", "fill", "fill tool", "grow", "pvgrow",
                  "shrink", "shrink look", "shrink tool"}
Unwritten ==
  /\ pc \in BeforeWriting => ~wrote
  /\ pc # "down" => outcome = "none"

IInv ==
  /\ TypeOK
  /\ Decided /\ KernelKnown /\ ShrinkKnown /\ PathKnown /\ MountKnown /\ SizesReached
  /\ FactsWhole /\ Unwritten /\ NothingOverruns /\ RefusedMeansUntouched

-----------------------------------------------------------------------------
(* Facts about the data.                                                   *)

LEMMA Resized ==
  ASSUME NEW v \in Views, NEW n \in Nat \ {0}
  PROVE  /\ [v EXCEPT !.len = n] \in Views
         /\ [v EXCEPT !.len = n].len = n
         /\ [v EXCEPT !.len = n].next = v.next
BY DEF Views

LEMMA ViewParts == ASSUME NEW v \in Views PROVE v.len \in Nat \ {0} /\ v.next \in Nat
BY DEF Views

Bounds == [crash: 0 .. MaxCrashes, fault: 0 .. MaxFaults, edit: 0 .. MaxEdits,
           remount: 0 .. MaxRemounts]

LEMMA FaultBounds == ASSUME TypeOK, Fault \/ NoFault PROVE used' \in Bounds
<1>1. used \in Bounds /\ MaxFaults \in Nat
  BY OnlineAssumption DEF TypeOK, Bounds
<1> QED BY <1>1 DEF Fault, NoFault, Bounds

LEMMA SpendBounds ==
  ASSUME TypeOK,
         Spend("crash", MaxCrashes) \/ Spend("edit", MaxEdits) \/ Spend("remount", MaxRemounts)
  PROVE  used' \in Bounds
<1>1. used \in Bounds /\ {MaxCrashes, MaxEdits, MaxRemounts} \subseteq Nat
  BY OnlineAssumption DEF TypeOK, Bounds
<1> QED BY <1>1 DEF Spend, Bounds

(* Most variables keep their type because nothing happens to them.         *)
LEMMA SameTypes ==
  ASSUME TypeOK, kern' \in Views, lv' \in Nat, used' \in Bounds,
         UNCHANGED <<disk, fs, away, mount, kind, hold, pc, req, viaPv, snap, want, facts,
                     wrote, stale, outcome, slipped, blind>>
  PROVE  TypeOK'
<1>1. /\ disk' \in Views /\ kern' \in Views /\ snap' \in Views
      /\ fs' \in Nat /\ away' \in Nat /\ want' \in Nat
      /\ mount' \in {"target", "other", "none"}
      /\ kind' \in Kinds /\ hold' \in {"none", "scene", "swap", "stack"}
  BY DEF TypeOK
<1>2. /\ req' \in RequestRecords /\ viaPv' \in BOOLEAN /\ facts' \in Facts
      /\ {wrote', stale', slipped', blind'} \subseteq BOOLEAN
      /\ outcome' \in {"none", "refused", "infra", "failed", "partial", "done"}
  BY DEF TypeOK
<1>3. pc' \in {"down", "resolved", "gated", "decided", "fill", "fill tool", "grow", "sync",
               "growfs", "grow tool", "shrink", "shrink look", "shrink tool", "cut", "cutsync",
               "pvgrow", "pvsync", "pvresize", "lvextend"}
  BY DEF TypeOK
<1> QED BY <1>1, <1>2, <1>3 DEF TypeOK, Bounds

LEMMA EntryIs ==
  ASSUME TypeOK, NEW n \in Nat \ {0}
  PROVE  Entry(n) \in Views /\ Entry(n).len = n /\ Entry(n).next = disk.next
BY Resized DEF Entry, TypeOK

LEMMA OnTheWay ==
  ASSUME NEW a \in Nat, NEW b \in Nat
  PROVE  \A n \in Between(a, b) : n \in Nat /\ (n <= a \/ n <= b)
BY DEF Between

LEMMA NoFactsAreFacts == NoFacts \in Facts
BY DEF NoFacts, FactsOf, Facts

LEMMA WholeExtents ==
  ASSUME NEW e \in Nat \ {0}, NEW n \in Nat
  PROVE  n \div e \in Nat /\ e * (n \div e) \in Nat
<1>1. n \div e \in Nat
  OBVIOUS
<1>2. \A q \in Nat : e * q \in Nat
  OBVIOUS
<1> QED BY <1>1, <1>2

LEMMA PostIsFacts ==
  ASSUME NEW g \in BOOLEAN, NEW v \in Nat, NEW old \in Nat, NEW new \in Nat, NEW e \in Nat \ {0}
  PROVE  LvmPost(g, v, old, new, e) \in Facts
<1>1. NoFacts \in Facts /\ FactsOf("pv", 0, 0) \in Facts
  BY DEF NoFacts, FactsOf, Facts
<1>2. ASSUME new > old PROVE FactsOf("lv", v, v + e * ((new - old) \div e)) \in Facts
  <2>1. new - old \in Nat
    BY <1>2
  <2>2. e * ((new - old) \div e) \in Nat
    BY <2>1, WholeExtents
  <2> QED BY <2>2 DEF FactsOf, Facts
<1> QED BY <1>1, <1>2 DEF LvmPost

LEMMA WholeDivision == ASSUME NEW e \in Nat \ {0}, NEW k \in Nat PROVE (e * k) \div e = k
OBVIOUS

LEMMA ExtentsAreWhole ==
  ASSUME NEW f \in Facts, NEW g \in BOOLEAN, NEW d \in Nat, NEW v \in Nat, NEW free \in Nat,
         NEW e \in Nat \ {0}
  PROVE  LvExtents(f, g, d, v, free, e) \in Int
<1>1. f.kind \in {"none", "pv", "lv"} /\ f.before \in Nat /\ f.target \in Nat
  BY DEF Facts
<1>2. FinishLvGrowth(f, v, free, e) \in Int
  BY <1>1 DEF FinishLvGrowth
<1>3. ExtendByDelta(d, free, e) \in Int
  BY DEF ExtendByDelta
<1> QED BY <1>1, <1>2, <1>3 DEF LvExtents

-----------------------------------------------------------------------------
(* One lemma per action: what it relies on and leaves for the steps after  *)
(* it is in the invariant, conjunct by conjunct.                           *)
LEMMA BeginKeeps == ASSUME IInv, NEW r \in Requests, Begin(r) PROVE IInv'
<1> USE OnlineAssumption DEF IInv, views, history, around, Begin, TargetPv, TargetMounted
<1>u. used' \in Bounds
  BY DEF TypeOK, Bounds
<1>1. TypeOK'
  BY NoFactsAreFacts DEF TypeOK
<1>2. Decided' /\ KernelKnown' /\ ShrinkKnown' /\ PathKnown' /\ MountKnown' /\ SizesReached'
  BY DEF Decided, KernelKnown, ShrinkKnown, PathKnown, MountKnown, SizesReached,
         TookOther, BeforeTool, Writing, Shrinking
<1>3. FactsWhole' /\ Unwritten' /\ NothingOverruns' /\ RefusedMeansUntouched'
  BY DEF FactsWhole, Unwritten, NothingOverruns, RefusedMeansUntouched,
         NoFacts, FactsOf
<1> QED BY <1>1, <1>2, <1>3

LEMMA GateKeeps == ASSUME IInv, Gate PROVE IInv'
<1> USE OnlineAssumption
    DEF IInv, views, history, around, inRun, Untouched, Stop, Continue, Gate, TargetMounted
<1>u. used' \in Bounds
  BY FaultBounds
<1>1. TypeOK'
  BY <1>u DEF TypeOK, Bounds
<1>2. Decided' /\ KernelKnown' /\ ShrinkKnown' /\ PathKnown' /\ MountKnown' /\ SizesReached'
  BY DEF Decided, KernelKnown, ShrinkKnown, PathKnown, MountKnown, SizesReached,
         TookOther, BeforeTool, Writing, Shrinking
<1>3. FactsWhole' /\ Unwritten' /\ NothingOverruns' /\ RefusedMeansUntouched'
  BY DEF FactsWhole, Unwritten, BeforeWriting, NothingOverruns, RefusedMeansUntouched
<1> QED BY <1>1, <1>2, <1>3

LEMMA GatePvKeeps == ASSUME IInv, GatePv PROVE IInv'
<1> USE OnlineAssumption
    DEF IInv, views, history, around, inRun, Untouched, Stop, Continue, GatePv, StillPv, TargetPv
<1>u. used' \in Bounds
  BY FaultBounds
<1>1. TypeOK'
  BY <1>u DEF TypeOK, Bounds
<1>2. Decided' /\ KernelKnown' /\ ShrinkKnown' /\ PathKnown' /\ MountKnown' /\ SizesReached'
  BY DEF Decided, KernelKnown, ShrinkKnown, PathKnown, MountKnown, SizesReached,
         TookOther, BeforeTool, Writing, Shrinking
<1>3. FactsWhole' /\ Unwritten' /\ NothingOverruns' /\ RefusedMeansUntouched'
  BY DEF FactsWhole, Unwritten, BeforeWriting, NothingOverruns, RefusedMeansUntouched
<1> QED BY <1>1, <1>2, <1>3

LEMMA DecideKeeps == ASSUME IInv, Decide PROVE IInv'
<1> USE OnlineAssumption
    DEF IInv, views, history, around, inRun, Untouched, Stop, Continue, Decide, Asked, FreeRight
<1>0. /\ disk.len \in Nat \ {0} /\ kern.len \in Nat \ {0} /\ snap.len \in Nat \ {0}
      /\ disk.next \in Nat /\ kern.next \in Nat /\ snap.next \in Nat
  BY ViewParts DEF TypeOK
<1>u. used' \in Bounds
  BY FaultBounds
<1>w. want' \in Nat
  <2>1. req.mode \in {"set", "grow", "fill"} /\ req.size \in Nat
    BY DEF TypeOK, RequestRecords
  <2>2. want \in Nat
    BY DEF TypeOK
  <2> QED BY <1>0, <2>1, <2>2
<1>1. TypeOK'
  <2>1. pc' \in {"down", "decided"} /\ outcome' \in {"infra", "refused", outcome}
    OBVIOUS
  <2>2. UNCHANGED <<disk, kern, fs, lv, away, mount, kind, hold, req, viaPv, snap, facts, wrote,
                    stale, slipped, blind>>
    OBVIOUS
  <2> QED BY <1>u, <1>w, <2>1, <2>2 DEF TypeOK, Bounds
<1>2. Decided' /\ KernelKnown' /\ ShrinkKnown' /\ PathKnown' /\ MountKnown' /\ SizesReached'
  BY DEF Decided, KernelKnown, ShrinkKnown, PathKnown, MountKnown, SizesReached,
         TookOther, BeforeTool, Writing, Shrinking
<1>3. FactsWhole' /\ Unwritten' /\ NothingOverruns' /\ RefusedMeansUntouched'
  BY DEF FactsWhole, Unwritten, BeforeWriting, NothingOverruns, RefusedMeansUntouched
<1> QED BY <1>1, <1>2, <1>3

LEMMA ChooseKeeps == ASSUME IInv, Choose PROVE IInv'
<1> USE OnlineAssumption DEF IInv, views, history, around, inRun, Untouched, Stop, Continue,
   CanShrink
<1>0. /\ disk.len \in Nat \ {0} /\ kern.len \in Nat \ {0} /\ snap.len \in Nat \ {0}
      /\ disk.next \in Nat /\ kern.next \in Nat /\ snap.next \in Nat
  BY ViewParts DEF TypeOK
<1>u. used' \in Bounds
  BY FaultBounds DEF Choose
<1>a. \/ pc' = "down" /\ outcome' \in {"infra", "refused", "done"}
      \/ pc' = "fill" /\ snap.len = disk.len /\ Fills /\ outcome' = outcome
      \/ pc' = "grow" /\ snap.len < want /\ outcome' = outcome
      \/ pc' = "shrink" /\ want < snap.len /\ want > 0 /\ kind \in CanShrink /\ outcome' = outcome
  BY DEF Choose, KernelStale, Shrinks, ShrinkRefused, TypeOK
<1>b. /\ UNCHANGED <<disk, kern, fs, lv, away, mount, kind, hold, req, viaPv, snap, want,
                     facts, wrote, stale, slipped, blind>>
      /\ pc = "decided" /\ ~viaPv
  BY DEF Choose
<1>1. TypeOK'
  BY <1>u, <1>a, <1>b DEF TypeOK, Bounds
<1>2. Decided' /\ KernelKnown' /\ ShrinkKnown' /\ PathKnown' /\ MountKnown' /\ SizesReached'
  BY <1>a, <1>b
     DEF Decided, KernelKnown, ShrinkKnown, PathKnown, MountKnown, Fills, SizesReached,
         TookOther, BeforeTool, Writing, Shrinking
<1>3. FactsWhole' /\ Unwritten' /\ NothingOverruns' /\ RefusedMeansUntouched'
  BY <1>0, <1>a, <1>b
     DEF FactsWhole, Unwritten, BeforeWriting, NothingOverruns, RefusedMeansUntouched,
         Decided, KernelKnown, SizesReached, Writing, Shrinking, TypeOK
<1> QED BY <1>1, <1>2, <1>3

LEMMA ChoosePvKeeps == ASSUME IInv, ChoosePv PROVE IInv'
<1> USE OnlineAssumption DEF IInv, views, history, around, inRun, Untouched, Stop, Continue,
   ChoosePv
<1>0. /\ disk.len \in Nat \ {0} /\ kern.len \in Nat \ {0} /\ snap.len \in Nat \ {0}
      /\ disk.next \in Nat /\ kern.next \in Nat /\ snap.next \in Nat
  BY ViewParts DEF TypeOK
<1>u. used' \in Bounds
  BY FaultBounds
<1>a. \/ facts' = facts
      \/ /\ facts' = LvmPost(req.growLv, lv, snap.len, want, Extent)
         /\ ~BelowExtent(req.growLv, snap.len, want, Extent)
  BY DEF ChoosePv
<1>1. TypeOK'
  <2>1. LvmPost(req.growLv, lv, snap.len, want, Extent) \in Facts
    BY <1>0, PostIsFacts DEF TypeOK, RequestRecords
  <2>2. facts' \in Facts
    BY <2>1 DEF TypeOK
  <2> QED BY <1>u, <2>2 DEF TypeOK, Bounds
<1>2. Decided' /\ KernelKnown' /\ ShrinkKnown' /\ PathKnown' /\ MountKnown' /\ SizesReached'
  BY DEF Decided, KernelKnown, ShrinkKnown, PathKnown, MountKnown, SizesReached,
         TookOther, BeforeTool, Writing, Shrinking
<1>3. Unwritten' /\ NothingOverruns' /\ RefusedMeansUntouched'
  BY DEF Unwritten, BeforeWriting, NothingOverruns, RefusedMeansUntouched
<1>4. FactsWhole'
  <2>1. req.growLv \in BOOLEAN
    BY DEF TypeOK, RequestRecords
  <2>2. lv \in Nat /\ want \in Nat
    BY DEF TypeOK
  <2>3. CASE facts' = facts
    BY <2>3 DEF FactsWhole
  <2>4. CASE /\ facts' = LvmPost(req.growLv, lv, snap.len, want, Extent)
             /\ ~BelowExtent(req.growLv, snap.len, want, Extent)
    <3>1. ASSUME facts'.kind = "lv"
          PROVE  \E k \in Nat \ {0} : facts'.target = facts'.before + Extent * k
      <4>1. /\ want > snap.len
            /\ facts' = FactsOf("lv", lv, lv + Extent * ((want - snap.len) \div Extent))
            /\ (want - snap.len) \div Extent # 0
        BY <1>0, <2>2, <2>4, <3>1 DEF LvmPost, BelowExtent, NoFacts, FactsOf
      <4>2. (want - snap.len) \div Extent \in Nat \ {0}
        BY <1>0, <2>2, <4>1
      <4>3. facts'.before = lv /\ facts'.target = lv + Extent * ((want - snap.len) \div Extent)
        BY <4>1 DEF FactsOf
      <4> QED BY <4>2, <4>3, Zenon
    <3> QED BY <3>1, Zenon DEF FactsWhole
  <2> QED BY <1>a, <2>3, <2>4
<1> QED BY <1>1, <1>2, <1>3, <1>4

LEMMA FillKeeps == ASSUME IInv, Fill PROVE IInv'
<1> USE OnlineAssumption
    DEF IInv, views, history, around, inRun, Stop, Continue, Fill, FillStays, CheckMount,
        MountStays, LeadsToTarget
<1>0. /\ disk.len \in Nat \ {0} /\ kern.len \in Nat \ {0} /\ snap.len \in Nat \ {0}
      /\ disk.next \in Nat /\ kern.next \in Nat /\ snap.next \in Nat
  BY ViewParts DEF TypeOK
<1>u. used' \in Bounds
  BY FaultBounds
<1>s. slipped' \in BOOLEAN
  BY DEF TypeOK
<1>1. TypeOK'
  BY <1>u, <1>s DEF TypeOK, Bounds
<1>2. Decided' /\ KernelKnown' /\ ShrinkKnown' /\ PathKnown' /\ MountKnown' /\ SizesReached'
  BY DEF Decided, KernelKnown, ShrinkKnown, PathKnown, MountKnown, SizesReached,
         TookOther, BeforeTool, Fills, Writing, Shrinking
<1>3. FactsWhole' /\ Unwritten' /\ NothingOverruns' /\ RefusedMeansUntouched'
  BY <1>0
     DEF FactsWhole, Unwritten, BeforeWriting, NothingOverruns, RefusedMeansUntouched,
         Decided, KernelKnown, SizesReached, Writing, Shrinking, TypeOK
<1> QED BY <1>1, <1>2, <1>3

LEMMA FillToolKeeps == ASSUME IInv, FillTool PROVE IInv'
<1> USE OnlineAssumption
    DEF IInv, views, history, around, inRun, Stop, Continue, FillTool, FillStays
<1>0. /\ disk.len \in Nat \ {0} /\ kern.len \in Nat \ {0} /\ snap.len \in Nat \ {0}
      /\ disk.next \in Nat /\ kern.next \in Nat /\ snap.next \in Nat
  BY ViewParts DEF TypeOK
<1>u. used' \in Bounds
  BY FaultBounds
<1>f. \/ UNCHANGED <<fs, away, blind>>
      \/ fs' = kern.len /\ UNCHANGED away /\ blind' = ViewMoved
      \/ fs' \in Between(fs, kern.len) /\ UNCHANGED away /\ blind' = (blind \/ ViewMoved)
      \/ away' = ElsewhereRoom /\ UNCHANGED <<fs, blind>>
      \/ away' \in Between(away, ElsewhereRoom) /\ UNCHANGED <<fs, blind>>
  BY DEF GrowTool, GrowToolFails, NothingMounted
<1>g. fs' \in Nat /\ away' \in Nat /\ blind' \in BOOLEAN
  <2>1. /\ fs \in Nat /\ away \in Nat /\ blind \in BOOLEAN /\ kern.len \in Nat
        /\ ElsewhereRoom \in Nat /\ ViewMoved \in BOOLEAN
    BY <1>0 DEF TypeOK, ViewMoved
  <2> HIDE DEF IInv, FillTool
  <2> QED BY <1>f, <2>1, OnTheWay
<1>h. NothingOverruns'
  <2>1. ~ViewMoved => kern.len = disk.len
    BY DEF KernelKnown, ViewMoved
  <2>2. fs \in Nat /\ (fs <= disk.len \/ blind) /\ disk.len <= disk.next /\ disk' = disk
    BY DEF NothingOverruns, TypeOK
  <2> HIDE DEF IInv, FillTool
  <2>3. \/ fs' = fs /\ (blind => blind')
        \/ fs' = kern.len /\ (ViewMoved => blind')
        \/ fs' \in Between(fs, kern.len) /\ (blind => blind') /\ (ViewMoved => blind')
    BY <1>f
  <2>4. \A n \in Between(fs, kern.len) : n \in Nat /\ (n <= fs \/ n <= kern.len)
    BY <1>0, <2>2, OnTheWay
  <2>5. fs' <= disk.len \/ blind'
    BY <1>0, <1>g, <2>1, <2>2, <2>3, <2>4
  <2> QED BY <2>2, <2>5 DEF NothingOverruns
<1>w. wrote' \in BOOLEAN
  BY DEF TypeOK
<1>1. TypeOK'
  BY <1>u, <1>g, <1>w DEF TypeOK, Bounds
<1>2. Decided' /\ KernelKnown' /\ ShrinkKnown' /\ PathKnown' /\ MountKnown' /\ SizesReached'
  BY DEF Decided, KernelKnown, ShrinkKnown, PathKnown, MountKnown, SizesReached,
         TookOther, BeforeTool, Fills, Writing, Shrinking
<1>3. FactsWhole' /\ Unwritten' /\ RefusedMeansUntouched'
  <2>1. pc' = "down" /\ facts' = facts
    OBVIOUS
  <2>2. outcome' \in {"refused", "infra"} => wrote' = wrote
    OBVIOUS
  <2>3. ~wrote
    BY DEF Unwritten, BeforeWriting
  <2> QED BY <2>1, <2>2, <2>3 DEF FactsWhole, Unwritten, BeforeWriting, RefusedMeansUntouched
<1> QED BY <1>1, <1>2, <1>3, <1>h

LEMMA WriteGrownKeeps == ASSUME IInv, WriteGrown PROVE IInv'
<1> USE OnlineAssumption DEF IInv
<1>0. /\ disk.len \in Nat \ {0} /\ kern.len \in Nat \ {0} /\ snap.len \in Nat \ {0}
      /\ disk.next \in Nat /\ kern.next \in Nat /\ snap.next \in Nat
  BY ViewParts DEF TypeOK
<1>u. used' \in Bounds
  <2>1. Fault \/ NoFault
    BY DEF WriteGrown, PartResize, NoFault
  <2> QED BY <2>1, FaultBounds
<1>r. \A l \in Nat \ {0} : Entry(l) \in Views /\ Entry(l).len = l /\ Entry(l).next = disk.next
  BY EntryIs
<1>e. /\ UNCHANGED <<kern, fs, lv, away, mount, kind, hold, req, viaPv, snap, want, facts,
                     stale, slipped, blind>>
      /\ pc = "grow"
  BY DEF WriteGrown, PartResize, NothingYet, Untouched, views, history, around, inRun, Stop, Continue
<1>p. \/ pc' = "down" /\ outcome' \in {"infra", "refused"} /\ wrote' = wrote
      \/ pc' = "down" /\ outcome' = "failed" /\ wrote' = TRUE
      \/ pc' = "sync" /\ outcome' = outcome /\ wrote' = TRUE
  BY DEF WriteGrown, PartResize, NothingYet, Untouched, views, history, around, inRun, Stop, Continue
<1>w. want \in Nat \ {0}
  BY <1>e, <1>0 DEF Decided, Writing, TypeOK
<1>a. disk' = disk \/ \E l \in Nat \ {0} :
                            /\ disk' = Entry(l)
                            /\ want <= disk.next /\ disk.len = snap.len
                            /\ snap.len <= l /\ l <= want
  BY <1>0, <1>w
     DEF WriteGrown, PartResize, NothingYet, Untouched, views, UnchangedOnDisk, Decided,
         Writing, Shrinking, Stop, Continue
<1>b. disk' \in Views /\ disk'.next = disk.next /\ disk'.len \in Nat \ {0}
  BY <1>a, <1>0, <1>r DEF TypeOK
<1>c. \/ disk' = disk
      \/ /\ want <= disk.next /\ disk.len = snap.len
         /\ snap.len <= disk'.len /\ disk'.len <= want
  BY <1>a, <1>r
<1>d. pc' = "sync" => disk'.len = want
  <2>1. pc' = "sync" => disk' = Entry(want)
    BY DEF WriteGrown, PartResize, NothingYet, Stop, Continue
  <2> QED BY <2>1, <1>r, <1>w
<1>1. TypeOK'
  BY <1>0, <1>u, <1>b, <1>e, <1>p DEF TypeOK, Bounds
<1>2. Decided' /\ KernelKnown' /\ ShrinkKnown' /\ PathKnown' /\ MountKnown' /\ SizesReached'
  BY <1>d, <1>e, <1>p
     DEF Decided, KernelKnown, ShrinkKnown, PathKnown, MountKnown, SizesReached, TookOther,
         BeforeTool, Writing, Shrinking
<1>n. NothingOverruns'
  BY <1>0, <1>b, <1>c, <1>e DEF NothingOverruns, Decided, Writing, SizesReached, TypeOK
<1>3. FactsWhole' /\ Unwritten' /\ RefusedMeansUntouched'
  <2>1. FactsWhole'
    BY <1>e DEF FactsWhole
  <2>2. outcome = "none" /\ wrote = FALSE
    BY <1>e DEF Unwritten, BeforeWriting, TypeOK
  <2>3. outcome' \in {"refused", "infra"} => ~wrote'
    BY <1>p, <2>2
  <2> QED BY <1>p, <2>1, <2>2, <2>3 DEF Unwritten, BeforeWriting, RefusedMeansUntouched
<1> QED BY <1>1, <1>2, <1>3, <1>n

LEMMA WritePvGrownKeeps == ASSUME IInv, WritePvGrown PROVE IInv'
<1> USE OnlineAssumption DEF IInv
<1>0. /\ disk.len \in Nat \ {0} /\ kern.len \in Nat \ {0} /\ snap.len \in Nat \ {0}
      /\ disk.next \in Nat /\ kern.next \in Nat /\ snap.next \in Nat
  BY ViewParts DEF TypeOK
<1>u. used' \in Bounds
  BY FaultBounds DEF WritePvGrown, PartResize
<1>r. \A l \in Nat \ {0} : Entry(l) \in Views /\ Entry(l).len = l /\ Entry(l).next = disk.next
  BY EntryIs
<1>e. /\ UNCHANGED <<kern, fs, lv, away, mount, kind, hold, req, viaPv, snap, want, facts,
                     stale, slipped, blind>>
      /\ pc = "pvgrow"
  BY DEF WritePvGrown, PartResize, NothingYet, Untouched, views, history, around, inRun, Stop, Continue
<1>p. \/ pc' = "down" /\ outcome' \in {"infra", "refused"} /\ wrote' = wrote
      \/ pc' = "down" /\ outcome' = "failed" /\ wrote' = TRUE
      \/ pc' = "pvsync" /\ outcome' = outcome /\ wrote' = TRUE
  BY DEF WritePvGrown, PartResize, NothingYet, Untouched, views, history, around, inRun, Stop, Continue
<1>w. want \in Nat \ {0}
  BY <1>e, <1>0 DEF Decided, Writing, TypeOK
<1>a. disk' = disk \/ \E l \in Nat \ {0} :
                            /\ disk' = Entry(l)
                            /\ want <= disk.next /\ disk.len = snap.len
                            /\ snap.len <= l /\ l <= want
  BY <1>0, <1>w
     DEF WritePvGrown, PartResize, NothingYet, Untouched, views, UnchangedOnDisk, Decided,
         Writing, Shrinking, Stop, Continue
<1>b. disk' \in Views /\ disk'.next = disk.next /\ disk'.len \in Nat \ {0}
  BY <1>a, <1>0, <1>r DEF TypeOK
<1>c. \/ disk' = disk
      \/ /\ want <= disk.next /\ disk.len = snap.len
         /\ snap.len <= disk'.len /\ disk'.len <= want
  BY <1>a, <1>r
<1>d. pc' = "pvsync" => disk'.len = want
  <2>1. pc' = "pvsync" => disk' = Entry(want)
    BY DEF WritePvGrown, PartResize, NothingYet, Stop, Continue
  <2> QED BY <2>1, <1>r, <1>w
<1>1. TypeOK'
  BY <1>0, <1>u, <1>b, <1>e, <1>p DEF TypeOK, Bounds
<1>2. Decided' /\ KernelKnown' /\ ShrinkKnown' /\ PathKnown' /\ MountKnown' /\ SizesReached'
  BY <1>d, <1>e, <1>p
     DEF Decided, KernelKnown, ShrinkKnown, PathKnown, MountKnown, SizesReached, TookOther,
         BeforeTool, Writing, Shrinking
<1>n. NothingOverruns'
  BY <1>0, <1>b, <1>c, <1>e DEF NothingOverruns, Decided, Writing, SizesReached, TypeOK
<1>3. FactsWhole' /\ Unwritten' /\ RefusedMeansUntouched'
  <2>1. FactsWhole'
    BY <1>e DEF FactsWhole
  <2>2. outcome = "none" /\ wrote = FALSE
    BY <1>e DEF Unwritten, BeforeWriting, TypeOK
  <2>3. outcome' \in {"refused", "infra"} => ~wrote'
    BY <1>p, <2>2
  <2> QED BY <1>p, <2>1, <2>2, <2>3 DEF Unwritten, BeforeWriting, RefusedMeansUntouched
<1> QED BY <1>1, <1>2, <1>3, <1>n

LEMMA WriteShrunkKeeps == ASSUME IInv, WriteShrunk PROVE IInv'
<1> USE OnlineAssumption DEF IInv
<1>0. /\ disk.len \in Nat \ {0} /\ kern.len \in Nat \ {0} /\ snap.len \in Nat \ {0}
      /\ disk.next \in Nat /\ kern.next \in Nat /\ snap.next \in Nat
  BY ViewParts DEF TypeOK
<1>u. used' \in Bounds
  BY FaultBounds DEF WriteShrunk, PartResize
<1>r. \A l \in Nat \ {0} : Entry(l) \in Views /\ Entry(l).len = l /\ Entry(l).next = disk.next
  BY EntryIs
<1>e. /\ UNCHANGED <<kern, fs, lv, away, mount, kind, hold, req, viaPv, snap, want, facts,
                     stale, slipped, blind>>
      /\ pc = "cut"
  BY DEF WriteShrunk, PartResize, AlreadyShrunk, Untouched, views, history, around, inRun, Stop, Continue
<1>p. \/ pc' = "down" /\ outcome' = "failed" /\ wrote' \in {wrote, TRUE}
      \/ pc' = "cutsync" /\ outcome' = outcome /\ wrote' = TRUE
  BY DEF WriteShrunk, PartResize, AlreadyShrunk, Untouched, views, history, around, inRun, Stop, Continue
<1>w. want \in Nat \ {0}
  BY <1>e DEF Decided, Shrinking, TypeOK
<1>a. disk' = disk \/ \E l \in Nat \ {0} :
                            /\ disk' = Entry(l)
                            /\ want <= disk.next /\ disk.len = snap.len /\ l = want
  BY <1>0, <1>w
     DEF WriteShrunk, PartResize, AlreadyShrunk, Untouched, views, UnchangedOnDisk, Decided,
         Writing, Shrinking, Stop, Continue
<1>b. disk' \in Views /\ disk'.next = disk.next /\ disk'.len \in Nat \ {0}
  BY <1>a, <1>0, <1>r DEF TypeOK
<1>c. disk' = disk \/ (want <= disk.next /\ disk.len = snap.len /\ disk'.len = want)
  BY <1>a, <1>r
<1>d. pc' = "cutsync" => disk'.len = want
  <2>1. pc' = "cutsync" => disk' = Entry(want)
    BY DEF WriteShrunk, PartResize, AlreadyShrunk, Stop, Continue
  <2> QED BY <2>1, <1>r, <1>w
<1>1. TypeOK'
  BY <1>0, <1>u, <1>b, <1>e, <1>p DEF TypeOK, Bounds
<1>2. Decided' /\ KernelKnown' /\ ShrinkKnown' /\ PathKnown' /\ MountKnown' /\ SizesReached'
  BY <1>d, <1>e, <1>p
     DEF Decided, KernelKnown, ShrinkKnown, PathKnown, MountKnown, SizesReached, TookOther,
         BeforeTool, Writing, Shrinking
<1>n. NothingOverruns'
  BY <1>0, <1>b, <1>c, <1>e DEF NothingOverruns, Decided, Writing, SizesReached, TypeOK
<1>3. FactsWhole' /\ Unwritten' /\ RefusedMeansUntouched'
  <2>1. FactsWhole'
    BY <1>e DEF FactsWhole
  <2>2. outcome = "none"
    BY <1>e DEF Unwritten, BeforeWriting
  <2> QED BY <1>p, <2>1, <2>2 DEF Unwritten, BeforeWriting, RefusedMeansUntouched
<1> QED BY <1>1, <1>2, <1>3, <1>n

LEMMA ShrinkFsKeeps == ASSUME IInv, ShrinkFs PROVE IInv'
<1> USE OnlineAssumption
    DEF IInv, views, history, around, inRun, Stop, Continue, ShrinkFs, ShrinkStays, CheckMount,
        MountStays, LeadsToTarget
<1>0. /\ disk.len \in Nat \ {0} /\ kern.len \in Nat \ {0} /\ snap.len \in Nat \ {0}
      /\ disk.next \in Nat /\ kern.next \in Nat /\ snap.next \in Nat
  BY ViewParts DEF TypeOK
<1>u. used' \in Bounds
  BY FaultBounds
<1>s. slipped' \in BOOLEAN
  BY DEF TypeOK
<1>1. TypeOK'
  BY <1>u, <1>s DEF TypeOK, Bounds
<1>2. Decided' /\ KernelKnown' /\ ShrinkKnown' /\ PathKnown' /\ MountKnown' /\ SizesReached'
  BY DEF Decided, KernelKnown, ShrinkKnown, PathKnown, MountKnown, SizesReached,
         TookOther, BeforeTool, Fills, Writing, Shrinking
<1>3. FactsWhole' /\ Unwritten' /\ NothingOverruns' /\ RefusedMeansUntouched'
  BY <1>0
     DEF FactsWhole, Unwritten, BeforeWriting, NothingOverruns, RefusedMeansUntouched,
         Decided, KernelKnown, SizesReached, Writing, Shrinking, TypeOK
<1> QED BY <1>1, <1>2, <1>3

LEMMA ShrinkLookKeeps == ASSUME IInv, ShrinkLook PROVE IInv'
<1> USE OnlineAssumption
    DEF IInv, views, history, around, inRun, Stop, Continue, ShrinkLook, ShrinkStays,
        UnchangedOnDisk
<1>0. /\ disk.len \in Nat \ {0} /\ kern.len \in Nat \ {0} /\ snap.len \in Nat \ {0}
      /\ disk.next \in Nat /\ kern.next \in Nat /\ snap.next \in Nat
  BY ViewParts DEF TypeOK
<1>u. used' \in Bounds
  BY FaultBounds
<1>1. TypeOK'
  BY <1>u DEF TypeOK, Bounds
<1>2. Decided' /\ KernelKnown' /\ ShrinkKnown' /\ PathKnown' /\ MountKnown' /\ SizesReached'
  BY DEF Decided, KernelKnown, ShrinkKnown, PathKnown, MountKnown, SizesReached,
         TookOther, BeforeTool, Fills, Writing, Shrinking
<1>3. FactsWhole' /\ Unwritten' /\ NothingOverruns' /\ RefusedMeansUntouched'
  BY <1>0
     DEF FactsWhole, Unwritten, BeforeWriting, NothingOverruns, RefusedMeansUntouched,
         Decided, KernelKnown, SizesReached, Writing, Shrinking, TypeOK
<1> QED BY <1>1, <1>2, <1>3

LEMMA ShrinkToolKeeps == ASSUME IInv, ShrinkTool PROVE IInv'
<1> USE OnlineAssumption DEF IInv
<1>0. /\ disk.len \in Nat \ {0} /\ kern.len \in Nat \ {0} /\ snap.len \in Nat \ {0}
      /\ disk.next \in Nat /\ kern.next \in Nat /\ snap.next \in Nat
  BY ViewParts DEF TypeOK
<1>u. used' \in Bounds
  BY FaultBounds DEF ShrinkTool
<1>t. fs \in Nat /\ want \in Nat /\ away \in Nat
  BY DEF TypeOK
<1>e. /\ UNCHANGED <<disk, kern, lv, mount, kind, hold, req, viaPv, snap, want, facts, stale,
                     slipped, blind>>
      /\ pc = "shrink tool" /\ wrote' \in {wrote, TRUE}
  BY DEF ShrinkTool, ShrinkStays, FitsNow, around, inRun, Stop, Continue
<1>i. FitsNow => \/ pc' = "down" /\ outcome' = "partial"
                 \/ pc' = "cut" /\ outcome' = outcome /\ fs' <= want
  BY DEF FitsNow, Stop, Continue
<1>p. \/ pc' = "down" /\ outcome' \in {"failed", "partial"}
      \/ pc' = "down" /\ outcome' = "infra" /\ wrote' = wrote
      \/ pc' = "cut" /\ outcome' = outcome /\ fs' <= want
  BY <1>i DEF ShrinkTool, Stop
<1>f. /\ \/ fs' = fs \/ fs' = want \/ fs' \in Between(fs, want)
      /\ \/ away' = away \/ away' = want \/ away' \in Between(away, want)
  BY DEF ShrinkTool, ShrinkStays, FitsNow, around, inRun, Stop, Continue
<1>c. pc' = "cut" => fs' = want \/ fs' > want \/ mount # "target"
  BY DEF ShrinkTool, ShrinkStays, FitsNow, around, inRun, Stop, Continue
<1>g. /\ fs' \in Nat /\ away' \in Nat
      /\ fs' <= fs \/ fs' <= want
  BY <1>t, <1>f, OnTheWay
<1>1. TypeOK'
  <2>1. wrote' \in BOOLEAN /\ outcome' \in {"none", "refused", "infra", "failed", "partial",
     "done"}
    BY <1>e, <1>p DEF TypeOK
  <2> QED BY <1>u, <1>e, <1>g, <1>p, <2>1 DEF TypeOK, Bounds
<1>s. SizesReached'
  <2>1. mount # "target" => TookOther
    BY <1>e DEF MountKnown, BeforeTool, ShrinkKnown, Shrinking, CanShrink, ByMount, TookOther
  <2>2. pc' = "cut" => fs' <= want /\ (fs' = want \/ TookOther)
    BY <1>t, <1>p, <1>c, <1>g, <2>1
  <2>3. TookOther' = TookOther
    BY <1>e DEF TookOther
  <2> QED BY <1>e, <1>p, <2>2, <2>3 DEF SizesReached
<1>2. Decided' /\ KernelKnown' /\ ShrinkKnown' /\ PathKnown' /\ MountKnown'
  BY <1>e, <1>p DEF Decided, KernelKnown, ShrinkKnown, PathKnown, MountKnown, BeforeTool, Writing,
     Shrinking
<1>n. NothingOverruns'
  <2>1. want < snap.len /\ snap.len = disk.len
    BY <1>e DEF KernelKnown, Decided, Shrinking
  <2>2. (fs <= disk.len \/ blind) /\ disk.len <= disk.next
    BY DEF NothingOverruns
  <2>3. disk' = disk /\ blind' = blind
    BY <1>e
  <2>4. fs' <= disk.len \/ blind
    BY <1>0, <1>t, <1>g, <2>1, <2>2
  <2> QED BY <2>2, <2>3, <2>4 DEF NothingOverruns
<1>3. FactsWhole' /\ Unwritten' /\ RefusedMeansUntouched'
  <2>1. FactsWhole'
    BY <1>e DEF FactsWhole
  <2>2. outcome = "none" /\ wrote = FALSE
    BY <1>e DEF Unwritten, BeforeWriting, TypeOK
  <2>3. outcome' \in {"refused", "infra"} => ~wrote'
    BY <1>p, <2>2
  <2> QED BY <1>p, <2>1, <2>2, <2>3 DEF Unwritten, BeforeWriting, RefusedMeansUntouched
<1> QED BY <1>1, <1>2, <1>3, <1>n, <1>s

LEMMA SyncGrownKeeps == ASSUME IInv, SyncGrown PROVE IInv'
<1> USE OnlineAssumption
    DEF IInv, views, history, around, inRun, Untouched, Stop, Continue, SyncGrown, SyncKernel
<1>0. /\ disk.len \in Nat \ {0} /\ kern.len \in Nat \ {0} /\ snap.len \in Nat \ {0}
      /\ disk.next \in Nat /\ kern.next \in Nat /\ snap.next \in Nat
  BY ViewParts DEF TypeOK
<1>u. used' \in Bounds
  BY FaultBounds
<1>r. \A l \in Nat \ {0} : /\ [kern EXCEPT !.len = l] \in Views
                             /\ [kern EXCEPT !.len = l].len = l
  BY Resized DEF TypeOK
<1>w. want \in Nat \ {0} /\ disk.len = want
  BY <1>0 DEF KernelKnown
<1>s. kern' = kern \/ kern' = [kern EXCEPT !.len = want]
  BY <1>w DEF SyncGrown, SyncKernel, KernelTold
<1>a. kern' \in Views /\ (kern'.len = disk.len \/ kern' = kern)
  BY <1>s, <1>r, <1>w DEF TypeOK
<1>b. pc' # "down" => kern'.len = disk.len
  <2>1. pc' # "down" => kern' = [kern EXCEPT !.len = want]
    BY <1>w DEF SyncGrown, SyncKernel, KernelTold
  <2> QED BY <2>1, <1>r, <1>w
<1>1. TypeOK'
  BY <1>0, <1>u, <1>a, <1>b DEF TypeOK, Bounds
<1>2. Decided' /\ KernelKnown' /\ ShrinkKnown' /\ PathKnown' /\ MountKnown' /\ SizesReached'
  BY <1>b DEF Decided, KernelKnown, ShrinkKnown, PathKnown, MountKnown, SizesReached,
         TookOther, BeforeTool, Writing, Shrinking, TypeOK
<1>3. FactsWhole' /\ Unwritten' /\ NothingOverruns' /\ RefusedMeansUntouched'
  BY <1>0, <1>a, <1>b
     DEF FactsWhole, Unwritten, BeforeWriting, NothingOverruns, RefusedMeansUntouched,
         Decided, KernelKnown, SizesReached, Writing, Shrinking, TypeOK
<1> QED BY <1>1, <1>2, <1>3

LEMMA SyncPvKeeps == ASSUME IInv, SyncPv PROVE IInv'
<1> USE OnlineAssumption
    DEF IInv, views, history, around, inRun, Untouched, Stop, Continue, SyncPv, SyncKernel
<1>0. /\ disk.len \in Nat \ {0} /\ kern.len \in Nat \ {0} /\ snap.len \in Nat \ {0}
      /\ disk.next \in Nat /\ kern.next \in Nat /\ snap.next \in Nat
  BY ViewParts DEF TypeOK
<1>u. used' \in Bounds
  BY FaultBounds
<1>r. \A l \in Nat \ {0} : /\ [kern EXCEPT !.len = l] \in Views
                             /\ [kern EXCEPT !.len = l].len = l
  BY Resized DEF TypeOK
<1>w. want \in Nat \ {0} /\ disk.len = want
  BY <1>0 DEF KernelKnown
<1>s. kern' = kern \/ kern' = [kern EXCEPT !.len = want]
  BY <1>w DEF SyncPv, SyncKernel, KernelTold
<1>a. kern' \in Views /\ (kern'.len = disk.len \/ kern' = kern)
  BY <1>s, <1>r, <1>w DEF TypeOK
<1>b. pc' # "down" => kern'.len = disk.len
  <2>1. pc' # "down" => kern' = [kern EXCEPT !.len = want]
    BY <1>w DEF SyncPv, SyncKernel, KernelTold
  <2> QED BY <2>1, <1>r, <1>w
<1>1. TypeOK'
  BY <1>0, <1>u, <1>a, <1>b DEF TypeOK, Bounds
<1>2. Decided' /\ KernelKnown' /\ ShrinkKnown' /\ PathKnown' /\ MountKnown' /\ SizesReached'
  BY <1>b DEF Decided, KernelKnown, ShrinkKnown, PathKnown, MountKnown, SizesReached,
         TookOther, BeforeTool, Writing, Shrinking, TypeOK
<1>3. FactsWhole' /\ Unwritten' /\ NothingOverruns' /\ RefusedMeansUntouched'
  BY <1>0, <1>a, <1>b
     DEF FactsWhole, Unwritten, BeforeWriting, NothingOverruns, RefusedMeansUntouched,
         Decided, KernelKnown, SizesReached, Writing, Shrinking, TypeOK
<1> QED BY <1>1, <1>2, <1>3

LEMMA SyncShrunkKeeps == ASSUME IInv, SyncShrunk PROVE IInv'
<1> USE OnlineAssumption DEF IInv, views, history, around, inRun, Untouched, Stop, SyncShrunk,
   SyncKernel
<1>u. used' \in Bounds
  BY FaultBounds
<1>r. \A l \in Nat \ {0} : /\ [kern EXCEPT !.len = l] \in Views
                             /\ [kern EXCEPT !.len = l].len = l
  BY Resized DEF TypeOK
<1>w. want \in Nat \ {0} /\ disk.len = want
  BY DEF Decided, KernelKnown, Shrinking, TypeOK
<1>s. kern' = kern \/ kern' = [kern EXCEPT !.len = want]
  BY <1>w DEF KernelTold
<1>a. kern' \in Views /\ (kern'.len = disk.len \/ kern' = kern)
  BY <1>s, <1>r, <1>w DEF TypeOK
<1>b. pc' # "down" => kern'.len = disk.len
  <2>1. pc' # "down" => kern' = [kern EXCEPT !.len = want]
    OBVIOUS
  <2> QED BY <2>1, <1>r, <1>w
<1>1. TypeOK'
  BY <1>u, <1>a DEF TypeOK, Bounds
<1>2. Decided' /\ KernelKnown' /\ ShrinkKnown' /\ PathKnown' /\ MountKnown' /\ SizesReached'
  BY DEF Decided, KernelKnown, ShrinkKnown, PathKnown, MountKnown, SizesReached,
         TookOther, BeforeTool, Writing, Shrinking
<1>3. FactsWhole' /\ Unwritten' /\ NothingOverruns' /\ RefusedMeansUntouched'
  BY DEF FactsWhole, Unwritten, BeforeWriting, NothingOverruns, RefusedMeansUntouched
<1> QED BY <1>1, <1>2, <1>3

LEMMA GrowFsKeeps == ASSUME IInv, GrowFs PROVE IInv'
<1> USE OnlineAssumption
    DEF IInv, views, history, around, inRun, Stop, Continue, GrowFs, GrowFsStays, CheckMount,
        MountStays, LeadsToTarget
<1>0. /\ disk.len \in Nat \ {0} /\ kern.len \in Nat \ {0} /\ snap.len \in Nat \ {0}
      /\ disk.next \in Nat /\ kern.next \in Nat /\ snap.next \in Nat
  BY ViewParts DEF TypeOK
<1>u. used' \in Bounds
  BY FaultBounds
<1>s. slipped' \in BOOLEAN
  BY DEF TypeOK
<1>1. TypeOK'
  BY <1>u, <1>s DEF TypeOK, Bounds
<1>2. Decided' /\ KernelKnown' /\ ShrinkKnown' /\ PathKnown' /\ MountKnown' /\ SizesReached'
  BY DEF Decided, KernelKnown, ShrinkKnown, PathKnown, MountKnown, SizesReached,
         TookOther, BeforeTool, Fills, Writing, Shrinking
<1>3. FactsWhole' /\ Unwritten' /\ NothingOverruns' /\ RefusedMeansUntouched'
  BY <1>0
     DEF FactsWhole, Unwritten, BeforeWriting, NothingOverruns, RefusedMeansUntouched,
         Decided, KernelKnown, SizesReached, Writing, Shrinking, TypeOK
<1> QED BY <1>1, <1>2, <1>3

LEMMA GrowFsToolKeeps == ASSUME IInv, GrowFsTool PROVE IInv'
<1> USE OnlineAssumption
    DEF IInv, views, history, around, inRun, Stop, Continue, GrowFsTool, GrowFsStays
<1>0. /\ disk.len \in Nat \ {0} /\ kern.len \in Nat \ {0} /\ snap.len \in Nat \ {0}
      /\ disk.next \in Nat /\ kern.next \in Nat /\ snap.next \in Nat
  BY ViewParts DEF TypeOK
<1>u. used' \in Bounds
  BY FaultBounds
<1>f. \/ UNCHANGED <<fs, away, blind>>
      \/ fs' = kern.len /\ UNCHANGED away /\ blind' = FALSE
      \/ fs' \in Between(fs, kern.len) /\ UNCHANGED away /\ blind' = (blind \/ FALSE)
      \/ away' = ElsewhereRoom /\ UNCHANGED <<fs, blind>>
      \/ away' \in Between(away, ElsewhereRoom) /\ UNCHANGED <<fs, blind>>
  BY DEF GrowTool, GrowToolFails, NothingMounted
<1>g. fs' \in Nat /\ away' \in Nat /\ blind' \in BOOLEAN
  <2>1. /\ fs \in Nat /\ away \in Nat /\ blind \in BOOLEAN /\ kern.len \in Nat
        /\ ElsewhereRoom \in Nat /\ ViewMoved \in BOOLEAN
    BY <1>0 DEF TypeOK, ViewMoved
  <2> HIDE DEF IInv, GrowFsTool
  <2> QED BY <1>f, <2>1, OnTheWay
<1>h. NothingOverruns'
  <2>1. kern.len = disk.len
    BY DEF KernelKnown, ViewMoved
  <2>2. fs \in Nat /\ (fs <= disk.len \/ blind) /\ disk.len <= disk.next /\ disk' = disk
    BY DEF NothingOverruns, TypeOK
  <2> HIDE DEF IInv, GrowFsTool
  <2>3. \/ fs' = fs /\ (blind => blind')
        \/ fs' = kern.len
        \/ fs' \in Between(fs, kern.len) /\ (blind => blind')
    BY <1>f
  <2>4. \A n \in Between(fs, kern.len) : n \in Nat /\ (n <= fs \/ n <= kern.len)
    BY <1>0, <2>2, OnTheWay
  <2>5. fs' <= disk.len \/ blind'
    BY <1>0, <1>g, <2>1, <2>2, <2>3, <2>4
  <2> QED BY <2>2, <2>5 DEF NothingOverruns
<1>w. wrote' \in BOOLEAN
  BY DEF TypeOK
<1>1. TypeOK'
  BY <1>u, <1>g, <1>w DEF TypeOK, Bounds
<1>2. Decided' /\ KernelKnown' /\ ShrinkKnown' /\ PathKnown' /\ MountKnown' /\ SizesReached'
  BY DEF Decided, KernelKnown, ShrinkKnown, PathKnown, MountKnown, SizesReached,
         TookOther, BeforeTool, Fills, Writing, Shrinking
<1>3. FactsWhole' /\ Unwritten' /\ RefusedMeansUntouched'
  BY DEF FactsWhole, Unwritten, BeforeWriting, RefusedMeansUntouched
<1> QED BY <1>1, <1>2, <1>3, <1>h

LEMMA PvResizeKeeps == ASSUME IInv, PvResize PROVE IInv'
<1> USE OnlineAssumption DEF IInv
<1>0. /\ disk.len \in Nat \ {0} /\ kern.len \in Nat \ {0} /\ snap.len \in Nat \ {0}
      /\ disk.next \in Nat /\ kern.next \in Nat /\ snap.next \in Nat
  BY ViewParts DEF TypeOK
<1>u. used' \in Bounds
  BY FaultBounds DEF PvResize
<1>e. /\ UNCHANGED <<disk, kern, lv, away, mount, kind, hold, req, viaPv, snap, want, facts,
                     stale, slipped>>
      /\ pc = "pvresize" /\ wrote' \in {wrote, TRUE} /\ blind' \in {blind, PvGrowsBlindly}
  BY DEF PvResize, around, inRun, Stop, Continue
<1>p. \/ pc' = "down" /\ outcome' \in {"failed", "partial"}
      \/ pc' = "lvextend" /\ outcome' = outcome /\ kern.len >= disk.len /\ fs' = kern.len
         /\ blind' = PvGrowsBlindly
  BY DEF PvResize, around, inRun, Stop, Continue
<1>f. \/ UNCHANGED <<fs, blind>>
      \/ fs' = kern.len /\ blind' = PvGrowsBlindly
  BY DEF PvResize
<1>g. fs' \in Nat /\ blind' \in BOOLEAN
  BY <1>0, <1>f DEF TypeOK, PvGrowsBlindly
<1>h. PvGrowsBlindly \/ kern.len <= disk.len
  BY <1>0, <1>e DEF KernelKnown, PvGrowsBlindly
<1>1. TypeOK'
  <2>1. wrote' \in BOOLEAN /\ outcome' \in {"none", "refused", "infra", "failed", "partial",
     "done"}
    BY <1>e, <1>p DEF TypeOK
  <2> QED BY <1>u, <1>e, <1>g, <1>p, <2>1 DEF TypeOK, Bounds
<1>2. Decided' /\ KernelKnown' /\ ShrinkKnown' /\ PathKnown' /\ MountKnown'
  BY <1>e, <1>p DEF Decided, KernelKnown, ShrinkKnown, PathKnown, MountKnown, BeforeTool, Writing,
     Shrinking
<1>s. SizesReached'
  <2>1. pc' = "lvextend" => fs' = disk'.len \/ blind'
    BY <1>0, <1>e, <1>h, <1>p
  <2> QED BY <1>p, <2>1 DEF SizesReached
<1>n. NothingOverruns'
  BY <1>0, <1>e, <1>f, <1>h DEF NothingOverruns
<1>3. FactsWhole' /\ Unwritten' /\ RefusedMeansUntouched'
  BY <1>e, <1>p DEF FactsWhole, Unwritten, BeforeWriting, RefusedMeansUntouched
<1> QED BY <1>1, <1>2, <1>3, <1>n, <1>s

LEMMA LvExtendKeeps == ASSUME IInv, LvExtend PROVE IInv'
<1> USE OnlineAssumption DEF IInv, views, history, around, inRun, Untouched, Stop, Continue,
   LvExtend
<1>0. /\ disk.len \in Nat \ {0} /\ kern.len \in Nat \ {0} /\ snap.len \in Nat \ {0}
      /\ disk.next \in Nat /\ kern.next \in Nat /\ snap.next \in Nat
  BY ViewParts DEF TypeOK
<1>u. used' \in Bounds
  BY FaultBounds
<1>a. Free \in Nat /\ Delta \in Nat
  BY <1>0 DEF Free, Delta, TypeOK
<1>b. Extents \in Int
  BY <1>a, ExtentsAreWhole DEF Extents, TypeOK, RequestRecords
<1>c. Extents > 0 => lv + Extent * Extents \in Nat
  <2>1. \A a \in Nat, b \in Nat : a * b \in Nat
    OBVIOUS
  <2> QED BY <1>b, <2>1 DEF TypeOK
<1>d. lv' \in Nat
  BY <1>c DEF LvExtend, TypeOK
<1>1. TypeOK'
  BY <1>u, <1>d DEF TypeOK, Bounds
<1>2. Decided' /\ KernelKnown' /\ ShrinkKnown' /\ PathKnown' /\ MountKnown' /\ SizesReached'
  BY DEF Decided, KernelKnown, ShrinkKnown, PathKnown, MountKnown, SizesReached,
         TookOther, BeforeTool, Writing, Shrinking
<1>3. FactsWhole' /\ Unwritten' /\ NothingOverruns' /\ RefusedMeansUntouched'
  BY <1>0, <1>d
     DEF FactsWhole, Unwritten, BeforeWriting, NothingOverruns, RefusedMeansUntouched,
         Decided, KernelKnown, SizesReached, Writing, Shrinking, TypeOK
<1> QED BY <1>1, <1>2, <1>3

LEMMA PowerLossKeeps == ASSUME IInv, PowerLoss PROVE IInv'
<1> USE OnlineAssumption DEF IInv, views, history, around, inRun, RunStays, Stop, PowerLoss
<1>0. /\ disk.len \in Nat \ {0} /\ kern.len \in Nat \ {0} /\ snap.len \in Nat \ {0}
      /\ disk.next \in Nat /\ kern.next \in Nat /\ snap.next \in Nat
  BY ViewParts DEF TypeOK
<1>u. used' \in Bounds
  BY SpendBounds
<1>1. TypeOK'
  BY <1>u DEF TypeOK, Bounds
<1>2. Decided' /\ KernelKnown' /\ ShrinkKnown' /\ PathKnown' /\ MountKnown' /\ SizesReached'
  BY <1>0 DEF Decided, KernelKnown, ShrinkKnown, PathKnown, MountKnown, SizesReached,
         TookOther, BeforeTool, Writing, Shrinking
<1>3. FactsWhole' /\ Unwritten' /\ NothingOverruns' /\ RefusedMeansUntouched'
  BY <1>0
     DEF FactsWhole, Unwritten, BeforeWriting, NothingOverruns, RefusedMeansUntouched,
         Decided, KernelKnown, SizesReached, Writing, Shrinking, TypeOK
<1> QED BY <1>1, <1>2, <1>3

LEMMA KillKeeps == ASSUME IInv, Kill PROVE IInv'
<1> USE OnlineAssumption DEF IInv, views, history, around, inRun, RunStays, Stop, Kill
<1>0. /\ disk.len \in Nat \ {0} /\ kern.len \in Nat \ {0} /\ snap.len \in Nat \ {0}
      /\ disk.next \in Nat /\ kern.next \in Nat /\ snap.next \in Nat
  BY ViewParts DEF TypeOK
<1>u. used' \in Bounds
  BY SpendBounds
<1>1. TypeOK'
  BY <1>u DEF TypeOK, Bounds
<1>2. Decided' /\ KernelKnown' /\ ShrinkKnown' /\ PathKnown' /\ MountKnown' /\ SizesReached'
  BY DEF Decided, KernelKnown, ShrinkKnown, PathKnown, MountKnown, SizesReached,
         TookOther, BeforeTool, Writing, Shrinking
<1>3. FactsWhole' /\ Unwritten' /\ NothingOverruns' /\ RefusedMeansUntouched'
  BY <1>0
     DEF FactsWhole, Unwritten, BeforeWriting, NothingOverruns, RefusedMeansUntouched,
         Decided, KernelKnown, SizesReached, Writing, Shrinking, TypeOK
<1> QED BY <1>1, <1>2, <1>3

LEMMA EditTableKeeps == ASSUME IInv, EditTable PROVE IInv'
<1> USE OnlineAssumption DEF IInv
<1>0. /\ disk.len \in Nat \ {0} /\ kern.len \in Nat \ {0} /\ snap.len \in Nat \ {0}
      /\ disk.next \in Nat /\ kern.next \in Nat /\ snap.next \in Nat
  BY ViewParts DEF TypeOK
<1>u. used' \in Bounds
  BY SpendBounds DEF EditTable
<1>a. PICK l \in 1 .. Usable, n \in 1 .. Usable :
        fs <= l /\ l <= n /\ disk' = [len |-> l, next |-> n]
  BY DEF EditTable
<1>b. l \in Nat \ {0} /\ n \in Nat
  OBVIOUS
<1>c. disk' \in Views /\ disk'.len = l /\ disk'.next = n
  BY <1>a, <1>b DEF Views
<1>e. /\ UNCHANGED <<kern, fs, lv, away, mount, kind, hold, req, viaPv, snap, want, facts, wrote,
                     stale, slipped, blind, pc, outcome>>
      /\ pc \in {"down", "resolved", "gated", "decided", "grow", "pvgrow", "shrink",
                "shrink look", "cut"}
  BY DEF EditTable, Looking, RunStays, around, inRun, history
<1>1. TypeOK'
  BY <1>u, <1>c, <1>e DEF TypeOK, Bounds
<1>2. Decided' /\ KernelKnown' /\ ShrinkKnown' /\ PathKnown' /\ MountKnown' /\ SizesReached'
  BY <1>e DEF Decided, KernelKnown, ShrinkKnown, PathKnown, MountKnown, SizesReached, Fills,
     TookOther, BeforeTool, Writing, Shrinking
<1>3. FactsWhole' /\ Unwritten' /\ NothingOverruns' /\ RefusedMeansUntouched'
  BY <1>a, <1>c, <1>e DEF FactsWhole, Unwritten, NothingOverruns, RefusedMeansUntouched
<1> QED BY <1>1, <1>2, <1>3

LEMMA RefreshKernelKeeps == ASSUME IInv, RefreshKernel PROVE IInv'
<1> USE OnlineAssumption DEF IInv, views, history, around, inRun, RunStays, RefreshKernel
<1>0. /\ disk.len \in Nat \ {0} /\ kern.len \in Nat \ {0} /\ snap.len \in Nat \ {0}
      /\ disk.next \in Nat /\ kern.next \in Nat /\ snap.next \in Nat
  BY ViewParts DEF TypeOK
<1>u. used' \in Bounds
  BY DEF TypeOK, Bounds
<1>e. UNCHANGED <<disk, fs, lv, away, mount, kind, hold, pc, req, viaPv, snap, want, facts,
                  wrote, stale, outcome, slipped, blind>>
  OBVIOUS
<1>1. TypeOK'
  <2>1. TypeOK /\ kern' \in Views /\ lv' \in Nat
    BY <1>e DEF TypeOK
  <2> QED BY <1>u, <1>e, <2>1, SameTypes
<1>2. Decided' /\ KernelKnown' /\ ShrinkKnown' /\ PathKnown' /\ MountKnown' /\ SizesReached'
  BY DEF Decided, KernelKnown, ShrinkKnown, PathKnown, MountKnown, SizesReached,
         TookOther, BeforeTool, Fills, Writing, Shrinking
<1>3. FactsWhole' /\ Unwritten' /\ NothingOverruns' /\ RefusedMeansUntouched'
  BY <1>0
     DEF FactsWhole, Unwritten, BeforeWriting, NothingOverruns, RefusedMeansUntouched,
         Decided, KernelKnown, SizesReached, Writing, Shrinking, TypeOK
<1> QED BY <1>1, <1>2, <1>3

LEMMA RemountKeeps == ASSUME IInv, Remount PROVE IInv'
<1> USE OnlineAssumption DEF IInv, views, history, around, inRun, RunStays, Stop, Remount
<1>0. /\ disk.len \in Nat \ {0} /\ kern.len \in Nat \ {0} /\ snap.len \in Nat \ {0}
      /\ disk.next \in Nat /\ kern.next \in Nat /\ snap.next \in Nat
  BY ViewParts DEF TypeOK
<1>u. used' \in Bounds
  BY SpendBounds
<1>1. TypeOK'
  BY <1>u DEF TypeOK, Bounds
<1>2. Decided' /\ KernelKnown' /\ ShrinkKnown' /\ PathKnown' /\ MountKnown' /\ SizesReached'
  BY DEF Decided, KernelKnown, ShrinkKnown, PathKnown, MountKnown, Fills, SizesReached,
         TookOther, BeforeTool
<1>3. FactsWhole' /\ Unwritten' /\ NothingOverruns' /\ RefusedMeansUntouched'
  BY <1>0
     DEF FactsWhole, Unwritten, BeforeWriting, NothingOverruns, RefusedMeansUntouched,
         Decided, KernelKnown, SizesReached, Writing, Shrinking, TypeOK
<1> QED BY <1>1, <1>2, <1>3

LEMMA ReformatKeeps == ASSUME IInv, Reformat PROVE IInv'
<1> USE OnlineAssumption DEF IInv, views, history, around, inRun, RunStays, Stop, Reformat
<1>0. /\ disk.len \in Nat \ {0} /\ kern.len \in Nat \ {0} /\ snap.len \in Nat \ {0}
      /\ disk.next \in Nat /\ kern.next \in Nat /\ snap.next \in Nat
  BY ViewParts DEF TypeOK
<1>u. used' \in Bounds
  BY SpendBounds
<1>1. TypeOK'
  BY <1>0, <1>u DEF TypeOK, Bounds, Kinds
<1>2. Decided' /\ KernelKnown' /\ ShrinkKnown' /\ PathKnown' /\ MountKnown' /\ SizesReached'
  BY DEF Decided, KernelKnown, ShrinkKnown, PathKnown, MountKnown, SizesReached,
         BeforeTool, Writing, Shrinking
<1>3. FactsWhole' /\ Unwritten' /\ NothingOverruns' /\ RefusedMeansUntouched'
  <2>1. fs' = disk.len /\ disk' = disk /\ UNCHANGED <<pc, wrote, outcome, facts>>
    OBVIOUS
  <2> QED BY <1>0, <2>1 DEF FactsWhole, Unwritten, NothingOverruns, RefusedMeansUntouched
<1> QED BY <1>1, <1>2, <1>3

LEMMA ExtendLvElsewhereKeeps == ASSUME IInv, ExtendLvElsewhere PROVE IInv'
<1> USE OnlineAssumption DEF IInv, views, history, around, inRun, RunStays, Stop,
   ExtendLvElsewhere
<1>0. /\ disk.len \in Nat \ {0} /\ kern.len \in Nat \ {0} /\ snap.len \in Nat \ {0}
      /\ disk.next \in Nat /\ kern.next \in Nat /\ snap.next \in Nat
  BY ViewParts DEF TypeOK
<1>u. used' \in Bounds
  BY SpendBounds
<1>v. lv' \in Nat
  <2>1. lv \in Nat /\ lv' = lv + Extent
    BY DEF TypeOK
  <2> QED BY <2>1
<1>e. UNCHANGED <<disk, kern, fs, away, mount, kind, hold, pc, req, viaPv, snap, want, facts,
                  wrote, stale, outcome, slipped, blind>>
  OBVIOUS
<1>1. TypeOK'
  <2>1. TypeOK /\ kern' \in Views
    BY <1>e DEF TypeOK
  <2> QED BY <1>u, <1>v, <1>e, <2>1, SameTypes
<1>2. Decided' /\ KernelKnown' /\ ShrinkKnown' /\ PathKnown' /\ MountKnown' /\ SizesReached'
  BY DEF Decided, KernelKnown, ShrinkKnown, PathKnown, MountKnown, Fills, SizesReached,
         TookOther, BeforeTool
<1>3. FactsWhole' /\ Unwritten' /\ NothingOverruns' /\ RefusedMeansUntouched'
  BY <1>0
     DEF FactsWhole, Unwritten, BeforeWriting, NothingOverruns, RefusedMeansUntouched,
         Decided, KernelKnown, SizesReached, Writing, Shrinking, TypeOK
<1> QED BY <1>1, <1>2, <1>3

-----------------------------------------------------------------------------
(* Initially: every situation the command may find satisfies the           *)
(* invariant, by the assumption on the constants.                          *)
LEMMA InitHolds == Init => IInv
<1> SUFFICES ASSUME Init PROVE IInv
  OBVIOUS
<1>1. PICK s \in Situations : /\ disk = s.disk /\ kern = s.kern /\ fs = s.fs /\ lv = s.lv
                              /\ kind = s.kind /\ hold = s.hold /\ snap = s.kern
  BY DEF Init
<1>2. SituationOK(s)
  BY OnlineAssumption
<1>3. pc = "down" /\ ~wrote /\ outcome = "none" /\ away = Elsewhere
  BY DEF Init
<1>0. facts = NoFacts
  BY DEF Init
<1>4. TypeOK
  <2>1. used \in Bounds
    BY OnlineAssumption DEF Init, Bounds
  <2>2. NoRequest \in RequestRecords
    BY DEF NoRequest, RequestRecords
  <2>3. disk \in Views /\ kern \in Views /\ snap \in Views /\ fs \in Nat /\ lv \in Nat
        /\ kind \in Kinds /\ hold \in {"none", "scene", "swap", "stack"}
    BY <1>1, <1>2 DEF SituationOK
  <2>4. /\ pc = "down" /\ wrote = FALSE /\ stale = FALSE /\ outcome = "none"
        /\ mount = "target" /\ req = NoRequest /\ viaPv = FALSE /\ facts = NoFacts /\ want = 0
        /\ away = Elsewhere /\ Elsewhere \in Nat /\ slipped = FALSE /\ blind = FALSE
    BY OnlineAssumption DEF Init
  <2> QED BY <2>1, <2>2, <2>3, <2>4, NoFactsAreFacts DEF TypeOK, Bounds
<1>5. Decided /\ KernelKnown /\ PathKnown /\ SizesReached /\ FactsWhole /\ Unwritten
  BY <1>3, <1>0
     DEF Decided, Writing, Shrinking, KernelKnown, PathKnown, SizesReached, FactsWhole,
     NoFacts, FactsOf, Unwritten, BeforeWriting
<1>6. ShrinkKnown /\ MountKnown
  BY <1>3 DEF ShrinkKnown, MountKnown, BeforeTool, Shrinking
<1>7. NothingOverruns /\ RefusedMeansUntouched
  BY <1>1, <1>2, <1>3 DEF NothingOverruns, SituationOK, RefusedMeansUntouched
<1> QED BY <1>4, <1>5, <1>6, <1>7 DEF IInv

LEMMA StutterKeeps == ASSUME IInv, UNCHANGED vars PROVE IInv'
<1>1. TypeOK'
  <2>1. TypeOK
    BY DEF IInv
  <2>2. kern' \in Views /\ lv' \in Nat /\ used' \in Bounds
    BY <2>1 DEF vars, TypeOK, Bounds
  <2> QED BY <2>1, <2>2, SameTypes DEF vars
<1> USE DEF IInv, vars
<1>2. Decided' /\ KernelKnown' /\ ShrinkKnown' /\ PathKnown' /\ MountKnown' /\ SizesReached'
  BY DEF Decided, KernelKnown, ShrinkKnown, PathKnown, MountKnown, SizesReached, Fills,
     TookOther, BeforeTool
<1>3. FactsWhole' /\ Unwritten' /\ NothingOverruns' /\ RefusedMeansUntouched'
  BY DEF FactsWhole, Unwritten, NothingOverruns, RefusedMeansUntouched
<1> QED BY <1>1, <1>2, <1>3

(* Every step of a run, of another party, of a crash, keeps the invariant. *)
LEMMA StepKeeps == IInv /\ [Next]_vars => IInv'
<1> SUFFICES ASSUME IInv, [Next]_vars PROVE IInv'
  OBVIOUS
<1>1. CASE Run
  BY <1>1, BeginKeeps, GateKeeps, GatePvKeeps, DecideKeeps, ChooseKeeps, ChoosePvKeeps,
     FillKeeps, FillToolKeeps, WriteGrownKeeps, SyncGrownKeeps, GrowFsKeeps, GrowFsToolKeeps,
     ShrinkFsKeeps, ShrinkLookKeeps, ShrinkToolKeeps, WriteShrunkKeeps, SyncShrunkKeeps,
        WritePvGrownKeeps, SyncPvKeeps, PvResizeKeeps,
     LvExtendKeeps DEF Run
<1>2. CASE Environment
  BY <1>2, PowerLossKeeps, KillKeeps, EditTableKeeps, RefreshKernelKeeps, RemountKeeps,
     ReformatKeeps, ExtendLvElsewhereKeeps DEF Environment
<1>3. CASE UNCHANGED vars
  BY <1>3, StutterKeeps
<1> QED BY <1>1, <1>2, <1>3 DEF Next

(* The inductive invariant: what each stage of a run knows of the table,   *)
(* the kernel's view, the filesystem and its own decision.                 *)
THEOREM InvariantHolds == Spec => []IInv
BY InitHolds, StepKeeps, PTL DEF Spec

(* Whatever the sizes, and however often tools fail, power is lost, tables *)
(* are edited, the kernel re-reads them and mounts change: the filesystem  *)
(* stays inside the entry and the entry clear of its neighbour, except     *)
(* after a tool grew the filesystem or the PV to a view of the kernel that *)
(* nothing in the run had compared with the table.                         *)
THEOREM EntryHoldsFilesystem == Spec => []NothingOverruns
<1>1. IInv => NothingOverruns
  BY DEF IInv
<1> QED BY <1>1, InvariantHolds, PTL

(* Exit 10 and exit 30 never hide a write.                                 *)
THEOREM RefusalIsTrue == Spec => []RefusedMeansUntouched
<1>1. IInv => RefusedMeansUntouched
  BY DEF IInv
<1> QED BY <1>1, InvariantHolds, PTL

(* No run resizes the filesystem a changed mount point leads to, except   *)
(* when the mount changed after the last check of it, while the tool was   *)
(* being started: of all the changes at any other moment none gets by.     *)
THEOREM OtherFilesystemsStay == Spec => AnotherFsUntouched
<1>1. ASSUME IInv, [Next]_vars PROVE [away' # away => slipped]_vars
  <2> SUFFICES ASSUME Next, away' # away PROVE slipped
    BY <1>1
  <2>1. CASE FillTool \/ GrowFsTool
    <3>1. mount # "target" /\ pc \in BeforeTool
      BY <2>1 DEF FillTool, GrowFsTool, GrowTool, GrowToolFails, NothingMounted, OnOther,
         BeforeTool
    <3> QED BY <1>1, <3>1 DEF IInv, MountKnown
  <2>2. CASE ShrinkTool
    <3>1. mount # "target" /\ pc \in BeforeTool
      BY <2>2 DEF ShrinkTool, BeforeTool
    <3> QED BY <1>1, <3>1 DEF IInv, MountKnown
  <2>3. CASE Gate \/ GatePv \/ Decide \/ Choose \/ ChoosePv
    BY <2>3 DEF Gate, GatePv, Decide, Choose, ChoosePv, Untouched, views
  <2>4. CASE Fill \/ GrowFs \/ ShrinkFs \/ ShrinkLook \/ PvResize \/ LvExtend
    BY <2>4 DEF Fill, GrowFs, ShrinkFs, ShrinkLook, PvResize, LvExtend
  <2>5. CASE WriteGrown \/ WriteShrunk \/ WritePvGrown
    BY <2>5 DEF WriteGrown, WriteShrunk, WritePvGrown, PartResize, Untouched, views
  <2>6. CASE SyncGrown \/ SyncPv \/ SyncShrunk
    BY <2>6 DEF SyncGrown, SyncPv, SyncShrunk, SyncKernel
  <2>7. CASE (\E r \in Requests : Begin(r)) \/ Environment
    BY <2>7 DEF Begin, Environment, PowerLoss, Kill, EditTable, RefreshKernel, Remount,
       Reformat, ExtendLvElsewhere, views
  <2> QED BY <2>1, <2>2, <2>3, <2>4, <2>5, <2>6, <2>7 DEF Next, Run
<1> QED BY <1>1, InvariantHolds, PTL DEF Spec, AnotherFsUntouched

(* Types.                                                                  *)
THEOREM TypesHold == Spec => []TypeOK
<1>1. IInv => TypeOK
  BY DEF IInv
<1> QED BY <1>1, InvariantHolds, PTL
-----------------------------------------------------------------------------
(* A run that ends complete.                                               *)

LEMMA ChooseDone == ASSUME IInv, Choose, outcome' = "done" PROVE SizesAgree
<1>1. want = snap.len /\ req.table /\ ~viaPv /\ disk.len = snap.len /\ disk' = disk
  BY DEF Choose, KernelStale, Stop, Continue, Untouched, views, IInv, Unwritten
<1>2. want # 0
  BY <1>1, ViewParts DEF IInv, TypeOK
<1> QED BY <1>1, <1>2 DEF SizesAgree, Fills

LEMMA FillToolDone == ASSUME IInv, FillTool, outcome' = "done" PROVE SizesAgree
<1>1. pc = "fill tool" /\ disk' = disk /\ UNCHANGED <<kind, slipped>>
  BY DEF FillTool, FillStays, around
<1>2. (fs' = kern.len /\ blind' = ViewMoved) \/ OnOther
  BY DEF FillTool, GrowTool, Stop
<1>3. Fills /\ ~viaPv /\ snap.len = disk.len /\ (mount = "target" \/ slipped)
  BY <1>1 DEF IInv, PathKnown, KernelKnown, MountKnown, BeforeTool
<1>4. OnOther => TookOther
  BY <1>3 DEF OnOther, TookOther
<1> QED BY <1>1, <1>2, <1>3, <1>4 DEF SizesAgree, ViewMoved

LEMMA SyncShrunkDone == ASSUME IInv, SyncShrunk, outcome' = "done" PROVE SizesAgree
<1>1. pc = "cutsync" /\ disk' = disk /\ fs' = fs
  BY DEF SyncShrunk, SyncKernel
<1>2. disk.len = want /\ (fs = want \/ TookOther) /\ want < snap.len /\ want > 0 /\ ~viaPv
  BY <1>1 DEF IInv, KernelKnown, SizesReached, Decided, PathKnown, Shrinking
<1>3. want \in Nat \ {0} /\ snap.len \in Nat
  BY <1>2, ViewParts DEF IInv, TypeOK
<1>4. kern' = [kern EXCEPT !.len = want]
  BY <1>2 DEF SyncShrunk, SyncKernel, KernelTold, Stop
<1>5. kern'.len = want
  BY <1>3, <1>4, Resized DEF IInv, TypeOK
<1>6. ~Fills
  BY <1>2, <1>3 DEF Fills
<1> QED BY <1>1, <1>2, <1>5, <1>6 DEF SizesAgree

LEMMA GrowFsToolDone == ASSUME IInv, GrowFsTool, outcome' = "done" PROVE SizesAgree
<1>1. pc = "grow tool" /\ disk' = disk /\ kern' = kern
  BY DEF GrowFsTool, GrowFsStays
<1>2. fs' = kern.len \/ OnOther
  BY DEF GrowFsTool, GrowTool, Stop
<1>3. kern.len = disk.len /\ disk.len = want /\ snap.len < want /\ ~viaPv
  BY <1>1 DEF IInv, KernelKnown, SizesReached, Decided, PathKnown, Writing
<1>4. OnOther => TookOther
  BY <1>1 DEF IInv, MountKnown, BeforeTool, OnOther, TookOther
<1>5. ~Fills
  <2>1. want \in Nat /\ snap.len \in Nat \ {0}
    BY ViewParts DEF IInv, TypeOK
  <2> QED BY <1>3, <2>1 DEF Fills
<1> QED BY <1>1, <1>2, <1>3, <1>4, <1>5 DEF SizesAgree

(* lvextend reaches the goal exactly: the amount is whole extents.         *)
LEMMA LvExtendDone == ASSUME IInv, LvExtend, outcome' = "done" PROVE SizesAgree
<1>1. pc = "lvextend" /\ disk' = disk /\ fs' = fs /\ blind' = blind
  BY DEF LvExtend, history
<1>2. (fs = disk.len \/ blind) /\ viaPv
  BY <1>1 DEF IInv, SizesReached, PathKnown
<1>3. \/ Extents = 0 /\ lv' = lv
      \/ Extents > 0 /\ lv' = lv + Extent * Extents
  BY DEF LvExtend, Stop
<1>4. Free \in Nat /\ lv \in Nat /\ facts.before \in Nat /\ facts.target \in Nat
  <2>1. fs \in Nat /\ lv \in Nat /\ facts \in Facts
    BY DEF IInv, TypeOK
  <2>2. fs \div Extent \in Nat /\ lv \div Extent \in Nat
    BY <2>1, WholeExtents, OnlineAssumption
  <2> QED BY <2>1, <2>2 DEF Free, Facts
<1>5. ASSUME facts.kind = "lv" PROVE lv' >= facts.target
  <2>1. Extents = FinishLvGrowth(facts, lv, Free, Extent)
    BY <1>5 DEF Extents, LvExtents
  <2>2. CASE lv >= facts.target
    BY <1>3, <1>4, <2>1, <2>2 DEF FinishLvGrowth
  <2>3. CASE ~(lv >= facts.target)
    <3>1. PICK k \in Nat \ {0} : facts.target = facts.before + Extent * k
      BY <1>5 DEF IInv, FactsWhole
    <3>2. lv = facts.before /\ Extents = (facts.target - facts.before) \div Extent
      BY <1>3, <2>1, <2>3 DEF FinishLvGrowth
    <3>3. (Extent * k) \div Extent = k /\ facts.target - facts.before = Extent * k
      BY <1>4, <3>1, WholeDivision, OnlineAssumption
    <3> QED BY <1>3, <1>4, <3>1, <3>2, <3>3
  <2> QED BY <2>2, <2>3
<1>6. ASSUME facts.kind = "none", req.growLv, Delta = 0 PROVE Free = 0
  <2>1. Extents = IF Free = 0 THEN 0 ELSE -1
    BY <1>6 DEF Extents, LvExtents, ExtendByDelta
  <2> QED BY <1>3, <2>1
<1> QED BY <1>1, <1>2, <1>5, <1>6 DEF SizesAgree

(* A complete run leaves table, kernel, filesystem and volume at the size  *)
(* it decided on, except after a growth by a view nobody compared, and     *)
(* after a tool took the wrong filesystem from a mount point that changed  *)
(* behind its last check.                                                  *)
THEOREM DoneIsDone == Spec => DoneMeansDone
<1>1. ASSUME IInv, [Next]_vars PROVE [Ended("done") => SizesAgree]_vars
  <2> SUFFICES ASSUME Next, pc # "down", outcome' = "done" PROVE SizesAgree
    BY <1>1 DEF Ended
  <2>1. outcome = "none"
    BY <1>1 DEF IInv, Unwritten
  <2>2. CASE Choose \/ FillTool \/ SyncShrunk \/ GrowFsTool \/ LvExtend
    BY <1>1, <2>2, ChooseDone, FillToolDone, SyncShrunkDone, GrowFsToolDone,
       LvExtendDone
  <2>3. CASE Gate \/ GatePv \/ Decide \/ ChoosePv \/ PvResize
    BY <2>1, <2>3 DEF Gate, GatePv, Decide, ChoosePv, PvResize, Stop, Continue
  <2>7. CASE Fill \/ GrowFs \/ ShrinkFs \/ ShrinkLook \/ ShrinkTool
    BY <2>1, <2>7 DEF Fill, GrowFs, ShrinkFs, ShrinkLook, ShrinkTool, CheckMount, FitsNow,
       Stop, Continue
  <2>4. CASE WriteGrown \/ WriteShrunk \/ WritePvGrown
    BY <2>1, <2>4 DEF WriteGrown, WriteShrunk, WritePvGrown, PartResize, NothingYet,
       AlreadyShrunk, Stop, Continue
  <2>5. CASE SyncGrown \/ SyncPv
    BY <2>1, <2>5 DEF SyncGrown, SyncPv, SyncKernel, Stop, Continue
  <2>6. CASE (\E r \in Requests : Begin(r)) \/ Environment
    BY <2>1, <2>6 DEF Begin, Environment, PowerLoss, Kill, EditTable, RefreshKernel, Remount,
       Reformat, ExtendLvElsewhere, RunStays, Stop
  <2> QED BY <2>2, <2>3, <2>4, <2>5, <2>6, <2>7 DEF Next, Run
<1> QED BY <1>1, InvariantHolds, PTL DEF Spec, DoneMeansDone
=============================================================================
