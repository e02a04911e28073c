------------------------------ MODULE RelocPlan ------------------------------
(***************************************************************************)
(* How src/movepart/plan.rs computes a relocation: pack everything right   *)
(* of the target against the end of the usable area (TailPacked, for       *)
(* "grow"), or push the blockers just far enough for an exact size         *)
(* (Shift), or refuse.  The plan is carried out entry by entry from the    *)
(* right; a run that is interrupted and abandoned loses its checkpoint, so *)
(* the next one plans again on the half-relocated table.                   *)
(***************************************************************************)
EXTENDS MoveGeometry, FiniteSets, SequencesExt

CONSTANTS
  FirstUsable, LastUsable,
  Layouts,      \* the tables a job may start from
  Requests      \* what is asked for: [kind: {"tail", "shift"}, shift: Nat]

(* A table is a set of entries; partition 1 is the one to grow.  A locked  *)
(* entry is a LUKS or LVM member, which may not move.                      *)
EntryRecords == [part: Nat \ {0}, first: Nat, last: Nat, kind: {"data", "swap", "locked"}]

EntryExtent(e) == e.first .. e.last
TableOK(t) ==
  /\ \A e \in t : e.first \in FirstUsable .. e.last /\ e.last <= LastUsable
  /\ \A e, f \in t : e # f => e.part # f.part /\ Disjoint(EntryExtent(e), EntryExtent(f))

ASSUME RelocPlanAssumption ==
  /\ FirstUsable \in Nat /\ LastUsable \in Nat
  /\ \A t \in Layouts : /\ t \subseteq EntryRecords /\ IsFiniteSet(t) /\ TableOK(t)
                        /\ \E e \in t : e.part = 1
  /\ Requests \subseteq [kind: {"tail", "shift"}, shift: Nat]

VARIABLES
  table,    \* the entries on disk
  request,  \* what the user asked for, the same at every run
  plan,     \* the moves still to be carried out, or a refusal
  goal      \* where the first plan of this job put each partition

vars == <<table, request, plan, goal>>

GrowEntry(t) == CHOOSE e \in t : e.part = 1
Length(e) == e.last - e.first + 1

(* blockers_after: every entry that starts behind the target, by start.    *)
Behind(t) == {e \in t : e.first > GrowEntry(t).last}
Blockers(t) ==
  CHOOSE b \in [1 .. Cardinality(Behind(t)) -> Behind(t)] :
    \A i, k \in DOMAIN b : i < k => b[i].first < b[k].first

HasLocked(b) == \E i \in DOMAIN b : b[i].kind = "locked"

(* Mutant: the displacement with the wrong sign.                           *)
MoveToNegated(e, newFirst) ==
  [part |-> e.part, first |-> e.first, len |-> Length(e),
   delta |-> e.first - newFirst, swap |-> e.kind = "swap"]

MoveTo(e, newFirst) ==
  [part |-> e.part, first |-> e.first, len |-> Length(e),
   delta |-> newFirst - e.first, swap |-> e.kind = "swap"]

(* Mutant: the leftmost blocker is moved first.                            *)
MovesFromLeft(b, newFirst) == [i \in DOMAIN b |-> MoveTo(b[i], newFirst[i])]

(* The rightmost blocker is moved first.                                   *)
Moves(b, newFirst) == Reverse([i \in DOMAIN b |-> MoveTo(b[i], newFirst[i])])

Refused(why) == [refused |-> why, moves |-> <<>>]
Planned(moves) == [refused |-> "no", moves |-> moves]

(* plan_tail_packed: from the end of the usable area leftwards, no gaps.   *)
TailStarts(b) ==
  LET start[i \in 1 .. Len(b)] ==
        (IF i = Len(b) THEN LastUsable + 1 ELSE start[i + 1]) - Length(b[i])
  IN start

PlanTailPacked(t) ==
  LET b == Blockers(t)
      start == TailStarts(b)
  IN IF HasLocked(b) THEN Refused("locked")
     ELSE IF \E i \in DOMAIN b : start[i] < b[i].first THEN Refused("space")
     ELSE Planned(Moves(b, start))

(* Mutant: every blocker is displaced by the same amount.                  *)
ShiftUniform(t, b, shift) == [i \in DOMAIN b |-> b[i].first + shift]

(* Mutant: the requested end is taken for the first free LBA.              *)
ShiftOneShort(t, b, shift) ==
  LET start[i \in 1 .. Len(b)] ==
        Max2(b[i].first,
             IF i = 1 THEN GrowEntry(t).last + shift
                      ELSE start[i - 1] + Length(b[i - 1]))
  IN start

(* shift_plan_from: the first blocker starts right behind the requested    *)
(* end, each next one right behind its neighbour unless it is there yet.   *)
ShiftStarts(t, b, shift) ==
  LET start[i \in 1 .. Len(b)] ==
        Max2(b[i].first,
             IF i = 1 THEN GrowEntry(t).last + shift + 1
                      ELSE start[i - 1] + Length(b[i - 1]))
  IN start

PlanShift(t, shift) ==
  LET b == Blockers(t)
      start == ShiftStarts(t, b, shift)
  IN IF shift = 0 THEN Refused("zero shift")
     ELSE IF HasLocked(b) THEN Refused("locked")
     ELSE IF b = <<>> THEN Refused("nothing to move")
     ELSE IF shift < b[1].first - GrowEntry(t).last THEN Refused("not needed")
     ELSE IF \E i \in DOMAIN b : start[i] + Length(b[i]) - 1 > LastUsable THEN Refused("space")
     ELSE Planned(Moves(b, start))

MakePlan(t, r) == IF r.kind = "tail" THEN PlanTailPacked(t) ELSE PlanShift(t, r.shift)

NoPlan == Refused("none yet")
Landing(p) == {<<p.moves[i].part, NewFirst(p.moves[i])>> : i \in DOMAIN p.moves}

TypeOK ==
  /\ table \subseteq EntryRecords /\ request \in Requests
  /\ plan.moves \in Seq(MoveRecords)
  /\ goal \subseteq (Nat \X Nat)

Init ==
  /\ table \in Layouts /\ request \in Requests
  /\ plan = NoPlan /\ goal = {}

(* A fresh run: the slot is empty, the plan is computed from the table.    *)
Plan ==
  /\ plan = NoPlan
  /\ plan' = MakePlan(table, request)
  /\ goal' = IF goal = {} THEN Landing(plan') ELSE goal
  /\ UNCHANGED <<table, request>>

(* The entry of the next move is committed at its new place.               *)
CommitNext ==
  /\ plan.refused = "no" /\ plan.moves # <<>>
  /\ LET m == Head(plan.moves)
     IN table' = {IF e.part = m.part
                  THEN [e EXCEPT !.first = NewFirst(m), !.last = NewFirst(m) + m.len - 1]
                  ELSE e : e \in table}
  /\ plan' = [plan EXCEPT !.moves = Tail(@)]
  /\ UNCHANGED <<request, goal>>

(* The run dies and the user abandons its checkpoint.                      *)
Abandon ==
  /\ plan.refused = "no" /\ plan.moves # <<>>
  /\ plan' = NoPlan
  /\ UNCHANGED <<table, request, goal>>

Next == Plan \/ CommitNext \/ Abandon

Spec == Init /\ [][Next]_vars

-----------------------------------------------------------------------------
(* Every plan is one a relocation job may be given: it can be carried out  *)
(* in its order, what the moves leave goes to the target or to each other, *)
(* the target grows and meets no member; and no move lands on a partition  *)
(* that does not move.                                                     *)
PlanIsExecutable ==
  LET still == {e \in table : \A i \in DOMAIN plan.moves : plan.moves[i].part # e.part}
  IN /\ Relocatable(plan.moves, GrowEntry(table), LastUsable)
     /\ \A i \in DOMAIN plan.moves : \A e \in still :
          Disjoint(Target(plan.moves[i]), EntryExtent(e))

(* A fresh plan makes the promised room: a shift plan ends the grown       *)
(* target exactly at the requested LBA.                                    *)
ShiftGrowsExactly ==
  [][plan = NoPlan /\ plan'.refused = "no" /\ request.kind = "shift"
       => GrowEnd(plan'.moves, LastUsable) = GrowEntry(table).last + request.shift]_vars

(* Reference definition: the landings that keep the order, overlap nothing *)
(* and move nothing leftwards.                                             *)
ValidLandings(t, lowest) ==
  LET b == Blockers(t)
  IN {s \in [DOMAIN b -> FirstUsable .. LastUsable] :
        \A i \in DOMAIN b :
          /\ s[i] >= b[i].first /\ s[i] + Length(b[i]) - 1 <= LastUsable
          /\ s[i] >= (IF i = 1 THEN lowest ELSE s[i - 1] + Length(b[i - 1]))}

Lowest(t, r) == GrowEntry(t).last + 1 + (IF r.kind = "shift" THEN r.shift ELSE 0)

StartIn(moves, part) == NewFirst(moves[CHOOSE i \in DOMAIN moves : moves[i].part = part])

(* Planning is optimal: a shift plan moves every blocker least, a packed   *)
(* plan leaves the target most room, and "not enough space" is said only   *)
(* when no landing exists.                                                 *)
PlanIsOptimal ==
  [][plan = NoPlan =>
       LET b == Blockers(table)
           valid == ValidLandings(table, Lowest(table, request))
       IN /\ plan'.refused = "space" => valid = {}
          /\ plan'.refused = "no" =>
               \A s \in valid : \A i \in DOMAIN b :
                 IF request.kind = "shift" THEN StartIn(plan'.moves, b[i].part) <= s[i]
                                           ELSE StartIn(plan'.moves, b[i].part) >= s[i]]_vars

(* Planning again on a half-relocated table gives every partition the same *)
(* place as the plan that was abandoned: nothing is displaced twice.       *)
ReplanLandsTheSame ==
  plan.refused = "no" => Landing(plan) \subseteq goal
=============================================================================
