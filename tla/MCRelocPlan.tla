---------------------------- MODULE MCRelocPlan ----------------------------
(* All tables of up to MaxBlockers partitions behind a target, for TLC.    *)
EXTENDS RelocPlan
CONSTANT MaxBlockers, TargetEnd

Spans(n) == {<<a, b>> \in (TargetEnd + 1 .. LastUsable) \X (TargetEnd + 1 .. LastUsable) :
               a <= b /\ b - a < n}

(* Partition numbers need not follow the order on disk.                    *)
MCLayouts ==
  {{[part |-> 1, first |-> FirstUsable, last |-> TargetEnd, kind |-> "data"]} \cup rest :
     rest \in UNION {
       {{[part |-> p, first |-> s[p][1], last |-> s[p][2],
          kind |-> IF p = 3 /\ locked THEN "locked" ELSE "data"] : p \in 2 .. (n + 1)} :
          s \in {f \in [2 .. (n + 1) -> Spans(3)] :
                   \A p, q \in DOMAIN f : p # q => f[p][2] < f[q][1] \/ f[q][2] < f[p][1]},
          locked \in BOOLEAN} :
       n \in 0 .. MaxBlockers}}
MCRequests == {[kind |-> "tail", shift |-> 0]} \cup [kind: {"shift"}, shift: 0 .. 4]
=============================================================================
