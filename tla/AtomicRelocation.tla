-------------------------- MODULE AtomicRelocation --------------------------
(***************************************************************************)
(* What a relocation promises, whatever interrupts it (src/README.md:5,    *)
(* shift.rs): the members' entries go to their new places one at a time,   *)
(* from the right, each in one step and never back; no content is ever     *)
(* lost; the target takes the room only when every member has left it; and *)
(* the job reports success only when it is complete and every place where  *)
(* the content should be holds it.                                         *)
(***************************************************************************)
EXTENDS Naturals

VARIABLES
  dest,      \* where each member is to go; fixed
  growTo,    \* where the target is to end; fixed
  at,        \* where the table says each member starts
  limit,     \* where the table says the target ends
  lost,      \* members of which a sector can no longer be found
  reported   \* success has been reported

vars == <<dest, growTo, at, limit, lost, reported>>

Moved(i) == at[i] = dest[i]
AllMoved == \A i \in DOMAIN dest : Moved(i)

Init ==
  /\ DOMAIN at = DOMAIN dest
  /\ \A i \in DOMAIN dest : at[i] <= dest[i]
  /\ limit <= growTo
  /\ lost = {} /\ reported = FALSE

Move(i) ==
  /\ \A k \in 1 .. (i - 1) : Moved(k)
  /\ at' = [at EXCEPT ![i] = dest[i]]
  /\ UNCHANGED <<dest, growTo, limit, lost, reported>>

Grow ==
  /\ AllMoved
  /\ limit' = growTo
  /\ UNCHANGED <<dest, growTo, at, lost, reported>>

Report ==
  /\ AllMoved /\ limit = growTo
  /\ reported' = TRUE
  /\ UNCHANGED <<dest, growTo, at, limit, lost>>

Next == (\E i \in DOMAIN dest : Move(i)) \/ Grow \/ Report

Spec == Init /\ [][Next]_vars
=============================================================================
